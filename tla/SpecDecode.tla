----------------------------- MODULE SpecDecode -----------------------------
(***************************************************************************)
(* Decoding one answer: the speculative loop of do_spec_decode (draft,     *)
(* verify, accept, roll back or replay, emit) and the token by token loop  *)
(* of do_ar_decode it falls back to (qwen35_backend.cpp).                  *)
(*                                                                         *)
(* The target model is its story: the tokens it writes greedily after the  *)
(* prompt.  A forward pass answers with the story as long as both the K/V  *)
(* rows it attends to and the recurrent state hold exactly the story so    *)
(* far; in any other context it may answer anything.  Rows and recurrent   *)
(* state are written from the end of the prompt on.                        *)
(***************************************************************************)
EXTENDS Naturals, Sequences, FiniteSets

CONSTANTS
    Token,
    Eos,
    NoToken,       \* -1
    NGen,          \* n_gen
    Width,         \* q_len: tokens of a verify batch
    TreeBudget,    \* ddtree_budget
    Burst,         \* plain steps of a burst
    FastThreshold, \* fast_rollback_threshold
    HintCount,     \* bound: tool hint tokens
    Close,         \* budget_hook.close_token_ids
    HardLimit,     \* budget_hook.hard_limit_remaining
    ToolPrefix,    \* stall_tool_prefix_tokens
    Floor,         \* DFLASH_MIN_TOKENS, where it is set
    RepeatGuard,   \* DFLASH_DEGENERATE_RUN_TOKENS, 0 for off
    Periods        \* bound: loop lengths the watchdog looks for

ASSUME SpecAssumption ==
    /\ IsFiniteSet(Token) /\ Eos \in Token /\ Token # {Eos} /\ NoToken \notin Token
    /\ NGen \in Nat \ {0} /\ Width \in Nat \ {0} /\ TreeBudget \in Nat
    /\ Burst \in Nat /\ FastThreshold \in Nat /\ HintCount \in Nat
    /\ Close \in Seq(Token) /\ Close # <<>> /\ HardLimit \in Nat
    /\ ToolPrefix \in Seq(Token) /\ ToolPrefix # <<>>
    /\ Floor \in Nat /\ RepeatGuard \in Nat /\ Periods \subseteq Nat \ {0}

\* The hooks inject encoded text; the end of the sequence is a control token.
ASSUME HookAssumption == Close[1] # Eos /\ ToolPrefix[Len(ToolPrefix)] # Eos

VARIABLES
    story,     \* what the target writes greedily
    use,       \* what this request uses, see Uses
    pc,        \* where the decode is
    rows,      \* K/V rows behind the prompt, up to the last one written
    rec,       \* tokens the recurrent state has absorbed behind the prompt
    snap,      \* what snapshot_kv holds of rec
    pos,       \* committed, counted from the end of the prompt
    curPos,    \* cache_.cur_pos, likewise
    lastTok,   \* last_tok, cache_.last_tok
    out,       \* out_tokens
    generated, \* n_generated
    burst,     \* ar_burst_left
    step,      \* the step of the speculative loop under way
    ar,        \* do_ar_decode's locals
    cancelled, \* io.is_cancelled()
    departed   \* history: a hook or a hand-over has left the story

target == <<rows, rec, snap>>
vars == <<story, use, pc, target, pos, curPos, lastTok, out, generated, burst, step, ar, cancelled, departed>>

SeqsUpTo(n) == UNION {[1 .. k -> Token] : k \in 0 .. n}

IsPrefixOf(s, t) == Len(s) <= Len(t) /\ s = SubSeq(t, 1, Len(s))
Last(s) == s[Len(s)]
Min2(m, n) == IF m <= n THEN m ELSE n

\* Nothing of the story behind its end-of-sequence token is ever looked at.
Stories == {s \in [1 .. NGen -> Token] :
               \A i \in 1 .. NGen : i > 1 /\ s[i - 1] = Eos => s[i] = Eos}

\* spec: can_spec.  tree: --ddtree.  fast: supports_fast_rollback.  close: the
\* budget hook is set.  stall: the tool prefix and its suffix tokens are set.
\* hints: how many tool hint tokens there are.  floor: DFLASH_MIN_TOKENS.
Uses == {u \in [spec : BOOLEAN, tree : BOOLEAN, fast : BOOLEAN, close : BOOLEAN,
                stall : BOOLEAN, hints : 0 .. HintCount, floor : {0, Floor}] :
            /\ ~u.spec => ~u.tree /\ ~u.fast /\ ~u.stall /\ u.hints = 0
            /\ u.stall => u.floor > 0}

NoStep == [kind |-> "none", draft |-> <<>>, accept |-> 0, toks |-> <<>>,
           next |-> NoToken, n |-> 0, over |-> "no"]

\* n: n_gen.  left: iterations of the loop.  close: the hook's tokens.
\* injected: close_inject_pos.  entry: out_tokens_at_entry.  by: what handed
\* over.
Ar(n, left, close, by) ==
    [n |-> n, left |-> left, close |-> close, injected |-> 0, entry |-> 0, by |-> by]
NoAr == Ar(0, 0, <<>>, "nobody")

Init ==
    /\ story \in Stories
    /\ use \in Uses
    /\ pc = IF use.spec THEN "loop" ELSE "first"
    /\ rows = <<>> /\ rec = <<>> /\ snap = <<>>
    /\ pos = 0 /\ curPos = 0
    /\ lastTok = story[1]
    /\ out = <<>> /\ generated = 0
    /\ burst = 0 /\ step = NoStep
    /\ ar = IF use.spec THEN NoAr
            ELSE Ar(NGen, NGen - 1, IF use.close THEN Close ELSE <<>>, "nobody")
    /\ cancelled = FALSE /\ departed = FALSE

-----------------------------------------------------------------------------
(* The target *)

\* What a forward pass may answer behind the rows seen, with the recurrent
\* state absorbed.
Answers(seen, absorbed) ==
    IF seen = absorbed /\ Len(seen) < NGen /\ IsPrefixOf(seen, story)
    THEN {story[Len(seen) + 1]}
    ELSE Token

\* Rows behind a batch are written again before anything attends to them.
Written(at, batch) == SubSeq(rows, 1, at) \o batch

\* target_tok of verify_batch(batch, at).
Posterior(at, absorbed, batch) ==
    {a \in [1 .. Len(batch) -> Token] :
        \A i \in 1 .. Len(batch) :
            a[i] \in Answers(Written(at, SubSeq(batch, 1, i)),
                             absorbed \o SubSeq(batch, 1, i))}

\* The last one of them.
Following(at, absorbed, batch) == Answers(Written(at, batch), absorbed \o batch)

-----------------------------------------------------------------------------
(* The speculative loop *)

\* Wrong on purpose: one token is kept back.
NeedLess == NGen - generated - 1

Need == NGen - generated
MoreToDo == generated < NGen
CloseArmed == use.close
StallArmed == use.stall

\* Wrong on purpose: the tool prefix is forgotten.
ReplayHooksCloseOnly == CloseArmed

\* replay_hooks_armed
ReplayHooksArmed == CloseArmed \/ StallArmed

HintsPending == generated < use.hints

\* Wrong on purpose: a burst that has run out is not noticed.
ArStepAlways == Burst > 0 /\ ~HintsPending

ArStepDue == burst > 0 /\ ~HintsPending
BurstLeft == IF HintsPending THEN 0 ELSE burst

ValidSeed == lastTok # NoToken \/ out = <<>>

\* Tree verification does not serve the hooks.
UseTree == use.tree /\ Width > 1 /\ ~ArStepDue
           /\ ~CloseArmed /\ ~HintsPending /\ ~StallArmed /\ Len(out) >= use.floor

\* What the drafter may propose behind the seed, in its one forward pass.
Proposals == [1 .. Width - 1 -> Token]

\* How wide the batch may be: the long-context cap and the width controller.
Widths == 1 .. Width

\* The selector and the confidence gate keep a prefix of the proposal.
Trimmed(block) == {SubSeq(block, 1, w - 1) : w \in Widths}

\* The seed leads; hints overwrite what was proposed, and may be any tokens.
Drafts == {<<lastTok>> \o d : d \in UNION {Trimmed(block) : block \in Proposals}}

\* Wrong on purpose: one token more than the answer confirms.
AcceptedOneMore(draft, answer) ==
    CHOOSE n \in 1 .. Len(draft) :
        /\ \A i \in 2 .. n - 1 : draft[i] = answer[i - 1]
        /\ n < Len(draft) => n > 1 /\ draft[n] # answer[n - 1]

\* The longest prefix of the draft the target would have written itself.
Accepted(draft, answer) ==
    CHOOSE n \in 1 .. Len(draft) :
        /\ \A i \in 2 .. n : draft[i] = answer[i - 1]
        /\ n < Len(draft) => draft[n + 1] # answer[n]

\* Verify a drafted chain.  The snapshot comes first.
VerifyChain ==
    /\ pc = "loop" /\ MoreToDo /\ ValidSeed /\ ~UseTree /\ ~ArStepDue
    /\ \E draft \in Drafts : \E answer \in Posterior(pos, rec, draft) :
          LET n == Accepted(draft, answer)
          IN  /\ step' = [NoStep EXCEPT !.kind = "chain", !.draft = draft, !.accept = n,
                                        !.next = answer[n]]
              /\ snap' = rec
              /\ rows' = Written(pos, draft)
              /\ rec' = rec \o draft
    /\ burst' = BurstLeft
    /\ pc' = "fix"
    /\ UNCHANGED <<story, use, departed, pos, curPos, lastTok, out, generated, ar, cancelled>>

\* A plain decode step inside the loop verifies the seed only; there is
\* nothing to roll back, but an armed hook could still restore.
PlainStep ==
    /\ pc = "loop" /\ MoreToDo /\ ValidSeed /\ ArStepDue
    /\ snap' = IF ReplayHooksArmed THEN rec ELSE snap
    /\ rows' = Written(pos, <<lastTok>>)
    /\ rec' = rec \o <<lastTok>>
    /\ \E tok \in Following(pos, rec, <<lastTok>>) :
          step' = [NoStep EXCEPT !.kind = "plain", !.draft = <<lastTok>>, !.accept = 1,
                                 !.toks = <<lastTok>>, !.next = tok]
    /\ burst' = burst - 1
    /\ pc' = "emit"
    /\ UNCHANGED <<story, use, departed, pos, curPos, lastTok, out, generated, ar, cancelled>>

\* How many tokens a fast rollback commits: the accepted ones, within the
\* budget.  Their bonus becomes the seed of the next step.
FastCount == Min2(step.accept, Need)

FastRollbackDue == use.fast /\ step.accept >= FastThreshold

\* What the target said behind the last token a fast rollback commits.
FastNext == IF FastCount < step.accept THEN step.draft[FastCount + 1] ELSE step.next

\* Wrong on purpose: the state behind the whole draft is kept.
CapturedLast == rec

\* The state verification captured behind the last committed token.
Captured == SubSeq(rec, 1, Len(rec) - Len(step.draft) + FastCount)

\* rollback_to
RollBack ==
    /\ pc = "fix" /\ FastRollbackDue
    /\ rec' = Captured
    /\ step' = [step EXCEPT !.toks = SubSeq(step.draft, 1, FastCount), !.next = FastNext]
    /\ pc' = "emit"
    /\ UNCHANGED <<story, use, departed, rows, snap, pos, curPos, lastTok, out, generated, burst, ar, cancelled>>

\* What the replay path commits: the accepted tokens and the target's own next
\* one, within the budget.  A refused fast rollback has given up the bonus.
ReplayTokens(bonus) ==
    LET toks == SubSeq(step.draft, 1, step.accept) \o bonus
    IN  SubSeq(toks, 1, Min2(Len(toks), Need))

Bonus == IF step.accept < Len(step.draft) /\ ~FastRollbackDue THEN <<step.next>> ELSE <<>>

\* restore_kv, then the committed tokens once more: when too few were accepted,
\* or a fast rollback was refused in a recoverable way.  The pass may come back
\* without a valid token.
Replay ==
    /\ pc = "fix"
    /\ LET toks == ReplayTokens(Bonus)
       IN  /\ rows' = Written(pos, toks)
           /\ rec' = snap \o toks
           /\ \E tok \in Following(pos, snap, toks) \union {NoToken} : step' = [step EXCEPT !.toks = toks, !.next = tok]
    /\ pc' = "emit"
    /\ UNCHANGED <<story, use, departed, snap, pos, curPos, lastTok, out, generated, burst, ar, cancelled>>

-----------------------------------------------------------------------------
(* Emitting what a chain or plain step has committed *)

Emitting == pc = "emit" /\ step.n < Len(step.toks)
NextTok  == step.toks[step.n + 1]

\* The model stops before the floor right behind an announced action; whether
\* the last tokens announce one is left open.
StallDue == StallArmed /\ Len(out) < use.floor /\ NextTok = Eos

CloseDue == CloseArmed /\ NGen - (generated + step.n) <= HardLimit

EmitStall ==
    /\ Emitting /\ StallDue
    /\ step' = [step EXCEPT !.over = "stall"]
    /\ pc' = "commit"
    /\ UNCHANGED <<story, use, departed, target, pos, curPos, lastTok, out, generated, burst, ar, cancelled>>

\* The first close token takes the place of the committed one.
EmitClose ==
    /\ Emitting /\ CloseDue
    /\ out' = Append(out, Close[1])
    /\ step' = [step EXCEPT !.toks[step.n + 1] = Close[1], !.n = @ + 1, !.over = "close"]
    /\ pc' = "commit"
    /\ departed' = (departed \/ NextTok # Close[1])
    /\ UNCHANGED <<story, use, target, pos, curPos, lastTok, generated, burst, ar, cancelled>>

Emit ==
    /\ Emitting /\ ~CloseDue
    /\ out' = Append(out, NextTok)
    /\ step' = [step EXCEPT !.n = @ + 1, !.over = IF NextTok = Eos THEN "eos" ELSE @]
    /\ pc' = IF cancelled \/ NextTok = Eos \/ step.n + 1 = Len(step.toks) THEN "commit" ELSE "emit"
    /\ UNCHANGED <<story, use, departed, target, pos, curPos, lastTok, generated, burst, ar, cancelled>>

\* The adaptive policy schedules a burst of plain steps when acceptance is low.
Burstable == IF step.kind = "chain" THEN {burst, Burst} ELSE {burst}

\* The end of an iteration.
Commit ==
    /\ pc = "commit" /\ step.over # "stall"
    /\ lastTok' = step.next
    /\ pos' = pos + step.n
    /\ curPos' = pos + step.n
    /\ generated' = generated + step.n
    /\ burst' \in Burstable
    /\ pc' = IF cancelled THEN "flush"
             ELSE IF step.over = "close" THEN "close"
             ELSE IF step.over = "eos" THEN "flush" ELSE "loop"
    /\ step' = IF pc' = "close" THEN step ELSE NoStep
    /\ UNCHANGED <<story, use, departed, target, out, ar, cancelled>>

-----------------------------------------------------------------------------
(* Handing over to do_ar_decode *)

\* do_ar_decode starts behind what has been emitted, with what is left of the
\* budget; nothing left, and the answer is complete.
HandOver(by, left, close) ==
    /\ ar' = [Ar(left, left, close, by) EXCEPT !.entry = Len(out')]
    /\ lastTok' = Last(out')
    /\ pc' = IF left > 0 THEN "ar" ELSE "done"
    /\ step' = NoStep

ArmedClose == IF CloseArmed THEN Close ELSE <<>>

InvalidSeed ==
    /\ pc = "loop" /\ MoreToDo /\ ~ValidSeed
    /\ out' = out
    /\ HandOver("seed", Need, ArmedClose)
    /\ departed' = TRUE
    /\ UNCHANGED <<story, use, target, pos, curPos, generated, burst, cancelled>>

\* Restore, replay what was emitted of the step, then the tool prefix, which is
\* emitted without asking the budget.
Stall ==
    /\ pc = "commit" /\ step.over = "stall"
    /\ LET kept == SubSeq(step.toks, 1, step.n)
       IN  /\ rows' = Written(pos, kept \o ToolPrefix)
           /\ rec' = snap \o kept \o ToolPrefix
    /\ out' = out \o ToolPrefix
    /\ pos' = pos + step.n + Len(ToolPrefix)
    /\ curPos' = pos'
    /\ generated' = generated + step.n + Len(ToolPrefix)
    /\ IF cancelled
       THEN pc' = "flush" /\ step' = NoStep /\ UNCHANGED <<ar, lastTok>>
       ELSE HandOver("stall", IF generated' < NGen THEN NGen - generated' ELSE 0, ArmedClose)
    /\ departed' = TRUE
    /\ UNCHANGED <<story, use, snap, burst, cancelled>>

\* Restore and replay with the close token in place; committed has already been
\* advanced by Commit.  The rest of the close sequence is not passed on.
CloseOver ==
    /\ pc = "close"
    /\ LET kept == SubSeq(step.toks, 1, step.n)
       IN  /\ rows' = Written(pos, kept)
           /\ rec' = snap \o kept
    /\ pos' = pos + step.n
    /\ curPos' = pos'
    /\ out' = out
    /\ HandOver("close", Need, <<>>)
    /\ departed' = TRUE
    /\ UNCHANGED <<story, use, snap, generated, burst, cancelled>>

-----------------------------------------------------------------------------
(* Tree verification *)

\* A draft tree as the set of its paths below the root.
Trees == {t \in SUBSET (SeqsUpTo(Width - 1) \ {<<>>}) :
             /\ t # {} /\ Cardinality(t) <= TreeBudget
             /\ \A p \in t : Len(p) > 1 => SubSeq(p, 1, Len(p) - 1) \in t}

Below(t, p, tok) == Append(p, tok) \in t

\* The verified path: from the root on, the child the target names, until there
\* is none; with the target's next token behind it (follow_verified_tree).
Verified(t) ==
    {v \in (t \union {<<>>}) \X Token :
        /\ \A i \in 1 .. Len(v[1]) :
              v[1][i] \in Following(pos, rec, <<lastTok>> \o SubSeq(v[1], 1, i - 1))
        /\ v[2] \in Following(pos, rec, <<lastTok>> \o v[1])
        /\ ~Below(t, v[1], v[2])}

VerifyTree ==
    /\ pc = "loop" /\ MoreToDo /\ ValidSeed /\ UseTree
    /\ \E t \in Trees : \E v \in Verified(t) :
          LET path == <<lastTok>> \o v[1]
          IN  step' = [NoStep EXCEPT !.kind = "tree", !.accept = Len(path), !.next = v[2],
                                     !.toks = SubSeq(path, 1, Min2(Len(path), Need))]
    /\ snap' = rec
    /\ burst' = BurstLeft
    /\ pc' = "emitTree"
    /\ UNCHANGED <<story, use, departed, rows, rec, pos, curPos, lastTok, out, generated, ar, cancelled>>

EmitTree ==
    /\ pc = "emitTree" /\ step.n < Len(step.toks)
    /\ out' = Append(out, NextTok)
    /\ step' = [step EXCEPT !.n = @ + 1,
                            !.over = IF cancelled \/ NextTok = Eos THEN "eos" ELSE @]
    /\ pc' = IF cancelled \/ NextTok = Eos \/ step.n + 1 = Len(step.toks)
             THEN "settle" ELSE "emitTree"
    /\ UNCHANGED <<story, use, departed, target, pos, curPos, lastTok, generated, burst, ar, cancelled>>

FastTree == use.fast /\ step.n >= FastThreshold
TreeKept == SubSeq(step.toks, 1, step.n)

\* What ends a tree step; unlike the chain, a seed that ends the sequence is
\* not emitted.
EndTreeStep(n, over) ==
    /\ pos' = pos + n
    /\ curPos' = pos + n
    /\ generated' = generated + n
    /\ step' = NoStep
    /\ pc' = IF over \/ cancelled \/ generated' >= NGen \/ lastTok' \in {NoToken, Eos}
             THEN "flush" ELSE "loop"

\* rollback_to_tree
RollBackTree ==
    /\ pc = "settle" /\ FastTree
    /\ rows' = Written(pos, TreeKept)
    /\ rec' = snap \o TreeKept
    /\ lastTok' = step.next
    /\ EndTreeStep(step.n, step.over = "eos")
    /\ UNCHANGED <<story, use, departed, snap, out, burst, ar, cancelled>>

TreeBonus == IF step.over = "no" /\ ~cancelled /\ step.n < Need THEN <<step.next>> ELSE <<>>

\* restore_kv, the accepted path and the bonus once more; the bonus is emitted.
ReplayTree ==
    /\ pc = "settle" /\ ~FastTree
    /\ rows' = Written(pos, TreeKept \o TreeBonus)
    /\ rec' = snap \o TreeKept \o TreeBonus
    /\ lastTok' \in Following(pos, snap, TreeKept \o TreeBonus) \union {NoToken}
    /\ out' = out \o TreeBonus
    /\ EndTreeStep(step.n + Len(TreeBonus), step.over = "eos" \/ TreeBonus = <<Eos>>)
    /\ UNCHANGED <<story, use, departed, snap, burst, ar, cancelled>>

-----------------------------------------------------------------------------
(* do_ar_decode *)

\* apply_min_tokens_floor: another token than the end of the sequence.
Floored(tok) == IF Len(out) < use.floor /\ tok = Eos THEN Token \ {Eos} ELSE {tok}

\* Wrong on purpose: the sequence is given up behind its first token.
ForcedFirstOnly(tok) ==
    IF ar.close = <<>> \/ ar.injected > 0 THEN [tok |-> tok, injected |-> ar.injected]
    ELSE IF ar.n - (Len(out) - ar.entry) <= HardLimit
    THEN [tok |-> ar.close[1], injected |-> 1]
    ELSE [tok |-> tok, injected |-> 0]

\* maybe_force_close
Forced(tok) ==
    IF ar.close = <<>> \/ ar.injected = Len(ar.close) THEN [tok |-> tok, injected |-> ar.injected]
    ELSE IF ar.injected > 0 \/ ar.n - (Len(out) - ar.entry) <= HardLimit
    THEN [tok |-> ar.close[ar.injected + 1], injected |-> ar.injected + 1]
    ELSE [tok |-> tok, injected |-> 0]

\* The first token comes from the prompt's logits; its row is still to be
\* written.  A cancellation is not looked at here.
ArFirst ==
    /\ pc = "first"
    /\ LET f == Forced(lastTok)
       IN  /\ out' = <<f.tok>>
           /\ ar' = [ar EXCEPT !.injected = f.injected]
           /\ departed' = (f.tok # lastTok)
           /\ pc' = IF f.tok = Eos THEN "done" ELSE "ar"
    /\ UNCHANGED <<story, use, target, pos, curPos, lastTok, generated, burst, step, cancelled>>

\* The last RepeatGuard tokens are the same, or, once the close sequence is
\* out, the tail repeats itself.
Repeats(s) ==
    \/ /\ RepeatGuard > 0 /\ Len(s) >= RepeatGuard
       /\ \A i \in Len(s) - RepeatGuard + 1 .. Len(s) : s[i] = Last(s)
    \/ /\ ar'.injected > 0 /\ ar'.injected = Len(ar.close)
       /\ \E p \in Periods :
             /\ 2 * p <= Len(s)
             /\ SubSeq(s, Len(s) - p + 1, Len(s)) = SubSeq(s, Len(s) - 2 * p + 1, Len(s) - p)

\* Wrong on purpose: always the token of the prompt's logits.
PendingFirst == <<lastTok>>

\* The token emitted last is the one to forward.
Pending == <<Last(out)>>

\* Forward the pending token, write its row, emit the next one.
ArStep ==
    /\ pc = "ar" /\ ar.left > 0
    /\ rows' = Written(pos, Pending)
    /\ rec' = rec \o Pending
    /\ \E tok \in Following(pos, rec, Pending) : \E alt \in Floored(tok) :
          LET f == Forced(alt)
          IN  /\ out' = Append(out, f.tok)
              /\ departed' = (departed \/ f.tok # tok)
              /\ ar' = [ar EXCEPT !.left = @ - 1, !.injected = f.injected]
              /\ pc' = IF cancelled \/ f.tok = Eos THEN "done"
                       ELSE IF Repeats(out') THEN "degenerate" ELSE "ar"
    /\ pos' = pos + 1
    /\ curPos' = pos + 1
    /\ UNCHANGED <<story, use, snap, lastTok, generated, burst, step, cancelled>>

ArEnd ==
    /\ pc = "ar" /\ ar.left = 0
    /\ pc' = "done"
    /\ UNCHANGED <<story, use, departed, target, pos, curPos, lastTok, out, generated, burst, step, ar, cancelled>>

-----------------------------------------------------------------------------
LoopEnd ==
    /\ pc = "loop" /\ ~MoreToDo
    /\ pc' = "flush"
    /\ UNCHANGED <<story, use, departed, target, pos, curPos, lastTok, out, generated, burst, step, ar, cancelled>>

\* finish_speculative_state
Flush ==
    /\ pc = "flush"
    /\ pc' = "done"
    /\ UNCHANGED <<story, use, departed, target, pos, curPos, lastTok, out, generated, burst, step, ar, cancelled>>

Over == pc \in {"done", "degenerate", "failed"}

\* A draft, verify, snapshot, restore, rollback or flush fails: the decode
\* returns false.
Fail ==
    /\ ~Over
    /\ pc' = "failed"
    /\ UNCHANGED <<story, use, departed, target, pos, curPos, lastTok, out, generated, burst, step, ar, cancelled>>

\* The client goes away.
Cancel ==
    /\ ~Over /\ ~cancelled
    /\ cancelled' = TRUE
    /\ UNCHANGED <<story, use, departed, pc, target, pos, curPos, lastTok, out, generated, burst, step, ar>>

Progress ==
    \/ VerifyChain \/ PlainStep \/ RollBack \/ Replay
    \/ EmitStall \/ EmitClose \/ Emit \/ Commit
    \/ InvalidSeed \/ Stall \/ CloseOver
    \/ VerifyTree \/ EmitTree \/ RollBackTree \/ ReplayTree
    \/ ArFirst \/ ArStep \/ ArEnd
    \/ LoopEnd \/ Flush

Next == Progress \/ Fail \/ Cancel

\* One thread runs the decode, and the backend's calls return.
Spec == Init /\ [][Next]_vars /\ WF_vars(Progress)

-----------------------------------------------------------------------------
(* Properties *)

TypeOK ==
    /\ story \in Stories /\ use \in Uses
    /\ pc \in {"loop", "fix", "emit", "commit", "close", "emitTree", "settle", "flush",
              "first", "ar", "done", "degenerate", "failed"}
    /\ rows \in Seq(Token) /\ rec \in Seq(Token) /\ snap \in Seq(Token) /\ out \in Seq(Token)
    /\ pos \in 0 .. Len(rows) /\ curPos = pos
    /\ lastTok \in Token \union {NoToken}
    /\ generated \in Nat /\ burst \in 0 .. Burst
    /\ step.draft \in Seq(Token) /\ step.toks \in Seq(Token)
    /\ step.n <= Len(step.toks)
    /\ ar.left \in 0 .. ar.n /\ ar.injected \in 0 .. Len(ar.close)
    /\ cancelled \in BOOLEAN /\ departed \in BOOLEAN

\* Between two speculative steps, whatever mixture of rejected drafts, fast
\* rollbacks, restores with replay, plain steps and trees went before, the K/V
\* rows and the recurrent state hold exactly the tokens that were emitted.
InLoop ==
    pc = "loop" => SubSeq(rows, 1, pos) = out /\ rec = out /\ generated = Len(out)

\* When the loop hands over to do_ar_decode, the recurrent state is that of the
\* emitted tokens, also where a hook has replaced some of what was verified;
\* outside the budget close so are the rows (replay_hooks_armed).
HandedOver ==
    pc = "ar" /\ ar.by # "nobody" /\ Len(out) = ar.entry =>
        rec = out /\ (ar.by # "close" => SubSeq(rows, 1, pos) = out)

\* After a budget close, too, the rows up to the committed position are those of
\* the emitted tokens.
CloseKeepsRows ==
    pc = "ar" /\ ar.by = "close" /\ Len(out) = ar.entry => SubSeq(rows, 1, pos) = out

\* Decoding token by token from the prompt, the cache is behind by just the
\* token that is still to be forwarded.
ArBehind ==
    pc = "ar" /\ ar.by = "nobody" =>
        Append(SubSeq(rows, 1, pos), Last(out)) = out /\ Append(rec, Last(out)) = out

\* Wherever the program looks at the cache between two steps, its rows and its
\* recurrent state are those of the tokens it has emitted: after any acceptance,
\* rollback, replay or burst, at the hand-over and in do_ar_decode.
CacheFollowsOut == InLoop /\ HandedOver /\ ArBehind

Within(s, t) == \E i \in 0 .. Len(t) - Len(s) : SubSeq(t, i + 1, i + Len(s)) = s

\* An answer decoded token by token that used up its budget has the whole close
\* sequence in it, when the reserve has room for it.
ClosedInFull ==
    pc = "done" /\ ~use.spec /\ use.close /\ Len(out) = NGen /\ ~cancelled /\ Last(out) # Eos
        /\ Len(Close) <= HardLimit /\ Len(Close) <= NGen =>
        Within(Close, out)

\* Speculation is invisible: the answer grows as greedy decoding would write it
\* until a hook departs from it, never past its end or its budget.
Greedy == INSTANCE GreedyAnswer
ImplementsGreedy == Greedy!Spec

\* Every decode comes to an end.
Ends == <>Over

=============================================================================
