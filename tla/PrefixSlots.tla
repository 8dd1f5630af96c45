----------------------------- MODULE PrefixSlots -----------------------------
(***************************************************************************)
(* The snapshot slots of the server (http_server.cpp): which snapshot a    *)
(* request restores, where its own goes, and the three records of what a   *)
(* slot holds: the prefix cache's keys, slot_tokens_ and the disk cache.   *)
(* One request is served at a time, by the worker thread.                  *)
(*                                                                         *)
(* External: PrefixCache, the disk cache and the backend, by what the      *)
(* server asks of them.  A snapshot is the tokens its cache rows stand     *)
(* for; Qwen35Kv is about whether the backend keeps them.                  *)
(***************************************************************************)
EXTENDS Naturals, Sequences, FiniteSets, SequencesExt

CONSTANTS
    Prompt,   \* prompts as clients send them, sequences of tokens
    Served,   \* Served[w][form]: the tokens generated from
    Answer,   \* the token every answer consists of
    Blank,    \* token id 0, of which a placeholder prompt is made
    Inline,   \* slots of the prefix cache
    Full,     \* slots of the exact full-prompt cache
    Staging,  \* kDiskStagingSlot
    NoSlot,
    MaxDisk   \* bound: entries on disk

Form   == {"verbatim", "compressed", "flowkv", "rewritten"}
Policy == {"off", "scoped", "full"}
Slot   == Inline \cup Full \cup {Staging}

ASSUME PromptAssumption ==
    /\ \A w \in Prompt : w \in Seq(Nat) /\ w # <<>>
    /\ \A w \in Prompt : DOMAIN Served[w] \subseteq Form /\ DOMAIN Served[w] # {}
    /\ \A w \in Prompt : \A f \in DOMAIN Served[w] :
         Served[w][f] \in Seq(Nat) /\ Served[w][f] # <<>> /\ (f = "verbatim" => Served[w][f] = w)

ASSUME SlotAssumption ==
    /\ Inline \cap Full = {} /\ Staging \notin Inline \cup Full
    /\ NoSlot \notin Slot
    /\ Answer \in Nat /\ Blank \in Nat /\ MaxDisk \in Nat

VARIABLES
    snap,       \* the backend's snapshots; <<>> in a slot that is not used
    key,        \* the prefix cache: the tokens a slot is found under, <<>> for none
    slotTokens, \* slot_tokens_: what a slot is saved under at shutdown
    agentSlots, \* agent_turn_cache_slots_
    disk,       \* entries of the disk cache
    pc,         \* where process_job is
    req,        \* the request and its prepared prompt
    cache,      \* GenerationCacheState
    result      \* of the generation

vars == <<snap, key, slotTokens, agentSlots, disk, pc, req, cache, result>>
memory == <<snap, key, slotTokens, agentSlots>>

NoRequest == [wire |-> <<>>, form |-> "verbatim", prompt |-> <<>>, policy |-> "off"]
NoCache   == [slot |-> NoSlot, diskHit |-> FALSE, snap |-> NoSlot, cut |-> 0, full |-> NoSlot]
NoResult  == [ok |-> FALSE, shown |-> FALSE, context |-> <<>>]

InitMemory ==
    /\ snap = [s \in Slot |-> <<>>]
    /\ key = [s \in Inline \cup Full |-> <<>>]
    /\ slotTokens = [s \in Inline |-> <<>>]
    /\ agentSlots = {}

Init ==
    /\ InitMemory
    /\ disk = {}
    /\ pc = "idle" /\ req = NoRequest /\ cache = NoCache /\ result = NoResult

-----------------------------------------------------------------------------
(* External: what PrefixCache and the disk cache answer *)

Used(s)    == snap[s] # <<>>
Upto(s, n) == SubSeq(s, 1, n)
Using      == cache.slot # NoSlot
Compressed == req.form \in {"compressed", "flowkv"}

Placeholder(n) == [i \in 1 .. n |-> Blank]

LookupFull(k) == {s \in Full : key[s] = k}

\* The deepest entries whose key is a prefix of the prompt.
LookupInline(prompt) ==
    LET found == {s \in Inline : key[s] # <<>> /\ IsPrefix(key[s], prompt)}
    IN  {s \in found : \A t \in found : Len(key[t]) <= Len(key[s])}

\* The disk after a save, which may fail or drop other entries.
Stored(new) == {D \in SUBSET (disk \cup new) : Cardinality(D) <= MaxDisk}

Entry(k, tokens) == [key |-> k, tokens |-> tokens]

-----------------------------------------------------------------------------
(* prepare_prompt *)

\* Whole-prompt compression asks the full cache first; a hit makes the prompt
\* a placeholder of the snapshot's length.
Arrive(w, form, policy) ==
    /\ pc = "idle"
    /\ pc' = "lookup"
    /\ LET hit == IF form = "compressed" THEN LookupFull(w) ELSE {}
       IN  \E s \in IF hit = {} THEN {NoSlot} ELSE hit :
             /\ cache' = [NoCache EXCEPT !.slot = s]
             /\ req' = [wire |-> w, form |-> form,
                        prompt |-> IF s = NoSlot THEN Served[w][form]
                                   ELSE Placeholder(Len(snap[s])),
                        policy |-> IF form = "compressed" /\ policy # "full"
                                   THEN "off" ELSE policy]
    /\ UNCHANGED <<memory, disk, result>>

-----------------------------------------------------------------------------
(* prepare_generation_cache *)

FullKey == IF req.form = "rewritten" THEN req.prompt ELSE req.wire

\* Full cache, then prefix cache.
Lookup ==
    /\ pc = "lookup"
    /\ pc' = "disk"
    /\ IF Using THEN UNCHANGED <<req, cache>>
       ELSE IF LookupFull(FullKey) # {}
       THEN \E s \in LookupFull(FullKey) :
              /\ cache' = [cache EXCEPT !.slot = s]
              /\ req' = IF Compressed
                        THEN [req EXCEPT !.prompt = Placeholder(Len(snap[s]))]
                        ELSE req
       ELSE /\ UNCHANGED req
            /\ IF LookupInline(req.prompt) = {} THEN UNCHANGED cache
               ELSE \E s \in LookupInline(req.prompt) : cache' = [cache EXCEPT !.slot = s]
    /\ UNCHANGED <<memory, disk, result>>

\* An entry under some prefix of the prompt is loaded into the staging slot;
\* one whose position makes no sense is dropped again.
DiskHit(e) ==
    /\ pc = "disk" /\ ~Using /\ req.policy # "off"
    /\ IsPrefix(e.key, req.prompt)
    /\ Len(e.tokens) \in 1 .. Len(req.prompt)
    /\ snap' = [snap EXCEPT ![Staging] = e.tokens]
    /\ cache' = [cache EXCEPT !.slot = Staging, !.diskHit = TRUE]
    /\ pc' = "validate"
    /\ UNCHANGED <<key, slotTokens, agentSlots, disk, req, result>>

\* Generate nothing from the first n tokens, snapshot into the staging slot,
\* save and restore from there.
PrefillStaging(n) ==
    /\ snap' = [snap EXCEPT ![Staging] = Upto(req.prompt, n)]
    /\ cache' = [cache EXCEPT !.slot = Staging, !.diskHit = TRUE]
    /\ disk' \in Stored({Entry(Upto(req.prompt, n), Upto(req.prompt, n))})
    /\ UNCHANGED <<key, slotTokens, agentSlots, req, result>>

DiskScoped(n) ==
    /\ pc = "disk" /\ ~Using /\ req.policy = "scoped"
    /\ PrefillStaging(n)
    /\ pc' = "validate"

\* No entry, or the prefill of the scope failed and the slot was freed.
DiskMiss ==
    /\ pc = "disk"
    /\ pc' = "validate"
    /\ UNCHANGED <<memory, disk, req, cache, result>>

\* Wrong on purpose: the key for the shutdown save stays.
ForgetAgentOnly(s) == agentSlots' = agentSlots \ {s} /\ UNCHANGED slotTokens

ForgetSlot(s) ==
    /\ slotTokens' = [t \in Inline |-> IF t = s THEN <<>> ELSE slotTokens[t]]
    /\ agentSlots' = agentSlots \ {s}

\* A snapshot that is gone or longer than the prompt is a miss.
Validate ==
    /\ pc = "validate"
    /\ pc' = "cold"
    /\ IF Using /\ Len(snap[cache.slot]) \notin 1 .. Len(req.prompt)
       THEN /\ snap' = [snap EXCEPT ![cache.slot] = <<>>]
            /\ cache' = NoCache
            /\ IF cache.diskHit THEN UNCHANGED <<key, slotTokens, agentSlots>>
               ELSE ForgetSlot(cache.slot) /\ key' = [key EXCEPT ![cache.slot] = <<>>]
       ELSE UNCHANGED <<memory, cache>>
    /\ UNCHANGED <<disk, req, result>>

ColdPrefix(n) ==
    /\ pc = "cold" /\ ~Using /\ req.policy = "full"
    /\ PrefillStaging(n)
    /\ pc' = "prepare"

NoColdPrefix ==
    /\ pc = "cold"
    /\ pc' = "prepare"
    /\ UNCHANGED <<memory, disk, req, cache, result>>

\* Wrong on purpose: the slot being restored is taken like any other.
PrepareInlineOverSource(s, cut) ==
    /\ pc = "prepare"
    /\ cut > (IF Using THEN Len(snap[cache.slot]) ELSE 0)
    /\ pc' = "generate"
    /\ snap' = [snap EXCEPT ![s] = <<>>]
    /\ cache' = [cache EXCEPT !.snap = s, !.cut = cut]
    /\ ForgetSlot(s)
    /\ UNCHANGED <<key, disk, req, result>>

\* Wrong on purpose: the old snapshot of the slot is not freed.
PrepareInlineUnfreed(s, cut) ==
    /\ pc = "prepare" /\ s # cache.slot
    /\ cut > (IF Using THEN Len(snap[cache.slot]) ELSE 0)
    /\ pc' = "generate"
    /\ cache' = [cache EXCEPT !.snap = s, !.cut = cut]
    /\ ForgetSlot(s)
    /\ UNCHANGED <<snap, key, disk, req, result>>

\* prepare_inline_snap hands out a slot and a cut beyond what is restored.  The
\* slot being restored comes back untouched (cancel_inline_snap).
PrepareInline(s, cut) ==
    /\ pc = "prepare"
    /\ cut > (IF Using THEN Len(snap[cache.slot]) ELSE 0)
    /\ pc' = "generate"
    /\ IF s = cache.slot
       THEN UNCHANGED <<memory, cache>>
       ELSE /\ snap' = [snap EXCEPT ![s] = <<>>]
            /\ cache' = [cache EXCEPT !.snap = s, !.cut = cut]
            /\ ForgetSlot(s)
            /\ UNCHANGED key
    /\ UNCHANGED <<disk, req, result>>

\* Wrong on purpose: a second target, for the full cache, beside a restore.
PrepareFullAlways(s) ==
    /\ pc = "prepare"
    /\ snap' = [snap EXCEPT ![s] = <<>>]
    /\ cache' = [cache EXCEPT !.full = s]
    /\ pc' = "generate"
    /\ UNCHANGED <<key, slotTokens, agentSlots, disk, req, result>>

PrepareFull(s) ==
    /\ pc = "prepare" /\ ~Using
    /\ snap' = [snap EXCEPT ![s] = <<>>]
    /\ cache' = [cache EXCEPT !.full = s]
    /\ pc' = "generate"
    /\ UNCHANGED <<key, slotTokens, agentSlots, disk, req, result>>

PrepareNone ==
    /\ pc = "prepare"
    /\ pc' = "generate"
    /\ UNCHANGED <<memory, disk, req, cache, result>>

-----------------------------------------------------------------------------
(* process_job: the backend *)

Rest(p, n) == SubSeq(p, n + 1, Len(p))

\* What a snapshot of this generation may hold: an inline one somewhere behind
\* the restored part, rounded down from the cut; a full one the whole prompt.
Taken(context, offset) ==
    IF cache.full # NoSlot THEN {context}
    ELSE {Upto(context, n) : n \in offset + 1 .. cache.cut}

Snapshot(tokens) ==
    snap' = [s \in Slot |-> IF s \in {cache.snap, cache.full} THEN tokens ELSE snap[s]]

Run(context, offset) ==
    /\ pc = "generate"
    /\ pc' = "finalize"
    /\ \E ok, shown \in BOOLEAN :
         result' = [ok |-> ok, shown |-> ok /\ shown, context |-> context]
    /\ \/ UNCHANGED snap
       \/ \E tokens \in Taken(context, offset) : Snapshot(tokens)
    /\ UNCHANGED <<key, slotTokens, agentSlots, disk, req, cache>>

Generate == ~Using /\ Run(req.prompt, 0)

RestoreAndGenerate ==
    /\ Using
    /\ LET offset == Len(snap[cache.slot])
       IN  Run(snap[cache.slot] \o Rest(req.prompt, offset), offset)

\* A pooled prefill cannot follow a restore: the whole prompt is prefilled.  An
\* exact hit prefills nothing and cannot be refused.
RetryFresh ==
    /\ Using /\ Len(snap[cache.slot]) < Len(req.prompt)
    /\ Run(req.prompt, 0)

-----------------------------------------------------------------------------
(* finalize_generation_cache *)

Produced == result.ok /\ result.shown

\* Wrong on purpose: nobody looks whether the snapshot was taken.
KeptUnseen(s) == s # NoSlot /\ Produced

Kept(s) ==
    /\ s # NoSlot /\ Produced /\ Used(s)
    /\ Len(snap[s]) <= (IF s = cache.full THEN Len(req.prompt) ELSE cache.cut)

\* Wrong on purpose: a failed request leaves its slots as they are.
DroppedIfShown == {s \in {cache.snap, cache.full} \ {NoSlot} : Produced /\ ~Kept(s)}

Dropped == {s \in {cache.snap, cache.full} \ {NoSlot} : ~Kept(s)}

\* Entries saved on the way: the inline snapshot, and a checkpoint of a long
\* conversation, whose key ends in the answer although its last token has no
\* row yet.
SavedNow ==
    IF req.policy = "full" /\ Produced
    THEN (IF Kept(cache.snap) THEN {Entry(req.prompt, snap[cache.snap])} ELSE {})
           \cup {Entry(Append(req.prompt, Answer), result.context)}
    ELSE {}

Finalize ==
    /\ pc = "finalize"
    /\ pc' = "turn"
    /\ snap' = [s \in Slot |-> IF s \in Dropped \/ (s = Staging /\ cache.diskHit) THEN <<>>
                               ELSE snap[s]]
    /\ key' = [s \in Inline \cup Full |->
                 IF s \in Dropped THEN <<>>
                 ELSE IF s = cache.snap THEN Upto(req.prompt, cache.cut)
                 ELSE IF s = cache.full THEN FullKey
                 ELSE key[s]]
    /\ slotTokens' = [s \in Inline |-> IF s = cache.snap /\ Kept(s)
                                       THEN Upto(req.prompt, cache.cut) ELSE slotTokens[s]]
    /\ disk' \in Stored(SavedNow)
    /\ UNCHANGED <<agentSlots, req, cache, result>>

-----------------------------------------------------------------------------
(* remember_agent_turn *)

\* Prompt and answer as the next request will render them; the last token of
\* the prompt may come out different.
Canonical ==
    LET turns == {req.prompt} \cup {Front(req.prompt)}
    IN  {Append(t, Answer) : t \in turns \ {<<>>}}

\* Snapshots this request restored or took up to a position where prompt and
\* turn still agree.
Source(turn) ==
    {s \in {cache.slot, cache.snap} \ {NoSlot} :
        LET n == Len(snap[s])
        IN  n \in 1 .. Len(turn) /\ Upto(req.prompt, n) = Upto(turn, n)}

Deepest(slots) == {s \in slots : \A t \in slots : Len(snap[t]) <= Len(snap[s])}

EndRequest ==
    /\ pc' = "idle"
    /\ req' = NoRequest /\ cache' = NoCache /\ result' = NoResult

\* The turn is prefilled behind the source and kept in a slot of its own, if
\* no other job arrives meanwhile.
ReplayTurn(turn, source, s) ==
    /\ pc = "turn" /\ Produced
    /\ req.form = "verbatim" /\ req.prompt = req.wire
    /\ source \in Deepest(Source(turn)) /\ s # source
    /\ \E n \in Len(snap[source]) .. Len(turn) :
         LET saved   == n > Len(snap[source])
             context == snap[source] \o Rest(turn, Len(snap[source]))
         IN  /\ snap' = [snap EXCEPT ![s] = IF saved THEN Upto(context, n) ELSE <<>>]
             /\ key' = [key EXCEPT ![s] = IF saved THEN Upto(turn, n) ELSE <<>>]
             /\ slotTokens' = [slotTokens EXCEPT ![s] = IF saved THEN Upto(turn, n) ELSE <<>>]
             /\ agentSlots' = IF saved THEN agentSlots \cup {s} ELSE agentSlots \ {s}
    /\ UNCHANGED disk
    /\ EndRequest

NoReplay ==
    /\ pc = "turn"
    /\ UNCHANGED <<memory, disk>>
    /\ EndRequest

-----------------------------------------------------------------------------
\* Shutdown saves the tracked slots; the next process starts with the disk.
Restart ==
    /\ pc = "idle"
    /\ disk' \in Stored({Entry(slotTokens[s], snap[s]) :
                           s \in {t \in Inline : slotTokens[t] # <<>> /\ Used(t)}})
    /\ snap' = [s \in Slot |-> <<>>]
    /\ key' = [s \in Inline \cup Full |-> <<>>]
    /\ slotTokens' = [s \in Inline |-> <<>>]
    /\ agentSlots' = {}
    /\ UNCHANGED <<pc, req, cache, result>>

Next ==
    \/ \E w \in Prompt : \E f \in DOMAIN Served[w], p \in Policy : Arrive(w, f, p)
    \/ Lookup
    \/ \E e \in disk : DiskHit(e)
    \/ \E n \in 1 .. Len(req.prompt) : DiskScoped(n)
    \/ DiskMiss
    \/ Validate
    \/ \E n \in 1 .. Len(req.prompt) : ColdPrefix(n)
    \/ NoColdPrefix
    \/ \E s \in Inline, n \in 1 .. Len(req.prompt) : PrepareInline(s, n)
    \/ \E s \in Full : PrepareFull(s)
    \/ PrepareNone
    \/ Generate \/ RestoreAndGenerate \/ RetryFresh
    \/ Finalize
    \/ \E t \in Canonical, source \in Slot, s \in Inline : ReplayTurn(t, source, s)
    \/ NoReplay
    \/ Restart

Spec == Init /\ [][Next]_vars

-----------------------------------------------------------------------------
(* Properties *)

\* Types; and one generation saves one snapshot, within its prompt.
TypeOK ==
    /\ \A s \in Slot : snap[s] \in Seq(Nat)
    /\ \A s \in Inline \cup Full : key[s] \in Seq(Nat)
    /\ \A s \in Inline : slotTokens[s] \in Seq(Nat)
    /\ agentSlots \subseteq Inline
    /\ \A e \in disk : e.key \in Seq(Nat) /\ e.tokens \in Seq(Nat)
    /\ pc \in {"idle", "lookup", "disk", "validate", "cold", "prepare", "generate", "finalize", "turn"}
    /\ req.form \in Form /\ req.policy \in Policy
    /\ cache.slot \in Slot \cup {NoSlot} /\ cache.diskHit \in BOOLEAN
    /\ cache.snap \in Inline \cup {NoSlot} /\ cache.full \in Full \cup {NoSlot}
    /\ cache.full # NoSlot => cache.snap = NoSlot /\ cache.slot = NoSlot
    /\ cache.cut \in 0 .. Len(req.prompt)
    /\ result.ok \in BOOLEAN /\ result.shown \in BOOLEAN

\* What an answer was generated from is the request's own prompt in a form the
\* server may serve it in, whatever mixture of memory, disk and fresh prefill
\* it was put together from (prepare_generation_cache, restore_and_generate).
OwnContext ==
    pc = "finalize" =>
        \E f \in DOMAIN Served[req.wire] : result.context = Served[req.wire][f]

\* The snapshot a request is about to restore survives the choice of where its
\* own goes (prepare_inline, the guard behind it).
RestoreSourceKept == pc = "generate" /\ Using => Used(cache.slot)

\* Between requests the prefix cache and the backend agree: a key leads to a
\* snapshot of a prefix of it, no snapshot is kept that no key leads to, and
\* the staging slot is free (confirm and abort in finalize_generation_cache).
IndexBacked ==
    pc = "idle" =>
        /\ \A s \in Inline \cup Full : key[s] = <<>> <=> ~Used(s)
        /\ \A s \in Inline : IsPrefix(snap[s], key[s])
        /\ ~Used(Staging)

\* slot_tokens_ and agent_turn_cache_slots_ never outlive the snapshot they
\* describe (forget_inline_slot_metadata in front of every snapshot_free).
SlotTokensHeld ==
    \A s \in Inline :
        /\ slotTokens[s] # <<>> => Used(s) /\ IsPrefix(snap[s], slotTokens[s])
        /\ s \in agentSlots => slotTokens[s] # <<>>

\* The four records of what a slot holds (snapshot, key, tokens, agent turn) and
\* the request that is about to restore it agree, however requests fail.
RecordsAgree == RestoreSourceKept /\ IndexBacked /\ SlotTokensHeld

\* A disk entry found under a prefix of a prompt holds rows of that prefix, also
\* after restarts; keys that begin with a placeholder match no prompt
\* (disk_cache_.save at its five places).
DiskFaithful ==
    \A e \in disk : e.key[1] # Blank => e.tokens # <<>> /\ IsPrefix(e.tokens, e.key)

=============================================================================
