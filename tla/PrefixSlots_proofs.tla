------------------------- MODULE PrefixSlots_proofs -------------------------
(***************************************************************************)
(* Proofs about PrefixSlots, for any prompts, slots and disk.              *)
(***************************************************************************)
EXTENDS PrefixSlots, SequenceTheorems, FiniteSetTheorems, TLAPS

Tokens == Seq(Nat)

-----------------------------------------------------------------------------
(* Prefixes *)

\* A prefix is no longer than what it begins, and agrees with it all along.
LEMMA PrefixIs ==
    ASSUME NEW s \in Tokens, NEW t \in Tokens
    PROVE  IsPrefix(s, t) <=> Len(s) <= Len(t) /\ \A i \in 1 .. Len(s) : s[i] = t[i]
  <1>1. Len(s) \in Nat /\ Len(t) \in Nat /\ 1 \in Int /\ Len(s) \in Int BY DEF Tokens
  <1>2. CASE Len(s) <= Len(t)
    <2> DEFINE a == SubSeq(s, 1, Len(s))
               b == SubSeq(t, 1, Len(s))
    <2>1. \A i \in 1 .. Len(s) : s[i] \in Nat /\ t[i] \in Nat BY <1>1, <1>2 DEF Tokens
    <2>2. /\ a \in Tokens /\ Len(a) = Len(s)
          /\ \A i \in 1 .. Len(s) - 1 + 1 : a[i] = s[1 + i - 1]
      BY <1>1, <2>1, SubSeqProperties DEF Tokens
    <2>3. /\ b \in Tokens /\ Len(b) = Len(s)
          /\ \A i \in 1 .. Len(s) - 1 + 1 : b[i] = t[1 + i - 1]
      BY <1>1, <2>1, SubSeqProperties DEF Tokens
    <2> HIDE DEF a, b
    <2>4. \A i \in 1 .. Len(s) : a[i] = s[i] /\ b[i] = t[i]
      <3> SUFFICES ASSUME NEW i \in 1 .. Len(s) PROVE a[i] = s[i] /\ b[i] = t[i] OBVIOUS
      <3>1. i \in 1 .. Len(s) - 1 + 1 /\ 1 + i - 1 = i BY <1>1
      <3> QED BY <3>1, <2>2, <2>3
    <2>5. a = b <=> \A i \in 1 .. Len(s) : a[i] = b[i] BY <2>2, <2>3, SeqEqual DEF Tokens
    <2>6. IsPrefix(s, t) <=> a = b BY <1>2 DEF IsPrefix, a, b
    <2> QED BY <1>2, <2>4, <2>5, <2>6
  <1>3. CASE ~(Len(s) <= Len(t)) BY <1>3 DEF IsPrefix
  <1> QED BY <1>2, <1>3

\* The first n tokens of a prompt are a prefix of it.
LEMMA UptoIs ==
    ASSUME NEW t \in Tokens, NEW n \in 0 .. Len(t)
    PROVE  /\ Upto(t, n) \in Tokens /\ Len(Upto(t, n)) = n
           /\ \A i \in 1 .. n : Upto(t, n)[i] = t[i]
           /\ IsPrefix(Upto(t, n), t)
           /\ n = 0 <=> Upto(t, n) = <<>>
  <1> DEFINE u == Upto(t, n)
  <1>1. Len(t) \in Nat /\ n \in Nat /\ 1 \in Int /\ n \in Int BY DEF Tokens
  <1>2. \A i \in 1 .. n : t[i] \in Nat BY <1>1 DEF Tokens
  <1>3. /\ u \in Tokens /\ Len(u) = IF 1 <= n THEN n - 1 + 1 ELSE 0
        /\ \A i \in 1 .. n - 1 + 1 : u[i] = t[1 + i - 1]
    BY <1>1, <1>2, SubSeqProperties DEF Tokens, Upto
  <1> HIDE DEF u
  <1>4. \A i \in 1 .. n : u[i] = t[i]
    <2> SUFFICES ASSUME NEW i \in 1 .. n PROVE u[i] = t[i] OBVIOUS
    <2>1. i \in 1 .. n - 1 + 1 /\ 1 + i - 1 = i BY <1>1
    <2> QED BY <2>1, <1>3
  <1>5. Len(u) = n BY <1>1, <1>3
  <1>6. IsPrefix(u, t) BY <1>1, <1>3, <1>4, <1>5, PrefixIs
  <1>7. n = 0 <=> u = <<>> BY <1>1, <1>3, <1>5, EmptySeq DEF Tokens
  <1> QED BY <1>3, <1>4, <1>5, <1>6, <1>7 DEF u

\* A prefix is given by its length.
LEMMA PrefixUpto ==
    ASSUME NEW s \in Tokens, NEW t \in Tokens
    PROVE  IsPrefix(s, t) => Len(s) \in 0 .. Len(t) /\ s = Upto(t, Len(s))
  <1> SUFFICES ASSUME IsPrefix(s, t) PROVE Len(s) \in 0 .. Len(t) /\ s = Upto(t, Len(s)) OBVIOUS
  <1>1. Len(s) \in 0 .. Len(t) /\ \A i \in 1 .. Len(s) : s[i] = t[i] BY PrefixIs DEF Tokens
  <1> DEFINE n == Len(s)
             u == Upto(t, n)
  <1>2. u \in Tokens /\ Len(u) = n /\ \A i \in 1 .. n : u[i] = t[i] BY <1>1, UptoIs
  <1> HIDE DEF u
  <1>3. u = s BY <1>1, <1>2, SeqEqual DEF Tokens
  <1> QED BY <1>1, <1>3 DEF u

\* Every list of tokens begins with nothing and with all of itself.
LEMMA PrefixOfSelf ==
    ASSUME NEW t \in Tokens
    PROVE  IsPrefix(t, t) /\ IsPrefix(<<>>, t) /\ <<>> \in Tokens /\ Len(<<>>) = 0
           /\ Len(t) \in Nat /\ (t = <<>> <=> Len(t) = 0)
  <1>1. <<>> \in Tokens /\ Len(<<>>) = 0 /\ Len(t) \in Nat BY EmptySeq DEF Tokens
  <1>2. IsPrefix(t, t) /\ IsPrefix(<<>>, t) BY <1>1, PrefixIs
  <1>3. t = <<>> <=> Len(t) = 0 BY EmptySeq DEF Tokens
  <1> QED BY <1>1, <1>2, <1>3

\* A prefix of a prefix is one.
LEMMA PrefixOfPrefix ==
    ASSUME NEW r \in Tokens, NEW s \in Tokens, NEW t \in Tokens, IsPrefix(r, s), IsPrefix(s, t)
    PROVE  IsPrefix(r, t)
  <1>1. Len(r) \in Nat /\ Len(s) \in Nat /\ Len(t) \in Nat BY DEF Tokens
  <1> QED BY <1>1, PrefixIs

\* Of two prefixes of a text the shorter is a prefix of the longer.
LEMMA PrefixWithin ==
    ASSUME NEW s \in Tokens, NEW t \in Tokens, NEW n \in 0 .. Len(t), IsPrefix(s, t), Len(s) <= n
    PROVE  IsPrefix(s, Upto(t, n))
  <1>1. Len(s) \in Nat /\ Len(t) \in Nat BY DEF Tokens
  <1>2. Upto(t, n) \in Tokens /\ Len(Upto(t, n)) = n /\ \A i \in 1 .. n : Upto(t, n)[i] = t[i] BY UptoIs
  <1> QED BY <1>1, <1>2, PrefixIs

\* A prefix that is not empty begins alike, and one as long as the text is all of it.
LEMMA PrefixEnds ==
    ASSUME NEW s \in Tokens, NEW t \in Tokens, IsPrefix(s, t)
    PROVE  /\ Len(s) <= Len(t)
           /\ s # <<>> => t # <<>> /\ s[1] = t[1]
           /\ Len(s) = Len(t) => s = t
  <1>1. Len(s) \in Nat /\ Len(t) \in Nat /\ (s = <<>> <=> Len(s) = 0) /\ (t = <<>> <=> Len(t) = 0)
    BY PrefixOfSelf
  <1>2. Len(s) <= Len(t) /\ \A i \in 1 .. Len(s) : s[i] = t[i] BY PrefixIs
  <1>3. Len(s) = Len(t) => s = t BY <1>2, SeqEqual DEF Tokens
  <1> QED BY <1>1, <1>2, <1>3

\* What a prefill behind a restored snapshot makes of the prompt.
LEMMA Behind ==
    ASSUME NEW s \in Tokens, NEW t \in Tokens
    PROVE  /\ s \o Rest(t, Len(s)) \in Tokens
           /\ Len(s) <= Len(t) => Len(s \o Rest(t, Len(s))) = Len(t)
           /\ Len(s) >= Len(t) => s \o Rest(t, Len(s)) = s
           /\ IsPrefix(s, t) => s \o Rest(t, Len(s)) = t
  <1> DEFINE r == Rest(t, Len(s))
             u == s \o r
  <1>1. Len(s) \in Nat /\ Len(t) \in Nat /\ Len(s) + 1 \in Int /\ Len(t) \in Int BY DEF Tokens
  <1>2. \A i \in Len(s) + 1 .. Len(t) : t[i] \in Nat BY <1>1 DEF Tokens
  <1>3. /\ r \in Tokens /\ Len(r) = IF Len(s) + 1 <= Len(t) THEN Len(t) - (Len(s) + 1) + 1 ELSE 0
        /\ \A i \in 1 .. Len(t) - (Len(s) + 1) + 1 : r[i] = t[Len(s) + 1 + i - 1]
    BY <1>1, <1>2, SubSeqProperties DEF Tokens, Rest
  <1> HIDE DEF r
  <1>4. /\ u \in Tokens /\ Len(u) = Len(s) + Len(r)
        /\ \A i \in 1 .. Len(s) + Len(r) : u[i] = IF i <= Len(s) THEN s[i] ELSE r[i - Len(s)]
    BY <1>3, ConcatProperties DEF Tokens
  <1>5. Len(s) >= Len(t) => u = s
    <2>1. Len(s) >= Len(t) => r = <<>> BY <1>1, <1>3, PrefixOfSelf
    <2> QED BY <2>1, ConcatEmptySeq DEF Tokens
  <1> HIDE DEF u
  <1>6. Len(s) <= Len(t) => Len(u) = Len(t) BY <1>1, <1>3, <1>4
  <1>7. ASSUME IsPrefix(s, t) PROVE u = t
    <2>1. Len(s) <= Len(t) /\ \A i \in 1 .. Len(s) : s[i] = t[i] BY <1>7, PrefixIs
    <2>2. ASSUME NEW i \in 1 .. Len(u) PROVE u[i] = t[i]
      <3>0. i \in 1 .. Len(s) + Len(r) BY <1>4
      <3>1. CASE i <= Len(s)
        <4>1. i \in 1 .. Len(s) /\ u[i] = s[i] BY <3>0, <3>1, <1>1, <1>4
        <4> QED BY <4>1, <2>1
      <3>2. CASE ~(i <= Len(s))
        <4>1. u[i] = r[i - Len(s)] BY <3>0, <3>2, <1>4
        <4>2. i - Len(s) \in 1 .. Len(t) - (Len(s) + 1) + 1 /\ Len(s) + 1 + (i - Len(s)) - 1 = i
          BY <3>0, <3>2, <1>1, <1>3, <2>1
        <4>3. r[i - Len(s)] = t[Len(s) + 1 + (i - Len(s)) - 1] BY <4>2, <1>3
        <4> QED BY <4>1, <4>2, <4>3
      <3> QED BY <3>1, <3>2
    <2> QED BY <1>4, <1>6, <2>1, <2>2, SeqEqual DEF Tokens
  <1> QED BY <1>4, <1>5, <1>6, <1>7 DEF u, r

\* A placeholder is as long as asked for, and begins with no token of a prompt.
LEMMA PlaceholderIs ==
    ASSUME NEW n \in Nat, SlotAssumption
    PROVE  /\ Placeholder(n) \in Tokens /\ Len(Placeholder(n)) = n
           /\ n > 0 => Placeholder(n)[1] = Blank
  <1>1. Placeholder(n) \in [1 .. n -> Nat] BY DEF Placeholder, SlotAssumption
  <1>2. Placeholder(n) \in Tokens /\ Len(Placeholder(n)) = n BY <1>1 DEF Tokens
  <1>3. n > 0 => 1 \in 1 .. n OBVIOUS
  <1> QED BY <1>2, <1>3 DEF Placeholder

\* With a token more, a list begins as it did.
LEMMA AppendIs ==
    ASSUME NEW t \in Tokens, NEW x \in Nat
    PROVE  /\ Append(t, x) \in Tokens /\ Append(t, x) # <<>> /\ IsPrefix(t, Append(t, x))
           /\ t # <<>> => Append(t, x)[1] = t[1]
  <1>1. /\ Append(t, x) \in Tokens /\ Append(t, x) # <<>> /\ Len(Append(t, x)) = Len(t) + 1
        /\ \A i \in 1 .. Len(t) : Append(t, x)[i] = t[i]
    BY AppendProperties DEF Tokens
  <1>2. Len(t) \in Nat /\ (t = <<>> <=> Len(t) = 0) BY PrefixOfSelf
  <1>3. IsPrefix(t, Append(t, x))
    <2> DEFINE a == Append(t, x)
    <2> HIDE DEF a
    <2>1. a \in Tokens /\ Len(t) <= Len(a) /\ \A i \in 1 .. Len(t) : a[i] = t[i] BY <1>1, <1>2 DEF a
    <2>2. IsPrefix(t, a) BY <2>1, PrefixIs
    <2> QED BY <2>2 DEF a
  <1>4. t # <<>> => Append(t, x)[1] = t[1] BY <1>1, <1>2
  <1> QED BY <1>1, <1>3, <1>4

-----------------------------------------------------------------------------
(* The invariant *)

CacheState ==
    [slot : Slot \cup {NoSlot}, diskHit : BOOLEAN, snap : Inline \cup {NoSlot},
     cut : Nat, full : Full \cup {NoSlot}]
Request == [wire : Tokens, form : Form, prompt : Tokens, policy : Policy]
Result  == [ok : BOOLEAN, shown : BOOLEAN, context : Tokens]

USE DEF CacheState, Request, Result

\* Types, where process_job is, and what it has not chosen yet.
Shape ==
    /\ snap \in [Slot -> Tokens]
    /\ key \in [Inline \cup Full -> Tokens]
    /\ slotTokens \in [Inline -> Tokens]
    /\ agentSlots \subseteq Inline
    /\ disk \subseteq [key : Tokens, tokens : Tokens]
    /\ pc \in {"idle", "lookup", "disk", "validate", "cold", "prepare", "generate", "finalize", "turn"}
    /\ req \in Request
    /\ cache \in CacheState
    /\ result \in Result
    /\ cache.cut <= Len(req.prompt)
    /\ cache.full # NoSlot => cache.snap = NoSlot /\ cache.slot = NoSlot
    /\ pc \in {"lookup", "disk", "validate", "cold", "prepare"} =>
          cache.snap = NoSlot /\ cache.full = NoSlot /\ cache.cut = 0
    /\ pc = "idle" => req = NoRequest /\ cache = NoCache
    /\ pc # "idle" => req.wire \in Prompt /\ req.form \in DOMAIN Served[req.wire]

\* The tokens the full-prompt cache files a prompt under.
ServedKey(w, f) == IF f = "rewritten" THEN Served[w][f] ELSE w

\* Each prompt is always served in one form.
OneForm ==
    \A v, w \in Prompt : \A f \in DOMAIN Served[v], g \in DOMAIN Served[w] :
        ServedKey(v, f) = ServedKey(w, g) => Served[v][f] = Served[w][g]

\* No prompt begins like a placeholder.
NoneBlank == \A w \in Prompt : \A f \in DOMAIN Served[w] : Served[w][f][1] # Blank

Wanted == Served[req.wire][req.form]

\* The slots this request is writing to.
Open == IF pc \in {"generate", "finalize"} THEN {cache.snap, cache.full} ELSE {}

\* The prompt is what is to be served, or stands for it.
PromptIs ==
    pc # "idle" =>
        \/ req.prompt = Wanted
        \/ Using /\ Compressed /\ req.prompt = Placeholder(Len(Wanted))

\* The snapshot that is restored is of a prefix of what is to be served.
Sourced ==
    /\ cache.diskHit <=> cache.slot = Staging
    /\ Using /\ ~(pc = "turn" /\ cache.diskHit) =>
          /\ Used(cache.slot) /\ IsPrefix(snap[cache.slot], Wanted)
          /\ req.prompt # Wanted => snap[cache.slot] = Wanted
    /\ Used(Staging) => cache.diskHit /\ pc \notin {"idle", "lookup", "disk", "turn"}

\* What is taken of this request, if anything is, is of what is served.
Taking ==
    /\ cache.snap # NoSlot =>
          /\ cache.snap # cache.slot /\ cache.cut > 0 /\ req.prompt = Wanted
          /\ IsPrefix(snap[cache.snap], Wanted)
          /\ pc \in {"generate", "finalize"} =>
                /\ Len(snap[cache.snap]) <= cache.cut
                /\ slotTokens[cache.snap] = <<>> /\ cache.snap \notin agentSlots
    /\ cache.full # NoSlot /\ pc \in {"generate", "finalize"} =>
          snap[cache.full] \in {<<>>, Wanted}
    /\ pc \in {"finalize", "turn"} => result.context = Wanted

Records ==
    /\ \A s \in (Inline \cup Full) \ Open : key[s] = <<>> <=> ~Used(s)
    /\ \A s \in Inline \ Open : IsPrefix(snap[s], key[s])
    /\ \A s \in Full \ Open : \A w \in Prompt : \A f \in DOMAIN Served[w] :
          key[s] = ServedKey(w, f) => snap[s] = Served[w][f]
    /\ SlotTokensHeld

OnDisk == \A e \in disk : e.key # <<>> /\ (e.key[1] # Blank => e.tokens # <<>> /\ IsPrefix(e.tokens, e.key))

IInv == Shape /\ PromptIs /\ Sourced /\ Taking /\ Records /\ OnDisk

-----------------------------------------------------------------------------
(* Types *)

\* A prompt is not empty, in whatever form it is served.
LEMMA ServedType ==
    ASSUME PromptAssumption, NEW w \in Prompt, NEW f \in DOMAIN Served[w]
    PROVE  /\ w \in Tokens /\ w # <<>> /\ f \in Form
           /\ Served[w][f] \in Tokens /\ Served[w][f] # <<>> /\ Len(Served[w][f]) \in Nat
           /\ Len(Served[w][f]) > 0
           /\ f = "verbatim" => Served[w][f] = w
  <1>1. /\ w \in Tokens /\ w # <<>> /\ f \in Form
        /\ Served[w][f] \in Tokens /\ Served[w][f] # <<>> /\ (f = "verbatim" => Served[w][f] = w)
    BY PromptAssumption DEF PromptAssumption, Tokens
  <1>2. Len(Served[w][f]) \in Nat /\ Len(Served[w][f]) # 0 BY <1>1, PrefixOfSelf
  <1> QED BY <1>1, <1>2

\* The server begins with the shape of its slots.
LEMMA ShapeBegins == ASSUME SlotAssumption PROVE Init => Shape
  <1> SUFFICES ASSUME Init PROVE Shape OBVIOUS
  <1>1. <<>> \in Tokens /\ Len(<<>>) = 0 BY EmptySeq DEF Tokens
  <1>2. NoRequest \in Request
    BY <1>1 DEF NoRequest, Form, Policy
  <1>3. NoCache \in CacheState
    BY DEF NoCache
  <1>4. NoResult \in Result BY <1>1 DEF NoResult
  <1>5. NoCache.cut = 0 /\ NoCache.full = NoSlot /\ NoRequest.prompt = <<>> BY DEF NoCache, NoRequest
  <1> QED BY <1>1, <1>2, <1>3, <1>4, <1>5 DEF Init, InitMemory, Shape

\* A save puts nothing else on the disk.
LEMMA StoredIs ==
    ASSUME NEW new, NEW D \in Stored(new) PROVE D \subseteq disk \cup new
  BY DEF Stored

\* What a generation hands to a snapshot is tokens.
LEMMA RunShape ==
    ASSUME Shape, NEW context \in Tokens, NEW offset \in Nat, Run(context, offset),
           offset < cache.cut => cache.cut <= Len(context)
    PROVE  Shape'
  <1>1. /\ pc = "generate" /\ pc' = "finalize" /\ UNCHANGED <<key, slotTokens, agentSlots, disk, req, cache>>
        /\ result' \in Result
    BY DEF Run
  <1>2. snap' \in [Slot -> Tokens]
    <2>1. CASE UNCHANGED snap BY <2>1 DEF Shape
    <2>2. ASSUME NEW tokens \in Taken(context, offset), Snapshot(tokens) PROVE snap' \in [Slot -> Tokens]
      <3>1. tokens \in Tokens
        <4>1. CASE cache.full # NoSlot BY <4>1, <2>2 DEF Taken
        <4>2. CASE cache.full = NoSlot
          <5>1. PICK n \in offset + 1 .. cache.cut : tokens = Upto(context, n) BY <4>2, <2>2 DEF Taken
          <5>2. cache.cut \in Nat BY DEF Shape
          <5>3. n \in 0 .. Len(context) BY <5>1, <5>2, PrefixOfSelf
          <5> QED BY <5>1, <5>3, UptoIs
        <4> QED BY <4>1, <4>2
      <3> QED BY <3>1, <2>2 DEF Snapshot, Shape
    <2> QED BY <2>1, <2>2 DEF Run
  <1> QED BY <1>1, <1>2 DEF Shape

\* The turns a next request may render are lists of tokens.
LEMMA CanonicalIs ==
    ASSUME SlotAssumption, req.prompt \in Tokens, NEW t \in Canonical
    PROVE  t \in Tokens
  <1>1. PICK r \in {req.prompt, Front(req.prompt)} \ {<<>>} : t = Append(r, Answer) BY DEF Canonical
  <1>2. Len(req.prompt) \in Nat /\ (req.prompt = <<>> <=> Len(req.prompt) = 0) BY PrefixOfSelf
  <1>3. Front(req.prompt) \in Tokens
    <2>1. CASE req.prompt # <<>>
      <3>1. Len(req.prompt) - 1 \in 0 .. Len(req.prompt) BY <2>1, <1>2
      <3> QED BY <3>1, UptoIs DEF Front, Upto
    <2>2. CASE req.prompt = <<>>
      <3>1. Len(req.prompt) - 1 < 1 /\ Len(req.prompt) - 1 \in Int /\ 1 \in Int BY <2>2, <1>2
      <3>2. Front(req.prompt) = <<>> BY <3>1, SubSeqEmpty DEF Front
      <3> QED BY <3>2, PrefixOfSelf
    <2> QED BY <2>1, <2>2
  <1> QED BY <1>1, <1>3, AppendIs DEF SlotAssumption

\* Every step keeps the shape of the slots and of the request.
LEMMA ShapeKept ==
    ASSUME PromptAssumption, SlotAssumption, Shape, [Next]_vars
    PROVE  Shape'
  <1>0. /\ <<>> \in Tokens /\ Len(<<>>) = 0
        /\ NoRequest \in Request
        /\ NoCache \in CacheState
        /\ NoResult \in Result
        /\ NoCache.cut = 0 /\ NoCache.full = NoSlot /\ NoCache.snap = NoSlot /\ NoCache.slot = NoSlot
        /\ NoRequest.prompt = <<>>
    BY EmptySeq DEF Tokens, NoRequest, Form, Policy, NoCache, NoResult
  <1>a. \A s \in Slot : snap[s] \in Tokens /\ Len(snap[s]) \in Nat BY DEF Shape, Tokens
  <1>b. req.prompt \in Tokens /\ Len(req.prompt) \in Nat /\ cache.cut \in Nat /\ cache.cut <= Len(req.prompt)
    BY DEF Shape, Tokens
  <1>c. \A n \in 1 .. Len(req.prompt) : Upto(req.prompt, n) \in Tokens BY <1>b, UptoIs
  <1>1. ASSUME NEW w \in Prompt, NEW f \in DOMAIN Served[w], NEW p \in Policy, Arrive(w, f, p) PROVE Shape'
    <2>1. PICK s \in Full \cup {NoSlot} :
             /\ cache' = [NoCache EXCEPT !.slot = s]
             /\ req' = [wire |-> w, form |-> f,
                        prompt |-> IF s = NoSlot THEN Served[w][f] ELSE Placeholder(Len(snap[s])),
                        policy |-> IF f = "compressed" /\ p # "full" THEN "off" ELSE p]
      BY <1>1 DEF Arrive, LookupFull
    <2>2. w \in Tokens /\ f \in Form /\ Served[w][f] \in Tokens BY ServedType
    <2>3. s # NoSlot => Placeholder(Len(snap[s])) \in Tokens BY <1>a, PlaceholderIs DEF Slot
    <2>4. req' \in Request
      BY <2>1, <2>2, <2>3 DEF Policy
    <2>5. /\ cache' \in CacheState
          /\ cache'.cut = 0 /\ cache'.full = NoSlot /\ cache'.snap = NoSlot
      BY <2>1, <1>0 DEF NoCache, Slot
    <2>6. /\ pc' = "lookup" /\ UNCHANGED <<snap, key, slotTokens, agentSlots, disk, result>>
          /\ req'.wire = w /\ req'.form = f
      BY <1>1, <2>1 DEF Arrive, memory
    <2>7. cache'.cut <= Len(req'.prompt) BY <2>4, <2>5, PrefixOfSelf
    <2> QED BY <2>4, <2>5, <2>6, <2>7 DEF Shape
  <1>2. CASE Lookup
    <2>1. /\ pc = "lookup" /\ pc' = "disk" /\ UNCHANGED <<snap, key, slotTokens, agentSlots, disk, result>>
      BY <1>2 DEF Lookup, memory
    <2>2. /\ cache' = cache \/ \E s \in Full \cup Inline : cache' = [cache EXCEPT !.slot = s]
          /\ req' = req \/ \E s \in Full : req' = [req EXCEPT !.prompt = Placeholder(Len(snap[s]))]
      BY <1>2 DEF Lookup, LookupFull, LookupInline
    <2>3. /\ cache' \in CacheState
          /\ cache'.cut = 0 /\ cache'.full = NoSlot /\ cache'.snap = NoSlot
      <3>1. CASE cache' = cache BY <2>1, <3>1 DEF Shape
      <3>2. ASSUME NEW s \in Full \cup Inline, cache' = [cache EXCEPT !.slot = s]
            PROVE  /\ cache' \in CacheState
                   /\ cache'.cut = 0 /\ cache'.full = NoSlot /\ cache'.snap = NoSlot
        <4>1. s \in Slot BY DEF Slot
        <4> QED BY <2>1, <3>2, <4>1 DEF Shape
      <3> QED BY <2>2, <3>1, <3>2
    <2>4. /\ req' \in Request
          /\ req'.wire = req.wire /\ req'.form = req.form
      <3>1. CASE req' = req BY <3>1 DEF Shape
      <3>2. ASSUME NEW s \in Full, req' = [req EXCEPT !.prompt = Placeholder(Len(snap[s]))]
            PROVE  /\ req' \in Request
                   /\ req'.wire = req.wire /\ req'.form = req.form
        <4>1. Placeholder(Len(snap[s])) \in Tokens BY <1>a, PlaceholderIs DEF Slot
        <4> QED BY <3>2, <4>1 DEF Shape
      <3> QED BY <2>2, <3>1, <3>2
    <2>5. cache'.cut <= Len(req'.prompt) BY <2>3, <2>4, PrefixOfSelf
    <2> QED BY <2>1, <2>3, <2>4, <2>5 DEF Shape
  <1>3. ASSUME NEW e \in disk, DiskHit(e) PROVE Shape'
    <2>1. e.tokens \in Tokens BY DEF Shape
    <2>2. /\ pc = "disk" /\ pc' = "validate" /\ UNCHANGED <<key, slotTokens, agentSlots, disk, req, result>>
          /\ snap' = [snap EXCEPT ![Staging] = e.tokens]
          /\ cache' = [cache EXCEPT !.slot = Staging, !.diskHit = TRUE]
      BY <1>3 DEF DiskHit
    <2>3. snap' \in [Slot -> Tokens] BY <2>1, <2>2 DEF Shape
    <2>4. /\ cache' \in CacheState
          /\ cache'.cut = 0 /\ cache'.full = NoSlot /\ cache'.snap = NoSlot
      BY <2>2 DEF Shape, Slot
    <2> QED BY <2>2, <2>3, <2>4, <1>b DEF Shape
  <1>4. ASSUME NEW n \in 1 .. Len(req.prompt), PrefillStaging(n),
               \/ pc = "disk" /\ pc' = "validate"
               \/ pc = "cold" /\ pc' = "prepare"
        PROVE  Shape'
    <2>1. Upto(req.prompt, n) \in Tokens BY <1>c
    <2>2. /\ UNCHANGED <<key, slotTokens, agentSlots, req, result>>
          /\ snap' = [snap EXCEPT ![Staging] = Upto(req.prompt, n)]
          /\ cache' = [cache EXCEPT !.slot = Staging, !.diskHit = TRUE]
          /\ disk' \subseteq disk \cup {Entry(Upto(req.prompt, n), Upto(req.prompt, n))}
      BY <1>4, StoredIs DEF PrefillStaging
    <2>3. snap' \in [Slot -> Tokens] BY <2>1, <2>2 DEF Shape
    <2>4. /\ cache' \in CacheState
          /\ cache'.cut = 0 /\ cache'.full = NoSlot /\ cache'.snap = NoSlot
      BY <2>2, <1>4 DEF Shape, Slot
    <2>5. disk' \subseteq [key : Tokens, tokens : Tokens] BY <2>1, <2>2 DEF Entry, Shape
    <2> QED BY <1>4, <2>2, <2>3, <2>4, <2>5, <1>b DEF Shape
  <1>5. CASE DiskMiss BY <1>5 DEF DiskMiss, memory, Shape
  <1>6. CASE Validate
    <2>1. /\ pc = "validate" /\ pc' = "cold" /\ UNCHANGED <<disk, req, result>>
      BY <1>6 DEF Validate
    <2>2. CASE UNCHANGED <<memory, cache>> BY <2>1, <2>2, <1>b DEF memory, Shape
    <2>3. CASE /\ Using /\ snap' = [snap EXCEPT ![cache.slot] = <<>>] /\ cache' = NoCache
               /\ \/ UNCHANGED <<key, slotTokens, agentSlots>>
                  \/ ForgetSlot(cache.slot) /\ key' = [key EXCEPT ![cache.slot] = <<>>]
      <3>1. snap' \in [Slot -> Tokens] BY <2>3, <1>0 DEF Shape, Using
      <3>2. key' \in [Inline \cup Full -> Tokens] /\ slotTokens' \in [Inline -> Tokens] /\ agentSlots' \subseteq Inline
        BY <2>3, <1>0 DEF Shape, ForgetSlot
      <3> QED BY <2>1, <2>3, <3>1, <3>2, <1>0, <1>b DEF Shape
    <2> QED BY <1>6, <2>2, <2>3 DEF Validate
  <1>7. CASE NoColdPrefix BY <1>7 DEF NoColdPrefix, memory, Shape
  <1>8. ASSUME NEW s \in Inline, NEW n \in 1 .. Len(req.prompt), PrepareInline(s, n) PROVE Shape'
    <2>1. /\ pc = "prepare" /\ pc' = "generate" /\ UNCHANGED <<disk, req, result>>
      BY <1>8 DEF PrepareInline
    <2>2. CASE UNCHANGED <<memory, cache>> BY <2>1, <2>2, <1>b DEF memory, Shape
    <2>3. CASE /\ snap' = [snap EXCEPT ![s] = <<>>] /\ cache' = [cache EXCEPT !.snap = s, !.cut = n]
               /\ ForgetSlot(s) /\ UNCHANGED key
      <3>1. snap' \in [Slot -> Tokens] BY <2>3, <1>0 DEF Shape
      <3>2. slotTokens' \in [Inline -> Tokens] /\ agentSlots' \subseteq Inline
        BY <2>3, <1>0 DEF Shape, ForgetSlot
      <3>3. /\ cache' \in CacheState
            /\ cache'.cut = n /\ cache'.full = NoSlot
        <4>1. cache \in CacheState
          BY DEF Shape
        <4>2. cache.full = NoSlot /\ n \in Nat BY <2>1, <1>b DEF Shape
        <4>3. cache' = [cache EXCEPT !.snap = s, !.cut = n] BY <2>3
        <4>4. cache'.cut = n /\ cache'.full = NoSlot BY <4>1, <4>2, <4>3
        <4>5. cache' \in CacheState
          BY <4>1, <4>2, <4>3
        <4> QED BY <4>4, <4>5
      <3> QED BY SMTT(30), <2>1, <2>3, <3>1, <3>2, <3>3, <1>b DEF Shape
    <2> QED BY <1>8, <2>2, <2>3 DEF PrepareInline
  <1>9. ASSUME NEW s \in Full, PrepareFull(s) PROVE Shape'
    <2>1. /\ pc = "prepare" /\ pc' = "generate" /\ UNCHANGED <<key, slotTokens, agentSlots, disk, req, result>>
          /\ cache.slot = NoSlot /\ snap' = [snap EXCEPT ![s] = <<>>] /\ cache' = [cache EXCEPT !.full = s]
      BY <1>9 DEF PrepareFull, Using
    <2>2. snap' \in [Slot -> Tokens] BY <2>1, <1>0 DEF Shape
    <2>3. /\ cache' \in CacheState
          /\ cache'.cut = 0 /\ cache'.snap = NoSlot /\ cache'.slot = NoSlot
      <3>1. cache \in CacheState
        BY DEF Shape
      <3>2. cache.cut = 0 /\ cache.snap = NoSlot /\ cache.slot = NoSlot BY <2>1 DEF Shape
      <3>3. cache' = [cache EXCEPT !.full = s] BY <2>1
      <3>4. cache'.cut = 0 /\ cache'.snap = NoSlot /\ cache'.slot = NoSlot BY <3>1, <3>2, <3>3
      <3>5. cache' \in CacheState
        BY <3>1, <3>3
      <3> QED BY <3>4, <3>5
    <2> QED BY <2>1, <2>2, <2>3, <1>b DEF Shape
  <1>10. CASE PrepareNone BY <1>10 DEF PrepareNone, memory, Shape
  <1>11. CASE Generate BY <1>11, <1>b, RunShape DEF Generate
  <1>12. CASE RestoreAndGenerate
    <2>1. cache.slot \in Slot BY <1>12 DEF RestoreAndGenerate, Using, Shape
    <2> DEFINE s == snap[cache.slot]
               context == s \o Rest(req.prompt, Len(s))
    <2>2. s \in Tokens /\ Len(s) \in Nat BY <2>1, <1>a
    <2>3. context \in Tokens /\ (Len(s) <= Len(req.prompt) => Len(context) = Len(req.prompt))
      BY <2>2, <1>b, Behind
    <2>4. Run(context, Len(s)) BY <1>12 DEF RestoreAndGenerate
    <2> HIDE DEF s, context
    <2> QED BY <2>2, <2>3, <2>4, <1>b, RunShape
  <1>13. CASE RetryFresh BY <1>13, <1>b, RunShape DEF RetryFresh
  <1>14. CASE Finalize
    <2>1. /\ pc = "finalize" /\ pc' = "turn" /\ UNCHANGED <<agentSlots, req, cache, result>>
          /\ disk' \subseteq disk \cup SavedNow
      BY <1>14, StoredIs DEF Finalize
    <2>2. Upto(req.prompt, cache.cut) \in Tokens BY <1>b, UptoIs
    <2>3. FullKey \in Tokens BY <1>b DEF FullKey, Shape
    <2>4. snap' \in [Slot -> Tokens] BY <1>14, <1>0 DEF Finalize, Shape
    <2>5. key' \in [Inline \cup Full -> Tokens]
      <3>1. key' = [s \in Inline \cup Full |->
                      IF s \in Dropped THEN <<>>
                      ELSE IF s = cache.snap THEN Upto(req.prompt, cache.cut)
                      ELSE IF s = cache.full THEN FullKey
                      ELSE key[s]]
        BY <1>14 DEF Finalize
      <3>2. key \in [Inline \cup Full -> Tokens] BY DEF Shape
      <3> QED BY <3>1, <3>2, <2>2, <2>3, <1>0
    <2>6. slotTokens' \in [Inline -> Tokens] BY <1>14, <2>2 DEF Finalize, Shape
    <2>7. SavedNow \subseteq [key : Tokens, tokens : Tokens]
      <3>1. Append(req.prompt, Answer) \in Tokens BY <1>b, AppendIs DEF SlotAssumption
      <3>2. result.context \in Tokens BY DEF Shape
      <3>3. cache.snap # NoSlot => snap[cache.snap] \in Tokens BY <1>a DEF Shape, Slot
      <3>4. ASSUME NEW e \in SavedNow PROVE e \in [key : Tokens, tokens : Tokens]
        <4>1. \/ cache.snap # NoSlot /\ e = Entry(req.prompt, snap[cache.snap])
              \/ e = Entry(Append(req.prompt, Answer), result.context)
          BY DEF SavedNow, Kept
        <4>2. CASE cache.snap # NoSlot /\ e = Entry(req.prompt, snap[cache.snap])
          BY <4>2, <3>3, <1>b DEF Entry
        <4>3. CASE e = Entry(Append(req.prompt, Answer), result.context) BY <4>3, <3>1, <3>2 DEF Entry
        <4> QED BY <4>1, <4>2, <4>3
      <3> QED BY <3>4
    <2>8. disk' \subseteq [key : Tokens, tokens : Tokens] BY <2>1, <2>7 DEF Shape
    <2> QED BY <2>1, <2>4, <2>5, <2>6, <2>8, <1>b DEF Shape
  <1>15. ASSUME NEW t \in Canonical, NEW source \in Slot, NEW s \in Inline, ReplayTurn(t, source, s)
         PROVE  Shape'
    <2>1. /\ UNCHANGED disk /\ pc' = "idle" /\ req' = NoRequest /\ cache' = NoCache /\ result' = NoResult
      BY <1>15 DEF ReplayTurn, EndRequest
    <2>2. t \in Tokens /\ Len(t) \in Nat BY <1>b, CanonicalIs, PrefixOfSelf
    <2>3. PICK n \in Len(snap[source]) .. Len(t) :
            LET saved   == n > Len(snap[source])
                context == snap[source] \o Rest(t, Len(snap[source]))
            IN  /\ snap' = [snap EXCEPT ![s] = IF saved THEN Upto(context, n) ELSE <<>>]
                /\ key' = [key EXCEPT ![s] = IF saved THEN Upto(t, n) ELSE <<>>]
                /\ slotTokens' = [slotTokens EXCEPT ![s] = IF saved THEN Upto(t, n) ELSE <<>>]
                /\ agentSlots' = IF saved THEN agentSlots \cup {s} ELSE agentSlots \ {s}
      BY <1>15 DEF ReplayTurn
    <2> DEFINE context == snap[source] \o Rest(t, Len(snap[source]))
    <2>4. context \in Tokens /\ Len(context) = Len(t)
      <3>1. snap[source] \in Tokens /\ Len(snap[source]) \in Nat /\ n \in Int /\ Len(snap[source]) <= Len(t)
        BY <2>2, <1>a
      <3> QED BY <2>2, <3>1, Behind
    <2>5. n \in 0 .. Len(t) BY <2>2, <1>a
    <2>6. Upto(context, n) \in Tokens /\ Upto(t, n) \in Tokens BY <2>2, <2>4, <2>5, UptoIs
    <2> HIDE DEF context
    <2>7. snap' \in [Slot -> Tokens] BY <2>3, <2>6, <1>0 DEF Shape, context
    <2>8. key' \in [Inline \cup Full -> Tokens] /\ slotTokens' \in [Inline -> Tokens] /\ agentSlots' \subseteq Inline
      BY <2>3, <2>6, <1>0 DEF Shape
    <2> QED BY <2>1, <2>7, <2>8, <1>0 DEF Shape
  <1>16. CASE NoReplay BY <1>16, <1>0 DEF NoReplay, memory, EndRequest, Shape
  <1>17. CASE Restart
    <2>1. /\ pc = "idle" /\ UNCHANGED <<pc, req, cache, result>>
          /\ snap' = [s \in Slot |-> <<>>] /\ key' = [s \in Inline \cup Full |-> <<>>]
          /\ slotTokens' = [s \in Inline |-> <<>>] /\ agentSlots' = {}
          /\ disk' \subseteq disk \cup {Entry(slotTokens[s], snap[s]) :
                                          s \in {t \in Inline : slotTokens[t] # <<>> /\ Used(t)}}
      BY <1>17, StoredIs DEF Restart
    <2>2. disk' \subseteq [key : Tokens, tokens : Tokens] BY <2>1, <1>a DEF Entry, Shape, Slot
    <2> QED BY <2>1, <2>2, <1>0, <1>b DEF Shape
  <1>18. CASE UNCHANGED vars BY <1>18 DEF vars, Shape
  <1>19. ASSUME NEW n \in 1 .. Len(req.prompt), DiskScoped(n) PROVE Shape' BY <1>4, <1>19 DEF DiskScoped
  <1>20. ASSUME NEW n \in 1 .. Len(req.prompt), ColdPrefix(n) PROVE Shape' BY <1>4, <1>20 DEF ColdPrefix
  <1> QED
    BY <1>1, <1>2, <1>3, <1>5, <1>6, <1>7, <1>8, <1>9, <1>10, <1>11, <1>12, <1>13, <1>14, <1>15,
       <1>16, <1>17, <1>18, <1>19, <1>20
    DEF Next

-----------------------------------------------------------------------------
(* Agreement *)

Setting == PromptAssumption /\ SlotAssumption /\ OneForm /\ NoneBlank

Agreed == PromptIs /\ Sourced /\ Taking /\ Records /\ OnDisk

\* The key a form is remembered under is not empty.
LEMMA KeyIs ==
    ASSUME Setting, NEW w \in Prompt, NEW f \in DOMAIN Served[w]
    PROVE  ServedKey(w, f) \in Tokens /\ ServedKey(w, f) # <<>>
  BY ServedType DEF Setting, ServedKey

\* What the request in hand is to be served.
LEMMA WantedIs ==
    ASSUME Setting, IInv, pc # "idle"
    PROVE  /\ req.wire \in Prompt /\ req.form \in DOMAIN Served[req.wire]
           /\ Wanted \in Tokens /\ Wanted # <<>> /\ Len(Wanted) \in Nat /\ Len(Wanted) > 0
           /\ Wanted[1] # Blank /\ IsPrefix(Wanted, Wanted)
           /\ req.prompt \in Tokens /\ Len(req.prompt) = Len(Wanted)
           /\ ~Using => req.prompt = Wanted
           /\ req.prompt # Wanted => Using /\ Compressed /\ req.prompt[1] = Blank
  <1>1. req.wire \in Prompt /\ req.form \in DOMAIN Served[req.wire] /\ req.prompt \in Tokens
    BY DEF IInv, Shape
  <1>2. /\ Wanted \in Tokens /\ Wanted # <<>> /\ Len(Wanted) \in Nat /\ Len(Wanted) > 0
    BY <1>1, ServedType DEF Setting, Wanted
  <1>3. Wanted[1] # Blank BY <1>1 DEF Setting, NoneBlank, Wanted
  <1>4. \/ req.prompt = Wanted
        \/ Using /\ Compressed /\ req.prompt = Placeholder(Len(Wanted))
    BY DEF IInv, PromptIs
  <1>5. Len(Placeholder(Len(Wanted))) = Len(Wanted) /\ Placeholder(Len(Wanted))[1] = Blank
    BY <1>2, PlaceholderIs DEF Setting
  <1> QED BY <1>1, <1>2, <1>3, <1>4, <1>5, PrefixOfSelf

\* Slots of different kinds are different, and NoSlot is none.
LEMMA SlotsApart ==
    ASSUME Setting
    PROVE  /\ Staging \in Slot /\ Staging \notin Inline \cup Full /\ NoSlot \notin Slot
           /\ \A s \in Inline \cup Full : s \in Slot /\ s # NoSlot /\ s # Staging
           /\ \A s \in Inline : s \notin Full
           /\ \A s \in Full : s \notin Inline
  BY DEF Setting, SlotAssumption, Slot

\* At the start the slots hold nothing to disagree about.
LEMMA AgreedBegins == ASSUME Setting PROVE Init => Agreed
  <1> SUFFICES ASSUME Init PROVE Agreed OBVIOUS
  <1>1. /\ pc = "idle" /\ disk = {} /\ cache.slot = NoSlot /\ cache.diskHit = FALSE
        /\ cache.snap = NoSlot /\ cache.full = NoSlot /\ agentSlots = {}
        /\ \A s \in Slot : snap[s] = <<>>
        /\ \A s \in Inline \cup Full : key[s] = <<>>
        /\ \A s \in Inline : slotTokens[s] = <<>>
    BY DEF Init, InitMemory, NoCache
  <1>2. PromptIs /\ Taking /\ OnDisk BY <1>1 DEF PromptIs, Taking, OnDisk
  <1>3. Sourced BY <1>1, SlotsApart DEF Sourced, Using, Used
  <1>4. IsPrefix(<<>>, <<>>)
    <2>1. <<>> \in Tokens BY EmptySeq DEF Tokens
    <2> QED BY <2>1, PrefixOfSelf
  <1>5. Records BY <1>1, <1>4, KeyIs, SlotsApart DEF Records, SlotTokensHeld, Open, Used
  <1> QED BY <1>2, <1>3, <1>5 DEF Agreed

\* A request that arrives is served the slot of its whole prompt, or none.
LEMMA ArriveKeeps ==
    ASSUME Setting, IInv, NEW w \in Prompt, NEW f \in DOMAIN Served[w], NEW p \in Policy, Arrive(w, f, p)
    PROVE  Agreed'
  <1>1. /\ pc = "idle" /\ pc' = "lookup" /\ UNCHANGED <<snap, key, slotTokens, agentSlots, disk, result>>
    BY DEF Arrive, memory
  <1>2. PICK s \in Full \cup {NoSlot} :
           /\ s # NoSlot => f = "compressed" /\ key[s] = w
           /\ cache' = [NoCache EXCEPT !.slot = s]
           /\ req' = [wire |-> w, form |-> f,
                      prompt |-> IF s = NoSlot THEN Served[w][f] ELSE Placeholder(Len(snap[s])),
                      policy |-> IF f = "compressed" /\ p # "full" THEN "off" ELSE p]
    BY DEF Arrive, LookupFull
  <1>3. /\ cache'.slot = s /\ cache'.diskHit = FALSE /\ cache'.snap = NoSlot /\ cache'.full = NoSlot
        /\ req'.wire = w /\ req'.form = f /\ Wanted' = Served[w][f]
        /\ req'.prompt = IF s = NoSlot THEN Served[w][f] ELSE Placeholder(Len(snap[s]))
    BY <1>2 DEF NoCache, Wanted
  <1>4. Served[w][f] # <<>> /\ IsPrefix(Served[w][f], Served[w][f])
    BY ServedType, PrefixOfSelf DEF Setting
  <1>5. Open = {} /\ Open' = {} BY <1>1 DEF Open
  <1>6. s # NoSlot => s \in Full /\ snap[s] = Served[w][f]
    <2> SUFFICES ASSUME s # NoSlot PROVE s \in Full /\ snap[s] = Served[w][f] OBVIOUS
    <2>1. s \in Full \ Open /\ key[s] = ServedKey(w, f) BY <1>2, <1>5 DEF ServedKey
    <2> QED BY <2>1 DEF IInv, Records
  <1>7. PromptIs'
    <2>1. CASE s = NoSlot BY <1>3, <2>1 DEF PromptIs
    <2>2. CASE s # NoSlot
      <3>1. req'.prompt = Placeholder(Len(Served[w][f])) BY <1>3, <1>6, <2>2
      <3>2. f = "compressed" /\ cache'.slot # NoSlot BY <1>2, <1>3, <2>2
      <3>3. Using' /\ Compressed' /\ req'.prompt = Placeholder(Len(Wanted))'
        BY <1>3, <3>1, <3>2 DEF Using, Compressed, Placeholder
      <3> QED BY <3>3 DEF PromptIs
    <2> QED BY <2>1, <2>2
  <1>8. Sourced'
    <2>1. ~Used(Staging) BY <1>1 DEF IInv, Sourced
    <2> QED BY <1>1, <1>3, <1>4, <1>6, <2>1, SlotsApart DEF Sourced, Used, Using
  <1>9. Taking' BY <1>1, <1>3 DEF Taking
  <1>10. Records' BY <1>1, <1>5 DEF IInv, Records, SlotTokensHeld, Used
  <1>11. OnDisk' BY <1>1 DEF IInv, OnDisk
  <1> QED BY <1>7, <1>8, <1>9, <1>10, <1>11 DEF Agreed

\* A slot is found under what it holds.
LEMMA LookupKeeps ==
    ASSUME Setting, IInv, Lookup
    PROVE  Agreed'
  <1>1. /\ pc = "lookup" /\ pc' = "disk" /\ UNCHANGED <<snap, key, slotTokens, agentSlots, disk, result>>
        /\ cache.snap = NoSlot /\ cache.full = NoSlot
    BY DEF Lookup, memory, IInv, Shape
  <1>2. Open = {} /\ Open' = {} BY <1>1 DEF Open
  <1>3. Records' BY <1>1, <1>2 DEF IInv, Records, SlotTokensHeld, Used
  <1>4. OnDisk' BY <1>1 DEF IInv, OnDisk
  <1>5. /\ req.wire \in Prompt /\ req.form \in DOMAIN Served[req.wire]
        /\ Wanted # <<>> /\ IsPrefix(Wanted, Wanted) /\ req.prompt \in Tokens /\ Wanted \in Tokens
        /\ ~Using => req.prompt = Wanted
    BY <1>1, WantedIs
  <1>6. ~Used(Staging) BY <1>1 DEF IInv, Sourced
  <1>7. cache \in CacheState /\ req \in Request BY DEF IInv, Shape
  <1>8. CASE UNCHANGED <<req, cache>>
    <2>1. PromptIs' BY <1>1, <1>8 DEF IInv, PromptIs, Using, Compressed, Wanted
    <2>2. Sourced' BY <1>1, <1>6, <1>8 DEF IInv, Sourced, Using, Used, Wanted
    <2>3. Taking' BY <1>1, <1>8 DEF Taking
    <2> QED BY <1>3, <1>4, <2>1, <2>2, <2>3 DEF Agreed
  <1>9. ASSUME NEW s \in Inline \cup Full, ~Using, cache' = [cache EXCEPT !.slot = s],
               Used(s), IsPrefix(snap[s], Wanted),
               \/ req' = req
               \/ Compressed /\ snap[s] = Wanted /\ req' = [req EXCEPT !.prompt = Placeholder(Len(snap[s]))]
        PROVE  Agreed'
    <2>1. /\ cache'.slot = s /\ cache'.diskHit = cache.diskHit /\ cache'.snap = NoSlot /\ cache'.full = NoSlot
      BY <1>1, <1>7, <1>9
    <2>2. Wanted' = Wanted /\ Compressed' = Compressed BY <1>7, <1>9 DEF Wanted, Compressed
    <2>3. \/ req'.prompt = Wanted
          \/ Compressed /\ snap[s] = Wanted /\ req'.prompt = Placeholder(Len(Wanted))
      BY <1>5, <1>7, <1>9
    <2>4. s # NoSlot /\ s # Staging /\ NoSlot # Staging BY SlotsApart
    <2>5. PromptIs' BY <2>1, <2>2, <2>3, <2>4 DEF PromptIs, Using, Placeholder
    <2>6. cache.diskHit = FALSE BY <1>7, <1>9, <2>4 DEF IInv, Sourced, Using
    <2>7. Sourced' BY <1>1, <1>6, <1>9, <2>1, <2>2, <2>3, <2>4, <2>6 DEF Sourced, Using, Used
    <2>8. Taking' BY <1>1, <2>1 DEF Taking
    <2> QED BY <1>3, <1>4, <2>5, <2>7, <2>8 DEF Agreed
  <1>10. ASSUME ~Using, NEW s \in LookupFull(FullKey), cache' = [cache EXCEPT !.slot = s],
                req' = IF Compressed THEN [req EXCEPT !.prompt = Placeholder(Len(snap[s]))] ELSE req
         PROVE  Agreed'
    <2>1. s \in Full \ Open /\ key[s] = ServedKey(req.wire, req.form)
      BY <1>2, <1>5, <1>10 DEF LookupFull, FullKey, ServedKey, Wanted
    <2>2. snap[s] = Wanted BY <2>1, <1>5 DEF IInv, Records, Wanted
    <2>3. Used(s) /\ IsPrefix(snap[s], Wanted) BY <2>2, <1>5 DEF Used
    <2> QED BY <1>9, <1>10, <2>1, <2>2, <2>3
  <1>11. ASSUME ~Using, NEW s \in LookupInline(req.prompt), cache' = [cache EXCEPT !.slot = s], req' = req
         PROVE  Agreed'
    <2>1. s \in Inline \ Open /\ key[s] # <<>> /\ IsPrefix(key[s], Wanted)
      BY <1>2, <1>5, <1>11 DEF LookupInline
    <2>2. Used(s) /\ IsPrefix(snap[s], key[s]) BY <2>1 DEF IInv, Records
    <2>3. snap[s] \in Tokens /\ key[s] \in Tokens BY <2>1, SlotsApart DEF IInv, Shape
    <2>4. IsPrefix(snap[s], Wanted) BY <2>1, <2>2, <2>3, <1>5, PrefixOfPrefix
    <2> QED BY <1>9, <1>11, <2>1, <2>2, <2>4
  <1> QED BY <1>8, <1>10, <1>11 DEF Lookup

\* A snapshot of a prefix of the prompt comes into the staging slot.
LEMMA StagingKeeps ==
    ASSUME Setting, IInv, ~Using, NEW tokens \in Tokens, tokens # <<>>, IsPrefix(tokens, Wanted),
           snap' = [snap EXCEPT ![Staging] = tokens],
           cache' = [cache EXCEPT !.slot = Staging, !.diskHit = TRUE],
           UNCHANGED <<key, slotTokens, agentSlots, req, result>>,
           pc \in {"disk", "cold"}, pc' \in {"validate", "prepare"},
           OnDisk'
    PROVE  Agreed'
  <1>1. cache \in CacheState /\ snap \in [Slot -> Tokens] BY DEF IInv, Shape
  <1>2. /\ cache'.slot = Staging /\ cache'.diskHit = TRUE /\ cache'.snap = NoSlot /\ cache'.full = NoSlot
    BY <1>1 DEF IInv, Shape
  <1>3. req.prompt = Wanted BY WantedIs
  <1>4. Wanted' = Wanted BY DEF Wanted
  <1>5. /\ snap'[Staging] = tokens
        /\ \A s \in Inline \cup Full : snap'[s] = snap[s]
    BY <1>1, SlotsApart
  <1>6. Open = {} /\ Open' = {} BY DEF Open
  <1>7. PromptIs' BY <1>3, <1>4 DEF PromptIs
  <1>8. Sourced' BY <1>2, <1>3, <1>4, <1>5 DEF Sourced, Used
  <1>9. Taking' BY <1>2 DEF Taking
  <1>10. Records' BY <1>5, <1>6 DEF IInv, Records, SlotTokensHeld, Used
  <1> QED BY <1>7, <1>8, <1>9, <1>10 DEF Agreed

\* What is loaded from disk is what was saved under its key.
LEMMA DiskHitKeeps ==
    ASSUME Setting, IInv, NEW e \in disk, DiskHit(e)
    PROVE  Agreed'
  <1>1. /\ pc = "disk" /\ pc' = "validate" /\ ~Using /\ IsPrefix(e.key, req.prompt)
        /\ snap' = [snap EXCEPT ![Staging] = e.tokens]
        /\ cache' = [cache EXCEPT !.slot = Staging, !.diskHit = TRUE]
        /\ UNCHANGED <<key, slotTokens, agentSlots, disk, req, result>>
    BY DEF DiskHit
  <1>2. e.key \in Tokens /\ e.tokens \in Tokens BY DEF IInv, Shape
  <1>3. req.prompt = Wanted /\ Wanted \in Tokens /\ Wanted[1] # Blank BY <1>1, WantedIs
  <1>4. e.key # <<>> /\ (e.key[1] # Blank => e.tokens # <<>> /\ IsPrefix(e.tokens, e.key))
    BY DEF IInv, OnDisk
  <1>5. e.key[1] = Wanted[1] BY <1>1, <1>2, <1>3, <1>4, PrefixEnds
  <1>6. e.tokens # <<>> /\ IsPrefix(e.tokens, Wanted) BY <1>1, <1>2, <1>3, <1>4, <1>5, PrefixOfPrefix
  <1>7. OnDisk' BY <1>1 DEF IInv, OnDisk
  <1> QED BY <1>1, <1>2, <1>6, <1>7, StagingKeeps

\* A prefill into the staging slot leaves the slots what they are.
LEMMA PrefillKeeps ==
    ASSUME Setting, IInv, ~Using, NEW n \in 1 .. Len(req.prompt), PrefillStaging(n),
           pc \in {"disk", "cold"}, pc' \in {"validate", "prepare"}
    PROVE  Agreed'
  <1> DEFINE u == Upto(req.prompt, n)
  <1>1. req.prompt = Wanted /\ Wanted \in Tokens /\ Len(req.prompt) \in Nat BY WantedIs
  <1>2. u \in Tokens /\ u # <<>> /\ IsPrefix(u, Wanted)
    <2>1. n \in 0 .. Len(req.prompt) /\ n # 0 BY <1>1
    <2> QED BY <1>1, <2>1, UptoIs
  <1>3. /\ snap' = [snap EXCEPT ![Staging] = u]
        /\ cache' = [cache EXCEPT !.slot = Staging, !.diskHit = TRUE]
        /\ disk' \subseteq disk \cup {Entry(u, u)}
        /\ UNCHANGED <<key, slotTokens, agentSlots, req, result>>
    BY StoredIs DEF PrefillStaging
  <1> HIDE DEF u
  <1>4. IsPrefix(u, u) BY <1>2, PrefixOfSelf
  <1>5. OnDisk' BY <1>2, <1>3, <1>4 DEF IInv, OnDisk, Entry
  <1> QED BY <1>2, <1>3, <1>5, StagingKeeps

\* A step that only moves on.
LEMMA MovingKeeps ==
    ASSUME Setting, IInv, UNCHANGED <<snap, key, slotTokens, agentSlots, disk, req, cache, result>>,
           \/ pc = "disk" /\ pc' = "validate"
           \/ pc = "validate" /\ pc' = "cold"
           \/ pc = "cold" /\ pc' = "prepare"
           \/ pc = "prepare" /\ pc' = "generate"
    PROVE  Agreed'
  <1>1. cache.snap = NoSlot /\ cache.full = NoSlot BY DEF IInv, Shape
  <1>2. \A s \in Inline \cup Full : s \notin Open /\ s \notin Open' BY <1>1, SlotsApart DEF Open
  <1>3. PromptIs' BY DEF IInv, PromptIs, Using, Compressed, Wanted
  <1>4. Sourced' BY DEF IInv, Sourced, Using, Used, Wanted
  <1>5. Taking' BY <1>1 DEF Taking
  <1>6. Records' BY <1>2 DEF IInv, Records, SlotTokensHeld, Used
  <1>7. OnDisk' BY DEF IInv, OnDisk
  <1> QED BY <1>3, <1>4, <1>5, <1>6, <1>7 DEF Agreed

\* The snapshot to be restored is never refused.
LEMMA ValidateKeeps ==
    ASSUME Setting, IInv, Validate
    PROVE  Agreed'
  <1>1. pc = "validate" /\ pc' = "cold" /\ UNCHANGED <<disk, req, result>> BY DEF Validate
  <1>2. /\ Wanted \in Tokens /\ Len(req.prompt) = Len(Wanted) /\ Len(Wanted) \in Nat BY <1>1, WantedIs
  <1>3. Using => Len(snap[cache.slot]) \in 1 .. Len(req.prompt)
    <2> SUFFICES ASSUME Using PROVE Len(snap[cache.slot]) \in 1 .. Len(req.prompt) OBVIOUS
    <2>1. snap[cache.slot] \in Tokens BY DEF IInv, Shape, Using
    <2>2. snap[cache.slot] # <<>> /\ IsPrefix(snap[cache.slot], Wanted) BY <1>1 DEF IInv, Sourced, Used
    <2>3. Len(snap[cache.slot]) <= Len(Wanted) /\ Len(snap[cache.slot]) \in Nat /\ Len(snap[cache.slot]) # 0
      BY <1>2, <2>1, <2>2, PrefixEnds, PrefixOfSelf
    <2> QED BY <1>2, <2>3
  <1>4. UNCHANGED <<snap, key, slotTokens, agentSlots, cache>> BY <1>3 DEF Validate, memory
  <1> QED BY <1>1, <1>4, MovingKeeps

\* The slot prepared for a prefix agrees with nothing until it is confirmed.
LEMMA PrepareInlineKeeps ==
    ASSUME Setting, IInv, NEW s \in Inline, NEW n \in 1 .. Len(req.prompt), PrepareInline(s, n)
    PROVE  Agreed'
  <1>1. /\ pc = "prepare" /\ pc' = "generate" /\ UNCHANGED <<disk, req, result>>
        /\ n > (IF Using THEN Len(snap[cache.slot]) ELSE 0)
    BY DEF PrepareInline
  <1>2. CASE s = cache.slot BY <1>1, <1>2, MovingKeeps DEF PrepareInline, memory
  <1>3. CASE s # cache.slot
    <2>1. /\ snap' = [snap EXCEPT ![s] = <<>>] /\ UNCHANGED key
          /\ cache' = [cache EXCEPT !.snap = s, !.cut = n] /\ ForgetSlot(s)
      BY <1>3 DEF PrepareInline
    <2>2. /\ cache \in CacheState /\ snap \in [Slot -> Tokens] /\ slotTokens \in [Inline -> Tokens]
          /\ cache.full = NoSlot /\ cache.slot \in Slot \cup {NoSlot} /\ n \in Nat /\ n > 0
      BY <1>1, WantedIs DEF IInv, Shape
    <2>3. /\ cache'.slot = cache.slot /\ cache'.diskHit = cache.diskHit
          /\ cache'.snap = s /\ cache'.full = NoSlot /\ cache'.cut = n
      BY <2>1, <2>2
    <2>4. /\ snap'[s] = <<>> /\ slotTokens'[s] = <<>> /\ s \notin agentSlots'
          /\ \A t \in Slot \ {s} : snap'[t] = snap[t]
          /\ \A t \in Inline \ {s} : slotTokens'[t] = slotTokens[t] /\ (t \in agentSlots' => t \in agentSlots)
      BY <2>1, <2>2, SlotsApart DEF ForgetSlot
    <2>5. /\ Wanted \in Tokens /\ Len(Wanted) \in Nat /\ Len(req.prompt) = Len(Wanted)
          /\ IsPrefix(<<>>, Wanted) /\ Len(<<>>) = 0
          /\ req.prompt # Wanted => Using
      BY <1>1, WantedIs, PrefixOfSelf
    <2>6. req.prompt = Wanted
      <3>1. CASE Using /\ snap[cache.slot] = Wanted BY <1>1, <2>2, <2>5, <3>1
      <3> QED BY <1>1, <2>5, <3>1 DEF IInv, Sourced
    <2>7. Wanted' = Wanted BY <1>1 DEF Wanted
    <2>8. PromptIs' BY <1>1, <2>6, <2>7 DEF PromptIs
    <2>9. Sourced'
      <3>1. snap'[Staging] = snap[Staging] BY <2>4, SlotsApart
      <3>2. Using => snap'[cache.slot] = snap[cache.slot] BY <1>3, <2>2, <2>4 DEF Using
      <3> QED BY <1>1, <2>3, <2>7, <3>1, <3>2 DEF IInv, Sourced, Using, Used
    <2>10. Taking' BY <1>1, <1>3, <2>2, <2>3, <2>4, <2>5, <2>6, <2>7 DEF Taking
    <2>11. Records'
      <3>1. Open = {} /\ Open' = {s, NoSlot} BY <1>1, <2>3 DEF Open
      <3>2. \A t \in (Inline \cup Full) \ {s} : snap'[t] = snap[t] BY <2>4, SlotsApart
      <3>3. Records BY DEF IInv
      <3>4. SlotTokensHeld' BY <2>4, <3>2, <3>3 DEF Records, SlotTokensHeld, Used
      <3> QED BY <2>1, <3>1, <3>2, <3>3, <3>4, SlotsApart DEF Records, Used
    <2>12. OnDisk' BY <1>1 DEF IInv, OnDisk
    <2> QED BY <2>8, <2>9, <2>10, <2>11, <2>12 DEF Agreed
  <1> QED BY <1>2, <1>3

\* Nor does the slot prepared for the whole prompt.
LEMMA PrepareFullKeeps ==
    ASSUME Setting, IInv, NEW s \in Full, PrepareFull(s)
    PROVE  Agreed'
  <1>1. /\ pc = "prepare" /\ pc' = "generate" /\ ~Using
        /\ snap' = [snap EXCEPT ![s] = <<>>] /\ cache' = [cache EXCEPT !.full = s]
        /\ UNCHANGED <<key, slotTokens, agentSlots, disk, req, result>>
    BY DEF PrepareFull
  <1>2. /\ cache \in CacheState /\ snap \in [Slot -> Tokens] /\ cache.snap = NoSlot BY <1>1 DEF IInv, Shape
  <1>3. /\ cache'.slot = NoSlot /\ cache'.diskHit = cache.diskHit
        /\ cache'.snap = NoSlot /\ cache'.full = s
    BY <1>1, <1>2 DEF Using
  <1>4. snap'[s] = <<>> /\ \A t \in Slot \ {s} : snap'[t] = snap[t] BY <1>1, <1>2, SlotsApart
  <1>5. req.prompt = Wanted /\ Wanted' = Wanted BY <1>1, WantedIs DEF Wanted
  <1>6. PromptIs' BY <1>1, <1>5 DEF PromptIs
  <1>7. Sourced'
    <2>1. snap'[Staging] = snap[Staging] BY <1>4, SlotsApart
    <2> QED BY <1>1, <1>3, <2>1 DEF IInv, Sourced, Using, Used
  <1>8. Taking' BY <1>1, <1>3, <1>4 DEF Taking
  <1>9. Records'
    <2>1. Open = {} /\ Open' = {s, NoSlot} BY <1>1, <1>3 DEF Open
    <2>2. \A t \in (Inline \cup Full) \ {s} : snap'[t] = snap[t] BY <1>4, SlotsApart
    <2>3. Records BY DEF IInv
    <2>4. SlotTokensHeld' BY <1>1, <2>2, <2>3, SlotsApart DEF Records, SlotTokensHeld, Used
    <2> QED BY <1>1, <2>1, <2>2, <2>3, <2>4, SlotsApart DEF Records, Used
  <1>10. OnDisk' BY <1>1 DEF IInv, OnDisk
  <1> QED BY <1>6, <1>7, <1>8, <1>9, <1>10 DEF Agreed

\* A generation from what is to be served; what it leaves in its slots is a
\* part of that.
LEMMA RunKeeps ==
    ASSUME Setting, IInv, NEW offset \in Nat, Run(Wanted, offset)
    PROVE  Agreed'
  <1>1. /\ pc = "generate" /\ pc' = "finalize" /\ result'.context = Wanted
        /\ UNCHANGED <<key, slotTokens, agentSlots, disk, req, cache>>
    BY DEF Run
  <1>2. /\ Wanted \in Tokens /\ Len(req.prompt) = Len(Wanted) /\ Len(Wanted) \in Nat /\ IsPrefix(Wanted, Wanted)
    BY <1>1, WantedIs
  <1>3. /\ cache \in CacheState /\ snap \in [Slot -> Tokens] /\ cache.cut <= Len(req.prompt)
        /\ cache.full # NoSlot => cache.snap = NoSlot /\ cache.slot = NoSlot
    BY DEF IInv, Shape
  <1>4. Wanted' = Wanted /\ Open' = Open BY <1>1 DEF Wanted, Open
  <1>5. \A s \in Slot \ {cache.snap, cache.full} : snap'[s] = snap[s]
    BY <1>3 DEF Run, Snapshot
  <1>6. cache.full # NoSlot => snap'[cache.full] \in {<<>>, Wanted}
    <2> SUFFICES ASSUME cache.full # NoSlot PROVE snap'[cache.full] \in {<<>>, Wanted} OBVIOUS
    <2>1. CASE UNCHANGED snap BY <1>1, <2>1 DEF IInv, Taking
    <2>2. ASSUME NEW tokens \in Taken(Wanted, offset), Snapshot(tokens) PROVE snap'[cache.full] = Wanted
      <3>1. tokens = Wanted BY <2>2 DEF Taken
      <3>2. cache.full \in Slot BY <1>3, SlotsApart
      <3> QED BY <2>2, <3>1, <3>2 DEF Snapshot
    <2> QED BY <2>1, <2>2 DEF Run
  <1>7. cache.snap # NoSlot => IsPrefix(snap'[cache.snap], Wanted) /\ Len(snap'[cache.snap]) <= cache.cut
    <2> SUFFICES ASSUME cache.snap # NoSlot
                 PROVE  IsPrefix(snap'[cache.snap], Wanted) /\ Len(snap'[cache.snap]) <= cache.cut
      OBVIOUS
    <2>1. CASE UNCHANGED snap BY <1>1, <2>1 DEF IInv, Taking
    <2>2. ASSUME NEW tokens \in Taken(Wanted, offset), Snapshot(tokens)
          PROVE  IsPrefix(snap'[cache.snap], Wanted) /\ Len(snap'[cache.snap]) <= cache.cut
      <3>1. cache.full = NoSlot /\ cache.snap \in Slot BY <1>3, SlotsApart
      <3>2. PICK n \in offset + 1 .. cache.cut : tokens = Upto(Wanted, n) BY <2>2, <3>1 DEF Taken
      <3>3. n \in 0 .. Len(Wanted) /\ n <= cache.cut BY <1>2, <1>3, <3>2
      <3>4. IsPrefix(tokens, Wanted) /\ Len(tokens) = n BY <1>2, <3>2, <3>3, UptoIs
      <3>5. snap'[cache.snap] = tokens BY <2>2, <3>1 DEF Snapshot
      <3> QED BY <3>3, <3>4, <3>5
    <2> QED BY <2>1, <2>2 DEF Run
  <1>8. PromptIs' BY <1>1, <1>4 DEF IInv, PromptIs, Using, Compressed, Wanted, Placeholder
  <1>9. Sourced'
    <2>1. snap'[Staging] = snap[Staging] BY <1>3, <1>5, SlotsApart
    <2>2. Using => snap'[cache.slot] = snap[cache.slot]
      <3> SUFFICES ASSUME Using PROVE snap'[cache.slot] = snap[cache.slot] OBVIOUS
      <3>1. cache.slot \in Slot /\ cache.full = NoSlot /\ cache.slot # cache.full BY <1>3 DEF Using
      <3>2. cache.slot # cache.snap BY <3>1 DEF IInv, Taking, Using
      <3> QED BY <1>5, <3>1, <3>2
    <2> QED BY <1>1, <1>4, <2>1, <2>2 DEF IInv, Sourced, Using, Used
  <1>10. Taking' BY <1>1, <1>4, <1>6, <1>7 DEF IInv, Taking
  <1>11. Records'
    <2>1. Open = {cache.snap, cache.full} BY <1>1 DEF Open
    <2>2. \A t \in (Inline \cup Full) \ Open : snap'[t] = snap[t] BY <1>5, <2>1, SlotsApart
    <2>3. Records BY DEF IInv
    <2>4. SlotTokensHeld'
      <3> SUFFICES ASSUME NEW s \in Inline
                   PROVE  /\ slotTokens[s] # <<>> => snap'[s] # <<>> /\ IsPrefix(snap'[s], slotTokens[s])
                          /\ s \in agentSlots => slotTokens[s] # <<>>
        BY <1>1 DEF SlotTokensHeld, Used
      <3>1. CASE s = cache.snap BY <1>1, <3>1, SlotsApart DEF IInv, Taking
      <3>2. CASE s # cache.snap
        <4>1. s # cache.full /\ s \notin Open BY <1>3, <2>1, <3>2, SlotsApart
        <4> QED BY <2>2, <2>3, <4>1 DEF Records, SlotTokensHeld, Used
      <3> QED BY <3>1, <3>2
    <2> QED BY <1>1, <1>4, <2>2, <2>3, <2>4 DEF Records, Used
  <1>12. OnDisk' BY <1>1 DEF IInv, OnDisk
  <1> QED BY <1>8, <1>9, <1>10, <1>11, <1>12 DEF Agreed

\* Generation writes the slots it was told to, and no other.
LEMMA GenerateKeeps ==
    ASSUME Setting, IInv, Generate \/ RestoreAndGenerate \/ RetryFresh
    PROVE  Agreed'
  <1>1. pc = "generate" BY DEF Generate, RestoreAndGenerate, RetryFresh, Run
  <1>2. /\ Wanted \in Tokens /\ req.prompt \in Tokens /\ Len(req.prompt) = Len(Wanted) /\ Len(Wanted) \in Nat
        /\ ~Using => req.prompt = Wanted
    BY <1>1, WantedIs
  <1>3. Using => /\ snap[cache.slot] \in Tokens /\ Len(snap[cache.slot]) \in Nat
                 /\ IsPrefix(snap[cache.slot], Wanted)
                 /\ req.prompt # Wanted => snap[cache.slot] = Wanted
    BY <1>1, PrefixOfSelf DEF IInv, Shape, Sourced, Using
  <1>4. CASE Generate BY <1>2, <1>4, RunKeeps DEF Generate
  <1>5. CASE RestoreAndGenerate
    <2>1. Using /\ Run(snap[cache.slot] \o Rest(req.prompt, Len(snap[cache.slot])), Len(snap[cache.slot]))
      BY <1>5 DEF RestoreAndGenerate
    <2>2. snap[cache.slot] \o Rest(req.prompt, Len(snap[cache.slot])) = Wanted
      <3>1. CASE req.prompt = Wanted BY <1>2, <1>3, <2>1, <3>1, Behind
      <3>2. CASE req.prompt # Wanted
        <4>1. Len(snap[cache.slot]) >= Len(req.prompt) BY <1>2, <1>3, <2>1, <3>2
        <4> QED BY <1>2, <1>3, <2>1, <3>2, <4>1, Behind
      <3> QED BY <3>1, <3>2
    <2> QED BY <1>3, <2>1, <2>2, RunKeeps
  <1>6. CASE RetryFresh
    <2>1. Using /\ Len(snap[cache.slot]) < Len(req.prompt) /\ Run(req.prompt, 0) BY <1>6 DEF RetryFresh
    <2>2. req.prompt = Wanted BY <1>2, <1>3, <2>1
    <2> QED BY <2>1, <2>2, RunKeeps
  <1> QED BY <1>4, <1>5, <1>6

\* What the slots this request wrote to hold once it is settled, and the key
\* they are found under.
LEMMA FinalizeSlots ==
    ASSUME Setting, IInv, Finalize
    PROVE  /\ \A s \in (Inline \cup Full) \ {cache.snap, cache.full} :
                /\ snap'[s] = snap[s] /\ key'[s] = key[s]
                /\ s \in Inline => slotTokens'[s] = slotTokens[s]
           /\ cache.snap # NoSlot =>
                LET s == cache.snap
                IN  \/ snap'[s] = <<>> /\ key'[s] = <<>> /\ slotTokens'[s] = <<>>
                    \/ /\ snap'[s] = snap[s] /\ Used(s)
                       /\ key'[s] = Upto(Wanted, cache.cut) /\ slotTokens'[s] = Upto(Wanted, cache.cut)
                       /\ IsPrefix(snap[s], Upto(Wanted, cache.cut)) /\ Upto(Wanted, cache.cut) # <<>>
           /\ cache.full # NoSlot =>
                \/ snap'[cache.full] = <<>> /\ key'[cache.full] = <<>>
                \/ /\ snap'[cache.full] = Wanted
                   /\ key'[cache.full] = ServedKey(req.wire, req.form)
           /\ snap'[Staging] = <<>>
           /\ \A s \in Slot : snap'[s] \in {snap[s], <<>>}
  <1>1. /\ pc = "finalize"
        /\ snap' = [s \in Slot |-> IF s \in Dropped \/ (s = Staging /\ cache.diskHit) THEN <<>>
                                   ELSE snap[s]]
        /\ key' = [s \in Inline \cup Full |->
                     IF s \in Dropped THEN <<>>
                     ELSE IF s = cache.snap THEN Upto(req.prompt, cache.cut)
                     ELSE IF s = cache.full THEN FullKey
                     ELSE key[s]]
        /\ slotTokens' = [s \in Inline |-> IF s = cache.snap /\ Kept(s)
                                           THEN Upto(req.prompt, cache.cut) ELSE slotTokens[s]]
    BY DEF Finalize
  <1>2. /\ cache \in CacheState /\ snap \in [Slot -> Tokens] /\ cache.cut <= Len(req.prompt)
        /\ cache.full # NoSlot => cache.snap = NoSlot /\ cache.slot = NoSlot
    BY DEF IInv, Shape
  <1>3. /\ Wanted \in Tokens /\ Wanted # <<>> /\ Len(Wanted) \in Nat /\ Len(req.prompt) = Len(Wanted)
        /\ req.wire \in Prompt /\ req.form \in DOMAIN Served[req.wire]
        /\ ~Using => req.prompt = Wanted
    BY <1>1, WantedIs
  <1>4. \A s : s \in Dropped <=> s \in {cache.snap, cache.full} /\ s # NoSlot /\ ~Kept(s) BY DEF Dropped
  <1>5. ASSUME NEW s \in (Inline \cup Full) \ {cache.snap, cache.full}
        PROVE  /\ snap'[s] = snap[s] /\ key'[s] = key[s]
               /\ s \in Inline => slotTokens'[s] = slotTokens[s]
    <2>1. s \notin Dropped /\ s # Staging /\ s \in Slot BY <1>4, <1>5, SlotsApart
    <2> QED BY <1>1, <1>5, <2>1
  <1>6. ASSUME cache.snap # NoSlot, NEW s, s = cache.snap
        PROVE  \/ snap'[s] = <<>> /\ key'[s] = <<>> /\ slotTokens'[s] = <<>>
               \/ /\ snap'[s] = snap[s] /\ Used(s)
                  /\ key'[s] = Upto(Wanted, cache.cut) /\ slotTokens'[s] = Upto(Wanted, cache.cut)
                  /\ IsPrefix(snap[s], Upto(Wanted, cache.cut)) /\ Upto(Wanted, cache.cut) # <<>>
    <2>1. s \in Inline /\ s \in Slot /\ s # Staging /\ s # NoSlot /\ s # cache.full
      BY <1>2, <1>6, SlotsApart
    <2>2. /\ cache.cut \in 0 .. Len(Wanted) /\ cache.cut # 0 /\ req.prompt = Wanted
          /\ IsPrefix(snap[s], Wanted) /\ Len(snap[s]) <= cache.cut /\ slotTokens[s] = <<>>
      BY <1>1, <1>2, <1>3, <1>6 DEF IInv, Taking
    <2>3. CASE Kept(s)
      <3>1. s \notin Dropped /\ Used(s) BY <1>4, <2>3 DEF Kept
      <3>2. /\ snap'[s] = snap[s]
            /\ key'[s] = Upto(Wanted, cache.cut) /\ slotTokens'[s] = Upto(Wanted, cache.cut)
        BY <1>1, <1>6, <2>1, <2>2, <2>3, <3>1
      <3>3. IsPrefix(snap[s], Upto(Wanted, cache.cut)) BY <1>2, <1>3, <2>1, <2>2, PrefixWithin
      <3>4. Upto(Wanted, cache.cut) # <<>> BY <1>3, <2>2, UptoIs
      <3> QED BY <3>1, <3>2, <3>3, <3>4
    <2>4. CASE ~Kept(s)
      <3>1. s \in Dropped BY <1>4, <1>6, <2>1, <2>4
      <3> QED BY <1>1, <2>1, <2>2, <2>4, <3>1
    <2> QED BY <2>3, <2>4
  <1>7. ASSUME cache.full # NoSlot, NEW s, s = cache.full
        PROVE  \/ snap'[s] = <<>> /\ key'[s] = <<>>
               \/ snap'[s] = Wanted /\ key'[s] = ServedKey(req.wire, req.form)
    <2>1. s \in Full /\ s \in Slot /\ s # Staging /\ s # NoSlot /\ s # cache.snap
      BY <1>2, <1>7, SlotsApart
    <2>2. snap[s] \in {<<>>, Wanted} BY <1>1, <1>7 DEF IInv, Taking
    <2>3. FullKey = ServedKey(req.wire, req.form) BY <1>2, <1>3, <1>7 DEF FullKey, ServedKey, Using, Wanted
    <2>4. CASE Kept(s)
      <3>1. s \notin Dropped /\ snap[s] = Wanted BY <1>4, <2>2, <2>4 DEF Kept, Used
      <3> QED BY <1>1, <1>7, <2>1, <2>3, <3>1
    <2>5. CASE ~Kept(s)
      <3>1. s \in Dropped BY <1>4, <1>7, <2>1, <2>5
      <3> QED BY <1>1, <2>1, <3>1
    <2> QED BY <2>4, <2>5
  <1>8. snap'[Staging] = <<>>
    <2>1. CASE cache.diskHit BY <1>1, <2>1, SlotsApart
    <2>2. CASE ~cache.diskHit
      <3>1. snap[Staging] = <<>> BY <2>2 DEF IInv, Sourced, Used
      <3> QED BY <1>1, <3>1, SlotsApart
    <2> QED BY <2>1, <2>2
  <1>9. \A s \in Slot : snap'[s] \in {snap[s], <<>>} BY <1>1
  <1> QED BY <1>5, <1>6, <1>7, <1>8, <1>9

\* What is confirmed at the end is what the backend wrote, and the rest is aborted.
LEMMA FinalizeKeeps ==
    ASSUME Setting, IInv, Finalize
    PROVE  Agreed'
  <1>1. pc = "finalize" /\ pc' = "turn" /\ UNCHANGED <<agentSlots, req, cache, result>> BY DEF Finalize
  <1>2. /\ cache \in CacheState /\ snap \in [Slot -> Tokens]
        /\ cache.full # NoSlot => cache.snap = NoSlot /\ cache.slot = NoSlot
    BY DEF IInv, Shape
  <1>3. /\ Wanted \in Tokens /\ Wanted # <<>> /\ IsPrefix(Wanted, Wanted) /\ IsPrefix(<<>>, Wanted)
        /\ req.wire \in Prompt /\ req.form \in DOMAIN Served[req.wire]
        /\ req.prompt \in Tokens /\ Len(req.prompt) = Len(Wanted) /\ Len(Wanted) > 0 /\ Len(<<>>) = 0
        /\ req.prompt # Wanted => req.prompt[1] = Blank
    BY <1>1, WantedIs, PrefixOfSelf
  <1>4. Wanted' = Wanted BY <1>1 DEF Wanted
  <1>5. PromptIs' BY <1>1, <1>4 DEF IInv, PromptIs, Using, Compressed, Wanted, Placeholder
  <1>6. Sourced'
    <2>1. snap'[Staging] = <<>> BY FinalizeSlots
    <2>2. Using /\ ~cache.diskHit => snap'[cache.slot] = snap[cache.slot]
      <3> SUFFICES ASSUME Using, ~cache.diskHit PROVE snap'[cache.slot] = snap[cache.slot] OBVIOUS
      <3>1. cache.slot # Staging BY DEF IInv, Sourced
      <3>2. cache.slot \in Inline \cup Full BY <1>2, <3>1 DEF Using, Slot
      <3>3. cache.slot # cache.full BY <1>2 DEF Using
      <3>4. cache.slot # cache.snap BY DEF IInv, Taking, Using
      <3> QED BY <3>2, <3>3, <3>4, FinalizeSlots
    <2> QED BY <1>1, <1>4, <2>1, <2>2 DEF IInv, Sourced, Using, Used
  <1>7. Taking'
    <2>1. cache.snap # NoSlot => IsPrefix(snap'[cache.snap], Wanted)
      <3> SUFFICES ASSUME cache.snap # NoSlot PROVE IsPrefix(snap'[cache.snap], Wanted) OBVIOUS
      <3>1. cache.snap \in Slot BY <1>2, SlotsApart
      <3>2. snap'[cache.snap] \in {snap[cache.snap], <<>>} BY <3>1, FinalizeSlots
      <3> QED BY <1>3, <3>2 DEF IInv, Taking
    <2> QED BY <1>1, <1>4, <2>1 DEF IInv, Taking
  <1>8. Records'
    <2>1. Open = {cache.snap, cache.full} /\ Open' = {} BY <1>1 DEF Open
    <2>2. Records BY DEF IInv
    <2>3. IsPrefix(<<>>, <<>>) /\ ServedKey(req.wire, req.form) # <<>> BY <1>3, KeyIs, PrefixOfSelf
    <2>4. ASSUME NEW s \in Inline \cup Full PROVE key'[s] = <<>> <=> snap'[s] = <<>>
      <3>1. CASE s \notin Open BY <2>1, <2>2, <3>1, FinalizeSlots DEF Records, Used
      <3>2. CASE s = cache.snap BY <3>2, SlotsApart, FinalizeSlots DEF Used
      <3>3. CASE s = cache.full BY <1>3, <2>3, <3>3, SlotsApart, FinalizeSlots
      <3> QED BY <2>1, <3>1, <3>2, <3>3
    <2>5. ASSUME NEW s \in Inline
          PROVE  /\ IsPrefix(snap'[s], key'[s])
                 /\ slotTokens'[s] # <<>> => snap'[s] # <<>> /\ IsPrefix(snap'[s], slotTokens'[s])
                 /\ s \in agentSlots' => slotTokens'[s] # <<>>
      <3>1. s # cache.full BY <1>2, SlotsApart
      <3>2. CASE s = cache.snap
        <4>1. cache.snap # NoSlot BY <3>2, SlotsApart
        <4>2. s \notin agentSlots' BY <1>1, <3>2, <4>1 DEF IInv, Taking
        <4> QED BY <2>3, <3>2, <4>1, <4>2, FinalizeSlots DEF Used
      <3>3. CASE s # cache.snap
        <4>1. snap'[s] = snap[s] /\ key'[s] = key[s] /\ slotTokens'[s] = slotTokens[s]
          BY <3>1, <3>3, FinalizeSlots
        <4> QED BY <1>1, <2>1, <2>2, <3>1, <3>3, <4>1 DEF Records, SlotTokensHeld, Used
      <3> QED BY <3>2, <3>3
    <2>6. ASSUME NEW s \in Full, NEW w \in Prompt, NEW f \in DOMAIN Served[w], key'[s] = ServedKey(w, f)
          PROVE  snap'[s] = Served[w][f]
      <3>1. s # cache.snap BY <1>2, SlotsApart
      <3>2. CASE s = cache.full
        <4>1. cache.full # NoSlot BY <3>2, SlotsApart
        <4>2. ServedKey(w, f) # <<>> BY KeyIs
        <4>3. snap'[s] = Wanted /\ key'[s] = ServedKey(req.wire, req.form)
          BY <2>6, <3>2, <4>1, <4>2, FinalizeSlots
        <4>4. OneForm BY DEF Setting
        <4> QED BY <1>3, <2>6, <4>3, <4>4 DEF OneForm, Wanted
      <3>3. CASE s # cache.full
        <4>1. snap'[s] = snap[s] /\ key'[s] = key[s] BY <3>1, <3>3, FinalizeSlots
        <4>2. s \in Full \ Open /\ key[s] = ServedKey(w, f) BY <2>1, <2>6, <3>1, <3>3, <4>1
        <4> QED BY <2>2, <4>1, <4>2 DEF Records
      <3> QED BY <3>2, <3>3
    <2> QED BY <2>1, <2>4, <2>5, <2>6 DEF Records, SlotTokensHeld, Used
  <1>9. OnDisk'
    <2>1. disk' \subseteq disk \cup SavedNow BY StoredIs DEF Finalize
    <2>2. ASSUME NEW e \in SavedNow
          PROVE  e.key # <<>> /\ (e.key[1] # Blank => e.tokens # <<>> /\ IsPrefix(e.tokens, e.key))
      <3>1. \/ Kept(cache.snap) /\ e = Entry(req.prompt, snap[cache.snap])
            \/ e = Entry(Append(req.prompt, Answer), result.context)
        BY DEF SavedNow
      <3>2. CASE Kept(cache.snap) /\ e = Entry(req.prompt, snap[cache.snap])
        <4>1. /\ req.prompt = Wanted /\ IsPrefix(snap[cache.snap], Wanted) /\ snap[cache.snap] # <<>>
          BY <3>2 DEF Kept, Used, IInv, Taking
        <4> QED BY <1>3, <3>2, <4>1 DEF Entry
      <3>3. CASE e = Entry(Append(req.prompt, Answer), result.context)
        <4>1. e.key = Append(req.prompt, Answer) /\ e.tokens = Wanted BY <1>1, <3>3 DEF Entry, IInv, Taking
        <4>2. req.prompt # <<>> BY <1>3
        <4>3. PICK k : k = Append(req.prompt, Answer) OBVIOUS
        <4>4. Answer \in Nat BY DEF Setting, SlotAssumption
        <4>5. k # <<>> /\ IsPrefix(req.prompt, k) /\ k[1] = req.prompt[1]
          BY <1>3, <4>2, <4>3, <4>4, AppendIs
        <4> QED BY <1>3, <4>1, <4>3, <4>5
      <3> QED BY <3>1, <3>2, <3>3
    <2> QED BY <2>1, <2>2 DEF IInv, OnDisk
  <1> QED BY <1>5, <1>6, <1>7, <1>8, <1>9 DEF Agreed

\* A request ends: only the slots and the disk are left to agree.
LEMMA EndKeeps ==
    ASSUME Setting, pc' = "idle", cache' = NoCache, snap'[Staging] = <<>>, Records', OnDisk'
    PROVE  Agreed'
  <1>1. /\ cache'.slot = NoSlot /\ cache'.diskHit = FALSE /\ cache'.snap = NoSlot /\ cache'.full = NoSlot
    BY DEF NoCache
  <1>2. NoSlot # Staging BY SlotsApart
  <1> QED BY <1>1, <1>2 DEF Agreed, PromptIs, Sourced, Taking, Using, Used

\* A replay is of the turn, behind a snapshot of a part of it.
LEMMA ReplayTurnKeeps ==
    ASSUME Setting, IInv, NEW t \in Canonical, NEW source \in Slot, NEW s \in Inline, ReplayTurn(t, source, s)
    PROVE  Agreed'
  <1>1. /\ pc = "turn" /\ pc' = "idle" /\ cache' = NoCache /\ UNCHANGED disk
        /\ req.form = "verbatim" /\ source \in Source(t)
    BY DEF ReplayTurn, EndRequest, Deepest
  <1>2. /\ snap \in [Slot -> Tokens] /\ key \in [Inline \cup Full -> Tokens]
        /\ slotTokens \in [Inline -> Tokens]
    BY DEF IInv, Shape
  <1>3. Wanted \in Tokens /\ req.prompt = Wanted
    <2>1. ~Compressed BY <1>1 DEF Compressed
    <2> QED BY <1>1, <2>1, WantedIs
  <1>4. t \in Tokens /\ Len(t) \in Nat BY <1>3, CanonicalIs, PrefixOfSelf DEF Setting
  <1>5. /\ source \in {cache.slot, cache.snap} /\ source # NoSlot
        /\ Len(snap[source]) \in 1 .. Len(t) /\ Upto(Wanted, Len(snap[source])) = Upto(t, Len(snap[source]))
    BY <1>1, <1>3 DEF Source
  <1>6. snap[source] \in Tokens /\ Len(snap[source]) \in Nat /\ Len(snap[source]) # 0 /\ snap[source] # <<>>
    <2>1. snap[source] \in Tokens BY <1>2
    <2> QED BY <1>4, <1>5, <2>1, PrefixOfSelf
  <1>7. IsPrefix(snap[source], Wanted)
    <2>1. CASE source = cache.snap BY <1>5, <2>1 DEF IInv, Taking
    <2>2. CASE source = cache.slot
      <3>1. ~cache.diskHit BY <1>1, <1>6, <2>2 DEF IInv, Sourced, Used
      <3> QED BY <1>5, <2>2, <3>1 DEF IInv, Sourced, Using
    <2> QED BY <1>5, <2>1, <2>2
  <1>8. IsPrefix(snap[source], t)
    <2>1. snap[source] = Upto(Wanted, Len(snap[source])) BY <1>3, <1>6, <1>7, PrefixUpto
    <2>2. Len(snap[source]) \in 0 .. Len(t) BY <1>5
    <2> QED BY <1>4, <1>5, <2>1, <2>2, UptoIs
  <1>9. snap[source] \o Rest(t, Len(snap[source])) = t BY <1>4, <1>6, <1>8, Behind
  <1>10. PICK n \in Len(snap[source]) .. Len(t) :
           LET saved == n > Len(snap[source])
           IN  /\ snap' = [snap EXCEPT ![s] = IF saved THEN Upto(t, n) ELSE <<>>]
               /\ key' = [key EXCEPT ![s] = IF saved THEN Upto(t, n) ELSE <<>>]
               /\ slotTokens' = [slotTokens EXCEPT ![s] = IF saved THEN Upto(t, n) ELSE <<>>]
               /\ agentSlots' = IF saved THEN agentSlots \cup {s} ELSE agentSlots \ {s}
    BY <1>9 DEF ReplayTurn
  <1>11. n \in 0 .. Len(t) /\ n # 0 BY <1>4, <1>5, <1>6
  <1>12. Upto(t, n) # <<>> /\ IsPrefix(Upto(t, n), Upto(t, n)) /\ IsPrefix(<<>>, <<>>)
    BY <1>4, <1>11, UptoIs, PrefixOfSelf
  <1>13. /\ snap'[s] = key'[s] /\ slotTokens'[s] = snap'[s] /\ IsPrefix(snap'[s], snap'[s])
         /\ s \in agentSlots' => slotTokens'[s] # <<>>
    BY <1>2, <1>10, <1>12, SlotsApart
  <1>14. /\ \A r \in (Inline \cup Full) \ {s} : snap'[r] = snap[r] /\ key'[r] = key[r]
         /\ \A r \in Inline \ {s} : slotTokens'[r] = slotTokens[r] /\ (r \in agentSlots' <=> r \in agentSlots)
    BY <1>2, <1>10, SlotsApart
  <1>15. snap'[Staging] = <<>>
    <2>1. snap[Staging] = <<>> BY <1>1 DEF IInv, Sourced, Used
    <2> QED BY <1>2, <1>10, <2>1, SlotsApart
  <1>16. Records'
    <2>1. Open = {} /\ Open' = {} BY <1>1 DEF Open
    <2>2. Records BY DEF IInv
    <2>3. SlotTokensHeld' BY <1>13, <1>14, <2>2 DEF Records, SlotTokensHeld, Used
    <2> QED BY <1>13, <1>14, <2>1, <2>2, <2>3, SlotsApart DEF Records, Used
  <1>17. OnDisk' BY <1>1 DEF IInv, OnDisk
  <1> QED BY <1>1, <1>15, <1>16, <1>17, EndKeeps

\* A request whose turn is not remembered leaves the slots alone.
LEMMA NoReplayKeeps == ASSUME Setting, IInv, NoReplay PROVE Agreed'
  <1>1. /\ pc = "turn" /\ pc' = "idle" /\ cache' = NoCache
        /\ UNCHANGED <<snap, key, slotTokens, agentSlots, disk>>
    BY DEF NoReplay, EndRequest, memory
  <1>2. Open = {} /\ Open' = {} BY <1>1 DEF Open
  <1>3. Records' BY <1>1, <1>2 DEF IInv, Records, SlotTokensHeld, Used
  <1>4. OnDisk' BY <1>1 DEF IInv, OnDisk
  <1>5. snap'[Staging] = <<>> BY <1>1 DEF IInv, Sourced, Used
  <1> QED BY <1>1, <1>3, <1>4, <1>5, EndKeeps

\* A restart keeps what is on disk.
LEMMA RestartKeeps == ASSUME Setting, IInv, Restart PROVE Agreed'
  <1>1. /\ pc = "idle" /\ pc' = "idle" /\ cache' = cache
        /\ snap' = [s \in Slot |-> <<>>]
        /\ key' = [s \in Inline \cup Full |-> <<>>]
        /\ slotTokens' = [s \in Inline |-> <<>>]
        /\ agentSlots' = {}
        /\ disk' \subseteq disk \cup {Entry(slotTokens[s], snap[s]) :
                                       s \in {t \in Inline : slotTokens[t] # <<>> /\ Used(t)}}
    BY StoredIs DEF Restart
  <1>2. cache' = NoCache BY <1>1 DEF IInv, Shape
  <1>3. /\ \A s \in Slot : snap'[s] = <<>>
        /\ \A s \in Inline \cup Full : key'[s] = <<>>
        /\ \A s \in Inline : slotTokens'[s] = <<>>
    BY <1>1
  <1>4. IsPrefix(<<>>, <<>>)
    <2>1. <<>> \in Tokens BY EmptySeq DEF Tokens
    <2> QED BY <2>1, PrefixOfSelf
  <1>5. Records' BY <1>1, <1>3, <1>4, KeyIs, SlotsApart DEF Records, SlotTokensHeld, Open, Used
  <1>6. \A s \in Inline : slotTokens[s] # <<>> => snap[s] # <<>> /\ IsPrefix(snap[s], slotTokens[s])
    BY DEF IInv, Records, SlotTokensHeld, Used
  <1>7. OnDisk' BY <1>1, <1>6 DEF IInv, OnDisk, Entry
  <1>8. snap'[Staging] = <<>> BY <1>3, SlotsApart
  <1> QED BY <1>1, <1>2, <1>5, <1>7, <1>8, EndKeeps

\* So does a step that changes nothing.
LEMMA StutterKeeps == ASSUME IInv, UNCHANGED vars PROVE Agreed'
  <1>1. UNCHANGED <<snap, key, slotTokens, agentSlots, disk, pc, req, cache, result>> BY DEF vars
  <1>2. PromptIs' BY <1>1 DEF IInv, PromptIs, Using, Compressed, Wanted, Placeholder
  <1>3. Sourced' BY <1>1 DEF IInv, Sourced, Using, Used, Wanted
  <1>4. Taking' BY <1>1 DEF IInv, Taking, Wanted
  <1>5. Records' BY <1>1 DEF IInv, Records, SlotTokensHeld, Used, Open
  <1>6. OnDisk' BY <1>1 DEF IInv, OnDisk
  <1> QED BY <1>2, <1>3, <1>4, <1>5, <1>6 DEF Agreed

\* Every step keeps the invariant.
LEMMA InvKept == ASSUME Setting, IInv, [Next]_vars PROVE IInv'
  <1>1. Shape' BY ShapeKept DEF Setting, IInv
  <1>2. Agreed'
    <2>1. ASSUME NEW w \in Prompt, NEW f \in DOMAIN Served[w], NEW p \in Policy, Arrive(w, f, p) PROVE Agreed'
      BY <2>1, ArriveKeeps
    <2>2. CASE Lookup BY <2>2, LookupKeeps
    <2>3. ASSUME NEW e \in disk, DiskHit(e) PROVE Agreed' BY <2>3, DiskHitKeeps
    <2>4. ASSUME NEW n \in 1 .. Len(req.prompt), DiskScoped(n) \/ ColdPrefix(n) PROVE Agreed'
      BY <2>4, PrefillKeeps DEF DiskScoped, ColdPrefix
    <2>5. CASE DiskMiss \/ NoColdPrefix \/ PrepareNone
      BY <2>5, MovingKeeps DEF DiskMiss, NoColdPrefix, PrepareNone, memory
    <2>6. CASE Validate BY <2>6, ValidateKeeps
    <2>7. ASSUME NEW s \in Inline, NEW n \in 1 .. Len(req.prompt), PrepareInline(s, n) PROVE Agreed'
      BY <2>7, PrepareInlineKeeps
    <2>8. ASSUME NEW s \in Full, PrepareFull(s) PROVE Agreed' BY <2>8, PrepareFullKeeps
    <2>9. CASE Generate \/ RestoreAndGenerate \/ RetryFresh BY <2>9, GenerateKeeps
    <2>10. CASE Finalize BY <2>10, FinalizeKeeps
    <2>11. ASSUME NEW t \in Canonical, NEW source \in Slot, NEW s \in Inline, ReplayTurn(t, source, s) PROVE Agreed'
      BY <2>11, ReplayTurnKeeps
    <2>12. CASE NoReplay BY <2>12, NoReplayKeeps
    <2>13. CASE Restart BY <2>13, RestartKeeps
    <2>14. CASE UNCHANGED vars BY <2>14, StutterKeeps
    <2> QED
      BY <2>1, <2>2, <2>3, <2>4, <2>5, <2>6, <2>7, <2>8, <2>9, <2>10, <2>11, <2>12, <2>13, <2>14 DEF Next
  <1> QED BY <1>1, <1>2 DEF IInv, Agreed

-----------------------------------------------------------------------------
(* Theorems *)

\* The shape has the types.
LEMMA ShapeTyped == ASSUME SlotAssumption, Shape PROVE TypeOK
  <1>1. cache.cut \in 0 .. Len(req.prompt) BY DEF Shape, Tokens
  <1> QED BY <1>1 DEF Shape, TypeOK, Tokens

\* Types, whatever prompts are served and however their forms are chosen: the
\* slots hold tokens, a request writes to one slot at most and, when that is
\* one of the full cache, restores none, and the cut of its snapshot is within
\* its prompt (prepare_generation_cache, finalize_generation_cache).
THEOREM TypeCorrect == Spec => []TypeOK
  <1>1. PromptAssumption /\ SlotAssumption BY PromptAssumption, SlotAssumption
  <1>2. Init => Shape BY <1>1, ShapeBegins
  <1>3. Shape /\ [Next]_vars => Shape' BY <1>1, ShapeKept
  <1>4. Shape => TypeOK BY <1>1, ShapeTyped
  <1> QED BY <1>2, <1>3, <1>4, PTL DEF Spec

\* The inductive invariant, for prompts each served in one form and none of
\* which begins with the token of a placeholder.
THEOREM InvCorrect == ASSUME OneForm, NoneBlank PROVE Spec => []IInv
  <1>1. Setting BY PromptAssumption, SlotAssumption DEF Setting
  <1>2. Init => IInv BY <1>1, ShapeBegins, AgreedBegins DEF Setting, IInv, Agreed
  <1>3. IInv /\ [Next]_vars => IInv' BY <1>1, InvKept
  <1> QED BY <1>2, <1>3, PTL DEF Spec

\* An answer is generated from the request's own prompt in the form in which
\* it is served, whatever was restored from memory or disk, prefilled for the
\* staging slot, refused by the pool and retried (prepare_generation_cache,
\* restore_and_generate).
THEOREM OwnContextCorrect == ASSUME OneForm, NoneBlank PROVE Spec => []OwnContext
  <1>1. IInv => OwnContext BY DEF IInv, Shape, Taking, OwnContext, Wanted
  <1> QED BY <1>1, InvCorrect, PTL

\* Keys, tracked tokens and agent turns never outlive the snapshot they
\* describe, a key found leads to a snapshot of it, the staging slot is free
\* between requests, and the snapshot to be restored survives the choice of
\* where the next one goes (forget_inline_slot_metadata, prepare_inline_snap,
\* finalize_generation_cache).
THEOREM RecordsCorrect == ASSUME OneForm, NoneBlank PROVE Spec => []RecordsAgree
  <1>1. ASSUME IInv PROVE RecordsAgree
    <2>1. RestoreSourceKept BY <1>1 DEF IInv, Sourced, RestoreSourceKept
    <2>2. IndexBacked
      <3>1. pc = "idle" => Open = {} BY DEF Open
      <3> QED BY <1>1, <3>1 DEF IInv, Records, Sourced, IndexBacked
    <2>3. SlotTokensHeld BY <1>1 DEF IInv, Records
    <2> QED BY <2>1, <2>2, <2>3 DEF RecordsAgree
  <1> QED BY <1>1, InvCorrect, PTL

\* A disk entry found under a prefix of a prompt holds rows of that prefix,
\* over any number of restarts (the five saves of http_server.cpp).
THEOREM DiskCorrect == ASSUME OneForm, NoneBlank PROVE Spec => []DiskFaithful
  <1>1. IInv => DiskFaithful BY DEF IInv, OnDisk, DiskFaithful
  <1> QED BY <1>1, InvCorrect, PTL

\* Where no prompt is compressed or cut, every prompt is served in one form.
LEMMA UncompressedOneForm ==
    ASSUME \A w \in Prompt : DOMAIN Served[w] \subseteq {"verbatim", "rewritten"}
    PROVE  OneForm
  <1>1. ASSUME NEW w \in Prompt, NEW f \in DOMAIN Served[w] PROVE ServedKey(w, f) = Served[w][f]
    BY PromptAssumption DEF PromptAssumption, ServedKey
  <1> QED BY <1>1 DEF OneForm

=============================================================================
