----------------------- MODULE SseEmitterCuts_proofs ------------------------
(****************************************************************************)
(* Proofs that SseEmitter tells a client the same wherever its answer is cut *)
(* into tokens: what a piece changes when more of the text is known.        *)
(****************************************************************************)
EXTENDS SseEmitterAnswers_proofs

-----------------------------------------------------------------------------
(* However a text is cut *)

\* Texts put together in either order are the same.
LEMMA Regrouped ==
    ASSUME NEW q \in Text, NEW s \in Text, NEW t \in Text PROVE (q \o s) \o t = q \o (s \o t)
  BY ConcatAssociative DEF Text

\* Cut in two at one of its places, a text longer than its front.
LEMMA CatParts ==
    ASSUME NEW w \in Text, NEW x \in Text, NEW i \in 1 .. Len(w) + 1
    PROVE  Before(w \o x, i) = Before(w, i) /\ From(w \o x, i) = From(w, i) \o x
  <1>1. PICK n \in Nat : n = Len(w) BY TextIs
  <1>2. PICK m \in Nat : m = Len(x) BY TextIs
  <1>3. PICK u \in Text : u = w \o x BY CatIs
  <1>4. /\ Len(u) = n + m /\ \A j \in 1 .. n : u[j] = w[j]
        /\ \A j \in 1 .. m : u[n + j] = x[j]
    BY <1>1, <1>2, <1>3, CatIs
  <1>5. PICK k \in Nat : k = i /\ k >= 1 /\ k <= n + 1 BY <1>1
  <1>6. Before(u, i) = Before(w, i)
    <2>1. PICK a \in Text : /\ a = Before(u, i) /\ Len(a) = k - 1
                            /\ \A j \in 1 .. k - 1 : a[j] = u[j]
      <3>1. i \in 1 .. Len(u) + 1 BY <1>2, <1>4, <1>5
      <3> QED BY <1>5, <3>1, BeforeIs
    <2>2. PICK b \in Text : /\ b = Before(w, i) /\ Len(b) = k - 1
                            /\ \A j \in 1 .. k - 1 : b[j] = w[j]
      BY <1>5, BeforeIs
    <2>3. \A j \in 1 .. k - 1 : j \in 1 .. n BY <1>5
    <2>4. \A j \in 1 .. k - 1 : a[j] = b[j] BY <1>4, <2>1, <2>2, <2>3
    <2>5. a = b BY <2>1, <2>2, <2>4, SeqEqual DEF Text
    <2> QED BY <2>1, <2>2, <2>5
  <1>7. From(u, i) = From(w, i) \o x
    <2>1. PICK a \in Text : /\ a = From(u, i) /\ Len(a) = n + m - k + 1
                            /\ \A j \in 1 .. n + m - k + 1 : a[j] = u[k + j - 1]
      <3>1. k \in Nat /\ k >= 1 /\ k <= Len(u) + 1 BY <1>2, <1>4, <1>5
      <3>2. From(u, k) \in Text /\ Len(From(u, k)) = Len(u) - k + 1 BY <3>1, FromIs
      <3>3. \A j \in 1 .. Len(u) - k + 1 : From(u, k)[j] = u[k + j - 1] BY <3>1, FromIs
      <3> QED BY <1>4, <1>5, <3>2, <3>3
    <2>2. PICK b \in Text : /\ b = From(w, i) /\ Len(b) = n - k + 1
                            /\ \A j \in 1 .. n - k + 1 : b[j] = w[k + j - 1]
      BY <1>1, <1>5, FromIs
    <2>3. PICK l \in Nat : l = n - k + 1 BY <1>5
    <2>8. Len(b) = l BY <2>2, <2>3
    <2>4. PICK c \in Text : /\ c = b \o x /\ Len(c) = l + m
                            /\ \A j \in 1 .. l : c[j] = b[j]
                            /\ \A j \in 1 .. m : c[l + j] = x[j]
      <3>1. PICK c \in Text : c = b \o x BY CatIs
      <3>2. /\ Len(c) = Len(b) + Len(x) /\ \A j \in 1 .. Len(b) : c[j] = b[j]
            /\ \A j \in 1 .. Len(x) : c[Len(b) + j] = x[j]
        BY <3>1, CatIs
      <3> QED BY <1>2, <2>8, <3>1, <3>2
    <2>5. Len(a) = l + m /\ l + m \in Nat BY <2>1, <2>3
    <2>6. \A j \in 1 .. l + m : a[j] = c[j]
      <3> SUFFICES ASSUME NEW j \in 1 .. l + m PROVE a[j] = c[j] OBVIOUS
      <3>1. j \in 1 .. n + m - k + 1 BY <2>3
      <3>2. a[j] = u[k + j - 1] BY <2>1, <3>1
      <3>3. CASE j <= l
        <4>1. k + j - 1 \in 1 .. n /\ j \in 1 .. l /\ j \in 1 .. n - k + 1 BY <1>5, <2>3, <3>3
        <4> QED BY <1>4, <2>2, <2>4, <3>2, <4>1
      <3>4. CASE j > l
        <4>1. PICK h \in 1 .. m : h = j - l BY <3>4
        <4>2. k + j - 1 = n + h /\ j = l + h BY <1>5, <2>3, <4>1
        <4> QED BY <1>4, <2>4, <3>2, <4>2
      <3> QED BY <3>3, <3>4
    <2>7. a = c BY <2>4, <2>5, <2>6, SeqEqual DEF Text
    <2> QED BY <2>1, <2>2, <2>4, <2>7
  <1> QED BY <1>3, <1>6, <1>7

\* More behind more.
LEMMA ExtExt ==
    ASSUME NEW c \in Cores, NEW x \in Text, NEW y \in Text
    PROVE  Ext(Ext(c, x), y) = Ext(c, x \o y) /\ Ext(c, <<>>) = c
  <1>1. PICK none \in Text : none = <<>> /\ \A t \in Text : t \o none = t BY CatIs
  <1>2. PICK z \in Text : z = x \o y BY CatIs
  <1>3. c.window \in Text BY CoresAre
  <1>4. PICK d \in Cores : d = Ext(c, x) /\ d.window = c.window \o x BY ExtIs
  <1>5. PICK e \in Cores : e = Ext(d, y) /\ e.window = d.window \o y BY ExtIs
  <1>6. PICK f \in Cores : f = Ext(c, z) /\ f.window = c.window \o z BY ExtIs
  <1>7. (c.window \o x) \o y = c.window \o z
    <2>1. PICK w \in Text : w = c.window BY <1>3
    <2>2. (w \o x) \o y = w \o (x \o y) BY Regrouped
    <2> QED BY <1>2, <2>1, <2>2
  <1>8. e = f
    <2>1. e.window = f.window BY <1>4, <1>5, <1>6, <1>7
    <2>2. /\ e.mode = f.mode /\ e.toolBuffer = f.toolBuffer /\ e.content = f.content
          /\ e.reasoning = f.reasoning /\ e.fromReasoning = f.fromReasoning
          /\ e.fallback = f.fallback /\ e.checkedPrefix = f.checkedPrefix
      BY SMTT(60), <1>4, <1>5, <1>6, ExtIs DEF Cores
    <2> QED BY <2>1, <2>2, CoresSame
  <1>9. PICK g \in Cores : g = Ext(c, none) /\ g.window = c.window \o none BY ExtIs
  <1>10. g = c
    <2>1. g.window = c.window BY <1>1, <1>3, <1>9
    <2>2. /\ g.mode = c.mode /\ g.toolBuffer = c.toolBuffer /\ g.content = c.content
          /\ g.reasoning = c.reasoning /\ g.fromReasoning = c.fromReasoning
          /\ g.fallback = c.fallback /\ g.checkedPrefix = c.checkedPrefix
      BY ZenonT(40), <1>9, ExtIs
    <2> QED BY <2>1, <2>2, CoresSame
  <1> QED BY <1>1, <1>2, <1>4, <1>5, <1>6, <1>8, <1>9, <1>10

\* What a core comes to when nothing follows.
To(r, c) == Flush(r, Left(r, c))

\* It is what the next round comes to.
LEMMA ToRound ==
    ASSUME Asked(req), NEW c \in Cores, NEW d
    PROVE  /\ CoreRound(req, c) = Again(d) => d \in Cores /\ To(req, c) = To(req, d)
           /\ CoreRound(req, c) = Waits(d) => d \in Cores /\ To(req, c) = Flush(req, d)
  BY LeftIs DEF To

\* A bare brace is not forgotten.
LEMMA FallbackStays ==
    ASSUME Asked(req), NEW c \in Cores
    PROVE  /\ c.fallback => Left(req, c).fallback
           /\ Left(req, c) \in Cores /\ To(req, c) \in Cores /\ (To(req, c).fallback <=> Left(req, c).fallback)
           /\ \A d : CoreRound(req, c) = Again(d) \/ CoreRound(req, c) = Waits(d) =>
                        d \in Cores /\ (c.fallback => d.fallback)
  <1>1. ASSUME NEW b \in Cores, NEW d, CoreRound(req, b) = Again(d) \/ CoreRound(req, b) = Waits(d)
        PROVE  d \in Cores /\ (b.fallback => d.fallback)
    <2>1. PICK x \in Cores : /\ b.fallback => x.fallback
                             /\ CoreRound(req, b) = Waits(x) \/ CoreRound(req, b) = Again(x)
      BY CoreStep
    <2>2. d = x BY ZenonT(40), <1>1, <2>1, Outcomes
    <2> QED BY <2>1, <2>2
  <1>2. PICK e \in Em : Core(e) = c BY CoreOf
  <1>3. Comes(req, c, Core(Process(e))) /\ Core(Process(e)) = Left(req, c)
    BY <1>2, ProcessComes, LeftIs
  <1>4. PICK f, n : Trace(req, f, n, c, Left(req, c)) BY <1>3 DEF Comes
  <1>5. /\ n \in Nat /\ f[0] = c /\ CoreRound(req, f[n]) = Waits(Left(req, c))
        /\ \A m \in 0 .. n - 1 : CoreRound(req, f[m]) = Again(f[m + 1])
        /\ \A m \in 0 .. n : f[m] \in Cores
    BY <1>4 DEF Trace
  <1>6. c.fallback => Left(req, c).fallback
    <2> SUFFICES ASSUME c.fallback PROVE Left(req, c).fallback OBVIOUS
    <2> DEFINE A == {m \in 0 .. n : ~f[m].fallback}
    <2>1. ASSUME A # {} PROVE FALSE
      <3>1. A \in SUBSET Nat BY <1>5
      <3>2. PICK m \in A : \A j \in A : m <= j BY <2>1, <3>1, LeastNumber
      <3>3. m \in 0 .. n /\ m \in Nat /\ ~f[m].fallback BY <1>5, <3>2
      <3>4. m # 0 BY <1>5, <3>3
      <3>5. PICK k \in Nat : k = m - 1 /\ k + 1 = m /\ k \in 0 .. n - 1 /\ k \in 0 .. n /\ ~(m <= k)
        <4>1. /\ m - 1 \in Nat /\ (m - 1) + 1 = m /\ m - 1 \in 0 .. n - 1 /\ m - 1 \in 0 .. n
              /\ ~(m <= m - 1)
          BY <1>5, <3>3, <3>4
        <4> QED BY <4>1
      <3>6. f[k].fallback BY <3>2, <3>5
      <3>7. CoreRound(req, f[k]) = Again(f[m]) /\ f[k] \in Cores BY <1>5, <3>5
      <3>8. f[m].fallback BY <1>1, <3>6, <3>7
      <3> QED BY <3>3, <3>8
    <2>2. n \in 0 .. n BY <1>5
    <2>3. f[n].fallback /\ f[n] \in Cores BY <1>5, <2>1, <2>2
    <2> QED BY <1>1, <1>5, <2>3
  <1>7. PICK l \in Cores : l = Left(req, c) BY LeftIs
  <1>8. Flush(req, l) \in Cores /\ Flush(req, l).fallback = l.fallback BY FlushIs
  <1> QED BY <1>1, <1>6, <1>7, <1>8 DEF To

\* What a text begins with, and where its delimiters are when more comes: they stay,
\* and none comes in front of one that is there.
LEMMA HitsMore ==
    ASSUME NEW w \in Text, NEW x \in Text
    PROVE  LET u == w \o x
           IN  /\ At(w, ThinkOpen) \subseteq At(u, ThinkOpen)
               /\ At(w, ThinkClose) \subseteq At(u, ThinkClose)
               /\ ToolStarts(w) \subseteq ToolStarts(u)
               /\ \A j \in 1 .. Len(w) - 1 : /\ j \in At(u, ThinkOpen) => j \in At(w, ThinkOpen)
                                             /\ j \in At(u, ThinkClose) => j \in At(w, ThinkClose)
               /\ \A i \in 1 .. Len(w), j \in 1 .. Len(w) :
                     /\ w[i] \in {"o1", "c1", "t1", "i1"} \/ i \in ToolStarts(w)
                     /\ j < i /\ j \in ToolStarts(u)
                     => j \in ToolStarts(w)
  <1>1. PICK n \in Nat : n = Len(w) BY TextIs
  <1>2. PICK m \in Nat : m = Len(x) BY TextIs
  <1>3. PICK u \in Text : u = w \o x BY CatIs
  <1>4. Len(u) = n + m /\ \A j \in 1 .. n : u[j] = w[j] BY <1>1, <1>2, <1>3, CatIs
  <1>5. \A j \in 1 .. n - 1 : /\ j \in 1 .. n + m - 1 /\ j \in 1 .. n /\ j + 1 \in 1 .. n
                              /\ u[j] = w[j] /\ u[j + 1] = w[j + 1]
    BY <1>1, <1>2, <1>4
  <1>6. /\ At(w, ThinkOpen) \subseteq At(u, ThinkOpen)
        /\ At(w, ThinkClose) \subseteq At(u, ThinkClose)
        /\ \A j \in 1 .. n - 1 : /\ j \in At(u, ThinkOpen) => j \in At(w, ThinkOpen)
                                 /\ j \in At(u, ThinkClose) => j \in At(w, ThinkClose)
    <2>1. \A j : j \in At(w, ThinkOpen) <=> j \in 1 .. n - 1 /\ w[j] = "o1" /\ w[j + 1] = "o2"
      BY <1>1, PairsAre
    <2>2. \A j : j \in At(w, ThinkClose) <=> j \in 1 .. n - 1 /\ w[j] = "c1" /\ w[j + 1] = "c2"
      BY <1>1, PairsAre
    <2>3. \A j : j \in At(u, ThinkOpen) <=> j \in 1 .. n + m - 1 /\ u[j] = "o1" /\ u[j + 1] = "o2"
      BY <1>4, PairsAre
    <2>4. \A j : j \in At(u, ThinkClose) <=> j \in 1 .. n + m - 1 /\ u[j] = "c1" /\ u[j + 1] = "c2"
      BY <1>4, PairsAre
    <2> QED BY <1>5, <2>1, <2>2, <2>3, <2>4
  <1>7. ASSUME NEW i, NEW k \in 1 .. n, NameWith(w, i, k), i \in 1 .. n
        PROVE  NameWith(u, i, k) /\ k \in 1 .. n + m
    <2>1. /\ i < k /\ k < n /\ w[k] = "k1" /\ w[k + 1] = "k2"
          /\ (\A y \in i .. k - 1 : w[y] = "n") /\ (i = 1 \/ w[i - 1] # "n")
      BY <1>1, <1>7 DEF NameWith
    <2>2. k \in 1 .. n - 1 /\ k < n + m BY <1>1, <1>2, <2>1
    <2>3. u[k] = "k1" /\ u[k + 1] = "k2" BY <1>5, <2>1, <2>2
    <2>4. \A y \in i .. k - 1 : y \in 1 .. n BY <1>7, <2>1
    <2>5. i = 1 \/ i - 1 \in 1 .. n BY <1>7
    <2> QED BY <1>2, <1>4, <2>1, <2>2, <2>3, <2>4, <2>5 DEF NameWith
  <1>8. ToolStarts(w) \subseteq ToolStarts(u)
    <2> SUFFICES ASSUME NEW i \in ToolStarts(w) PROVE i \in ToolStarts(u) OBVIOUS
    <2>1. i \in 1 .. n /\ Opens(w, i) BY <1>1, ToolStartsAre
    <2>2. i \in 1 .. n + m /\ u[i] = w[i] BY <1>2, <1>4, <2>1
    <2>3. CASE i < n /\ w[i] = "t1" /\ w[i + 1] = "t2"
      <3>1. i \in 1 .. n - 1 /\ i < n + m BY <1>2, <2>1, <2>3
      <3>2. u[i + 1] = "t2" BY <1>5, <2>3, <3>1
      <3> QED BY <1>4, <2>2, <2>3, <3>1, <3>2, ToolStartsAre DEF Opens
    <2>4. CASE w[i] = "i1" BY <1>4, <2>2, <2>4, ToolStartsAre DEF Opens
    <2>5. CASE \E k \in 1 .. n : NameWith(w, i, k)
      BY <1>4, <1>7, <2>1, <2>2, <2>5, ToolStartsAre DEF Opens
    <2> QED BY <1>1, <2>1, <2>3, <2>4, <2>5 DEF Opens
  <1>9. ASSUME NEW i \in 1 .. n, NEW j \in 1 .. n, j < i, j \in ToolStarts(u),
               w[i] \in {"o1", "c1", "t1", "i1"} \/ i \in ToolStarts(w)
        PROVE  j \in ToolStarts(w)
    <2>1. Opens(u, j) /\ u[j] = w[j] /\ j \in 1 .. n - 1 BY <1>4, <1>9, ToolStartsAre
    <2>2. CASE j < n + m /\ u[j] = "t1" /\ u[j + 1] = "t2"
      <3>1. w[j] = "t1" /\ w[j + 1] = "t2" /\ j < n BY <1>5, <2>1, <2>2
      <3> QED BY <1>1, <1>9, <3>1, ToolStartsAre DEF Opens
    <2>3. CASE u[j] = "i1" BY <1>1, <1>9, <2>1, <2>3, ToolStartsAre DEF Opens
    <2>4. CASE \E k \in 1 .. n + m : NameWith(u, j, k)
      <3>1. PICK k \in 1 .. n + m : NameWith(u, j, k) BY <2>4
      <3>2. /\ j < k /\ k < n + m /\ u[k] = "k1" /\ u[k + 1] = "k2"
            /\ (\A y \in j .. k - 1 : u[y] = "n") /\ (j = 1 \/ u[j - 1] # "n")
        BY <1>4, <3>1 DEF NameWith
      <3>3. j = 1 \/ j - 1 \in 1 .. n BY <1>9
      <3>4. CASE k < n
        <4>1. k \in 1 .. n - 1 /\ k \in 1 .. n BY <3>4, <1>1
        <4>2. w[k] = "k1" /\ w[k + 1] = "k2" BY <1>5, <3>2, <4>1
        <4>3. \A y \in j .. k - 1 : y \in 1 .. n BY <1>9, <3>4
        <4>4. NameWith(w, j, k) BY <1>1, <1>4, <3>2, <3>3, <3>4, <4>2, <4>3 DEF NameWith
        <4> QED BY <1>1, <1>9, <4>1, <4>4, ToolStartsAre DEF Opens
      <3>5. CASE k >= n
        <4>1. i <= k /\ i - 1 \in j .. k - 1 /\ i - 1 \in 1 .. n /\ i # 1 BY <1>1, <1>9, <3>5
        <4>2. w[i - 1] = "n" BY <1>4, <3>2, <4>1
        <4>3. w[i] \in {"n", "k1"}
          <5>1. CASE i = k BY <1>4, <1>9, <3>2, <5>1
          <5>2. CASE i # k
            <6>1. i \in j .. k - 1 BY <1>9, <4>1, <5>2
            <6> QED BY <1>4, <3>2, <6>1
          <5> QED BY <5>1, <5>2
        <4>4. i \in ToolStarts(w) BY <1>9, <4>3
        <4>5. Opens(w, i) BY <1>1, <4>4, ToolStartsAre
        <4>6. PICK h \in 1 .. n : NameWith(w, i, h) BY <1>1, <4>3, <4>5 DEF Opens
        <4>7. i = 1 \/ w[i - 1] # "n" BY <4>6 DEF NameWith
        <4> QED BY <4>1, <4>2, <4>7
      <3> QED BY <1>1, <3>2, <3>4, <3>5
    <2> QED BY <1>4, <2>1, <2>2, <2>3, <2>4 DEF Opens
  <1> QED BY <1>1, <1>3, <1>6, <1>8, <1>9

\* The first delimiter of a core stays the first, and of its kind, when more comes.
LEMMA FirstMore ==
    ASSUME NEW c \in Cores, NEW x \in Text
    PROVE  LET d == Ext(c, x)
           IN  /\ ThinkHits(c) \subseteq ThinkHits(d) /\ CloseHits(c) \subseteq CloseHits(d)
               /\ ToolHits(c) \subseteq ToolHits(d)
               /\ \A i : FirstIn(i, Hits(c)) => FirstIn(i, Hits(d))
               /\ \A i : FirstIn(i, Closers(c)) => FirstIn(i, Closers(d))
  <1>1. PICK w \in Text : w = c.window BY CoresAre
  <1>2. PICK n \in Nat : n = Len(w) BY TextIs
  <1>3. PICK u \in Text : u = w \o x BY CatIs
  <1>4. PICK d \in Cores : d = Ext(c, x) /\ d.window = u
    <2>1. Ext(c, x) \in Cores /\ Ext(c, x).window = c.window \o x BY ExtIs
    <2> QED BY <1>1, <1>3, <2>1
  <1>5. /\ At(w, ThinkOpen) \subseteq At(u, ThinkOpen)
        /\ At(w, ThinkClose) \subseteq At(u, ThinkClose)
        /\ ToolStarts(w) \subseteq ToolStarts(u)
        /\ \A j \in 1 .. n - 1 : /\ j \in At(u, ThinkOpen) => j \in At(w, ThinkOpen)
                                 /\ j \in At(u, ThinkClose) => j \in At(w, ThinkClose)
        /\ \A i \in 1 .. n, j \in 1 .. n :
              /\ w[i] \in {"o1", "c1", "t1", "i1"} \/ i \in ToolStarts(w)
              /\ j < i /\ j \in ToolStarts(u)
              => j \in ToolStarts(w)
    BY <1>2, <1>3, HitsMore
  <1>6. /\ ThinkHits(c) = At(w, ThinkOpen) /\ CloseHits(c) = At(w, ThinkClose)
        /\ ThinkHits(d) = At(u, ThinkOpen) /\ CloseHits(d) = At(u, ThinkClose)
        /\ ToolHits(c) = IF HasTools THEN ToolStarts(w) ELSE {}
        /\ ToolHits(d) = IF HasTools THEN ToolStarts(u) ELSE {}
    BY <1>1, <1>4 DEF ThinkHits, CloseHits, ToolHits
  <1>7. ASSUME NEW i \in Hits(c)
        PROVE  /\ i \in 1 .. n
               /\ w[i] \in {"o1", "c1", "t1", "i1"} \/ i \in ToolStarts(w)
    <2>1. i \in 1 .. n BY <1>1, <1>2, CorePlaces
    <2>2. i \in ThinkHits(c) => w[i] = "o1" BY <1>1, CorePlaces
    <2>3. i \in CloseHits(c) => w[i] = "c1" BY <1>1, CorePlaces
    <2>4. i \in ToolHits(c) => i \in ToolStarts(w) BY <1>6
    <2> QED BY <2>1, <2>2, <2>3, <2>4 DEF Hits
  <1>8. \A j \in Hits(d) : j \in Nat /\ j >= 1
    <2>1. \A j \in Hits(d) : j \in 1 .. Len(d.window) BY CorePlaces
    <2> QED BY <2>1
  <1>9. ASSUME NEW i \in Hits(c), NEW j \in Hits(d), j < i
        PROVE  /\ j \in ThinkHits(d) => j \in ThinkHits(c)
               /\ j \in CloseHits(d) => j \in CloseHits(c)
               /\ j \in ToolHits(d) => j \in ToolHits(c)
    <2>1. i \in 1 .. n /\ (w[i] \in {"o1", "c1", "t1", "i1"} \/ i \in ToolStarts(w)) BY <1>7
    <2>2. j \in Nat /\ j >= 1 BY <1>8
    <2>3. j \in 1 .. n - 1 /\ j \in 1 .. n BY <1>2, <1>9, <2>1, <2>2
    <2>4. j \in ToolStarts(u) => j \in ToolStarts(w) BY <1>5, <1>9, <2>1, <2>3
    <2> QED BY <1>5, <1>6, <2>3, <2>4
  <1>10. ASSUME NEW i, FirstIn(i, Hits(c)) PROVE FirstIn(i, Hits(d))
    <2>1. i \in Hits(c) /\ i \in Hits(d) BY <1>5, <1>6, <1>10 DEF FirstIn, Hits
    <2>2. ASSUME NEW j \in Hits(d), ~(i <= j) PROVE FALSE
      <3>1. i \in Nat /\ j \in Nat BY <1>8, <2>1
      <3>2. j < i BY <2>2, <3>1
      <3>3. j \in Hits(c) BY <1>9, <2>1, <3>2 DEF Hits
      <3> QED BY <1>10, <2>2, <3>3 DEF FirstIn
    <2> QED BY <2>1, <2>2 DEF FirstIn
  <1>11. ASSUME NEW i, FirstIn(i, Closers(c)) PROVE FirstIn(i, Closers(d))
    <2>1. i \in Closers(c) /\ i \in Closers(d) BY <1>5, <1>6, <1>11 DEF FirstIn, Closers
    <2>2. i \in Hits(c) /\ \A j \in Closers(d) : j \in Hits(d) BY <2>1 DEF Hits, Closers
    <2>3. ASSUME NEW j \in Closers(d), ~(i <= j) PROVE FALSE
      <3>1. i \in Nat /\ j \in Nat BY <1>2, <1>7, <1>8, <2>2
      <3>2. j < i BY <2>3, <3>1
      <3>3. j \in Closers(c) BY <1>9, <2>2, <3>2 DEF Closers
      <3> QED BY <1>11, <2>3, <3>3 DEF FirstIn
    <2> QED BY <2>1, <2>3 DEF FirstIn
  <1> QED BY <1>4, <1>5, <1>6, <1>10, <1>11

\* More behind what a delimiter left of the window.
LEMMA PartsExt ==
    ASSUME NEW c \in Cores, NEW x \in Text, NEW i \in 1 .. Len(c.window) + 1,
           NEW j \in 1 .. Len(c.window) + 1, NEW mode \in Modes
    PROVE  /\ Thinks(Ext(c, x), i, j, mode) = Ext(Thinks(c, i, j, mode), x)
           /\ Says(Ext(c, x), i, j, mode) = Ext(Says(c, i, j, mode), x)
           /\ Thinks(c, i, j, mode) \in Cores /\ Says(c, i, j, mode) \in Cores
  <1>1. PICK w \in Text : w = c.window BY CoresAre
  <1>2. PICK u \in Text : u = w \o x BY CatIs
  <1>3. PICK d \in Cores :
           /\ d = Ext(c, x) /\ d.window = u /\ d.mode = c.mode
           /\ d.toolBuffer = c.toolBuffer /\ d.content = c.content /\ d.reasoning = c.reasoning
           /\ d.fromReasoning = c.fromReasoning /\ d.fallback = c.fallback
           /\ d.checkedPrefix = c.checkedPrefix
    BY <1>1, <1>2, ExtIs
  <1>4. i \in 1 .. Len(w) + 1 /\ j \in 1 .. Len(w) + 1 BY <1>1
  <1>5. i \in 1 .. Len(d.window) + 1 /\ j \in 1 .. Len(d.window) + 1
    <2>1. Len(u) = Len(w) + Len(x) BY <1>2, CatIs
    <2>2. Len(w) \in Nat /\ Len(x) \in Nat BY TextIs
    <2> QED BY <1>3, <1>4, <2>1, <2>2
  <1>6. Before(u, i) = Before(w, i) /\ From(u, j) = From(w, j) \o x BY <1>2, <1>4, CatParts
  <1>7. Thinks(Ext(c, x), i, j, mode) = Ext(Thinks(c, i, j, mode), x) /\ Thinks(c, i, j, mode) \in Cores
    <2>1. PICK e \in Cores :
             /\ e = Thinks(c, i, j, mode) /\ e.mode = mode /\ e.window = From(w, j)
             /\ e.toolBuffer = c.toolBuffer /\ e.content = c.content
             /\ e.reasoning = c.reasoning \o Before(w, i)
             /\ e.fromReasoning = c.fromReasoning /\ e.fallback = c.fallback
             /\ e.checkedPrefix = c.checkedPrefix
      BY <1>1, ThinksIs
    <2>2. PICK f \in Cores :
             /\ f = Ext(e, x) /\ f.window = e.window \o x /\ f.mode = e.mode
             /\ f.toolBuffer = e.toolBuffer /\ f.content = e.content /\ f.reasoning = e.reasoning
             /\ f.fromReasoning = e.fromReasoning /\ f.fallback = e.fallback
             /\ f.checkedPrefix = e.checkedPrefix
      BY ExtIs
    <2>3. PICK g \in Cores :
             /\ g = Thinks(d, i, j, mode) /\ g.mode = mode /\ g.window = From(u, j)
             /\ g.toolBuffer = d.toolBuffer /\ g.content = d.content
             /\ g.reasoning = d.reasoning \o Before(u, i)
             /\ g.fromReasoning = d.fromReasoning /\ g.fallback = d.fallback
             /\ g.checkedPrefix = d.checkedPrefix
      BY ZenonT(40), <1>3, <1>5, ThinksIs
    <2>4. g = f
      <3>1. g.window = f.window /\ g.mode = f.mode /\ g.reasoning = f.reasoning
        BY <1>3, <1>6, <2>1, <2>2, <2>3
      <3>2. /\ g.toolBuffer = f.toolBuffer /\ g.content = f.content
            /\ g.fromReasoning = f.fromReasoning /\ g.fallback = f.fallback
            /\ g.checkedPrefix = f.checkedPrefix
        BY <1>3, <2>1, <2>2, <2>3
      <3> QED BY <3>1, <3>2, CoresSame
    <2> QED BY <1>3, <2>1, <2>2, <2>3, <2>4
  <1>8. Says(Ext(c, x), i, j, mode) = Ext(Says(c, i, j, mode), x) /\ Says(c, i, j, mode) \in Cores
    <2>1. PICK e \in Cores :
             /\ e = Says(c, i, j, mode) /\ e.mode = mode /\ e.window = From(w, j)
             /\ e.toolBuffer = c.toolBuffer /\ e.reasoning = c.reasoning
             /\ e.content = c.content \o Before(w, i)
             /\ e.fromReasoning = c.fromReasoning /\ e.fallback = c.fallback
             /\ e.checkedPrefix = c.checkedPrefix
      BY <1>1, SaysIs
    <2>2. PICK f \in Cores :
             /\ f = Ext(e, x) /\ f.window = e.window \o x /\ f.mode = e.mode
             /\ f.toolBuffer = e.toolBuffer /\ f.content = e.content /\ f.reasoning = e.reasoning
             /\ f.fromReasoning = e.fromReasoning /\ f.fallback = e.fallback
             /\ f.checkedPrefix = e.checkedPrefix
      BY ExtIs
    <2>3. PICK g \in Cores :
             /\ g = Says(d, i, j, mode) /\ g.mode = mode /\ g.window = From(u, j)
             /\ g.toolBuffer = d.toolBuffer /\ g.reasoning = d.reasoning
             /\ g.content = d.content \o Before(u, i)
             /\ g.fromReasoning = d.fromReasoning /\ g.fallback = d.fallback
             /\ g.checkedPrefix = d.checkedPrefix
      BY ZenonT(40), <1>3, <1>5, SaysIs
    <2>4. g = f
      <3>1. g.window = f.window /\ g.mode = f.mode /\ g.content = f.content
        BY <1>3, <1>6, <2>1, <2>2, <2>3
      <3>2. /\ g.toolBuffer = f.toolBuffer /\ g.reasoning = f.reasoning
            /\ g.fromReasoning = f.fromReasoning /\ g.fallback = f.fallback
            /\ g.checkedPrefix = f.checkedPrefix
        BY <1>3, <2>1, <2>2, <2>3
      <3> QED BY <3>1, <3>2, CoresSame
    <2> QED BY <1>3, <2>1, <2>2, <2>3, <2>4
  <1> QED BY <1>7, <1>8

\* More behind an open tool buffer goes there, whenever it was opened.
LEMMA OpenedExt ==
    ASSUME Asked(req), NEW c \in Cores, NEW x \in Text, NEW i \in 1 .. Len(c.window) + 1,
           NEW before \in BOOLEAN
    PROVE  /\ ToBuffer(c, i, before, FALSE) \in Cores
           /\ To(req, ToBuffer(Ext(c, x), i, before, FALSE))
                 = To(req, Ext(ToBuffer(c, i, before, FALSE), x))
  <1>1. PICK w \in Text : w = c.window BY CoresAre
  <1>2. PICK u \in Text : u = w \o x BY CatIs
  <1>3. PICK none \in Text : none = <<>> /\ \A t \in Text : t \o none = t /\ none \o t = t BY CatIs
  <1>4. PICK d \in Cores :
           /\ d = Ext(c, x) /\ d.window = u /\ d.content = c.content /\ d.reasoning = c.reasoning
           /\ d.fallback = c.fallback /\ d.checkedPrefix = c.checkedPrefix
    BY <1>1, <1>2, ExtIs
  <1>5. i \in 1 .. Len(w) + 1 BY <1>1
  <1>6. i \in 1 .. Len(d.window) + 1
    <2>1. Len(u) = Len(w) + Len(x) BY <1>2, CatIs
    <2>2. Len(w) \in Nat /\ Len(x) \in Nat BY TextIs
    <2> QED BY <1>4, <1>5, <2>1, <2>2
  <1>7. From(u, i) = From(w, i) \o x BY <1>2, <1>5, CatParts
  <1>8. PICK e \in Cores :
           /\ e = ToBuffer(c, i, before, FALSE) /\ e.mode = "TOOL_BUFFER" /\ e.window = none
           /\ e.toolBuffer = From(w, i) /\ e.content = c.content /\ e.reasoning = c.reasoning
           /\ e.fromReasoning = before /\ e.checkedPrefix = c.checkedPrefix
           /\ (e.fallback <=> c.fallback)
    <2>1. PICK no \in BOOLEAN : no = FALSE OBVIOUS
    <2>2. PICK e : e = ToBuffer(c, i, before, no) OBVIOUS
    <2>3. /\ e \in Cores /\ e.mode = "TOOL_BUFFER" /\ e.window = <<>>
          /\ e.toolBuffer = From(w, i) /\ e.content = c.content /\ e.reasoning = c.reasoning
          /\ e.fromReasoning = before /\ e.checkedPrefix = c.checkedPrefix
          /\ (c.fallback => e.fallback) /\ (~c.fallback /\ ~no => ~e.fallback)
      BY <1>1, <2>2, OpenedIs
    <2> QED BY <1>3, <2>1, <2>2, <2>3
  <1>9. PICK f \in Cores :
           /\ f = ToBuffer(d, i, before, FALSE) /\ f.mode = "TOOL_BUFFER" /\ f.window = none
           /\ f.toolBuffer = From(u, i) /\ f.content = d.content /\ f.reasoning = d.reasoning
           /\ f.fromReasoning = before /\ f.checkedPrefix = d.checkedPrefix
           /\ (f.fallback <=> d.fallback)
    <2>1. PICK no \in BOOLEAN : no = FALSE OBVIOUS
    <2>2. PICK f : f = ToBuffer(d, i, before, no) OBVIOUS
    <2>3. /\ f \in Cores /\ f.mode = "TOOL_BUFFER" /\ f.window = <<>>
          /\ f.toolBuffer = From(u, i) /\ f.content = d.content /\ f.reasoning = d.reasoning
          /\ f.fromReasoning = before /\ f.checkedPrefix = d.checkedPrefix
          /\ (d.fallback => f.fallback) /\ (~d.fallback /\ ~no => ~f.fallback)
      BY <1>4, <1>6, <2>2, OpenedIs
    <2> QED BY <1>3, <2>1, <2>2, <2>3
  <1>10. PICK g \in Cores :
            /\ g = Ext(e, x) /\ g.window = e.window \o x /\ g.mode = e.mode
            /\ g.toolBuffer = e.toolBuffer /\ g.content = e.content /\ g.reasoning = e.reasoning
            /\ g.fromReasoning = e.fromReasoning /\ g.fallback = e.fallback
            /\ g.checkedPrefix = e.checkedPrefix
    BY ExtIs
  <1>11. g.window = x BY <1>3, <1>8, <1>10
  <1>12. PICK p \in Cores :
            /\ p = Took(f) /\ p.mode = f.mode /\ p.window = none
            /\ p.toolBuffer = f.toolBuffer \o f.window /\ p.content = f.content
            /\ p.reasoning = f.reasoning /\ p.fromReasoning = f.fromReasoning
            /\ p.fallback = f.fallback /\ p.checkedPrefix = f.checkedPrefix
    BY <1>3, TookIs
  <1>13. PICK q \in Cores :
            /\ q = Took(g) /\ q.mode = g.mode /\ q.window = none
            /\ q.toolBuffer = g.toolBuffer \o g.window /\ q.content = g.content
            /\ q.reasoning = g.reasoning /\ q.fromReasoning = g.fromReasoning
            /\ q.fallback = g.fallback /\ q.checkedPrefix = g.checkedPrefix
    BY <1>3, TookIs
  <1>14. p = q
    <2>1. f.toolBuffer \in Text BY CoresAre
    <2>2. p.toolBuffer = f.toolBuffer BY <1>3, <1>9, <1>12, <2>1
    <2>3. p.toolBuffer = q.toolBuffer
      <3>1. p.toolBuffer = From(u, i) BY <1>9, <2>2
      <3>2. g.toolBuffer = From(w, i) BY <1>8, <1>10
      <3>3. q.toolBuffer = From(w, i) \o x BY <1>11, <1>13, <3>2
      <3> QED BY <1>7, <3>1, <3>3
    <2>4. /\ p.mode = q.mode /\ p.window = q.window /\ p.content = q.content
          /\ p.reasoning = q.reasoning /\ p.fromReasoning = q.fromReasoning
          /\ p.checkedPrefix = q.checkedPrefix
      <3>1. /\ p.mode = "TOOL_BUFFER" /\ p.window = none /\ p.content = c.content
            /\ p.reasoning = c.reasoning /\ p.fromReasoning = before
            /\ p.checkedPrefix = c.checkedPrefix
        BY <1>4, <1>9, <1>12
      <3>2. /\ q.mode = "TOOL_BUFFER" /\ q.window = none /\ q.content = c.content
            /\ q.reasoning = c.reasoning /\ q.fromReasoning = before
            /\ q.checkedPrefix = c.checkedPrefix
        BY <1>8, <1>10, <1>13
      <3> QED BY <3>1, <3>2
    <2>5. p.fallback <=> q.fallback BY <1>4, <1>8, <1>9, <1>10, <1>12, <1>13
    <2>6. p.fallback \in BOOLEAN /\ q.fallback \in BOOLEAN BY CoresAre
    <2>7. p.fallback = q.fallback BY <2>5, <2>6
    <2> QED BY <2>3, <2>4, <2>7, CoresSame
  <1>15. CoreRound(req, f) = Waits(p) BY <1>9, <1>12, RoundWhen
  <1>16. CoreRound(req, g) = Waits(q) BY ZenonT(40), <1>8, <1>10, <1>13, RoundWhen
  <1>17. To(req, f) = Flush(req, p) BY <1>15, ToRound
  <1>18. To(req, g) = Flush(req, q) BY <1>16, ToRound
  <1> QED BY <1>4, <1>8, <1>9, <1>10, <1>14, <1>17, <1>18

\* A symbol with nothing but white space in front is the first that is not.
LEMMA FirstBlackAt ==
    ASSUME NEW text \in Text, NEW i \in 1 .. Len(text), text[i] # "w",
           \A x \in 1 .. i - 1 : text[x] = "w"
    PROVE  FirstBlack(text) = i /\ ~Blank(text)
  <1>1. PICK n \in Nat : n = Len(text) BY TextIs
  <1>2. PICK b : b = FirstBlack(text) OBVIOUS
  <1>3. /\ b \in 1 .. n + 1 /\ (\A x \in 1 .. b - 1 : text[x] = "w")
        /\ (b <= n => text[b] # "w")
    BY <1>1, <1>2, FirstBlackIs
  <1>4. i \in 1 .. n /\ i \in Nat /\ b \in Nat BY <1>1, <1>3
  <1>5. ~(i < b)
    <2> SUFFICES ASSUME i < b PROVE FALSE OBVIOUS
    <2>1. i \in 1 .. b - 1 BY <1>3, <1>4
    <2> QED BY <1>3, <2>1
  <1>6. ~(b < i)
    <2> SUFFICES ASSUME b < i PROVE FALSE OBVIOUS
    <2>1. b \in 1 .. i - 1 /\ b <= n BY <1>3, <1>4
    <2> QED BY <1>3, <2>1
  <1>7. b = i BY <1>4, <1>5, <1>6
  <1>8. ~Blank(text) BY <1>1, <1>4 DEF Blank
  <1> QED BY <1>2, <1>7, <1>8

\* Whether a leading <think> is dropped does not depend on what follows.
LEMMA DroppedExt ==
    ASSUME NEW c \in Cores, ~PrefixOpen(c), NEW x \in Text
    PROVE  /\ ~PrefixOpen(Ext(c, x)) /\ PrefixDropped(c) \in Cores
           /\ PrefixDropped(Ext(c, x)) = Ext(PrefixDropped(c), x)
  <1>1. PICK w \in Text : w = c.window BY CoresAre
  <1>2. PICK n \in Nat : n = Len(w) BY TextIs
  <1>3. PICK m \in Nat : m = Len(x) BY TextIs
  <1>4. PICK u \in Text : u = w \o x BY CatIs
  <1>5. Len(u) = n + m /\ \A j \in 1 .. n : u[j] = w[j] BY <1>2, <1>3, <1>4, CatIs
  <1>6. PICK d \in Cores :
           /\ d = Ext(c, x) /\ d.window = u /\ d.mode = c.mode
           /\ d.toolBuffer = c.toolBuffer /\ d.content = c.content /\ d.reasoning = c.reasoning
           /\ d.fromReasoning = c.fromReasoning /\ d.fallback = c.fallback
           /\ d.checkedPrefix = c.checkedPrefix
    BY <1>1, <1>4, ExtIs
  <1>7. PICK i : i = FirstBlack(w) OBVIOUS
  <1>8. /\ i \in 1 .. n + 1 /\ (\A y \in 1 .. i - 1 : w[y] = "w") /\ (i <= n => w[i] # "w")
    BY <1>2, <1>7, FirstBlackIs
  <1>9. i <= n /\ (i # n \/ w[i] \in Long) BY <1>1, <1>2, <1>7, <1>8 DEF PrefixOpen
  <1>10. i \in 1 .. n /\ i \in 1 .. n + m BY <1>8, <1>9, <1>2, <1>3
  <1>11. FirstBlack(u) = i
    <2>1. \A y \in 1 .. i - 1 : u[y] = "w"
      <3>1. \A y \in 1 .. i - 1 : y \in 1 .. n BY <1>2, <1>10
      <3> QED BY <1>5, <1>8, <3>1
    <2>2. u[i] # "w" BY <1>5, <1>8, <1>9, <1>10
    <2> QED BY <1>5, <1>10, <2>1, <2>2, FirstBlackAt
  <1>12. ~PrefixOpen(d)
    <2>1. ~(i > n + m) BY <1>10, <1>2, <1>3
    <2>2. i = n + m => i = n BY <1>2, <1>3, <1>10
    <2>3. u[i] = w[i] BY <1>5, <1>10
    <2> QED BY <1>5, <1>6, <1>9, <1>11, <2>1, <2>2, <2>3 DEF PrefixOpen
  <1>13. i \in At(u, ThinkOpen) <=> i \in At(w, ThinkOpen)
    <2>1. CASE i # n
      <3>1. i \in 1 .. n - 1 BY <1>2, <1>10, <2>1
      <3>2. i \in At(u, ThinkOpen) => i \in At(w, ThinkOpen) BY <1>2, <1>4, <3>1, HitsMore
      <3>3. i \in At(w, ThinkOpen) => i \in At(u, ThinkOpen) BY <1>4, HitsMore
      <3> QED BY <3>2, <3>3
    <2>2. CASE i = n
      <3>1. w[i] # "o1" /\ u[i] # "o1" BY <1>5, <1>9, <1>10, <2>2 DEF Long
      <3> QED BY <3>1, PairsAre
    <2> QED BY <2>1, <2>2
  <1>14. PICK e \in Cores :
            /\ e = PrefixDropped(c) /\ e.mode = c.mode /\ e.toolBuffer = c.toolBuffer
            /\ e.content = c.content /\ e.reasoning = c.reasoning
            /\ e.fromReasoning = c.fromReasoning /\ e.fallback = c.fallback
            /\ e.checkedPrefix = TRUE
            /\ e.window = IF i \in At(w, ThinkOpen) THEN From(w, i + 2) ELSE w
    BY <1>1, <1>7, DroppedIs
  <1>15. PICK f \in Cores :
            /\ f = PrefixDropped(d) /\ f.mode = d.mode /\ f.toolBuffer = d.toolBuffer
            /\ f.content = d.content /\ f.reasoning = d.reasoning
            /\ f.fromReasoning = d.fromReasoning /\ f.fallback = d.fallback
            /\ f.checkedPrefix = TRUE
            /\ f.window = IF i \in At(u, ThinkOpen) THEN From(u, i + 2) ELSE u
    BY <1>6, <1>11, DroppedIs
  <1>16. PICK g \in Cores :
            /\ g = Ext(e, x) /\ g.window = e.window \o x /\ g.mode = e.mode
            /\ g.toolBuffer = e.toolBuffer /\ g.content = e.content /\ g.reasoning = e.reasoning
            /\ g.fromReasoning = e.fromReasoning /\ g.fallback = e.fallback
            /\ g.checkedPrefix = e.checkedPrefix
    BY ExtIs
  <1>17. f.window = g.window
    <2>1. CASE i \in At(w, ThinkOpen)
      <3>1. i \in 1 .. n - 1 BY <1>2, <2>1, PairsAre
      <3>2. i + 2 \in 1 .. n + 1 BY <1>2, <3>1
      <3>3. From(u, i + 2) = From(w, i + 2) \o x BY <1>2, <1>4, <3>2, CatParts
      <3>4. f.window = From(u, i + 2) BY <1>13, <1>15, <2>1
      <3>5. e.window = From(w, i + 2) BY <1>14, <2>1
      <3> QED BY <1>16, <3>3, <3>4, <3>5
    <2>2. CASE i \notin At(w, ThinkOpen)
      <3>1. f.window = u BY <1>13, <1>15, <2>2
      <3>2. e.window = w BY <1>14, <2>2
      <3> QED BY <1>4, <1>16, <3>1, <3>2
    <2> QED BY <2>1, <2>2
  <1>18. f = g
    <2>1. /\ f.mode = g.mode /\ f.toolBuffer = g.toolBuffer /\ f.content = g.content
          /\ f.reasoning = g.reasoning
      BY <1>6, <1>14, <1>15, <1>16
    <2>2. /\ f.fromReasoning = g.fromReasoning /\ f.fallback = g.fallback
          /\ f.checkedPrefix = g.checkedPrefix
      BY ZenonT(40), <1>6, <1>14, <1>15, <1>16
    <2> QED BY <1>17, <2>1, <2>2, CoresSame
  <1> QED BY <1>6, <1>12, <1>14, <1>15, <1>16, <1>18

\* More behind what was said or thought in front of a tool call.
LEMMA SpokenExt ==
    ASSUME NEW c \in Cores, NEW x \in Text, NEW i \in 1 .. Len(c.window) + 1
    PROVE  /\ LET s == [c EXCEPT !.reasoning = @ \o Before(c.window, i)]
                  d == Ext(c, x)
              IN  /\ s \in Cores /\ s.window = c.window
                  /\ [d EXCEPT !.reasoning = @ \o Before(d.window, i)] = Ext(s, x)
           /\ LET s == [c EXCEPT !.content = @ \o Before(c.window, i)]
                  d == Ext(c, x)
              IN  /\ s \in Cores /\ s.window = c.window
                  /\ [d EXCEPT !.content = @ \o Before(d.window, i)] = Ext(s, x)
  <1>1. PICK w \in Text : w = c.window BY CoresAre
  <1>2. PICK u \in Text : u = w \o x BY CatIs
  <1>3. Before(u, i) = Before(w, i) BY <1>1, <1>2, CatParts
  <1>4. PICK front \in Text : front = Before(w, i) BY <1>1, BeforeIs
  <1>5. c.reasoning \in Text /\ c.content \in Text BY CoresAre
  <1>6. PICK a \in Text : a = c.reasoning \o front BY <1>5, CatIs
  <1>7. PICK b \in Text : b = c.content \o front BY <1>5, CatIs
  <1>8. Ext(c, x) = [c EXCEPT !.window = u] BY <1>1, <1>2 DEF Ext
  <1>9. PICK d \in Cores : d = Ext(c, x) /\ d = [c EXCEPT !.window = u] /\ d.window = u
        /\ d.reasoning = c.reasoning /\ d.content = c.content
    BY <1>1, <1>2, <1>8, ExtIs
  <1>10. PICK s \in Cores : /\ s = [c EXCEPT !.reasoning = @ \o Before(c.window, i)]
                            /\ s.window = w /\ s = [c EXCEPT !.reasoning = a]
    <2>1. [c EXCEPT !.reasoning = @ \o Before(c.window, i)] = [c EXCEPT !.reasoning = a]
      BY <1>1, <1>4, <1>6
    <2>2. [c EXCEPT !.reasoning = a] \in Cores /\ [c EXCEPT !.reasoning = a].window = w
      BY <1>1 DEF Cores
    <2> QED BY <2>1, <2>2
  <1>11. PICK t \in Cores : /\ t = [c EXCEPT !.content = @ \o Before(c.window, i)]
                            /\ t.window = w /\ t = [c EXCEPT !.content = b]
    <2>1. [c EXCEPT !.content = @ \o Before(c.window, i)] = [c EXCEPT !.content = b]
      BY <1>1, <1>4, <1>7
    <2>2. [c EXCEPT !.content = b] \in Cores /\ [c EXCEPT !.content = b].window = w
      BY <1>1 DEF Cores
    <2> QED BY <2>1, <2>2
  <1>12. [d EXCEPT !.reasoning = @ \o Before(d.window, i)] = Ext(s, x)
    <2>1. [d EXCEPT !.reasoning = @ \o Before(d.window, i)] = [d EXCEPT !.reasoning = a]
      BY <1>3, <1>4, <1>6, <1>9
    <2>2. Ext(s, x) = [s EXCEPT !.window = u] BY <1>2, <1>10 DEF Ext
    <2>3. [d EXCEPT !.reasoning = a] = [s EXCEPT !.window = u] BY <1>9, <1>10 DEF Cores
    <2> QED BY <2>1, <2>2, <2>3
  <1>13. [d EXCEPT !.content = @ \o Before(d.window, i)] = Ext(t, x)
    <2>1. [d EXCEPT !.content = @ \o Before(d.window, i)] = [d EXCEPT !.content = b]
      BY <1>3, <1>4, <1>7, <1>9
    <2>2. Ext(t, x) = [t EXCEPT !.window = u] BY <1>2, <1>11 DEF Ext
    <2>3. [d EXCEPT !.content = b] = [t EXCEPT !.window = u] BY <1>9, <1>11 DEF Cores
    <2> QED BY <2>1, <2>2, <2>3
  <1> QED BY <1>1, <1>9, <1>10, <1>11, <1>12, <1>13

\* A round that goes on comes to the same whether more was there before it or is put
\* behind it, unless a bare brace decided.
LEMMA AgainExt ==
    ASSUME Asked(req), NEW c \in Cores, NEW x \in Text, NEW d,
           CoreRound(req, c) = Again(d), ~d.fallback
    PROVE  To(req, Ext(c, x)) = To(req, Ext(d, x))
  <1>1. PICK w \in Text : w = c.window BY CoresAre
  <1>2. PICK n \in Nat : n = Len(w) BY TextIs
  <1>3. PICK u \in Text : u = w \o x BY CatIs
  <1>4. PICK b \in Cores : /\ b = Ext(c, x) /\ b.window = u /\ b.mode = c.mode
                           /\ b.checkedPrefix = c.checkedPrefix
    BY <1>1, <1>3, ExtIs
  <1>5. \A r : CoreRound(req, c) # Waits(r)
    <2> SUFFICES ASSUME NEW r PROVE CoreRound(req, c) # Waits(r) OBVIOUS
    <2>1. Again(d) # Waits(r) BY Outcomes
    <2> QED BY <2>1
  <1>6. \A r : CoreRound(req, c) = Again(r) => r = d
    <2> SUFFICES ASSUME NEW r, CoreRound(req, c) = Again(r) PROVE r = d OBVIOUS
    <2>1. Again(r) = Again(d) OBVIOUS
    <2> QED BY <2>1, Outcomes
  <1>7. /\ ThinkHits(c) \subseteq ThinkHits(b) /\ CloseHits(c) \subseteq CloseHits(b)
        /\ ToolHits(c) \subseteq ToolHits(b)
        /\ \A i : FirstIn(i, Hits(c)) => FirstIn(i, Hits(b))
        /\ \A i : FirstIn(i, Closers(c)) => FirstIn(i, Closers(b))
    BY <1>4, FirstMore
  <1>8. \A i \in ThinkHits(c) \union CloseHits(c) : i \in 1 .. n + 1 /\ i + 2 \in 1 .. n + 1
    <2>1. \A i \in ThinkHits(c) \union CloseHits(c) :
             i \in 1 .. Len(c.window) - 1 /\ i + 2 \in 1 .. Len(c.window) + 1
      BY CorePlaces
    <2>2. \A i \in 1 .. n - 1 : i \in 1 .. n + 1 BY <1>2
    <2> QED BY <1>1, <1>2, <2>1, <2>2
  <1>9. \A i \in ToolHits(c) : i \in 1 .. n + 1 BY <1>1, <1>2, CorePlaces DEF Hits
  <1>10. "CONTENT" \in Modes /\ "REASONING" \in Modes BY DEF Modes
  <1>11. \A e \in Cores : CoreRound(req, b) = Again(e) => To(req, b) = To(req, e) BY ToRound
  <1>12. CASE c.mode = "TOOL_BUFFER" BY <1>5, <1>12, RoundWhen
  <1>13. CASE c.mode = "REASONING" /\ ~c.checkedPrefix
    <2>1. ~PrefixOpen(c) BY <1>5, <1>13, RoundWhen
    <2>2. d = PrefixDropped(c) BY <1>6, <1>13, <2>1, RoundWhen
    <2>3. ~PrefixOpen(b) /\ d \in Cores /\ PrefixDropped(b) = Ext(d, x)
      BY <1>4, <2>1, <2>2, DroppedExt
    <2>4. CoreRound(req, b) = Again(PrefixDropped(b)) BY <1>4, <1>13, <2>3, RoundWhen
    <2>5. Ext(d, x) \in Cores BY <2>3, ExtIs
    <2> QED BY <1>4, <1>11, <2>3, <2>4, <2>5
  <1>14. CASE c.mode = "REASONING" /\ c.checkedPrefix
    <2>1. Closers(c) # {} BY ZenonT(40), <1>5, <1>14, RoundWhen
    <2>2. PICK i : FirstIn(i, Closers(c)) BY <2>1, FirstMet
    <2>3. FirstIn(i, Closers(b)) /\ i \in Closers(c) BY <1>7, <2>2 DEF FirstIn
    <2>4. CASE i \in CloseHits(c)
      <3>1. i \in 1 .. Len(c.window) + 1 /\ i + 2 \in 1 .. Len(c.window) + 1 BY <1>1, <1>2, <1>8, <2>4
      <3>2. PICK j : j = i + 2 /\ j \in 1 .. Len(c.window) + 1 BY <3>1
      <3>3. d = Thinks(c, i, j, "CONTENT") BY <1>6, <1>14, <2>2, <2>4, <3>2, RoundWhen
      <3>4. i \in CloseHits(b) BY <1>7, <2>4
      <3>5. CoreRound(req, b) = Again(Thinks(b, i, j, "CONTENT"))
        BY <1>4, <1>14, <2>3, <3>2, <3>4, RoundWhen
      <3>6. d \in Cores /\ Thinks(b, i, j, "CONTENT") = Ext(d, x)
        BY <1>4, <1>10, <3>1, <3>2, <3>3, PartsExt
      <3>7. Ext(d, x) \in Cores BY <3>6, ExtIs
      <3> QED BY <1>4, <1>11, <3>5, <3>6, <3>7
    <2>5. CASE i \in ToolHits(c)
      <3>1. i \in 1 .. Len(c.window) + 1 BY <1>1, <1>2, <1>9, <2>5
      <3>2. PICK s : s = [c EXCEPT !.reasoning = @ \o Before(c.window, i)] OBVIOUS
      <3>8. PICK t : t = [b EXCEPT !.reasoning = @ \o Before(b.window, i)] OBVIOUS
      <3>9. s \in Cores /\ s.window = c.window /\ t = Ext(s, x)
        <4>1. /\ [c EXCEPT !.reasoning = @ \o Before(c.window, i)] \in Cores
              /\ [c EXCEPT !.reasoning = @ \o Before(c.window, i)].window = c.window
              /\ [Ext(c, x) EXCEPT !.reasoning = @ \o Before(Ext(c, x).window, i)]
                    = Ext([c EXCEPT !.reasoning = @ \o Before(c.window, i)], x)
          BY ZenonT(40), <3>1, SpokenExt
        <4> QED BY <1>4, <3>2, <3>8, <4>1
      <3>3. d = ToBuffer(s, i, TRUE, FALSE)
        <4>1. CoreRound(req, c) = Again(ToBuffer([c EXCEPT !.reasoning = @ \o Before(c.window, i)],
                                                i, TRUE, FALSE))
          BY <1>14, <2>2, <2>5, RoundWhen
        <4> QED BY <1>6, <3>2, <4>1
      <3>4. i \in ToolHits(b) BY <1>7, <2>5
      <3>5. CoreRound(req, b) = Again(ToBuffer(Ext(s, x), i, TRUE, FALSE))
        <4>1. CoreRound(req, b) = Again(ToBuffer([b EXCEPT !.reasoning = @ \o Before(b.window, i)],
                                                i, TRUE, FALSE))
          BY <1>4, <1>14, <2>3, <3>4, RoundWhen
        <4> QED BY <3>8, <3>9, <4>1
      <3>6. To(req, ToBuffer(Ext(s, x), i, TRUE, FALSE)) = To(req, Ext(d, x))
        BY <3>1, <3>3, <3>9, OpenedExt
      <3>7. To(req, b) = To(req, ToBuffer(Ext(s, x), i, TRUE, FALSE)) BY <3>5, ToRound
      <3> QED BY <1>4, <3>6, <3>7
    <2> QED BY <2>3, <2>4, <2>5 DEF Closers
  <1>15. CASE c.mode = "CONTENT"
    <2>1. Hits(c) # {}
      <3> SUFFICES ASSUME Hits(c) = {} PROVE FALSE OBVIOUS
      <3>1. BareJson(c) BY <1>5, <1>15, RoundWhen
      <3>2. d = ToBuffer(c, 1, FALSE, TRUE) BY <1>6, <1>15, <3>1, RoundWhen
      <3>3. 1 \in 1 .. Len(c.window) + 1 BY CoresAre
      <3>4. PICK yes \in BOOLEAN : yes = TRUE OBVIOUS
      <3>5. PICK e : e = ToBuffer(c, 1, FALSE, yes) OBVIOUS
      <3>6. yes => e.fallback BY <3>3, <3>5, OpenedIs
      <3> QED BY <3>2, <3>4, <3>5, <3>6
    <2>2. PICK i : FirstIn(i, Hits(c)) BY <2>1, FirstMet
    <2>3. FirstIn(i, Hits(b)) /\ i \in Hits(c) BY <1>7, <2>2 DEF FirstIn
    <2>4. CASE i \in ThinkHits(c)
      <3>1. i \in 1 .. Len(c.window) + 1 /\ i + 2 \in 1 .. Len(c.window) + 1 BY <1>1, <1>2, <1>8, <2>4
      <3>2. PICK j : j = i + 2 /\ j \in 1 .. Len(c.window) + 1 BY <3>1
      <3>3. d = Says(c, i, j, "REASONING") BY <1>6, <1>15, <2>2, <2>4, <3>2, RoundWhen
      <3>4. i \in ThinkHits(b) BY <1>7, <2>4
      <3>5. CoreRound(req, b) = Again(Says(b, i, j, "REASONING"))
        BY <1>4, <1>15, <2>3, <3>2, <3>4, RoundWhen
      <3>6. d \in Cores /\ Says(b, i, j, "REASONING") = Ext(d, x)
        BY <1>4, <1>10, <3>1, <3>2, <3>3, PartsExt
      <3>7. Ext(d, x) \in Cores BY <3>6, ExtIs
      <3> QED BY <1>4, <1>11, <3>5, <3>6, <3>7
    <2>5. CASE i \in CloseHits(c)
      <3>1. i \in 1 .. Len(c.window) + 1 /\ i + 2 \in 1 .. Len(c.window) + 1 BY <1>1, <1>2, <1>8, <2>5
      <3>2. PICK j : j = i + 2 /\ j \in 1 .. Len(c.window) + 1 BY <3>1
      <3>3. d = Says(c, i, j, "CONTENT") BY <1>6, <1>15, <2>2, <2>5, <3>2, RoundWhen
      <3>4. i \in CloseHits(b) BY <1>7, <2>5
      <3>5. CoreRound(req, b) = Again(Says(b, i, j, "CONTENT"))
        BY <1>4, <1>15, <2>3, <3>2, <3>4, RoundWhen
      <3>6. d \in Cores /\ Says(b, i, j, "CONTENT") = Ext(d, x)
        BY <1>4, <1>10, <3>1, <3>2, <3>3, PartsExt
      <3>7. Ext(d, x) \in Cores BY <3>6, ExtIs
      <3> QED BY <1>4, <1>11, <3>5, <3>6, <3>7
    <2>6. CASE i \in ToolHits(c)
      <3>1. i \in 1 .. Len(c.window) + 1 BY <1>1, <1>2, <1>9, <2>6
      <3>2. PICK s : s = [c EXCEPT !.content = @ \o Before(c.window, i)] OBVIOUS
      <3>8. PICK t : t = [b EXCEPT !.content = @ \o Before(b.window, i)] OBVIOUS
      <3>9. s \in Cores /\ s.window = c.window /\ t = Ext(s, x)
        <4>1. /\ [c EXCEPT !.content = @ \o Before(c.window, i)] \in Cores
              /\ [c EXCEPT !.content = @ \o Before(c.window, i)].window = c.window
              /\ [Ext(c, x) EXCEPT !.content = @ \o Before(Ext(c, x).window, i)]
                    = Ext([c EXCEPT !.content = @ \o Before(c.window, i)], x)
          BY <3>1, SpokenExt
        <4> QED BY <1>4, <3>2, <3>8, <4>1
      <3>3. d = ToBuffer(s, i, FALSE, FALSE)
        <4>1. CoreRound(req, c) = Again(ToBuffer([c EXCEPT !.content = @ \o Before(c.window, i)],
                                                i, FALSE, FALSE))
          BY <1>15, <2>2, <2>6, RoundWhen
        <4> QED BY <1>6, <3>2, <4>1
      <3>4. i \in ToolHits(b) BY <1>7, <2>6
      <3>5. CoreRound(req, b) = Again(ToBuffer(Ext(s, x), i, FALSE, FALSE))
        <4>1. CoreRound(req, b) = Again(ToBuffer([b EXCEPT !.content = @ \o Before(b.window, i)],
                                                i, FALSE, FALSE))
          BY <1>4, <1>15, <2>3, <3>4, RoundWhen
        <4> QED BY <3>8, <3>9, <4>1
      <3>6. To(req, ToBuffer(Ext(s, x), i, FALSE, FALSE)) = To(req, Ext(d, x))
        BY <3>1, <3>3, <3>9, OpenedExt
      <3>7. To(req, b) = To(req, ToBuffer(Ext(s, x), i, FALSE, FALSE)) BY <3>5, ToRound
      <3> QED BY <1>4, <3>6, <3>7
    <2> QED BY <2>3, <2>4, <2>5, <2>6 DEF Hits
  <1>16. c.mode \in Modes BY CoresAre
  <1> QED BY <1>12, <1>13, <1>14, <1>15, <1>16 DEF Modes

\* Delimiters behind a place are where they were when the front is gone, and there are
\* no others if no tool call began in the front.
LEMMA HitsShift ==
    ASSUME NEW u \in Text, NEW k \in 0 .. Len(u)
    PROVE  LET v == From(u, k + 1)
           IN  /\ \A i \in At(u, ThinkOpen) : i > k => i - k \in At(v, ThinkOpen)
               /\ \A i \in At(u, ThinkClose) : i > k => i - k \in At(v, ThinkClose)
               /\ \A i \in ToolStarts(u) : i > k => i - k \in ToolStarts(v)
               /\ \A i \in At(v, ThinkOpen) : i + k \in At(u, ThinkOpen)
               /\ \A i \in At(v, ThinkClose) : i + k \in At(u, ThinkClose)
               /\ (\A i \in ToolStarts(u) : i > k) =>
                     \A i \in ToolStarts(v) : i + k \in ToolStarts(u)
  <1>1. PICK n \in Nat : n = Len(u) BY TextIs
  <1>2. PICK m \in Nat : m = n - k /\ k \in Nat /\ n = k + m
    <2>1. n - k \in Nat /\ k \in Nat /\ n = k + (n - k) BY <1>1
    <2> QED BY <2>1
  <1>3. PICK v \in Text : v = From(u, k + 1) /\ Len(v) = m /\ \A x \in 1 .. m : v[x] = u[k + x]
    <2>1. PICK v \in Text : /\ v = From(u, k + 1) /\ Len(v) = n - k
                            /\ \A x \in 1 .. n - k : v[x] = u[k + x]
      BY <1>1, Behind
    <2> QED BY <1>2, <2>1
  <1>4. \A j \in Nat : k + j - k = j /\ k + (j + 1) = (k + j) + 1 /\ k + (j - 1) = (k + j) - 1
    BY <1>2
  <1>5. \A j \in 1 .. m - 1 : /\ j \in 1 .. m /\ j + 1 \in 1 .. m /\ k + j \in 1 .. n - 1 /\ j \in Nat
                              /\ v[j] = u[k + j] /\ v[j + 1] = u[(k + j) + 1]
    BY <1>2, <1>3, <1>4
  <1>6. /\ \A j : j \in At(u, ThinkOpen) <=> j \in 1 .. n - 1 /\ u[j] = "o1" /\ u[j + 1] = "o2"
        /\ \A j : j \in At(u, ThinkClose) <=> j \in 1 .. n - 1 /\ u[j] = "c1" /\ u[j + 1] = "c2"
        /\ \A j : j \in At(v, ThinkOpen) <=> j \in 1 .. m - 1 /\ v[j] = "o1" /\ v[j + 1] = "o2"
        /\ \A j : j \in At(v, ThinkClose) <=> j \in 1 .. m - 1 /\ v[j] = "c1" /\ v[j + 1] = "c2"
    BY ZenonT(40), <1>1, <1>3, PairsAre
  <1>7. \A i \in 1 .. n - 1 : i > k => \E j \in 1 .. m - 1 : i = k + j /\ i - k = j
    <2> SUFFICES ASSUME NEW i \in 1 .. n - 1, i > k
                 PROVE  \E j \in 1 .. m - 1 : i = k + j /\ i - k = j
      OBVIOUS
    <2>1. i - k \in 1 .. m - 1 /\ i = k + (i - k) BY <1>1, <1>2
    <2> QED BY <2>1
  <1>8. /\ \A i \in At(u, ThinkOpen) : i > k => i - k \in At(v, ThinkOpen)
        /\ \A i \in At(u, ThinkClose) : i > k => i - k \in At(v, ThinkClose)
    <2>1. ASSUME NEW i \in At(u, ThinkOpen), i > k PROVE i - k \in At(v, ThinkOpen)
      <3>1. i \in 1 .. n - 1 /\ u[i] = "o1" /\ u[i + 1] = "o2" BY <1>6, <2>1
      <3>2. PICK j \in 1 .. m - 1 : i = k + j /\ i - k = j BY <1>7, <2>1, <3>1
      <3>3. v[j] = "o1" /\ v[j + 1] = "o2" BY <1>5, <3>1, <3>2
      <3> QED BY <1>6, <3>2, <3>3
    <2>2. ASSUME NEW i \in At(u, ThinkClose), i > k PROVE i - k \in At(v, ThinkClose)
      <3>1. i \in 1 .. n - 1 /\ u[i] = "c1" /\ u[i + 1] = "c2" BY <1>6, <2>2
      <3>2. PICK j \in 1 .. m - 1 : i = k + j /\ i - k = j BY <1>7, <2>2, <3>1
      <3>3. v[j] = "c1" /\ v[j + 1] = "c2" BY <1>5, <3>1, <3>2
      <3> QED BY <1>6, <3>2, <3>3
    <2> QED BY <2>1, <2>2
  <1>9. /\ \A i \in At(v, ThinkOpen) : i + k \in At(u, ThinkOpen)
        /\ \A i \in At(v, ThinkClose) : i + k \in At(u, ThinkClose)
    <2>1. \A i \in 1 .. m - 1 : i + k = k + i BY <1>2
    <2>2. ASSUME NEW i \in At(v, ThinkOpen) PROVE k + i \in At(u, ThinkOpen)
      <3>1. i \in 1 .. m - 1 /\ v[i] = "o1" /\ v[i + 1] = "o2" BY <1>6
      <3>2. PICK j : j = k + i /\ j \in 1 .. n - 1 /\ u[j] = "o1" /\ u[j + 1] = "o2" BY <1>5, <3>1
      <3> QED BY <1>6, <3>2
    <2>3. ASSUME NEW i \in At(v, ThinkClose) PROVE k + i \in At(u, ThinkClose)
      <3>1. i \in 1 .. m - 1 /\ v[i] = "c1" /\ v[i + 1] = "c2" BY <1>6
      <3>2. PICK j : j = k + i /\ j \in 1 .. n - 1 /\ u[j] = "c1" /\ u[j + 1] = "c2" BY <1>5, <3>1
      <3> QED BY <1>6, <3>2
    <2> QED BY <1>6, <2>1, <2>2, <2>3
  <1>10. ASSUME NEW j \in 1 .. m, k + j \in ToolStarts(u) PROVE j \in ToolStarts(v)
    <2>1. Opens(u, k + j) /\ j \in Nat /\ v[j] = u[k + j] BY <1>3, <1>10, ToolStartsAre
    <2>2. CASE k + j < n /\ u[k + j] = "t1" /\ u[(k + j) + 1] = "t2"
      <3>1. j < m /\ j \in 1 .. m - 1 BY <1>2, <1>10, <2>2
      <3>2. v[j] = "t1" /\ v[j + 1] = "t2" BY <1>5, <2>2, <3>1
      <3> QED BY <1>3, <3>1, <3>2, ToolStartsAre DEF Opens
    <2>3. CASE u[k + j] = "i1" BY <1>3, <2>1, <2>3, ToolStartsAre DEF Opens
    <2>4. CASE \E h \in 1 .. n : NameWith(u, k + j, h)
      <3>1. PICK h \in 1 .. n : NameWith(u, k + j, h) BY <2>4
      <3>2. /\ k + j < h /\ h < n /\ u[h] = "k1" /\ u[h + 1] = "k2"
            /\ (\A y \in k + j .. h - 1 : u[y] = "n") /\ (k + j = 1 \/ u[(k + j) - 1] # "n")
        BY <1>1, <3>1 DEF NameWith
      <3>3. PICK g \in 1 .. m - 1 : h = k + g /\ j < g /\ g < m
        <4>1. h - k \in 1 .. m - 1 /\ h = k + (h - k) /\ j < h - k /\ h - k < m
          BY <1>2, <1>10, <3>1, <3>2
        <4> QED BY <4>1
      <3>4. v[g] = "k1" /\ v[g + 1] = "k2" BY <1>5, <3>2, <3>3
      <3>5. \A y \in j .. g - 1 : v[y] = "n"
        <4>1. \A y \in j .. g - 1 : y \in 1 .. m /\ k + y \in k + j .. h - 1 BY <1>2, <1>10, <3>3
        <4> QED BY <1>3, <3>2, <4>1
      <3>6. j = 1 \/ v[j - 1] # "n"
        <4>1. CASE j # 1
          <5>1. j - 1 \in 1 .. m /\ k + (j - 1) = (k + j) - 1 /\ k + j # 1 BY <1>2, <1>10, <4>1
          <5> QED BY <1>3, <3>2, <5>1
        <4> QED BY <4>1
      <3>7. NameWith(v, j, g) BY <1>3, <3>3, <3>4, <3>5, <3>6 DEF NameWith
      <3>8. g \in 1 .. m BY <1>2, <3>3
      <3> QED BY <1>3, <3>7, <3>8, ToolStartsAre DEF Opens
    <2> QED BY <1>1, <2>1, <2>2, <2>3, <2>4 DEF Opens
  <1>11. \A i \in ToolStarts(u) : i > k => i - k \in ToolStarts(v)
    <2> SUFFICES ASSUME NEW i \in ToolStarts(u), i > k PROVE i - k \in ToolStarts(v) OBVIOUS
    <2>1. i \in 1 .. n BY <1>1, ToolStartsAre
    <2>2. PICK j \in 1 .. m : j = i - k /\ k + j = i
      <3>1. i - k \in 1 .. m /\ k + (i - k) = i BY <1>2, <2>1
      <3> QED BY <3>1
    <2> QED BY <1>10, <2>2
  <1>12. ASSUME \A i \in ToolStarts(u) : i > k, NEW j \in ToolStarts(v)
         PROVE  j + k \in ToolStarts(u)
    <2>1. Opens(v, j) /\ j \in 1 .. m /\ j \in Nat BY <1>3, <1>12, ToolStartsAre
    <2>2. k + j \in 1 .. n /\ v[j] = u[k + j] /\ j + k = k + j BY <1>2, <1>3, <2>1
    <2>3. CASE j < m /\ v[j] = "t1" /\ v[j + 1] = "t2"
      <3>1. j \in 1 .. m - 1 /\ k + j < n BY <1>2, <2>1, <2>3
      <3>2. u[k + j] = "t1" /\ u[(k + j) + 1] = "t2" BY <1>5, <2>3, <3>1
      <3> QED BY <1>1, <2>2, <3>1, <3>2, ToolStartsAre DEF Opens
    <2>4. CASE v[j] = "i1" BY <1>1, <2>2, <2>4, ToolStartsAre DEF Opens
    <2>5. CASE \E g \in 1 .. m : NameWith(v, j, g)
      <3>1. PICK g \in 1 .. m : NameWith(v, j, g) BY <2>5
      <3>2. /\ j < g /\ g < m /\ v[g] = "k1" /\ v[g + 1] = "k2"
            /\ (\A y \in j .. g - 1 : v[y] = "n") /\ (j = 1 \/ v[j - 1] # "n")
        BY <1>3, <3>1 DEF NameWith
      <3>3. g \in 1 .. m - 1 /\ g - 1 \in j .. g - 1 /\ g - 1 \in 1 .. m BY <1>2, <2>1, <3>2
      <3>4. u[k + g] = "k1" /\ u[(k + g) + 1] = "k2" /\ u[(k + g) - 1] = "n"
        <4>1. v[g - 1] = u[k + (g - 1)] BY <1>3, <3>3
        <4>2. v[g - 1] = "n" BY <3>2, <3>3
        <4> QED BY <1>4, <1>5, <3>2, <3>3, <4>1, <4>2
      <3>5. PICK h : h = k + g /\ h \in 2 .. n - 1 BY <1>1, <1>2, <2>1, <3>2, <3>3
      <3>6. PICK s : s = NameStart(u, h) OBVIOUS
      <3>7. NameWith(u, s, h) /\ s \in ToolStarts(u) BY <1>1, <3>4, <3>5, <3>6, NameOpens
      <3>8. s \in 1 .. n /\ s > k BY <1>1, <1>12, <3>7, ToolStartsAre
      <3>9. /\ s < h /\ (\A y \in s .. h - 1 : u[y] = "n") /\ (s = 1 \/ u[s - 1] # "n")
        BY <3>7 DEF NameWith
      <3>10. ~(s > k + j)
        <4> SUFFICES ASSUME s > k + j PROVE FALSE OBVIOUS
        <4>1. s # 1 /\ (s - 1) - k \in j .. g - 1 /\ k + ((s - 1) - k) = s - 1
               /\ (s - 1) - k \in 1 .. m
          BY <1>2, <2>1, <3>2, <3>5, <3>8, <3>9
        <4>2. v[(s - 1) - k] = "n" BY <3>2, <4>1
        <4>3. v[(s - 1) - k] = u[s - 1] BY <1>3, <4>1
        <4> QED BY <3>9, <4>1, <4>2, <4>3
      <3>11. ~(s < k + j)
        <4> SUFFICES ASSUME s < k + j PROVE FALSE OBVIOUS
        <4>1. /\ (k + j) - 1 \in s .. h - 1 /\ j # 1 /\ j - 1 \in 1 .. m /\ k + (j - 1) = (k + j) - 1
          BY <1>2, <2>1, <3>2, <3>5, <3>8
        <4>2. v[j - 1] = "n" BY <1>3, <3>9, <4>1
        <4> QED BY <3>2, <4>1, <4>2
      <3>12. s = k + j BY <2>2, <3>8, <3>10, <3>11
      <3> QED BY <2>2, <3>7, <3>12
    <2> QED BY <1>3, <2>1, <2>3, <2>4, <2>5 DEF Opens
  <1> QED BY <1>3, <1>8, <1>9, <1>11, <1>12

\* When more comes, no delimiter begins in a front that has none, short of the last
\* symbol, unless it is a name whose argument is to come.
LEMMA NoneCut ==
    ASSUME NEW w \in Text, NEW x \in Text, NEW k \in 0 .. Len(w), k = 0 \/ k < Len(w)
    PROVE  LET u == w \o x
           IN  /\ At(w, ThinkOpen) = {} => \A i \in At(u, ThinkOpen) : i > k
               /\ At(w, ThinkClose) = {} => \A i \in At(u, ThinkClose) : i > k
               /\ /\ ToolStarts(w) = {}
                  /\ \A i \in 1 .. k, h \in 1 .. Len(u) : NameWith(u, i, h) => h < Len(w)
                  => \A i \in ToolStarts(u) : i > k
  <1>1. PICK n \in Nat : n = Len(w) BY TextIs
  <1>2. PICK m \in Nat : m = Len(x) BY TextIs
  <1>3. PICK u \in Text : u = w \o x BY CatIs
  <1>4. Len(u) = n + m /\ \A j \in 1 .. n : u[j] = w[j] BY <1>1, <1>2, <1>3, CatIs
  <1>5. \A i \in 1 .. n + m : ~(i > k) => i \in 1 .. n - 1 /\ i \in 1 .. k BY <1>1, <1>2
  <1>6. /\ \A j \in 1 .. n - 1 : /\ j \in At(u, ThinkOpen) => j \in At(w, ThinkOpen)
                                 /\ j \in At(u, ThinkClose) => j \in At(w, ThinkClose)
    BY <1>1, <1>3, HitsMore
  <1>7. /\ \A j \in At(u, ThinkOpen) : j \in 1 .. n + m
        /\ \A j \in At(u, ThinkClose) : j \in 1 .. n + m
    <2>1. \A j \in 1 .. n + m - 1 : j \in 1 .. n + m BY <1>1, <1>2
    <2> QED BY <1>4, <2>1, PairsAre
  <1>8. ASSUME ToolStarts(w) = {},
               \A i \in 1 .. k, h \in 1 .. n + m : NameWith(u, i, h) => h < n,
               NEW i \in ToolStarts(u), ~(i > k)
        PROVE  FALSE
    <2>1. i \in 1 .. n + m /\ Opens(u, i) BY <1>4, <1>8, ToolStartsAre
    <2>2. i \in 1 .. n - 1 /\ i \in 1 .. k /\ i \in 1 .. n /\ i + 1 \in 1 .. n /\ i < n
      BY <1>1, <1>5, <1>8, <2>1
    <2>3. u[i] = w[i] /\ u[i + 1] = w[i + 1] BY <1>4, <2>2
    <2>4. ~Opens(w, i) BY <1>1, <1>8, <2>2, ToolStartsAre
    <2>5. CASE u[i] = "t1" /\ u[i + 1] = "t2" BY <1>1, <2>2, <2>3, <2>4, <2>5 DEF Opens
    <2>6. CASE u[i] = "i1" BY <2>3, <2>4, <2>6 DEF Opens
    <2>7. CASE \E h \in 1 .. n + m : NameWith(u, i, h)
      <3>1. PICK h \in 1 .. n + m : NameWith(u, i, h) BY <2>7
      <3>2. h < n BY <1>8, <2>2, <3>1
      <3>3. /\ i < h /\ u[h] = "k1" /\ u[h + 1] = "k2"
            /\ (\A y \in i .. h - 1 : u[y] = "n") /\ (i = 1 \/ u[i - 1] # "n")
        BY <3>1 DEF NameWith
      <3>4. h \in 1 .. n /\ h + 1 \in 1 .. n /\ (i = 1 \/ i - 1 \in 1 .. n) BY <1>1, <2>2, <3>1, <3>2
      <3>5. \A y \in i .. h - 1 : y \in 1 .. n BY <2>2, <3>4
      <3>6. NameWith(w, i, h) BY <1>1, <1>4, <3>2, <3>3, <3>4, <3>5 DEF NameWith
      <3> QED BY <1>1, <2>4, <3>4, <3>6 DEF Opens
    <2> QED BY <1>4, <2>1, <2>5, <2>6, <2>7 DEF Opens
  <1> QED BY <1>1, <1>3, <1>4, <1>5, <1>6, <1>7, <1>8

\* Of two cores one of which has lost the front of its window, the other finds the
\* same delimiters first when none began in the front.
LEMMA FirstShift ==
    ASSUME NEW b \in Cores, NEW a \in Cores, NEW k \in 0 .. Len(b.window),
           a.window = From(b.window, k + 1)
    PROVE  /\ \A i : i > k => /\ i \in ThinkHits(b) => i - k \in ThinkHits(a)
                              /\ i \in CloseHits(b) => i - k \in CloseHits(a)
                              /\ i \in ToolHits(b) => i - k \in ToolHits(a)
           /\ (\A i \in Hits(b) : i > k) =>
                 /\ \A i : FirstIn(i, Hits(b)) => FirstIn(i - k, Hits(a))
                 /\ Hits(b) = {} => Hits(a) = {}
           /\ (\A i \in Closers(b) : i > k) =>
                 /\ \A i : FirstIn(i, Closers(b)) => FirstIn(i - k, Closers(a))
                 /\ Closers(b) = {} => Closers(a) = {}
  <1>1. PICK u \in Text : u = b.window BY CoresAre
  <1>2. PICK v \in Text : v = From(u, k + 1) /\ v = a.window BY <1>1, Behind
  <1>3. k \in Nat BY <1>1, TextIs
  <1>4. /\ \A i \in At(u, ThinkOpen) : i > k => i - k \in At(v, ThinkOpen)
        /\ \A i \in At(u, ThinkClose) : i > k => i - k \in At(v, ThinkClose)
        /\ \A i \in ToolStarts(u) : i > k => i - k \in ToolStarts(v)
        /\ \A i \in At(v, ThinkOpen) : i + k \in At(u, ThinkOpen)
        /\ \A i \in At(v, ThinkClose) : i + k \in At(u, ThinkClose)
        /\ (\A i \in ToolStarts(u) : i > k) =>
              \A i \in ToolStarts(v) : i + k \in ToolStarts(u)
    BY <1>1, <1>2, HitsShift
  <1>5. /\ ThinkHits(b) = At(u, ThinkOpen) /\ CloseHits(b) = At(u, ThinkClose)
        /\ ThinkHits(a) = At(v, ThinkOpen) /\ CloseHits(a) = At(v, ThinkClose)
        /\ ToolHits(b) = IF HasTools THEN ToolStarts(u) ELSE {}
        /\ ToolHits(a) = IF HasTools THEN ToolStarts(v) ELSE {}
    BY <1>1, <1>2 DEF ThinkHits, CloseHits, ToolHits
  <1>6. \A i : i > k => /\ i \in ThinkHits(b) => i - k \in ThinkHits(a)
                        /\ i \in CloseHits(b) => i - k \in CloseHits(a)
                        /\ i \in ToolHits(b) => i - k \in ToolHits(a)
    BY <1>4, <1>5
  <1>7. (\A i \in ToolHits(b) : i > k) =>
           \A i : /\ i \in ThinkHits(a) => i + k \in ThinkHits(b)
                  /\ i \in CloseHits(a) => i + k \in CloseHits(b)
                  /\ i \in ToolHits(a) => i + k \in ToolHits(b)
    BY <1>4, <1>5
  <1>8. \A i \in Hits(b) \union Hits(a) : i \in Nat
    <2>1. \A i \in Hits(b) : i \in Nat BY CorePlaces
    <2>2. \A i \in Hits(a) : i \in Nat BY CorePlaces
    <2> QED BY <2>1, <2>2
  <1>9. ASSUME \A i \in Hits(b) : i > k
        PROVE  /\ \A i : FirstIn(i, Hits(b)) => FirstIn(i - k, Hits(a))
               /\ Hits(b) = {} => Hits(a) = {}
    <2>1. \A j \in Hits(a) : j + k \in Hits(b)
      <3>1. \A i \in ToolHits(b) : i > k BY <1>9 DEF Hits
      <3> QED BY <1>7, <3>1 DEF Hits
    <2>2. ASSUME NEW i, FirstIn(i, Hits(b)) PROVE FirstIn(i - k, Hits(a))
      <3>1. i \in Hits(b) /\ i > k /\ i \in Nat BY <1>8, <1>9, <2>2 DEF FirstIn
      <3>2. i - k \in Hits(a) BY <1>6, <3>1 DEF Hits
      <3>3. ASSUME NEW j \in Hits(a) PROVE i - k <= j
        <4>1. j + k \in Hits(b) /\ j \in Nat BY <1>8, <2>1
        <4>2. i <= j + k BY <2>2, <4>1 DEF FirstIn
        <4> QED BY <1>3, <3>1, <4>1, <4>2
      <3> QED BY <3>2, <3>3 DEF FirstIn
    <2> QED BY <2>1, <2>2
  <1>10. ASSUME \A i \in Closers(b) : i > k
         PROVE  /\ \A i : FirstIn(i, Closers(b)) => FirstIn(i - k, Closers(a))
                /\ Closers(b) = {} => Closers(a) = {}
    <2>1. \A j \in Closers(a) : j + k \in Closers(b)
      <3>1. \A i \in ToolHits(b) : i > k BY <1>10 DEF Closers
      <3> QED BY <1>7, <3>1 DEF Closers
    <2>2. ASSUME NEW i, FirstIn(i, Closers(b)) PROVE FirstIn(i - k, Closers(a))
      <3>1. i \in Closers(b) /\ i > k /\ i \in Nat BY <1>8, <1>10, <2>2 DEF FirstIn, Closers, Hits
      <3>2. i - k \in Closers(a) BY <1>6, <3>1 DEF Closers
      <3>3. ASSUME NEW j \in Closers(a) PROVE i - k <= j
        <4>1. j + k \in Closers(b) /\ j \in Nat BY <1>8, <2>1 DEF Closers, Hits
        <4>2. i <= j + k BY <2>2, <4>1 DEF FirstIn
        <4> QED BY <1>3, <3>1, <4>1, <4>2
      <3> QED BY <3>2, <3>3 DEF FirstIn
    <2> QED BY <2>1, <2>2
  <1> QED BY <1>6, <1>9, <1>10

\* The window is the end of the text, and thinking is what the request asked for or a
\* <think> began.
Suits(r, c, raw) ==
    /\ c \in Cores /\ raw \in Text
    /\ c.mode # "TOOL_BUFFER" => EndsWith(raw, c.window)
    /\ c.mode = "REASONING" => r.thinking \/ At(raw, ThinkOpen) # {}

\* NameTooLong, of a request.
TooLong(r, text) ==
    LET bound == IF r.thinking \/ At(text, ThinkOpen) # {} THEN 1 ELSE NameLimit
    IN  \E k \in At(text, ArgKeyOpen) : k - NameStart(text, k) >= bound

\* No name in front of an argument, in a text's end, reaches the bound.
LEMMA NamesFit ==
    ASSUME NEW raw \in Text, NEW u \in Text, EndsWith(raw, u), ~TooLong(req, raw),
           NameLimit \in Nat, NEW i \in 1 .. Len(u), NEW h \in 1 .. Len(u), NameWith(u, i, h)
    PROVE  h - i < IF req.thinking \/ At(raw, ThinkOpen) # {} THEN 1 ELSE NameLimit
  <1>1. PICK n \in Nat : n = Len(u) BY TextIs
  <1>2. PICK g \in Nat : g = Len(raw) - Len(u) /\ Len(raw) = g + n
    <2>1. Len(raw) \in Nat BY TextIs
    <2>2. Len(raw) - Len(u) \in Nat /\ Len(raw) = (Len(raw) - Len(u)) + n
      BY <1>1, <2>1 DEF EndsWith
    <2> QED BY <2>2
  <1>3. \A x \in 1 .. n : u[x] = raw[g + x] BY <1>1, <1>2 DEF EndsWith
  <1>4. /\ i < h /\ h < n /\ u[h] = "k1" /\ u[h + 1] = "k2" /\ \A y \in i .. h - 1 : u[y] = "n"
    BY <1>1 DEF NameWith
  <1>5. PICK k : k = g + h /\ k \in 1 .. (g + n) - 1 /\ k \in Nat /\ k >= 1 /\ k + 1 = g + (h + 1)
    <2>1. /\ g + h \in 1 .. (g + n) - 1 /\ g + h \in Nat /\ g + h >= 1
          /\ (g + h) + 1 = g + (h + 1)
      BY <1>1, <1>2, <1>4
    <2> QED BY <2>1
  <1>6. raw[k] = "k1" /\ raw[k + 1] = "k2"
    <2>1. h \in 1 .. n /\ h + 1 \in 1 .. n BY <1>1, <1>4
    <2> QED BY <1>3, <1>4, <1>5, <2>1
  <1>7. k \in At(raw, ArgKeyOpen)
    <2>1. "k1" \in Symbol /\ "k2" \in Symbol BY DEF Symbol
    <2>2. \A j : j \in At(raw, ArgKeyOpen) <=>
                    j \in 1 .. Len(raw) - 1 /\ raw[j] = "k1" /\ raw[j + 1] = "k2"
      BY <2>1, AtIs DEF ArgKeyOpen
    <2> QED BY <1>2, <1>5, <1>6, <2>2
  <1>8. PICK s : s = NameStart(raw, k) OBVIOUS
  <1>9. s \in 1 .. k /\ (s = 1 \/ raw[s - 1] # "n")
    <2>1. s \in 1 .. k BY <1>5, <1>8, NameStartIs
    <2>2. k <= Len(raw) + 1 BY <1>2, <1>5
    <2>3. s = 1 \/ raw[s - 1] # "n" BY <1>5, <1>8, <2>2, NameBegins
    <2> QED BY <2>1, <2>3
  <1>10. s <= g + i
    <2> SUFFICES ASSUME s > g + i PROVE FALSE BY <1>1, <1>2, <1>5, <1>9
    <2>1. PICK y \in Nat : y = (s - 1) - g /\ y \in i .. h - 1 /\ y \in 1 .. n /\ g + y = s - 1
      <3>1. (s - 1) - g \in Nat /\ (s - 1) - g \in i .. h - 1 /\ (s - 1) - g \in 1 .. n
            /\ g + ((s - 1) - g) = s - 1
        BY SMTT(60), <1>1, <1>2, <1>4, <1>5, <1>9
      <3> QED BY <3>1
    <2>2. raw[s - 1] = "n" BY <1>3, <1>4, <2>1
    <2>3. s # 1 BY <1>1, <1>2, <1>9
    <2> QED BY <1>9, <2>2, <2>3
  <1>11. PICK bound \in Nat : bound = IF req.thinking \/ At(raw, ThinkOpen) # {} THEN 1 ELSE NameLimit
    OBVIOUS
  <1>12. ~(k - s >= bound) BY <1>7, <1>8, <1>11 DEF TooLong
  <1>13. h - i <= k - s BY <1>1, <1>2, <1>5, <1>9, <1>10
  <1>14. h - i < bound BY <1>1, <1>5, <1>9, <1>12, <1>13
  <1> QED BY <1>11, <1>14

\* A name that is to be said has its argument in the window, if it is short enough.
LEMMA NamesCut ==
    ASSUME NEW w \in Text, NEW x \in Text, req.vocabulary.stop \in BOOLEAN, HasTools,
           NameLimit \in Nat, NEW i \in 1 .. Cut(w), NEW h \in 1 .. Len(w \o x),
           NameWith(w \o x, i, h), h - i < NameLimit
    PROVE  h < Len(w)
  <1>1. PICK n \in Nat : n = Len(w) BY TextIs
  <1>2. PICK m \in Nat : m = Len(x) BY TextIs
  <1>3. PICK u \in Text : u = w \o x BY CatIs
  <1>4. Len(u) = n + m /\ \A j \in 1 .. n : u[j] = w[j] BY <1>1, <1>2, <1>3, CatIs
  <1>5. PICK q \in 0 .. n : q = Releasable(w) /\ Cut(w) \in 0 .. q BY <1>1, CutAgain
  <1>6. i \in 1 .. q /\ i \in Nat /\ i >= 1 /\ q \in Nat BY <1>1, <1>5
  <1>7. q < n
    <2>1. w # <<>> BY <1>1, <1>6
    <2> QED BY <1>1, <1>5, <2>1, KeepsOne
  <1>8. PICK s : s = NameStart(w, q + 1) OBVIOUS
  <1>9. Cut(w) = IF q + 1 - s < NameLimit THEN q - (q + 1 - s) ELSE q
    BY <1>5, <1>8 DEF Cut, NameHeld
  <1>10. h \in Nat /\ i < h /\ (\A y \in i .. h - 1 : u[y] = "n") /\ (i = 1 \/ u[i - 1] # "n")
    BY <1>3, <1>4 DEF NameWith
  <1> SUFFICES ASSUME ~(h < Len(w)) PROVE FALSE OBVIOUS
  <1>11. h >= n BY <1>1, <1>10
  <1>12. \A y \in i .. q : w[y] = "n"
    <2>1. \A y \in i .. q : y \in i .. h - 1 /\ y \in 1 .. n BY <1>6, <1>7, <1>10, <1>11
    <2> QED BY <1>4, <1>10, <2>1
  <1>13. i = 1 \/ w[i - 1] # "n"
    <2>1. i = 1 \/ i - 1 \in 1 .. n BY <1>6, <1>7
    <2> QED BY <1>4, <1>10, <2>1
  <1>14. s = i
    <2>1. PICK p \in Nat : p = q + 1 /\ p - 1 = q /\ p >= 1 /\ p <= Len(w) + 1 BY <1>1, <1>5
    <2>2. i \in 1 .. p BY <1>6, <2>1
    <2>3. \A y \in i .. p - 1 : w[y] = "n" BY <1>12, <2>1
    <2>4. NameStart(w, p) = i BY <1>13, <2>1, <2>2, <2>3, NameBegins
    <2> QED BY <1>8, <2>1, <2>4
  <1>15. CASE q + 1 - i < NameLimit
    <2>1. Cut(w) = q - (q + 1 - i) BY <1>9, <1>14, <1>15
    <2>2. i <= Cut(w) BY <1>5
    <2> QED BY <1>6, <2>1, <2>2
  <1>16. CASE ~(q + 1 - i < NameLimit) BY <1>6, <1>7, <1>10, <1>11, <1>16
  <1> QED BY <1>15, <1>16

\* What is a text's end is so with more behind both.
LEMMA EndsMore ==
    ASSUME NEW raw \in Text, NEW w \in Text, EndsWith(raw, w), NEW x \in Text
    PROVE  EndsWith(raw \o x, w \o x)
  <1>1. PICK n \in Nat : n = Len(w) BY TextIs
  <1>2. PICK m \in Nat : m = Len(x) BY TextIs
  <1>3. PICK g \in Nat : g = Len(raw) - Len(w) /\ Len(raw) = g + n
    <2>1. Len(raw) \in Nat BY TextIs
    <2>2. Len(raw) - Len(w) \in Nat /\ Len(raw) = (Len(raw) - Len(w)) + n
      BY <1>1, <2>1 DEF EndsWith
    <2> QED BY <2>2
  <1>4. PICK u \in Text : /\ u = w \o x /\ Len(u) = n + m
                          /\ \A j \in 1 .. n : u[j] = w[j]
                          /\ \A j \in 1 .. m : u[n + j] = x[j]
    <2>1. PICK u \in Text : u = w \o x BY CatIs
    <2>2. /\ Len(u) = Len(w) + Len(x)
          /\ \A j \in 1 .. Len(w) : u[j] = w[j]
          /\ \A j \in 1 .. Len(x) : u[Len(w) + j] = x[j]
      BY <2>1, CatIs
    <2> QED BY <1>1, <1>2, <2>1, <2>2
  <1>5. PICK l \in Nat : l = Len(raw) /\ l = g + n BY <1>3, TextIs
  <1>6. PICK t \in Text : /\ t = raw \o x /\ Len(t) = l + m
                          /\ \A j \in 1 .. l : t[j] = raw[j]
                          /\ \A j \in 1 .. m : t[l + j] = x[j]
    <2>1. PICK t \in Text : t = raw \o x BY CatIs
    <2>2. /\ Len(t) = Len(raw) + Len(x)
          /\ \A j \in 1 .. Len(raw) : t[j] = raw[j]
          /\ \A j \in 1 .. Len(x) : t[Len(raw) + j] = x[j]
      BY <2>1, CatIs
    <2> QED BY ZenonT(40), <1>2, <1>5, <2>1, <2>2
  <1>7. Len(t) - Len(u) = g /\ Len(u) <= Len(t) BY <1>4, <1>5, <1>6
  <1>8. \A j \in 1 .. n : w[j] = raw[g + j] BY <1>1, <1>3 DEF EndsWith
  <1>9. \A j \in 1 .. n + m : u[j] = t[g + j]
    <2> SUFFICES ASSUME NEW j \in 1 .. n + m PROVE u[j] = t[g + j] OBVIOUS
    <2>1. CASE j <= n
      <3>1. j \in 1 .. n /\ g + j \in 1 .. l BY <1>5, <2>1
      <3> QED BY <1>4, <1>6, <1>8, <3>1
    <2>2. CASE j > n
      <3>1. j - n \in 1 .. m /\ j = n + (j - n) /\ g + j = l + (j - n) BY <1>5, <2>2
      <3> QED BY ZenonT(40), <1>4, <1>6, <3>1
    <2> QED BY <2>1, <2>2
  <1> QED BY <1>4, <1>6, <1>7, <1>9 DEF EndsWith

\* A core waits while it reasons: when more comes, nothing it looks for begins in what
\* was thought.
LEMMA NoneThought ==
    ASSUME Asked(req), NameLimit \in Nat, NEW c \in Cores, c.mode = "REASONING", Closers(c) = {},
           NEW raw, Suits(req, c, raw), NEW x \in Text, ~TooLong(req, raw \o x)
    PROVE  \A i \in Closers(Ext(c, x)) : i > Releasable(c.window)
  <1>1. PICK w \in Text : w = c.window /\ EndsWith(raw, w) /\ raw \in Text
    BY CoresAre DEF Suits
  <1>2. PICK u \in Text : u = w \o x BY CatIs
  <1>3. PICK b \in Cores : b = Ext(c, x) /\ b.window = u BY <1>1, <1>2, ExtIs
  <1>4. PICK k \in 0 .. Len(w) : k = Releasable(w) /\ (k = 0 \/ k < Len(w))
    <2>1. Releasable(w) \in 0 .. Len(w) /\ (w # <<>> => Releasable(w) < Len(w)) BY KeepsOne DEF Asked
    <2>2. w = <<>> => Len(w) = 0 OBVIOUS
    <2> QED BY <2>1, <2>2
  <1>5. At(w, ThinkClose) = {} /\ (HasTools => ToolStarts(w) = {})
    BY <1>1 DEF Closers, CloseHits, ToolHits
  <1>6. PICK t \in Text : t = raw \o x BY <1>1, CatIs
  <1>7. EndsWith(t, u) /\ ~TooLong(req, t) BY <1>1, <1>2, <1>6, EndsMore
  <1>8. req.thinking \/ At(t, ThinkOpen) # {}
    <2>1. At(raw, ThinkOpen) \subseteq At(t, ThinkOpen) BY <1>1, <1>6, TagsOn
    <2> QED BY <2>1 DEF Suits
  <1>9. \A i \in 1 .. k, h \in 1 .. Len(u) : NameWith(u, i, h) => h < Len(w)
    <2> SUFFICES ASSUME NEW i \in 1 .. k, NEW h \in 1 .. Len(u), NameWith(u, i, h) PROVE FALSE
      OBVIOUS
    <2>1. i \in 1 .. Len(u)
      <3>1. Len(u) \in Nat /\ Len(w) \in Nat /\ Len(x) \in Nat BY TextIs
      <3>2. Len(u) = Len(w) + Len(x) BY <1>2, CatIs
      <3> QED BY <1>4, <3>1, <3>2
    <2>2. h - i < 1 BY <1>7, <1>8, <2>1, NamesFit
    <2>3. i < h /\ h \in Nat /\ i \in Nat BY <2>1 DEF NameWith
    <2> QED BY <2>2, <2>3
  <1>10. /\ \A i \in At(u, ThinkClose) : i > k
         /\ HasTools => \A i \in ToolStarts(u) : i > k
    BY <1>2, <1>4, <1>5, <1>9, NoneCut
  <1> QED BY <1>1, <1>3, <1>4, <1>10 DEF Closers, CloseHits, ToolHits

\* Nor in what was said.
LEMMA NoneSaid ==
    ASSUME Asked(req), NameLimit \in Nat, NEW c \in Cores, c.mode = "CONTENT", Hits(c) = {},
           NEW raw, Suits(req, c, raw), NEW x \in Text, ~TooLong(req, raw \o x)
    PROVE  \A i \in Hits(Ext(c, x)) : i > Cut(c.window)
  <1>1. PICK w \in Text : w = c.window /\ EndsWith(raw, w) /\ raw \in Text
    BY CoresAre DEF Suits
  <1>2. PICK u \in Text : u = w \o x BY CatIs
  <1>3. PICK b \in Cores : b = Ext(c, x) /\ b.window = u BY <1>1, <1>2, ExtIs
  <1>4. PICK k \in 0 .. Len(w) : k = Cut(w) /\ (k = 0 \/ k < Len(w))
    <2>1. Releasable(w) \in 0 .. Len(w) /\ (w # <<>> => Releasable(w) < Len(w)) BY KeepsOne DEF Asked
    <2>2. w = <<>> => Len(w) = 0 OBVIOUS
    <2>3. Cut(w) \in 0 .. Releasable(w) BY CutAgain DEF Asked
    <2>4. Len(w) \in Nat BY TextIs
    <2>5. Cut(w) \in 0 .. Len(w) /\ (Cut(w) = 0 \/ Cut(w) < Len(w)) BY <2>1, <2>2, <2>3, <2>4
    <2> QED BY <2>5
  <1>5. At(w, ThinkClose) = {} /\ At(w, ThinkOpen) = {} /\ (HasTools => ToolStarts(w) = {})
    BY <1>1 DEF Hits, ThinkHits, CloseHits, ToolHits
  <1>6. PICK t \in Text : t = raw \o x BY <1>1, CatIs
  <1>7. EndsWith(t, u) /\ ~TooLong(req, t) BY <1>1, <1>2, <1>6, EndsMore
  <1>8. HasTools => \A i \in 1 .. k, h \in 1 .. Len(u) : NameWith(u, i, h) => h < Len(w)
    <2> SUFFICES ASSUME HasTools, NEW i \in 1 .. k, NEW h \in 1 .. Len(u), NameWith(u, i, h)
                 PROVE  h < Len(w)
      OBVIOUS
    <2>1. i \in 1 .. Len(u)
      <3>1. Len(u) \in Nat /\ Len(w) \in Nat /\ Len(x) \in Nat BY TextIs
      <3>2. Len(u) = Len(w) + Len(x) BY <1>2, CatIs
      <3> QED BY <1>4, <3>1, <3>2
    <2>2. h - i < IF req.thinking \/ At(t, ThinkOpen) # {} THEN 1 ELSE NameLimit
      BY <1>7, <2>1, NamesFit
    <2>3. i < h /\ h \in Nat /\ i \in Nat BY <2>1 DEF NameWith
    <2>4. h - i < NameLimit BY <2>2, <2>3
    <2>5. i \in 1 .. Cut(w) BY <1>4
    <2> QED BY <1>2, <2>4, <2>5, NamesCut DEF Asked
  <1>9. /\ \A i \in At(u, ThinkClose) : i > k
        /\ \A i \in At(u, ThinkOpen) : i > k
        /\ HasTools => \A i \in ToolStarts(u) : i > k
    BY <1>2, <1>4, <1>5, <1>8, NoneCut
  <1> QED BY <1>1, <1>3, <1>4, <1>9 DEF Hits, ThinkHits, CloseHits, ToolHits

\* A name's symbol with nothing but white space around it.
Lone(text, p) ==
    /\ p \in 1 .. Len(text) /\ text[p] = "n"
    /\ \A x \in 1 .. Len(text) : x # p => text[x] = "w"

\* A text that is nothing but a name when it is trimmed.
LEMMA TrimmedLone ==
    ASSUME NEW text \in Text, Trimmed(text) = <<"n">>
    PROVE  \E p : Lone(text, p)
  <1> DEFINE B == {i \in 1 .. Len(text) : text[i] # "w"}
  <1>1. PICK n \in Nat : n = Len(text) BY TextIs
  <1>2. Len(<<>>) = 0 /\ Len(<<"n">>) = 1 /\ <<"n">>[1] = "n" OBVIOUS
  <1>3. ~Blank(text) /\ Trimmed(text) = SubSeq(text, FirstBlack(text), Max(B))
    BY <1>2 DEF Trimmed
  <1>4. B # {} /\ B \in SUBSET Nat /\ \A j \in B : j <= n BY <1>1, <1>3 DEF Blank
  <1>5. PICK b \in Nat : b = Max(B) /\ b <= n /\ \A j \in B : j <= b
    <2> HIDE DEF B
    <2>1. Max(B) \in B /\ Max(B) \in Nat /\ \A j \in B : j <= Max(B) BY <1>1, <1>4, MaxIs
    <2> QED BY <1>4, <2>1
  <1>6. PICK a \in Nat : /\ a = FirstBlack(text) /\ a >= 1
                         /\ \A x \in 1 .. a - 1 : text[x] = "w"
    <2>1. FirstBlack(text) \in 1 .. Len(text) + 1 /\ \A x \in 1 .. FirstBlack(text) - 1 : text[x] = "w"
      BY FirstBlackIs
    <2> QED BY <1>1, <2>1
  <1>7. \A x \in 1 .. n : x > b => text[x] = "w" BY <1>1, <1>5
  <1> HIDE DEF B
  <1>8. /\ Len(SubSeq(text, a, b)) = IF a <= b THEN b - a + 1 ELSE 0
        /\ \A i \in 1 .. b - a + 1 : SubSeq(text, a, b)[i] = text[a + i - 1]
    <2>1. b \in Int /\ a \in Nat /\ a >= 1 /\ b <= Len(text) BY <1>1, <1>5, <1>6
    <2>2. Len(SubSeq(text, a, b)) = IF a <= b THEN b - a + 1 ELSE 0 BY <2>1, SubIs
    <2>3. \A i \in 1 .. b - a + 1 : SubSeq(text, a, b)[i] = text[a + i - 1] BY <2>1, SubIs
    <2> QED BY <2>2, <2>3
  <1>9. SubSeq(text, a, b) = <<"n">> BY <1>3, <1>5, <1>6
  <1>10. a <= b /\ b - a + 1 = 1
    <2>1. (IF a <= b THEN b - a + 1 ELSE 0) = 1 BY <1>2, <1>8, <1>9
    <2>2. a <= b BY <1>5, <1>6, <2>1
    <2> QED BY <2>1, <2>2
  <1>11. a = b /\ 1 \in 1 .. b - a + 1 /\ a + 1 - 1 = a /\ a \in 1 .. n
    <2>1. a = b BY <1>5, <1>6, <1>10
    <2>2. 1 \in 1 .. b - a + 1 BY <1>10
    <2>3. a + 1 - 1 = a BY <1>6
    <2>4. a \in 1 .. n BY <1>1, <1>5, <1>6, <1>10
    <2> QED BY <2>1, <2>2, <2>3, <2>4
  <1>12. text[a] = "n"
    <2>1. SubSeq(text, a, b)[1] = text[a + 1 - 1] BY <1>8, <1>11
    <2> QED BY <1>2, <1>9, <1>11, <2>1
  <1>13. \A x \in 1 .. n : x # a => text[x] = "w"
    <2> SUFFICES ASSUME NEW x \in 1 .. n, x # a PROVE text[x] = "w" OBVIOUS
    <2>1. CASE x < a
      <3>1. x \in 1 .. a - 1 BY <1>6, <2>1
      <3> QED BY <1>6, <3>1
    <2>2. CASE x > a BY <1>7, <1>11, <2>2
    <2> QED BY <1>6, <2>1, <2>2
  <1> QED BY <1>1, <1>11, <1>12, <1>13 DEF Lone

\* How much of a text no delimiter can have begun in.
Free(text) == IF Len(text) > Holdback THEN Len(text) - Holdback ELSE 0

\* It bounds what is released, and is what is of a lone name, save the name itself.
LEMMA FreeIs ==
    ASSUME NEW text \in Text, req.vocabulary.stop \in BOOLEAN, NameLimit \in Nat
    PROVE  /\ Free(text) \in Nat /\ Free(text) <= Len(text) /\ Cut(text) \in Nat /\ Cut(text) <= Free(text)
           /\ HasTools => \A p : Lone(text, p) =>
                 Cut(text) = IF p = Free(text) /\ NameLimit > 1 THEN Free(text) - 1 ELSE Free(text)
  <1>1. PICK n \in Nat : n = Len(text) BY TextIs
  <1>2. PICK h \in Nat : h = Holdback /\ h >= 1 BY HoldbackIs
  <1>3. PICK r \in Nat : r = Free(text) /\ r <= n /\ (r = IF n > h THEN n - h ELSE 0)
    <2>1. Free(text) = IF n > h THEN n - h ELSE 0 BY <1>1, <1>2 DEF Free
    <2>2. (IF n > h THEN n - h ELSE 0) \in Nat /\ (IF n > h THEN n - h ELSE 0) <= n BY <1>1, <1>2
    <2> QED BY <2>1, <2>2
  <1>4. PICK q \in Nat : q = Releasable(text) /\ Cut(text) \in 0 .. q
    <2>1. Releasable(text) \in 0 .. n /\ Cut(text) \in 0 .. Releasable(text) BY <1>1, CutAgain
    <2> QED BY <1>1, <2>1
  <1>5. q = IF n > h THEN SafeLen(text, n - h) ELSE 0 BY <1>1, <1>2, <1>4 DEF Releasable
  <1>6. q <= r
    <2>1. CASE n > h
      <3>1. q = SafeLen(text, r) BY <1>3, <1>5, <2>1
      <3>2. SafeLen(text, r) = r \/ SafeLen(text, r) = r - 1 BY DEF SafeLen
      <3> QED BY <3>1, <3>2
    <2>2. CASE ~(n > h) BY <1>3, <1>5, <2>2
    <2> QED BY <2>1, <2>2
  <1>7. ASSUME HasTools, NEW p, Lone(text, p)
        PROVE  Cut(text) = IF p = r /\ NameLimit > 1 THEN r - 1 ELSE r
    <2>1. /\ p \in 1 .. n /\ text[p] = "n" /\ \A x \in 1 .. n : x # p => text[x] = "w"
      BY <1>1, <1>7 DEF Lone
    <2>2. \A x \in 1 .. n : text[x] # "u1"
      <3> SUFFICES ASSUME NEW x \in 1 .. n PROVE text[x] # "u1" OBVIOUS
      <3>1. text[x] = "n" \/ text[x] = "w" BY <2>1
      <3> QED BY <3>1
    <2>3. q = r
      <3>1. CASE n > h
        <4>1. q = SafeLen(text, r) /\ r \in 1 .. n BY <1>3, <1>5, <3>1
        <4>2. SafeLen(text, r) = r BY <2>2, <4>1 DEF SafeLen
        <4> QED BY <4>1, <4>2
      <3>2. CASE ~(n > h) BY <1>3, <1>5, <3>2
      <3> QED BY <3>1, <3>2
    <2>4. PICK s : s = NameStart(text, r + 1) OBVIOUS
    <2>5. Cut(text) = IF r + 1 - s < NameLimit THEN r - (r + 1 - s) ELSE r
      BY <1>4, <1>7, <2>3, <2>4 DEF Cut, NameHeld
    <2>6. PICK l \in Nat : l = r + 1 /\ l - 1 = r /\ l >= 1 /\ l <= Len(text) + 1
      <3>1. r + 1 \in Nat /\ (r + 1) - 1 = r /\ r + 1 >= 1 /\ r + 1 <= Len(text) + 1 BY <1>1, <1>3
      <3> QED BY <3>1
    <2>7. \A m \in 1 .. l : (\A x \in m .. l - 1 : text[x] = "n") /\ (m = 1 \/ text[m - 1] # "n")
                 => s = m
      <3>1. s = NameStart(text, l) BY <2>4, <2>6
      <3> QED BY <2>6, <3>1, NameBegins
    <2>8. CASE p = r
      <3>1. r \in 1 .. l /\ r \in Nat /\ r >= 1 BY <1>3, <2>1, <2>6, <2>8
      <3>2. \A x \in r .. l - 1 : text[x] = "n" BY <2>1, <2>6, <2>8
      <3>3. r = 1 \/ text[r - 1] # "n"
        <4>1. r = 1 \/ (r - 1 \in 1 .. n /\ r - 1 # p) BY <1>3, <2>8, <3>1
        <4>2. r # 1 => text[r - 1] = "w" BY <2>1, <4>1
        <4> QED BY <4>2
      <3>4. s = r BY <2>7, <3>1, <3>2, <3>3
      <3>5. Cut(text) = IF 1 < NameLimit THEN r - 1 ELSE r
        <4>1. r + 1 - r = 1 BY <1>3
        <4> QED BY <2>5, <3>4, <4>1
      <3> QED BY <2>8, <3>5
    <2>9. CASE p # r
      <3>1. l \in 1 .. l /\ l .. l - 1 = {} BY <2>6
      <3>2. l = 1 \/ text[l - 1] # "n"
        <4>1. l = 1 \/ (r \in 1 .. n /\ r # p) BY <1>3, <2>6, <2>9
        <4>2. l # 1 => text[r] = "w" BY <2>1, <4>1
        <4> QED BY <2>6, <4>2
      <3>3. s = l BY <2>7, <3>1, <3>2
      <3>4. r + 1 - s = 0 BY <2>6, <3>3
      <3>5. Cut(text) = IF 0 < NameLimit THEN r - 0 ELSE r BY <2>5, <3>4
      <3>6. Cut(text) = r BY <1>3, <3>5
      <3> QED BY <2>9, <3>6
    <2> QED BY <2>8, <2>9
  <1> QED BY <1>1, <1>3, <1>4, <1>6, <1>7

\* A lone name that was not said is cut off at the same place, whether the front has
\* gone before or not.
LEMMA LoneShift ==
    ASSUME Asked(req), HasTools, NameLimit \in Nat, NEW w \in Text, NEW x \in Text,
           NEW p, Lone(w \o x, p)
    PROVE  /\ p > Cut(w \o x) => p > Cut(w)
           /\ p > Cut(w) => Cut(w \o x) = Cut(w) + Cut(From(w \o x, Cut(w) + 1))
  <1>1. req.vocabulary.stop \in BOOLEAN BY DEF Asked
  <1>2. PICK u \in Text : u = w \o x BY CatIs
  <1>3. PICK n \in Nat : n = Len(w) BY TextIs
  <1>4. PICK l \in Nat : l = Len(u) /\ n <= l /\ \A j \in 1 .. n : u[j] = w[j]
    <2>1. Len(u) \in Nat /\ Len(x) \in Nat BY TextIs
    <2>2. Len(u) = Len(w) + Len(x) /\ \A j \in 1 .. Len(w) : u[j] = w[j] BY <1>2, CatIs
    <2> QED BY <1>3, <2>1, <2>2
  <1>5. PICK h \in Nat : h = Holdback /\ h >= 1 BY <1>1, HoldbackIs
  <1>6. p \in 1 .. l /\ u[p] = "n" /\ \A y \in 1 .. l : y # p => u[y] = "w" BY <1>2, <1>4 DEF Lone
  <1>7. PICK k \in Nat : k = Cut(w) /\ k <= Free(w) /\ Free(w) \in Nat /\ Free(w) <= n
    BY <1>1, <1>3, FreeIs
  <1>8. PICK r \in Nat : r = Free(u) /\ (r = IF l > h THEN l - h ELSE 0) /\ r <= l
    <2>1. Free(u) \in Nat /\ Free(u) <= l BY <1>1, <1>4, FreeIs
    <2>2. Free(u) = IF l > h THEN l - h ELSE 0 BY <1>4, <1>5 DEF Free
    <2> QED BY <2>1, <2>2
  <1>9. Cut(u) = IF p = r /\ NameLimit > 1 THEN r - 1 ELSE r BY <1>1, <1>2, <1>8, FreeIs
  <1>10. Free(w) = IF n > h THEN n - h ELSE 0 BY <1>3, <1>5 DEF Free
  <1>11. k <= r BY <1>3, <1>4, <1>5, <1>7, <1>8, <1>10
  <1>12. ASSUME p > Cut(u) PROVE p > k
    <2> SUFFICES ASSUME ~(p > k) PROVE FALSE OBVIOUS
    <2>1. p \in 1 .. n /\ p \in Nat BY <1>3, <1>6, <1>7
    <2>2. \A y \in 1 .. n : y \in 1 .. l /\ u[y] = w[y] BY <1>4
    <2>3. w[p] = "n" /\ \A y \in 1 .. n : y # p => w[y] = "w" BY <1>6, <2>1, <2>2
    <2>4. Lone(w, p) BY <1>3, <2>1, <2>3 DEF Lone
    <2>5. k = IF p = Free(w) /\ NameLimit > 1 THEN Free(w) - 1 ELSE Free(w)
      BY <1>1, <1>7, <2>4, FreeIs
    <2>6. p = r /\ NameLimit > 1
      <3>1. CASE p = r /\ NameLimit > 1 BY <3>1
      <3>2. CASE ~(p = r /\ NameLimit > 1)
        <4>1. p > r BY <1>9, <1>12, <3>2
        <4> QED BY <1>11, <2>1, <4>1
      <3> QED BY <3>1, <3>2
    <2>7. k = p BY <1>11, <2>1, <2>6
    <2>8. CASE p = Free(w)
      <3>1. k = Free(w) - 1 BY <2>5, <2>6, <2>8
      <3> QED BY <2>7, <2>8, <3>1, <2>1
    <2>9. CASE p # Free(w)
      <3>1. k = Free(w) BY <2>5, <2>9
      <3> QED BY <2>7, <2>9, <3>1
    <2> QED BY <2>8, <2>9
  <1>13. ASSUME p > k PROVE Cut(u) = k + Cut(From(u, k + 1))
    <2>1. k \in 0 .. Len(u) BY <1>3, <1>4, <1>7
    <2>2. PICK m \in Nat : m = l - k /\ l = k + m
      <3>1. l - k \in Nat /\ l = k + (l - k) BY <1>4, <2>1
      <3> QED BY <3>1
    <2>3. PICK v \in Text : v = From(u, k + 1) /\ Len(v) = m /\ \A y \in 1 .. m : v[y] = u[k + y]
      <3>1. PICK v \in Text : /\ v = From(u, k + 1) /\ Len(v) = Len(u) - k
                              /\ \A y \in 1 .. Len(u) - k : v[y] = u[k + y]
        BY <2>1, Behind
      <3> QED BY <1>4, <2>2, <3>1
    <2>4. PICK o \in Nat : o = p - k /\ p = k + o /\ o >= 1
      <3>1. p - k \in Nat /\ p = k + (p - k) /\ p - k >= 1 BY <1>6, <1>13, <1>7
      <3> QED BY <3>1
    <2>5. Lone(v, o)
      <3>1. o \in 1 .. m BY <1>6, <2>2, <2>4
      <3>2. \A y \in 1 .. m : k + y \in 1 .. l /\ (y # o => k + y # p) BY <1>7, <2>2, <2>4
      <3> QED BY <1>6, <2>3, <2>4, <3>1, <3>2 DEF Lone
    <2>6. PICK f \in Nat : f = Free(v) /\ (f = IF m > h THEN m - h ELSE 0)
      <3>1. Free(v) \in Nat BY <1>1, FreeIs
      <3>2. Free(v) = IF m > h THEN m - h ELSE 0 BY <1>5, <2>3 DEF Free
      <3> QED BY <3>1, <3>2
    <2>7. Cut(v) = IF o = f /\ NameLimit > 1 THEN f - 1 ELSE f BY <1>1, <2>5, <2>6, FreeIs
    <2>8. k + f = r
      <3>1. CASE m > h
        <4>1. f = m - h BY <2>6, <3>1
        <4>2. l > h BY <2>2, <3>1
        <4>3. r = l - h BY <1>8, <4>2
        <4> QED BY <2>2, <4>1, <4>3
      <3>2. CASE ~(m > h)
        <4>1. f = 0 BY <2>6, <3>2
        <4>2. CASE l > h BY <1>8, <1>11, <2>2, <3>2, <4>1, <4>2
        <4>3. CASE ~(l > h) BY <1>8, <1>11, <4>1, <4>3
        <4> QED BY <4>2, <4>3
      <3> QED BY <3>1, <3>2
    <2>9. o = f <=> p = r BY <2>4, <2>8
    <2>10. CASE o = f /\ NameLimit > 1
      <3>1. Cut(v) = f - 1 /\ Cut(u) = r - 1 BY <1>9, <2>7, <2>9, <2>10
      <3> QED BY SMTT(60), <2>3, <2>8, <3>1
    <2>11. CASE ~(o = f /\ NameLimit > 1)
      <3>1. Cut(v) = f /\ Cut(u) = r BY <1>9, <2>7, <2>9, <2>11
      <3> QED BY <2>3, <2>8, <3>1
    <2> QED BY <2>10, <2>11
  <1> QED BY <1>2, <1>7, <1>12, <1>13

\* The parts of a text from one place on, and those from a later one.
LEMMA PartsTwice ==
    ASSUME NEW u \in Text, NEW k \in 0 .. Len(u), NEW i \in 1 .. Len(From(u, k + 1)) + 1
    PROVE  /\ k + i \in 1 .. Len(u) + 1 /\ k + 1 \in 1 .. Len(u) + 1
           /\ Before(u, k + 1) \o Before(From(u, k + 1), i) = Before(u, k + i)
           /\ From(From(u, k + 1), i) = From(u, k + i)
           /\ Before(u, k + i) \o From(u, k + i) = u
  <1>1. PICK n \in Nat : n = Len(u) BY TextIs
  <1>2. PICK m \in Nat : m = n - k /\ k \in Nat /\ n = k + m
    <2>1. n - k \in Nat /\ k \in Nat /\ n = k + (n - k) BY <1>1
    <2> QED BY <2>1
  <1>3. PICK v \in Text : v = From(u, k + 1) /\ Len(v) = m /\ \A y \in 1 .. m : v[y] = u[k + y]
    <2>1. PICK v \in Text : /\ v = From(u, k + 1) /\ Len(v) = Len(u) - k
                            /\ \A y \in 1 .. Len(u) - k : v[y] = u[k + y]
      BY Behind
    <2> QED BY <1>1, <1>2, <2>1
  <1>4. i \in 1 .. m + 1 /\ i \in Nat /\ i >= 1 BY <1>3
  <1>5. PICK j \in Nat : j = k + i /\ j \in 1 .. n + 1 /\ k + 1 \in 1 .. n + 1
    <2>1. k + i \in Nat /\ k + i \in 1 .. n + 1 /\ k + 1 \in 1 .. n + 1 BY <1>2, <1>4
    <2> QED BY <2>1
  <1>6. PICK o \in Nat : o = i - 1 /\ k + o = j - 1 /\ o <= m
    <2>1. i - 1 \in Nat /\ k + (i - 1) = j - 1 /\ i - 1 <= m BY <1>2, <1>4, <1>5
    <2> QED BY <2>1
  <1>7. PICK a \in Text : a = Before(u, k + 1) /\ Len(a) = k /\ \A y \in 1 .. k : a[y] = u[y]
    <2>1. PICK a \in Text : /\ a = Before(u, k + 1) /\ Len(a) = (k + 1) - 1
                            /\ \A y \in 1 .. (k + 1) - 1 : a[y] = u[y]
      BY <1>1, <1>5, BeforeIs
    <2>2. (k + 1) - 1 = k BY <1>2
    <2> QED BY <2>1, <2>2
  <1>8. PICK b \in Text : b = Before(v, i) /\ Len(b) = o /\ \A y \in 1 .. o : b[y] = v[y]
    <2>1. PICK b \in Text : b = Before(v, i) /\ Len(b) = i - 1 /\ \A y \in 1 .. i - 1 : b[y] = v[y]
      BY <1>3, <1>4, BeforeIs
    <2> QED BY <1>6, <2>1
  <1>9. PICK c \in Text : c = Before(u, j) /\ Len(c) = k + o /\ \A y \in 1 .. k + o : c[y] = u[y]
    <2>1. PICK c \in Text : c = Before(u, j) /\ Len(c) = j - 1 /\ \A y \in 1 .. j - 1 : c[y] = u[y]
      BY <1>1, <1>5, BeforeIs
    <2> QED BY <1>6, <2>1
  <1>10. a \o b = c
    <2>1. PICK d \in Text : d = a \o b BY CatIs
    <2>2. /\ Len(d) = Len(a) + Len(b)
          /\ \A y \in 1 .. Len(a) : d[y] = a[y]
          /\ \A y \in 1 .. Len(b) : d[Len(a) + y] = b[y]
      BY <2>1, CatIs
    <2>3. /\ Len(d) = k + o
          /\ \A y \in 1 .. k : d[y] = a[y]
          /\ \A y \in 1 .. o : d[k + y] = b[y]
      BY <1>7, <1>8, <2>2
    <2>4. \A y \in 1 .. k + o : d[y] = c[y]
      <3> SUFFICES ASSUME NEW y \in 1 .. k + o PROVE d[y] = c[y] OBVIOUS
      <3>1. CASE y <= k
        <4>1. y \in 1 .. k BY <1>2, <3>1
        <4> QED BY <1>7, <1>9, <2>3, <4>1
      <3>2. CASE y > k
        <4>1. PICK z \in 1 .. o : y = k + z /\ z \in 1 .. m
          <5>1. y - k \in 1 .. o /\ y = k + (y - k) /\ y - k \in 1 .. m BY <1>2, <1>6, <3>2
          <5> QED BY <5>1
        <4>2. d[k + z] = u[k + z] BY <1>3, <1>8, <2>3, <4>1
        <4> QED BY <1>9, <4>1, <4>2
      <3> QED BY <1>2, <3>1, <3>2
    <2>5. d \in Seq(Symbol) /\ c \in Seq(Symbol) /\ Len(d) = Len(c) BY <1>9, <2>3 DEF Text
    <2>6. \A y \in 1 .. Len(d) : d[y] = c[y] BY <2>3, <2>4
    <2>7. d = c BY <2>5, <2>6, SeqEqual
    <2> QED BY <2>1, <2>7
  <1>11. PICK e \in Nat : e = m - o /\ m = o + e /\ n = (j - 1) + e
    <2>1. m - o \in Nat /\ m = o + (m - o) /\ n = (j - 1) + (m - o) BY <1>2, <1>6
    <2> QED BY <2>1
  <1>12. PICK f \in Text : f = From(v, i) /\ Len(f) = e /\ \A y \in 1 .. e : f[y] = v[o + y]
    <2>1. o \in 0 .. Len(v) /\ o + 1 = i BY <1>3, <1>4, <1>6
    <2>2. PICK f \in Text : /\ f = From(v, o + 1) /\ Len(f) = Len(v) - o
                            /\ \A y \in 1 .. Len(v) - o : f[y] = v[o + y]
      BY <2>1, Behind
    <2> QED BY <1>3, <1>11, <2>1, <2>2
  <1>13. PICK g \in Text : /\ g = From(u, j) /\ Len(g) = e
                           /\ \A y \in 1 .. e : g[y] = u[(k + o) + y]
    <2>1. k + o \in 0 .. Len(u) /\ (k + o) + 1 = j BY <1>1, <1>2, <1>5, <1>6
    <2>2. PICK g \in Text : /\ g = From(u, (k + o) + 1) /\ Len(g) = Len(u) - (k + o)
                            /\ \A y \in 1 .. Len(u) - (k + o) : g[y] = u[(k + o) + y]
      BY <2>1, Behind
    <2>3. Len(u) - (k + o) = e BY <1>1, <1>6, <1>11
    <2> QED BY <2>1, <2>2, <2>3
  <1>14. f = g
    <2>1. \A y \in 1 .. e : f[y] = g[y]
      <3> SUFFICES ASSUME NEW y \in 1 .. e PROVE f[y] = g[y] OBVIOUS
      <3>1. o + y \in 1 .. m /\ k + (o + y) = (k + o) + y BY <1>2, <1>6, <1>11
      <3> QED BY ZenonT(40), <1>3, <1>12, <1>13, <3>1
    <2> QED BY <1>12, <1>13, <2>1, SeqEqual DEF Text
  <1>15. c \o g = u
    <2>1. PICK d \in Text : d = c \o g BY CatIs
    <2>2. /\ Len(d) = Len(c) + Len(g)
          /\ \A y \in 1 .. Len(c) : d[y] = c[y]
          /\ \A y \in 1 .. Len(g) : d[Len(c) + y] = g[y]
      BY <2>1, CatIs
    <2>3. /\ Len(d) = n
          /\ \A y \in 1 .. k + o : d[y] = u[y]
          /\ \A y \in 1 .. e : d[(k + o) + y] = u[(k + o) + y]
      BY ZenonT(40), <1>6, <1>9, <1>11, <1>13, <2>2
    <2>4. \A y \in 1 .. n : d[y] = u[y]
      <3> SUFFICES ASSUME NEW y \in 1 .. n PROVE d[y] = u[y] OBVIOUS
      <3>1. CASE y <= k + o
        <4>1. y \in 1 .. k + o BY <1>2, <3>1
        <4> QED BY <2>3, <4>1
      <3>2. CASE y > k + o
        <4>1. PICK z \in 1 .. e : y = (k + o) + z
          <5>1. y - (k + o) \in 1 .. e /\ y = (k + o) + (y - (k + o)) BY <1>2, <1>6, <1>11, <3>2
          <5> QED BY <5>1
        <4> QED BY <2>3, <4>1
      <3> QED BY <1>2, <3>1, <3>2
    <2>5. d = u BY <1>1, <2>3, <2>4, SeqEqual DEF Text
    <2> QED BY <2>1, <2>5
  <1> QED BY <1>1, <1>3, <1>5, <1>7, <1>8, <1>9, <1>10, <1>12, <1>13, <1>14, <1>15

\* Saying or thinking in two goes is doing so in one.
LEMMA SaysTwice ==
    ASSUME NEW c \in Cores, NEW k \in 0 .. Len(c.window), NEW a \in Cores, NEW first \in Modes,
           NEW i \in 1 .. Len(a.window) + 1, NEW j \in 1 .. Len(a.window) + 1, NEW mode \in Modes
    PROVE  /\ a = Says(c, k + 1, k + 1, first) =>
                 Says(a, i, j, mode) = Says(c, k + i, k + j, mode)
           /\ a = Thinks(c, k + 1, k + 1, first) =>
                 Thinks(a, i, j, mode) = Thinks(c, k + i, k + j, mode)
  <1>1. PICK u \in Text : u = c.window BY CoresAre
  <1>2. PICK one : one = k + 1 /\ one \in 1 .. Len(u) + 1
    <2>1. k + 1 \in 1 .. Len(u) + 1 BY <1>1, TextIs
    <2> QED BY <2>1
  <1>3. PICK v \in Text : v = From(u, one) BY <1>1, <1>2, Behind
  <1>4. PICK s \in Text : s = Before(u, one) BY <1>2, BeforeIs
  <1>5. ASSUME a.window = v
        PROVE  /\ k + i \in 1 .. Len(u) + 1 /\ k + j \in 1 .. Len(u) + 1
               /\ s \o Before(v, i) = Before(u, k + i) /\ From(v, j) = From(u, k + j)
               /\ Before(v, i) \in Text
    <2>1. i \in 1 .. Len(v) + 1 /\ j \in 1 .. Len(v) + 1 BY <1>5
    <2>2. k + i \in 1 .. Len(u) + 1 /\ s \o Before(v, i) = Before(u, k + i)
      BY ZenonT(40), <1>1, <1>2, <1>3, <1>4, <2>1, PartsTwice
    <2>3. k + j \in 1 .. Len(u) + 1 /\ From(v, j) = From(u, k + j)
      BY <1>1, <1>2, <1>3, <2>1, PartsTwice
    <2>4. Before(v, i) \in Text BY <2>1, BeforeIs
    <2> QED BY <2>2, <2>3, <2>4
  <1>6. ASSUME a = Says(c, one, one, first)
        PROVE  Says(a, i, j, mode) = Says(c, k + i, k + j, mode)
    <2>1. /\ a \in Cores /\ a.mode = first /\ a.window = v
          /\ a.toolBuffer = c.toolBuffer /\ a.reasoning = c.reasoning
          /\ a.content = c.content \o s
          /\ a.fromReasoning = c.fromReasoning /\ a.fallback = c.fallback
          /\ a.checkedPrefix = c.checkedPrefix
      <3>1. one \in 1 .. Len(c.window) + 1 BY <1>1, <1>2
      <3>2. PICK d \in Cores :
               /\ d = Says(c, one, one, first) /\ d.mode = first /\ d.window = From(c.window, one)
               /\ d.toolBuffer = c.toolBuffer /\ d.reasoning = c.reasoning
               /\ d.content = c.content \o Before(c.window, one)
               /\ d.fromReasoning = c.fromReasoning /\ d.fallback = c.fallback
               /\ d.checkedPrefix = c.checkedPrefix
        BY <3>1, SaysIs
      <3>3. a = d BY <1>6, <3>2
      <3> QED BY <1>1, <1>3, <1>4, <3>2, <3>3
    <2>2. /\ k + i \in 1 .. Len(u) + 1 /\ k + j \in 1 .. Len(u) + 1
          /\ s \o Before(v, i) = Before(u, k + i) /\ From(v, j) = From(u, k + j)
          /\ Before(v, i) \in Text
      BY <1>5, <2>1
    <2>3. PICK d \in Cores :
             /\ d = Says(a, i, j, mode) /\ d.mode = mode /\ d.window = From(v, j)
             /\ d.toolBuffer = a.toolBuffer /\ d.reasoning = a.reasoning
             /\ d.content = a.content \o Before(v, i)
             /\ d.fromReasoning = a.fromReasoning /\ d.fallback = a.fallback
             /\ d.checkedPrefix = a.checkedPrefix
      BY ZenonT(40), <2>1, SaysIs
    <2>4. PICK e \in Cores :
             /\ e = Says(c, k + i, k + j, mode) /\ e.mode = mode /\ e.window = From(u, k + j)
             /\ e.toolBuffer = c.toolBuffer /\ e.reasoning = c.reasoning
             /\ e.content = c.content \o Before(u, k + i)
             /\ e.fromReasoning = c.fromReasoning /\ e.fallback = c.fallback
             /\ e.checkedPrefix = c.checkedPrefix
      BY ZenonT(40), <1>1, <2>2, SaysIs
    <2>5. (c.content \o s) \o Before(v, i) = c.content \o Before(u, k + i)
      <3>1. PICK t \in Text : t = Before(v, i) BY <2>2
      <3>2. PICK q \in Text : q = c.content BY CoresAre
      <3>3. (q \o s) \o t = q \o (s \o t) BY Regrouped
      <3> QED BY <2>2, <3>1, <3>2, <3>3
    <2>6. d.window = e.window /\ d.content = e.content /\ d.mode = e.mode BY <2>1, <2>2, <2>3, <2>4, <2>5
    <2>7. /\ d.toolBuffer = e.toolBuffer /\ d.reasoning = e.reasoning
          /\ d.fromReasoning = e.fromReasoning /\ d.fallback = e.fallback
          /\ d.checkedPrefix = e.checkedPrefix
      BY <2>1, <2>3, <2>4
    <2>8. d = e BY <2>6, <2>7, CoresSame
    <2> QED BY <2>1, <2>3, <2>4, <2>8
  <1>7. ASSUME a = Thinks(c, one, one, first)
        PROVE  Thinks(a, i, j, mode) = Thinks(c, k + i, k + j, mode)
    <2>1. /\ a \in Cores /\ a.mode = first /\ a.window = v
          /\ a.toolBuffer = c.toolBuffer /\ a.content = c.content
          /\ a.reasoning = c.reasoning \o s
          /\ a.fromReasoning = c.fromReasoning /\ a.fallback = c.fallback
          /\ a.checkedPrefix = c.checkedPrefix
      <3>1. one \in 1 .. Len(c.window) + 1 BY <1>1, <1>2
      <3>2. PICK d \in Cores :
               /\ d = Thinks(c, one, one, first) /\ d.mode = first /\ d.window = From(c.window, one)
               /\ d.toolBuffer = c.toolBuffer /\ d.content = c.content
               /\ d.reasoning = c.reasoning \o Before(c.window, one)
               /\ d.fromReasoning = c.fromReasoning /\ d.fallback = c.fallback
               /\ d.checkedPrefix = c.checkedPrefix
        BY <3>1, ThinksIs
      <3>3. a = d BY <1>7, <3>2
      <3> QED BY <1>1, <1>3, <1>4, <3>2, <3>3
    <2>2. /\ k + i \in 1 .. Len(u) + 1 /\ k + j \in 1 .. Len(u) + 1
          /\ s \o Before(v, i) = Before(u, k + i) /\ From(v, j) = From(u, k + j)
          /\ Before(v, i) \in Text
      BY <1>5, <2>1
    <2>3. PICK d \in Cores :
             /\ d = Thinks(a, i, j, mode) /\ d.mode = mode /\ d.window = From(v, j)
             /\ d.toolBuffer = a.toolBuffer /\ d.content = a.content
             /\ d.reasoning = a.reasoning \o Before(v, i)
             /\ d.fromReasoning = a.fromReasoning /\ d.fallback = a.fallback
             /\ d.checkedPrefix = a.checkedPrefix
      BY ZenonT(40), <2>1, ThinksIs
    <2>4. PICK e \in Cores :
             /\ e = Thinks(c, k + i, k + j, mode) /\ e.mode = mode /\ e.window = From(u, k + j)
             /\ e.toolBuffer = c.toolBuffer /\ e.content = c.content
             /\ e.reasoning = c.reasoning \o Before(u, k + i)
             /\ e.fromReasoning = c.fromReasoning /\ e.fallback = c.fallback
             /\ e.checkedPrefix = c.checkedPrefix
      BY ZenonT(40), <1>1, <2>2, ThinksIs
    <2>5. (c.reasoning \o s) \o Before(v, i) = c.reasoning \o Before(u, k + i)
      <3>1. PICK t \in Text : t = Before(v, i) BY <2>2
      <3>2. PICK q \in Text : q = c.reasoning BY CoresAre
      <3>3. (q \o s) \o t = q \o (s \o t) BY Regrouped
      <3> QED BY <2>2, <3>1, <3>2, <3>3
    <2>6. d.window = e.window /\ d.reasoning = e.reasoning /\ d.mode = e.mode BY <2>1, <2>2, <2>3, <2>4, <2>5
    <2>7. /\ d.toolBuffer = e.toolBuffer /\ d.content = e.content
          /\ d.fromReasoning = e.fromReasoning /\ d.fallback = e.fallback
          /\ d.checkedPrefix = e.checkedPrefix
      BY <2>1, <2>3, <2>4
    <2>8. d = e BY <2>6, <2>7, CoresSame
    <2> QED BY <2>1, <2>3, <2>4, <2>8
  <1> QED BY <1>2, <1>6, <1>7

\* A call opens behind what was thought, or behind what was said.
OpensThought(c, i) == ToBuffer([c EXCEPT !.reasoning = @ \o Before(c.window, i)], i, TRUE, FALSE)
OpensSaid(c, i) == ToBuffer([c EXCEPT !.content = @ \o Before(c.window, i)], i, FALSE, FALSE)

\* Opening the tool buffer forgets no reason to fall back, and invents none.
LEMMA OpenedKeeps ==
    ASSUME NEW c \in Cores, NEW j \in 1 .. Len(c.window) + 1, NEW before \in BOOLEAN,
           NEW fallback \in BOOLEAN
    PROVE  /\ c.fallback => ToBuffer(c, j, before, fallback).fallback
           /\ ~c.fallback /\ ~fallback => ~ToBuffer(c, j, before, fallback).fallback
  BY OpenedIs

\* The core whose tool buffer opens with no reason to fall back.
LEMMA OpensNew ==
    ASSUME NEW c \in Cores, NEW j \in 1 .. Len(c.window) + 1, NEW before \in BOOLEAN,
           NEW fallback \in BOOLEAN, ~fallback
    PROVE  \E f \in Cores :
             /\ f = ToBuffer(c, j, before, fallback) /\ f.mode = "TOOL_BUFFER" /\ f.window = <<>>
             /\ f.toolBuffer = From(c.window, j) /\ f.content = c.content
             /\ f.reasoning = c.reasoning /\ f.fromReasoning = before
             /\ (c.fallback => f.fallback) /\ (~c.fallback => ~f.fallback)
             /\ f.checkedPrefix = c.checkedPrefix
  <1>1. LET f == ToBuffer(c, j, before, fallback)
        IN  /\ f \in Cores /\ f.mode = "TOOL_BUFFER" /\ f.window = <<>>
            /\ f.toolBuffer = From(c.window, j) /\ f.content = c.content
            /\ f.reasoning = c.reasoning /\ f.fromReasoning = before
            /\ f.checkedPrefix = c.checkedPrefix
    BY SMTT(60), OpenedIs
  <1> QED BY ZenonT(30), <1>1, OpenedKeeps

\* The tool buffer is opened at the same place, whether the text in front was said or
\* thought in two goes or in one.
LEMMA OpensTwice ==
    ASSUME NEW c \in Cores, NEW k \in 0 .. Len(c.window), NEW a \in Cores,
           NEW i \in 1 .. Len(a.window) + 1
    PROVE  /\ a = Thinks(c, k + 1, k + 1, "REASONING") => OpensThought(a, i) = OpensThought(c, k + i)
           /\ a = Says(c, k + 1, k + 1, "CONTENT") => OpensSaid(a, i) = OpensSaid(c, k + i)
  <1>1. PICK u \in Text : u = c.window BY CoresAre
  <1>2. PICK one : one = k + 1 /\ one \in 1 .. Len(u) + 1
    <2>1. k + 1 \in 1 .. Len(u) + 1 BY <1>1, TextIs
    <2> QED BY <2>1
  <1>3. PICK v \in Text : v = From(u, one) BY <1>1, <1>2, Behind
  <1>4. PICK s \in Text : s = Before(u, one) BY <1>2, BeforeIs
  <1>5. ASSUME a.window = v
        PROVE  /\ k + i \in 1 .. Len(u) + 1 /\ i \in 1 .. Len(v) + 1
               /\ s \o Before(v, i) = Before(u, k + i) /\ From(v, i) = From(u, k + i)
               /\ Before(v, i) \in Text
    <2>1. i \in 1 .. Len(v) + 1 BY <1>5
    <2>2. /\ k + i \in 1 .. Len(u) + 1 /\ s \o Before(v, i) = Before(u, k + i)
          /\ From(v, i) = From(u, k + i)
      BY ZenonT(40), <1>1, <1>2, <1>3, <1>4, <2>1, PartsTwice
    <2>3. Before(v, i) \in Text BY <2>1, BeforeIs
    <2> QED BY <2>1, <2>2, <2>3
  <1>6. "CONTENT" \in Modes /\ "REASONING" \in Modes BY DEF Modes
  <1>7. ASSUME a = Says(c, one, one, "CONTENT")
        PROVE  ToBuffer([a EXCEPT !.content = @ \o Before(a.window, i)], i, FALSE, FALSE)
                  = ToBuffer([c EXCEPT !.content = @ \o Before(c.window, k + i)], k + i, FALSE, FALSE)
    <2>1. /\ a \in Cores /\ a.window = v /\ a.reasoning = c.reasoning
          /\ a.content = c.content \o s /\ a.fallback = c.fallback
          /\ a.checkedPrefix = c.checkedPrefix
      <3>1. one \in 1 .. Len(c.window) + 1 BY <1>1, <1>2
      <3>2. PICK d \in Cores :
               /\ d = Says(c, one, one, "CONTENT") /\ d.window = From(c.window, one)
               /\ d.reasoning = c.reasoning /\ d.content = c.content \o Before(c.window, one)
               /\ d.fallback = c.fallback /\ d.checkedPrefix = c.checkedPrefix
        BY ZenonT(40), <1>6, <3>1, SaysIs
      <3>3. a = d BY <1>7, <3>2
      <3> QED BY <1>1, <1>3, <1>4, <3>2, <3>3
    <2>2. /\ k + i \in 1 .. Len(u) + 1 /\ i \in 1 .. Len(v) + 1
          /\ s \o Before(v, i) = Before(u, k + i) /\ From(v, i) = From(u, k + i)
          /\ Before(v, i) \in Text
      BY <1>5, <2>1
    <2>3. PICK d \in Cores :
             /\ d = [a EXCEPT !.content = @ \o Before(a.window, i)] /\ d.window = v
             /\ d.reasoning = a.reasoning /\ d.content = a.content \o Before(v, i)
             /\ d.fallback = a.fallback /\ d.checkedPrefix = a.checkedPrefix
      <3>1. i \in 1 .. Len(a.window) + 1 OBVIOUS
      <3>2. PICK d \in Cores :
               /\ d = [a EXCEPT !.content = @ \o Before(a.window, i)] /\ d.window = a.window
               /\ d.reasoning = a.reasoning /\ d.content = a.content \o Before(a.window, i)
               /\ d.fallback = a.fallback /\ d.checkedPrefix = a.checkedPrefix
        BY <2>1, <3>1, SpokenIs
      <3> QED BY <2>1, <3>2
    <2>4. PICK j : j = k + i /\ j \in 1 .. Len(c.window) + 1 BY <1>1, <2>2
    <2>5. PICK e \in Cores :
             /\ e = [c EXCEPT !.content = @ \o Before(c.window, j)] /\ e.window = c.window
             /\ e.reasoning = c.reasoning /\ e.content = c.content \o Before(c.window, j)
             /\ e.fallback = c.fallback /\ e.checkedPrefix = c.checkedPrefix
      BY <2>4, SpokenIs
    <2>6. d.content = e.content /\ d.reasoning = e.reasoning
      <3>1. PICK t \in Text : t = Before(v, i) BY <2>2
      <3>2. PICK q \in Text : q = c.content BY CoresAre
      <3>3. (q \o s) \o t = q \o (s \o t) BY Regrouped
      <3>4. d.content = (q \o s) \o t BY <2>1, <2>3, <3>1, <3>2
      <3>5. e.content = q \o (s \o t) BY <1>1, <2>2, <2>4, <2>5, <3>1, <3>2
      <3> QED BY <2>1, <2>3, <2>5, <3>3, <3>4, <3>5
    <2>7. d.fallback = e.fallback /\ d.checkedPrefix = e.checkedPrefix BY <2>1, <2>3, <2>5
    <2>8. PICK yes \in BOOLEAN : yes = FALSE OBVIOUS
    <2>15. PICK no \in BOOLEAN : no = FALSE OBVIOUS
    <2>9. PICK f \in Cores :
             /\ f = ToBuffer(d, i, yes, no) /\ f.mode = "TOOL_BUFFER" /\ f.window = <<>>
             /\ f.toolBuffer = From(d.window, i) /\ f.content = d.content
             /\ f.reasoning = d.reasoning /\ f.fromReasoning = yes
             /\ (d.fallback => f.fallback) /\ (~d.fallback => ~f.fallback)
             /\ f.checkedPrefix = d.checkedPrefix
      <3>1. i \in 1 .. Len(d.window) + 1 BY <2>2, <2>3
      <3> QED BY <2>15, <3>1, OpensNew
    <2>10. PICK g \in Cores :
             /\ g = ToBuffer(e, j, yes, no) /\ g.mode = "TOOL_BUFFER" /\ g.window = <<>>
             /\ g.toolBuffer = From(e.window, j) /\ g.content = e.content
             /\ g.reasoning = e.reasoning /\ g.fromReasoning = yes
             /\ (e.fallback => g.fallback) /\ (~e.fallback => ~g.fallback)
             /\ g.checkedPrefix = e.checkedPrefix
      <3>1. j \in 1 .. Len(e.window) + 1 BY <2>4, <2>5
      <3> QED BY <2>15, <3>1, OpensNew
    <2>11. f.toolBuffer = g.toolBuffer BY <1>1, <2>2, <2>3, <2>4, <2>5, <2>9, <2>10
    <2>12. f.fallback = g.fallback
      <3>1. f.fallback <=> g.fallback BY <2>7, <2>9, <2>10
      <3>2. f.fallback \in BOOLEAN /\ g.fallback \in BOOLEAN BY CoresAre
      <3> QED BY <3>1, <3>2
    <2>13. /\ f.mode = g.mode /\ f.window = g.window /\ f.content = g.content
           /\ f.reasoning = g.reasoning /\ f.fromReasoning = g.fromReasoning
           /\ f.checkedPrefix = g.checkedPrefix
      BY <2>6, <2>7, <2>9, <2>10
    <2>14. f = g BY <2>11, <2>12, <2>13, CoresSame
    <2> QED BY <2>3, <2>4, <2>5, <2>8, <2>9, <2>10, <2>14, <2>15
  <1>8. ASSUME a = Thinks(c, one, one, "REASONING")
        PROVE  ToBuffer([a EXCEPT !.reasoning = @ \o Before(a.window, i)], i, TRUE, FALSE)
                  = ToBuffer([c EXCEPT !.reasoning = @ \o Before(c.window, k + i)], k + i, TRUE, FALSE)
    <2>1. /\ a \in Cores /\ a.window = v /\ a.content = c.content
          /\ a.reasoning = c.reasoning \o s /\ a.fallback = c.fallback
          /\ a.checkedPrefix = c.checkedPrefix
      <3>1. one \in 1 .. Len(c.window) + 1 BY <1>1, <1>2
      <3>2. PICK d \in Cores :
               /\ d = Thinks(c, one, one, "REASONING") /\ d.window = From(c.window, one)
               /\ d.content = c.content /\ d.reasoning = c.reasoning \o Before(c.window, one)
               /\ d.fallback = c.fallback /\ d.checkedPrefix = c.checkedPrefix
        BY ZenonT(40), <1>6, <3>1, ThinksIs
      <3>3. a = d BY <1>8, <3>2
      <3> QED BY <1>1, <1>3, <1>4, <3>2, <3>3
    <2>2. /\ k + i \in 1 .. Len(u) + 1 /\ i \in 1 .. Len(v) + 1
          /\ s \o Before(v, i) = Before(u, k + i) /\ From(v, i) = From(u, k + i)
          /\ Before(v, i) \in Text
      BY <1>5, <2>1
    <2>3. PICK d \in Cores :
             /\ d = [a EXCEPT !.reasoning = @ \o Before(a.window, i)] /\ d.window = v
             /\ d.content = a.content /\ d.reasoning = a.reasoning \o Before(v, i)
             /\ d.fallback = a.fallback /\ d.checkedPrefix = a.checkedPrefix
      <3>1. i \in 1 .. Len(a.window) + 1 OBVIOUS
      <3>2. PICK d \in Cores :
               /\ d = [a EXCEPT !.reasoning = @ \o Before(a.window, i)] /\ d.window = a.window
               /\ d.content = a.content /\ d.reasoning = a.reasoning \o Before(a.window, i)
               /\ d.fallback = a.fallback /\ d.checkedPrefix = a.checkedPrefix
        BY <2>1, <3>1, SpokenIs
      <3> QED BY <2>1, <3>2
    <2>4. PICK j : j = k + i /\ j \in 1 .. Len(c.window) + 1 BY <1>1, <2>2
    <2>5. PICK e \in Cores :
             /\ e = [c EXCEPT !.reasoning = @ \o Before(c.window, j)] /\ e.window = c.window
             /\ e.content = c.content /\ e.reasoning = c.reasoning \o Before(c.window, j)
             /\ e.fallback = c.fallback /\ e.checkedPrefix = c.checkedPrefix
      BY <2>4, SpokenIs
    <2>6. d.reasoning = e.reasoning /\ d.content = e.content
      <3>1. PICK t \in Text : t = Before(v, i) BY <2>2
      <3>2. PICK q \in Text : q = c.reasoning BY CoresAre
      <3>3. (q \o s) \o t = q \o (s \o t) BY Regrouped
      <3>4. d.reasoning = (q \o s) \o t BY <2>1, <2>3, <3>1, <3>2
      <3>5. e.reasoning = q \o (s \o t) BY <1>1, <2>2, <2>4, <2>5, <3>1, <3>2
      <3> QED BY <2>1, <2>3, <2>5, <3>3, <3>4, <3>5
    <2>7. d.fallback = e.fallback /\ d.checkedPrefix = e.checkedPrefix BY <2>1, <2>3, <2>5
    <2>8. PICK yes \in BOOLEAN : yes = TRUE OBVIOUS
    <2>15. PICK no \in BOOLEAN : no = FALSE OBVIOUS
    <2>9. PICK f \in Cores :
             /\ f = ToBuffer(d, i, yes, no) /\ f.mode = "TOOL_BUFFER" /\ f.window = <<>>
             /\ f.toolBuffer = From(d.window, i) /\ f.content = d.content
             /\ f.reasoning = d.reasoning /\ f.fromReasoning = yes
             /\ (d.fallback => f.fallback) /\ (~d.fallback => ~f.fallback)
             /\ f.checkedPrefix = d.checkedPrefix
      <3>1. i \in 1 .. Len(d.window) + 1 BY <2>2, <2>3
      <3> QED BY <2>15, <3>1, OpensNew
    <2>10. PICK g \in Cores :
             /\ g = ToBuffer(e, j, yes, no) /\ g.mode = "TOOL_BUFFER" /\ g.window = <<>>
             /\ g.toolBuffer = From(e.window, j) /\ g.content = e.content
             /\ g.reasoning = e.reasoning /\ g.fromReasoning = yes
             /\ (e.fallback => g.fallback) /\ (~e.fallback => ~g.fallback)
             /\ g.checkedPrefix = e.checkedPrefix
      <3>1. j \in 1 .. Len(e.window) + 1 BY <2>4, <2>5
      <3> QED BY <2>15, <3>1, OpensNew
    <2>11. f.toolBuffer = g.toolBuffer BY <1>1, <2>2, <2>3, <2>4, <2>5, <2>9, <2>10
    <2>12. f.fallback = g.fallback
      <3>1. f.fallback <=> g.fallback BY <2>7, <2>9, <2>10
      <3>2. f.fallback \in BOOLEAN /\ g.fallback \in BOOLEAN BY CoresAre
      <3> QED BY <3>1, <3>2
    <2>13. /\ f.mode = g.mode /\ f.window = g.window /\ f.content = g.content
           /\ f.reasoning = g.reasoning /\ f.fromReasoning = g.fromReasoning
           /\ f.checkedPrefix = g.checkedPrefix
      BY <2>6, <2>7, <2>9, <2>10
    <2>14. f = g BY <2>11, <2>12, <2>13, CoresSame
    <2> QED BY <2>3, <2>4, <2>5, <2>8, <2>9, <2>10, <2>14, <2>15
  <1>9. a = Thinks(c, one, one, "REASONING") => OpensThought(a, i) = OpensThought(c, k + i)
    BY <1>8 DEF OpensThought
  <1>10. a = Says(c, one, one, "CONTENT") => OpensSaid(a, i) = OpensSaid(c, k + i)
    BY <1>7 DEF OpensSaid
  <1> QED BY <1>2, <1>9, <1>10

\* Blank are the texts both parts of which are.
LEMMA BlankParts ==
    ASSUME NEW s \in Text, NEW t \in Text
    PROVE  Blank(s \o t) <=> Blank(s) /\ Blank(t)
  <1>1. PICK n \in Nat : n = Len(s) BY TextIs
  <1>2. PICK m \in Nat : m = Len(t) BY TextIs
  <1>3. PICK d \in Text : d = s \o t BY CatIs
  <1>4. /\ Len(d) = n + m /\ \A i \in 1 .. n : d[i] = s[i]
        /\ \A i \in 1 .. m : d[n + i] = t[i]
    BY <1>1, <1>2, <1>3, CatIs
  <1>5. ASSUME Blank(s), Blank(t), NEW i \in 1 .. n + m PROVE d[i] = "w"
    <2>1. CASE i <= n
      <3>1. i \in 1 .. n BY <2>1
      <3> QED BY <1>1, <1>4, <1>5, <3>1 DEF Blank
    <2>2. CASE i > n
      <3>1. i - n \in 1 .. m /\ i = n + (i - n) BY <2>2
      <3>2. PICK j \in 1 .. m : i = n + j BY <3>1
      <3> QED BY <1>2, <1>4, <1>5, <3>2 DEF Blank
    <2> QED BY <2>1, <2>2
  <1>6. ASSUME Blank(d) PROVE Blank(s) /\ Blank(t)
    <2>1. \A i \in 1 .. n : i \in 1 .. n + m OBVIOUS
    <2>2. \A i \in 1 .. m : n + i \in 1 .. n + m OBVIOUS
    <2> QED BY <1>1, <1>2, <1>4, <1>6, <2>1, <2>2 DEF Blank
  <1> QED BY <1>3, <1>4, <1>5, <1>6 DEF Blank

\* What was said left a name alone to be called: nothing but it and white space is in
\* the window, and nothing but white space was said before.
LEMMA SaidLone ==
    ASSUME NEW c \in Cores, NEW k \in 0 .. Len(c.window),
           ZeroArgCall(Says(c, k + 1, k + 1, "CONTENT"))
    PROVE  HasTools /\ \E p : Lone(c.window, p) /\ p > k
  <1>1. PICK u \in Text : u = c.window BY CoresAre
  <1>2. PICK n \in Nat : n = Len(u) /\ k \in 0 .. n /\ k \in Nat BY <1>1, TextIs
  <1>3. PICK one : one = k + 1 /\ one \in 1 .. n + 1 /\ one - 1 = k
    <2>1. k + 1 \in 1 .. n + 1 /\ (k + 1) - 1 = k BY <1>2
    <2> QED BY <2>1
  <1>4. PICK v \in Text : v = From(u, one) /\ Len(v) = n - k /\ \A y \in 1 .. n - k : v[y] = u[k + y]
    <2>1. PICK v \in Text : /\ v = From(u, k + 1) /\ Len(v) = Len(u) - k
                            /\ \A y \in 1 .. Len(u) - k : v[y] = u[k + y]
      BY <1>2, Behind
    <2> QED BY <1>2, <1>3, <2>1
  <1>5. PICK s \in Text : s = Before(u, one) /\ Len(s) = k /\ \A y \in 1 .. k : s[y] = u[y]
    <2>1. PICK s \in Text : /\ s = Before(u, one) /\ Len(s) = one - 1
                            /\ \A y \in 1 .. one - 1 : s[y] = u[y]
      BY <1>2, <1>3, BeforeIs
    <2> QED BY <1>3, <2>1
  <1>6. PICK a \in Cores : /\ a = Says(c, one, one, "CONTENT") /\ a.window = v
                           /\ a.content = c.content \o s
    <2>1. one \in 1 .. Len(c.window) + 1 /\ "CONTENT" \in Modes BY <1>1, <1>2, <1>3 DEF Modes
    <2>2. PICK a \in Cores : /\ a = Says(c, one, one, "CONTENT") /\ a.window = From(c.window, one)
                             /\ a.content = c.content \o Before(c.window, one)
      BY <2>1, SaysIs
    <2> QED BY <1>1, <1>4, <1>5, <2>2
  <1>7. HasTools /\ Blank(c.content \o s) /\ Trimmed(v) = <<"n">>
    <2>1. ZeroArgCall(a) BY <1>3, <1>6
    <2> QED BY <1>6, <2>1 DEF ZeroArgCall
  <1>8. Blank(s)
    <2>1. c.content \in Text BY CoresAre
    <2> QED BY <1>7, <2>1, BlankParts
  <1>9. PICK o : Lone(v, o) BY <1>7, TrimmedLone
  <1>10. o \in 1 .. n - k /\ v[o] = "n" /\ \A y \in 1 .. n - k : y # o => v[y] = "w"
    BY <1>4, <1>9 DEF Lone
  <1>11. PICK p : p = k + o /\ p \in 1 .. n /\ p > k BY <1>2, <1>10
  <1>12. \A y \in 1 .. n : y # p => u[y] = "w"
    <2> SUFFICES ASSUME NEW y \in 1 .. n, y # p PROVE u[y] = "w" OBVIOUS
    <2>1. CASE y <= k
      <3>1. y \in 1 .. k BY <1>2, <2>1
      <3> QED BY <1>5, <1>8, <3>1 DEF Blank
    <2>2. CASE y > k
      <3>1. PICK z \in 1 .. n - k : y = k + z /\ z # o
        <4>1. y - k \in 1 .. n - k /\ y = k + (y - k) /\ y - k # o BY <1>2, <1>10, <1>11, <2>2
        <4> QED BY <4>1
      <3> QED BY <1>4, <1>10, <3>1
    <2> QED BY <1>2, <2>1, <2>2
  <1>13. u[p] = "n" BY <1>4, <1>10, <1>11
  <1>14. Lone(u, p) BY <1>2, <1>11, <1>12, <1>13 DEF Lone
  <1> QED BY <1>1, <1>7, <1>11, <1>14

\* A text is what is in front of a place and what is from it on.
LEMMA WholeParts ==
    ASSUME NEW u \in Text, NEW j \in 1 .. Len(u) + 1 PROVE Before(u, j) \o From(u, j) = u
  <1>1. PICK k \in 0 .. Len(u) : k + 1 = j
    <2>1. Len(u) \in Nat BY TextIs
    <2>2. j - 1 \in 0 .. Len(u) /\ (j - 1) + 1 = j BY <2>1
    <2> QED BY <2>2
  <1>2. 1 \in 1 .. Len(From(u, k + 1)) + 1
    <2>1. From(u, k + 1) \in Text BY Behind
    <2>2. Len(From(u, k + 1)) \in Nat BY <2>1, TextIs
    <2> QED BY <2>2
  <1> QED BY <1>1, <1>2, PartsTwice

\* Wherever the window is cut, the end of the answer puts it together.
LEMMA FlushedSame ==
    ASSUME NEW c \in Cores, NEW i \in 1 .. Len(c.window) + 1, NEW j \in 1 .. Len(c.window) + 1
    PROVE  /\ Flush(req, Thinks(c, i, i, "REASONING")) = Flush(req, Thinks(c, j, j, "REASONING"))
           /\ ~ZeroArgCall(Says(c, i, i, "CONTENT")) /\ ~ZeroArgCall(Says(c, j, j, "CONTENT")) =>
                 Flush(req, Says(c, i, i, "CONTENT")) = Flush(req, Says(c, j, j, "CONTENT"))
  <1>1. PICK u \in Text : u = c.window BY CoresAre
  <1>2. "CONTENT" \in Modes /\ "REASONING" \in Modes BY DEF Modes
  <1>3. ASSUME NEW h \in 1 .. Len(u) + 1
        PROVE  LET d == Flush(req, Thinks(c, h, h, "REASONING"))
               IN  /\ d \in Cores /\ d.window = <<>> /\ d.mode = "REASONING"
                   /\ d.toolBuffer = c.toolBuffer /\ d.content = c.content
                   /\ d.reasoning = c.reasoning \o u
                   /\ d.fromReasoning = c.fromReasoning /\ d.fallback = c.fallback
                   /\ d.checkedPrefix = c.checkedPrefix
    <2>1. h \in 1 .. Len(c.window) + 1 BY <1>1
    <2>2. PICK a \in Cores :
             /\ a = Thinks(c, h, h, "REASONING") /\ a.mode = "REASONING" /\ a.window = From(c.window, h)
             /\ a.toolBuffer = c.toolBuffer /\ a.content = c.content
             /\ a.reasoning = c.reasoning \o Before(c.window, h)
             /\ a.fromReasoning = c.fromReasoning /\ a.fallback = c.fallback
             /\ a.checkedPrefix = c.checkedPrefix
      <3>1. PICK mode \in Modes : mode = "REASONING" BY <1>2
      <3>2. PICK a \in Cores :
               /\ a = Thinks(c, h, h, mode) /\ a.mode = mode /\ a.window = From(c.window, h)
               /\ a.toolBuffer = c.toolBuffer /\ a.content = c.content
               /\ a.reasoning = c.reasoning \o Before(c.window, h)
               /\ a.fromReasoning = c.fromReasoning /\ a.fallback = c.fallback
               /\ a.checkedPrefix = c.checkedPrefix
        BY ZenonT(40), <2>1, ThinksIs
      <3> QED BY <3>1, <3>2
    <2>3. PICK d \in Cores :
             /\ d = Flush(req, a) /\ d.window = <<>> /\ d.mode = "REASONING"
             /\ d.toolBuffer = a.toolBuffer /\ d.content = a.content
             /\ d.reasoning = a.reasoning \o a.window
             /\ d.fromReasoning = a.fromReasoning /\ d.fallback = a.fallback
             /\ d.checkedPrefix = a.checkedPrefix
      <3>1. PICK d : d = Flush(req, a) OBVIOUS
      <3>2. a.mode # "CONTENT" BY <2>2
      <3>3. /\ d \in Cores /\ d.window = <<>> /\ d.fromReasoning = a.fromReasoning
            /\ d.fallback = a.fallback /\ d.checkedPrefix = a.checkedPrefix
        BY <3>1, FlushIs
      <3>4. /\ d.mode = "REASONING" /\ d.toolBuffer = a.toolBuffer /\ d.content = a.content
            /\ d.reasoning = a.reasoning \o a.window
        BY <2>2, <3>1, <3>2, FlushIs
      <3> QED BY <3>1, <3>3, <3>4
    <2>4. d.reasoning = c.reasoning \o u
      <3>1. PICK s \in Text : s = Before(u, h) BY BeforeIs
      <3>2. PICK t \in Text : t = From(u, h) /\ s \o t = u
        <4>1. PICK k \in 0 .. Len(u) : k + 1 = h
          <5>1. Len(u) \in Nat BY TextIs
          <5>2. h - 1 \in 0 .. Len(u) /\ (h - 1) + 1 = h BY <5>1
          <5> QED BY <5>2
        <4>2. From(u, h) \in Text BY <4>1, Behind
        <4> QED BY <3>1, <4>2, WholeParts
      <3>3. PICK q \in Text : q = c.reasoning BY CoresAre
      <3>4. (q \o s) \o t = q \o (s \o t) BY Regrouped
      <3> QED BY <1>1, <2>2, <2>3, <3>1, <3>2, <3>3, <3>4
    <2>5. Flush(req, Thinks(c, h, h, "REASONING")) = d BY <2>2, <2>3
    <2> QED BY <2>2, <2>3, <2>4, <2>5
  <1>4. ASSUME NEW h \in 1 .. Len(u) + 1, ~ZeroArgCall(Says(c, h, h, "CONTENT"))
        PROVE  LET d == Flush(req, Says(c, h, h, "CONTENT"))
               IN  /\ d \in Cores /\ d.window = <<>> /\ d.mode = "CONTENT"
                   /\ d.toolBuffer = c.toolBuffer /\ d.reasoning = c.reasoning
                   /\ d.content = c.content \o u
                   /\ d.fromReasoning = c.fromReasoning /\ d.fallback = c.fallback
                   /\ d.checkedPrefix = c.checkedPrefix
    <2>1. h \in 1 .. Len(c.window) + 1 BY <1>1
    <2>2. PICK a \in Cores :
             /\ a = Says(c, h, h, "CONTENT") /\ a.mode = "CONTENT" /\ a.window = From(c.window, h)
             /\ a.toolBuffer = c.toolBuffer /\ a.reasoning = c.reasoning
             /\ a.content = c.content \o Before(c.window, h)
             /\ a.fromReasoning = c.fromReasoning /\ a.fallback = c.fallback
             /\ a.checkedPrefix = c.checkedPrefix
      <3>1. PICK mode \in Modes : mode = "CONTENT" BY <1>2
      <3>2. PICK a \in Cores :
               /\ a = Says(c, h, h, mode) /\ a.mode = mode /\ a.window = From(c.window, h)
               /\ a.toolBuffer = c.toolBuffer /\ a.reasoning = c.reasoning
               /\ a.content = c.content \o Before(c.window, h)
               /\ a.fromReasoning = c.fromReasoning /\ a.fallback = c.fallback
               /\ a.checkedPrefix = c.checkedPrefix
        BY ZenonT(40), <2>1, SaysIs
      <3> QED BY <3>1, <3>2
    <2>3. PICK d \in Cores :
             /\ d = Flush(req, a) /\ d.window = <<>> /\ d.mode = "CONTENT"
             /\ d.toolBuffer = a.toolBuffer /\ d.reasoning = a.reasoning
             /\ d.content = a.content \o a.window
             /\ d.fromReasoning = a.fromReasoning /\ d.fallback = a.fallback
             /\ d.checkedPrefix = a.checkedPrefix
      <3>1. PICK d : d = Flush(req, a) OBVIOUS
      <3>2. ~ZeroArgCall(a) /\ a.mode = "CONTENT" BY <1>4, <2>2
      <3>3. /\ d \in Cores /\ d.window = <<>> /\ d.fromReasoning = a.fromReasoning
            /\ d.fallback = a.fallback /\ d.checkedPrefix = a.checkedPrefix
        BY <3>1, FlushIs
      <3>4. /\ d.mode = "CONTENT" /\ d.toolBuffer = a.toolBuffer /\ d.reasoning = a.reasoning
            /\ d.content = a.content \o a.window
        BY <2>2, <3>1, <3>2, FlushIs
      <3> QED BY <3>1, <3>3, <3>4
    <2>4. d.content = c.content \o u
      <3>1. PICK s \in Text : s = Before(u, h) BY BeforeIs
      <3>2. PICK t \in Text : t = From(u, h) /\ s \o t = u
        <4>1. PICK k \in 0 .. Len(u) : k + 1 = h
          <5>1. Len(u) \in Nat BY TextIs
          <5>2. h - 1 \in 0 .. Len(u) /\ (h - 1) + 1 = h BY <5>1
          <5> QED BY <5>2
        <4>2. From(u, h) \in Text BY <4>1, Behind
        <4> QED BY <3>1, <4>2, WholeParts
      <3>3. PICK q \in Text : q = c.content BY CoresAre
      <3>4. (q \o s) \o t = q \o (s \o t) BY Regrouped
      <3> QED BY <1>1, <2>2, <2>3, <3>1, <3>2, <3>3, <3>4
    <2>5. Flush(req, Says(c, h, h, "CONTENT")) = d BY <2>2, <2>3
    <2> QED BY <2>2, <2>3, <2>4, <2>5
  <1>5. i \in 1 .. Len(u) + 1 /\ j \in 1 .. Len(u) + 1 BY <1>1
  <1>6. Flush(req, Thinks(c, i, i, "REASONING")) = Flush(req, Thinks(c, j, j, "REASONING"))
    <2>1. PICK d : d = Flush(req, Thinks(c, i, i, "REASONING")) OBVIOUS
    <2>2. PICK e : e = Flush(req, Thinks(c, j, j, "REASONING")) OBVIOUS
    <2>3. /\ d \in Cores /\ d.window = <<>> /\ d.mode = "REASONING"
          /\ d.toolBuffer = c.toolBuffer /\ d.content = c.content
          /\ d.reasoning = c.reasoning \o u
          /\ d.fromReasoning = c.fromReasoning /\ d.fallback = c.fallback
          /\ d.checkedPrefix = c.checkedPrefix
      BY <1>3, <1>5, <2>1
    <2>4. /\ e \in Cores /\ e.window = <<>> /\ e.mode = "REASONING"
          /\ e.toolBuffer = c.toolBuffer /\ e.content = c.content
          /\ e.reasoning = c.reasoning \o u
          /\ e.fromReasoning = c.fromReasoning /\ e.fallback = c.fallback
          /\ e.checkedPrefix = c.checkedPrefix
      BY <1>3, <1>5, <2>2
    <2>5. d = e BY <2>3, <2>4, CoresSame
    <2> QED BY <2>1, <2>2, <2>5
  <1>7. ASSUME ~ZeroArgCall(Says(c, i, i, "CONTENT")), ~ZeroArgCall(Says(c, j, j, "CONTENT"))
        PROVE  Flush(req, Says(c, i, i, "CONTENT")) = Flush(req, Says(c, j, j, "CONTENT"))
    <2>1. PICK d : d = Flush(req, Says(c, i, i, "CONTENT")) OBVIOUS
    <2>2. PICK e : e = Flush(req, Says(c, j, j, "CONTENT")) OBVIOUS
    <2>3. /\ d \in Cores /\ d.window = <<>> /\ d.mode = "CONTENT"
          /\ d.toolBuffer = c.toolBuffer /\ d.reasoning = c.reasoning
          /\ d.content = c.content \o u
          /\ d.fromReasoning = c.fromReasoning /\ d.fallback = c.fallback
          /\ d.checkedPrefix = c.checkedPrefix
      BY <1>4, <1>5, <1>7, <2>1
    <2>4. /\ e \in Cores /\ e.window = <<>> /\ e.mode = "CONTENT"
          /\ e.toolBuffer = c.toolBuffer /\ e.reasoning = c.reasoning
          /\ e.content = c.content \o u
          /\ e.fromReasoning = c.fromReasoning /\ e.fallback = c.fallback
          /\ e.checkedPrefix = c.checkedPrefix
      BY <1>4, <1>5, <1>7, <2>2
    <2>5. d = e BY <2>3, <2>4, CoresSame
    <2> QED BY <2>1, <2>2, <2>5
  <1> QED BY <1>6, <1>7

\* What was thought before makes no difference to what a window comes to, if nothing
\* was looked for there.
LEMMA ThoughtSame ==
    ASSUME Asked(req), NameLimit \in Nat, NEW c \in Cores, c.mode = "REASONING", c.checkedPrefix,
           NEW k \in 0 .. Len(c.window), \A i \in Closers(c) : i > k
    PROVE  To(req, Thinks(c, k + 1, k + 1, "REASONING")) = To(req, c)
  <1>1. PICK u \in Text : u = c.window BY CoresAre
  <1>2. PICK n \in Nat : n = Len(u) /\ k \in 0 .. n /\ k \in Nat BY <1>1, TextIs
  <1>3. PICK a \in Cores : /\ a = Thinks(c, k + 1, k + 1, "REASONING") /\ a.mode = "REASONING"
                           /\ a.window = From(u, k + 1) /\ a.checkedPrefix
    <2>1. PICK one : one = k + 1 /\ one \in 1 .. Len(c.window) + 1
      <3>1. k + 1 \in 1 .. Len(c.window) + 1 BY <1>1, <1>2
      <3> QED BY <3>1
    <2>2. PICK mode \in Modes : mode = "REASONING" BY DEF Modes
    <2>3. PICK a \in Cores : /\ a = Thinks(c, one, one, mode) /\ a.mode = mode
                             /\ a.window = From(c.window, one) /\ a.checkedPrefix = c.checkedPrefix
      BY <2>1, ThinksIs
    <2> QED BY <1>1, <2>1, <2>2, <2>3
  <1>4. PICK m \in Nat : m = Len(a.window) /\ n = k + m
    <2>1. Len(a.window) = n - k BY <1>2, <1>3, Behind
    <2>2. n - k \in Nat /\ n = k + (n - k) BY <1>2
    <2> QED BY <2>1, <2>2
  <1>5. /\ \A i : i > k => /\ i \in CloseHits(c) => i - k \in CloseHits(a)
                           /\ i \in ToolHits(c) => i - k \in ToolHits(a)
        /\ \A i : FirstIn(i, Closers(c)) => FirstIn(i - k, Closers(a))
        /\ Closers(c) = {} => Closers(a) = {}
    BY <1>1, <1>3, FirstShift
  <1>6. "CONTENT" \in Modes /\ "REASONING" \in Modes BY DEF Modes
  <1>8. CASE Closers(c) = {}
    <2>1. PICK r \in 0 .. n : r = Releasable(u) BY <1>2, CutAgain DEF Asked
    <2>2. PICK q \in 0 .. m : q = Releasable(a.window)
      <3>1. a.window \in Text BY CoresAre
      <3> QED BY <1>4, <3>1, CutAgain DEF Asked
    <2>3. CoreRound(req, c) = Waits(Thinks(c, r + 1, r + 1, "REASONING"))
      BY <1>1, <1>8, <2>1, RoundWhen
    <2>4. CoreRound(req, a) = Waits(Thinks(a, q + 1, q + 1, "REASONING"))
      BY ZenonT(40), <1>3, <1>5, <1>8, <2>2, RoundWhen
    <2>5. PICK y : y = q + 1 /\ y \in 1 .. Len(a.window) + 1
      <3>1. q + 1 \in 1 .. Len(a.window) + 1 BY <1>4, <2>2
      <3> QED BY <3>1
    <2>6. Thinks(a, y, y, "REASONING") = Thinks(c, k + y, k + y, "REASONING")
      <3>1. PICK mode \in Modes : mode = "REASONING" BY <1>6
      <3>2. a = Thinks(c, k + 1, k + 1, mode) =>
               Thinks(a, y, y, mode) = Thinks(c, k + y, k + y, mode)
        <4>1. y \in 1 .. Len(a.window) + 1 BY <2>5
        <4> QED BY <4>1, SaysTwice
      <3> QED BY <1>3, <3>1, <3>2
    <2>7. PICK x : x = k + y /\ x \in 1 .. Len(c.window) + 1
      <3>1. k + y \in 1 .. Len(c.window) + 1 BY <1>1, <1>2, <1>4, <2>2, <2>5
      <3> QED BY <3>1
    <2>8. PICK z : z = r + 1 /\ z \in 1 .. Len(c.window) + 1
      <3>1. r + 1 \in 1 .. Len(c.window) + 1 BY <1>1, <1>2, <2>1
      <3> QED BY <3>1
    <2>9. To(req, c) = Flush(req, Thinks(c, z, z, "REASONING")) BY <2>3, <2>8, ToRound
    <2>10. To(req, a) = Flush(req, Thinks(a, y, y, "REASONING")) BY <2>4, <2>5, ToRound
    <2>11. Flush(req, Thinks(c, x, x, "REASONING")) = Flush(req, Thinks(c, z, z, "REASONING"))
      BY <2>7, <2>8, FlushedSame
    <2> QED BY <1>3, <2>6, <2>7, <2>9, <2>10, <2>11
  <1>9. CASE Closers(c) # {}
    <2>1. PICK i : FirstIn(i, Closers(c)) BY <1>9, FirstMet
    <2>2. i \in Closers(c) /\ i > k BY <2>1 DEF FirstIn
    <2>3. PICK h : h = i - k /\ FirstIn(h, Closers(a)) BY <1>5, <2>1
    <2>4. i \in Nat BY <2>2, CorePlaces DEF Closers, Hits
    <2>5. CASE i \in CloseHits(c)
      <3>1. h \in CloseHits(a) BY <1>5, <2>2, <2>3, <2>5
      <3>2. CoreRound(req, c) = Again(Thinks(c, i, i + 2, "CONTENT")) BY <2>1, <2>5, RoundWhen
      <3>3. CoreRound(req, a) = Again(Thinks(a, h, h + 2, "CONTENT"))
        BY <1>3, <2>3, <3>1, RoundWhen
      <3>4. h \in 1 .. Len(a.window) + 1 /\ h + 2 \in 1 .. Len(a.window) + 1
        <4>1. h \in 1 .. Len(a.window) - 1 /\ h + 2 \in 1 .. Len(a.window) + 1 BY <3>1, CorePlaces
        <4> QED BY <1>4, <4>1
      <3>5. PICK j : j = h + 2 /\ j \in 1 .. Len(a.window) + 1 BY <3>4
      <3>6. Thinks(a, h, j, "CONTENT") = Thinks(c, k + h, k + j, "CONTENT")
        <4>1. PICK mode \in Modes : mode = "REASONING" BY <1>6
        <4>2. PICK next \in Modes : next = "CONTENT" BY <1>6
        <4>3. a = Thinks(c, k + 1, k + 1, mode) =>
                 Thinks(a, h, j, next) = Thinks(c, k + h, k + j, next)
          <5>1. h \in 1 .. Len(a.window) + 1 /\ j \in 1 .. Len(a.window) + 1 BY <3>4, <3>5
          <5> QED BY <5>1, SaysTwice
        <4> QED BY <1>3, <4>1, <4>2, <4>3
      <3>7. k + h = i /\ k + j = i + 2 BY <1>2, <2>3, <2>4, <3>5
      <3>8. PICK d : d = Thinks(c, i, i + 2, "CONTENT") OBVIOUS
      <3>9. CoreRound(req, c) = Again(d) BY <3>2, <3>8
      <3>10. CoreRound(req, a) = Again(d) BY <3>3, <3>5, <3>6, <3>7, <3>8
      <3>11. To(req, c) = To(req, d) BY <3>9, ToRound
      <3>12. To(req, a) = To(req, d) BY <3>10, ToRound
      <3> QED BY <1>3, <3>11, <3>12
    <2>6. CASE i \in ToolHits(c)
      <3>1. h \in ToolHits(a) BY <1>5, <2>2, <2>3, <2>6
      <3>2. CoreRound(req, c) = Again(OpensThought(c, i))
        BY <2>1, <2>6, RoundWhen DEF OpensThought
      <3>3. CoreRound(req, a) = Again(OpensThought(a, h))
        BY <1>3, <2>3, <3>1, RoundWhen DEF OpensThought
      <3>4. h \in 1 .. Len(a.window) + 1
        <4>1. h \in 1 .. Len(a.window) BY <3>1, CorePlaces
        <4> QED BY <1>4, <4>1
      <3>5. k + h = i BY <1>2, <2>3, <2>4
      <3>6. OpensThought(a, h) = OpensThought(c, k + h)
        <4>1. a = Thinks(c, k + 1, k + 1, "REASONING") => OpensThought(a, h) = OpensThought(c, k + h)
          BY <3>4, OpensTwice
        <4> QED BY <1>3, <4>1
      <3>7. CoreRound(req, a) = Again(OpensThought(c, i))
        BY <3>3, <3>5, <3>6
      <3>8. PICK d : d = OpensThought(c, i) OBVIOUS
      <3>9. CoreRound(req, c) = Again(d) BY <3>2, <3>8
      <3>10. CoreRound(req, a) = Again(d) BY <3>7, <3>8
      <3>11. To(req, c) = To(req, d) BY <3>9, ToRound
      <3>12. To(req, a) = To(req, d) BY <3>10, ToRound
      <3> QED BY <1>3, <3>11, <3>12
    <2> QED BY <2>2, <2>5, <2>6 DEF Closers
  <1> QED BY <1>3, <1>8, <1>9

\* A bare brace that is found when more comes is found whether the front of the window
\* was said before or not, unless it was found without it.
LEMMA BareMore ==
    ASSUME NEW c \in Cores, NEW x \in Text, NEW k \in 0 .. Len(c.window), ~BareJson(c),
           ~BareJson(Ext(Says(c, k + 1, k + 1, "CONTENT"), x))
    PROVE  ~BareJson(Ext(c, x))
  <1> SUFFICES ASSUME BareJson(Ext(c, x)) PROVE FALSE OBVIOUS
  <1>1. PICK w \in Text : w = c.window BY CoresAre
  <1>2. PICK n \in Nat : n = Len(w) /\ k \in 0 .. n /\ k \in Nat BY <1>1, TextIs
  <1>3. PICK one : one = k + 1 /\ one \in 1 .. Len(w) + 1 /\ one \in 1 .. Len(c.window) + 1
    <2>1. k + 1 \in 1 .. Len(w) + 1 BY <1>2
    <2> QED BY <1>1, <2>1
  <1>4. PICK d \in Cores : d = Ext(c, x) /\ d.window = w \o x /\ d.content = c.content BY <1>1, ExtIs
  <1>5. PICK u \in Text : u = w \o x /\ d.window = u BY <1>4, CatIs
  <1>6. PICK f : f = FirstBlack(u) OBVIOUS
  <1>7. HasTools /\ Blank(c.content) /\ ~Blank(u) /\ u[f] \in {"b", "j"} BY <1>4, <1>5, <1>6 DEF BareJson
  <1>8. PICK m \in Nat : m = Len(x) /\ Len(u) = n + m
                         /\ (\A y \in 1 .. n : u[y] = w[y]) /\ \A y \in 1 .. m : u[n + y] = x[y]
    <2>1. /\ Len(u) = Len(w) + Len(x) /\ \A y \in 1 .. Len(w) : u[y] = w[y]
          /\ \A y \in 1 .. Len(x) : u[Len(w) + y] = x[y]
      BY <1>5, CatIs
    <2>2. Len(x) \in Nat BY TextIs
    <2> QED BY <1>2, <2>1, <2>2
  <1>9. /\ f \in 1 .. n + m /\ f \in Nat /\ u[f] # "w" /\ \A y \in 1 .. f - 1 : u[y] = "w"
    <2>1. /\ f \in 1 .. Len(u) + 1 /\ \A y \in 1 .. f - 1 : u[y] = "w" BY <1>6, FirstBlackIs
    <2>2. f <= Len(u)
      <3>1. CASE f = Len(u) + 1
        <4>1. \A y \in 1 .. Len(u) : u[y] = "w" BY <1>8, <2>1, <3>1
        <4> QED BY <1>7, <4>1 DEF Blank
      <3>2. PICK all \in Nat : all = Len(u) BY TextIs
      <3>3. f \in 1 .. all + 1 BY <2>1, <3>2
      <3>4. f = all + 1 \/ f <= all BY <3>3
      <3> QED BY <3>1, <3>2, <3>4
    <2>3. f \in 1 .. n + m /\ f \in Nat BY <1>8, <2>1, <2>2
    <2> QED BY <1>7, <2>1, <2>3
  <1>10. CASE f <= n
    <2>1. f \in 1 .. n /\ f \in 1 .. Len(w) BY <1>2, <1>9, <1>10
    <2>2. w[f] = u[f] BY <1>8, <2>1
    <2>3. \A y \in 1 .. f - 1 : w[y] = "w"
      <3> SUFFICES ASSUME NEW y \in 1 .. f - 1 PROVE w[y] = "w" OBVIOUS
      <3>1. y \in 1 .. n BY <1>9, <2>1
      <3>2. u[y] = "w" BY <1>9
      <3> QED BY <1>8, <3>1, <3>2
    <2>4. FirstBlack(w) = f /\ ~Blank(w) BY <1>9, <2>1, <2>2, <2>3, FirstBlackAt
    <2>5. w[FirstBlack(w)] \in {"b", "j"} BY <1>7, <2>2, <2>4
    <2> QED BY <1>1, <1>7, <2>4, <2>5 DEF BareJson
  <1>11. CASE f > n
    <2>1. PICK s \in Text : s = Before(w, one) /\ Len(s) = k /\ \A y \in 1 .. k : s[y] = w[y]
      <3>1. PICK s \in Text : s = Before(w, one) /\ Len(s) = one - 1 /\ \A y \in 1 .. one - 1 : s[y] = w[y]
        BY <1>3, BeforeIs
      <3>2. one - 1 = k BY <1>2, <1>3
      <3> QED BY <3>1, <3>2
    <2>2. PICK t \in Text : t = From(w, one) BY <1>3, Behind
    <2>3. PICK r \in Cores : /\ r = Says(c, one, one, "CONTENT") /\ r.window = t
                             /\ r.content = c.content \o s
      <3>1. "CONTENT" \in Modes BY DEF Modes
      <3> QED BY <1>1, <1>3, <2>1, <2>2, <3>1, SaysIs
    <2>4. Blank(s)
      <3>1. \A y \in 1 .. k : s[y] = "w"
        <4> SUFFICES ASSUME NEW y \in 1 .. k PROVE s[y] = "w" OBVIOUS
        <4>1. y \in 1 .. n /\ y \in 1 .. f - 1 BY <1>2, <1>9, <1>11
        <4> QED BY <1>8, <1>9, <2>1, <4>1
      <3> QED BY <2>1, <3>1 DEF Blank
    <2>5. Blank(r.content)
      <3>1. PICK q \in Text : q = c.content BY CoresAre
      <3>2. Blank(q) BY <1>7, <3>1
      <3>3. Blank(q \o s) BY <2>4, <3>2, BlankParts
      <3> QED BY <2>3, <3>1, <3>3
    <2>6. PICK v \in Text : v = t \o x /\ v = From(u, one)
      <3>1. From(w \o x, one) = From(w, one) \o x BY <1>3, CatParts
      <3>2. PICK v \in Text : v = t \o x BY <2>2, CatIs
      <3> QED BY <1>5, <2>2, <3>1, <3>2
    <2>7. Len(v) = (n + m) - k /\ \A y \in 1 .. (n + m) - k : v[y] = u[k + y]
      <3>1. PICK all \in Nat : all = n + m /\ Len(u) = all /\ k \in 0 .. all
        <4>1. n + m \in Nat /\ k \in 0 .. n + m BY <1>2, <1>8
        <4> QED BY <1>8, <4>1
      <3>2. k \in 0 .. Len(u) BY <3>1
      <3>3. Len(From(u, k + 1)) = Len(u) - k /\ \A y \in 1 .. Len(u) - k : From(u, k + 1)[y] = u[k + y]
        BY <3>2, Behind
      <3> QED BY <1>3, <2>6, <3>1, <3>3
    <2>8. PICK g \in Nat : g = f - k /\ k + g = f /\ g \in 1 .. (n + m) - k
      <3>1. f - k \in Nat /\ k + (f - k) = f /\ f - k \in 1 .. (n + m) - k BY <1>2, <1>9, <1>11
      <3> QED BY <3>1
    <2>9. v[g] = u[f] BY <2>7, <2>8
    <2>10. \A y \in 1 .. g - 1 : v[y] = "w"
      <3> SUFFICES ASSUME NEW y \in 1 .. g - 1 PROVE v[y] = "w" OBVIOUS
      <3>1. y \in 1 .. (n + m) - k /\ k + y \in 1 .. f - 1 BY <1>2, <1>8, <1>9, <2>8
      <3> QED BY <1>9, <2>7, <3>1
    <2>11. FirstBlack(v) = g /\ ~Blank(v)
      <3>1. g \in 1 .. Len(v) /\ v[g] # "w" BY <1>9, <2>7, <2>8, <2>9
      <3> QED BY <2>10, <3>1, FirstBlackAt
    <2>12. PICK e \in Cores : e = Ext(r, x) /\ e.window = v /\ e.content = r.content
      <3>1. PICK e \in Cores : e = Ext(r, x) /\ e.window = r.window \o x /\ e.content = r.content
        BY ExtIs
      <3> QED BY <2>3, <2>6, <3>1
    <2>13. v[FirstBlack(v)] \in {"b", "j"} BY <1>7, <2>9, <2>11
    <2>14. BareJson(e) BY <1>7, <2>5, <2>11, <2>12, <2>13 DEF BareJson
    <2> QED BY <1>3, <2>3, <2>12, <2>14
  <1> QED BY <1>2, <1>9, <1>10, <1>11

\* What was said before makes no difference to what a window comes to, if nothing was
\* looked for there and a lone name is cut off at the same place.
LEMMA SaidSame ==
    ASSUME Asked(req), NameLimit \in Nat, NEW c \in Cores, c.mode = "CONTENT",
           NEW k \in 0 .. Len(c.window), \A i \in Hits(c) : i > k, NEW a \in Cores,
           a = Says(c, k + 1, k + 1, "CONTENT"), Hits(c) = {} => ~BareJson(c) /\ ~BareJson(a),
           HasTools => \A p : Lone(c.window, p) =>
              /\ p > Cut(c.window) => p > k
              /\ p > k => Cut(c.window) = k + Cut(a.window)
    PROVE  To(req, a) = To(req, c)
  <1>1. PICK u \in Text : u = c.window BY CoresAre
  <1>2. PICK n \in Nat : n = Len(u) /\ k \in 0 .. n /\ k \in Nat BY <1>1, TextIs
  <1>3. a.mode = "CONTENT" /\ a.window = From(u, k + 1)
    <2>1. PICK one : one = k + 1 /\ one \in 1 .. Len(c.window) + 1
      <3>1. k + 1 \in 1 .. Len(c.window) + 1 BY <1>1, <1>2
      <3> QED BY <3>1
    <2>2. PICK mode \in Modes : mode = "CONTENT" BY DEF Modes
    <2>3. PICK d \in Cores : d = Says(c, one, one, mode) /\ d.mode = mode /\ d.window = From(c.window, one)
      BY ZenonT(40), <2>1, SaysIs
    <2>4. a = d BY <2>1, <2>2, <2>3
    <2> QED BY <1>1, <2>1, <2>2, <2>3, <2>4
  <1>4. PICK m \in Nat : m = Len(a.window) /\ n = k + m
    <2>1. Len(a.window) = n - k BY <1>1, <1>2, <1>3, Behind
    <2>2. n - k \in Nat /\ n = k + (n - k) BY <1>2
    <2> QED BY <2>1, <2>2
  <1>5. /\ \A i : i > k => /\ i \in ThinkHits(c) => i - k \in ThinkHits(a)
                           /\ i \in CloseHits(c) => i - k \in CloseHits(a)
                           /\ i \in ToolHits(c) => i - k \in ToolHits(a)
        /\ \A i : FirstIn(i, Hits(c)) => FirstIn(i - k, Hits(a))
        /\ Hits(c) = {} => Hits(a) = {}
    BY <1>1, <1>3, FirstShift
  <1>6. "CONTENT" \in Modes /\ "REASONING" \in Modes BY DEF Modes
  <1>7. \A i, j, mode : i \in 1 .. Len(a.window) + 1 /\ j \in 1 .. Len(a.window) + 1 /\ mode \in Modes =>
           Says(a, i, j, mode) = Says(c, k + i, k + j, mode)
    <2> SUFFICES ASSUME NEW i \in 1 .. Len(a.window) + 1, NEW j \in 1 .. Len(a.window) + 1,
                        NEW mode \in Modes
                 PROVE  Says(a, i, j, mode) = Says(c, k + i, k + j, mode)
      OBVIOUS
    <2>1. PICK first \in Modes : first = "CONTENT" BY <1>6
    <2>2. a = Says(c, k + 1, k + 1, first) =>
             Says(a, i, j, mode) = Says(c, k + i, k + j, mode)
      BY SaysTwice
    <2> QED BY <2>1, <2>2
  <1>8. CASE Hits(c) = {}
    <2>1. PICK r \in 0 .. n : r = Cut(u)
      <3>1. Cut(u) \in Nat /\ Cut(u) <= Free(u) /\ Free(u) \in Nat /\ Free(u) <= Len(u)
        BY FreeIs DEF Asked
      <3>2. Cut(u) \in 0 .. n BY <1>2, <3>1
      <3> QED BY <3>2
    <2>2. PICK q \in 0 .. m : q = Cut(a.window)
      <3>1. PICK v \in Text : v = a.window BY CoresAre
      <3>2. Cut(v) \in Nat /\ Cut(v) <= Free(v) /\ Free(v) \in Nat /\ Free(v) <= Len(v)
        BY FreeIs DEF Asked
      <3>3. Cut(v) \in 0 .. m BY <1>4, <3>1, <3>2
      <3> QED BY <3>1, <3>3
    <2>3. CoreRound(req, c) = Waits(Says(c, r + 1, r + 1, "CONTENT"))
      BY <1>1, <1>8, <2>1, RoundWhen
    <2>4. CoreRound(req, a) = Waits(Says(a, q + 1, q + 1, "CONTENT"))
      BY <1>3, <1>5, <1>8, <2>2, RoundWhen
    <2>5. PICK y : y = q + 1 /\ y \in 1 .. Len(a.window) + 1
      <3>1. q + 1 \in 1 .. Len(a.window) + 1 BY <1>4, <2>2
      <3> QED BY <3>1
    <2>6. Says(a, y, y, "CONTENT") = Says(c, k + y, k + y, "CONTENT")
      <3>1. y \in 1 .. Len(a.window) + 1 BY <2>5
      <3> QED BY <1>6, <1>7, <3>1
    <2>7. PICK x \in 1 .. Len(c.window) + 1 : x = k + y
      <3>1. k + y \in 1 .. Len(c.window) + 1 BY <1>1, <1>2, <1>4, <2>2, <2>5
      <3> QED BY <3>1
    <2>8. PICK z \in 1 .. Len(c.window) + 1 : z = r + 1
      <3>1. r + 1 \in 1 .. Len(c.window) + 1 BY <1>1, <1>2, <2>1
      <3> QED BY <3>1
    <2>9. To(req, c) = Flush(req, Says(c, z, z, "CONTENT")) BY <2>3, <2>8, ToRound
    <2>10. To(req, a) = Flush(req, Says(a, y, y, "CONTENT")) BY <2>4, <2>5, ToRound
    <2>11. To(req, a) = Flush(req, Says(c, x, x, "CONTENT")) BY <2>6, <2>7, <2>10
    <2>12. ASSUME x # z PROVE ~ZeroArgCall(Says(c, z, z, "CONTENT"))
      <3> SUFFICES ASSUME ZeroArgCall(Says(c, z, z, "CONTENT")) PROVE FALSE OBVIOUS
      <3>1. r \in 0 .. Len(c.window) BY <1>1, <1>2, <2>1
      <3>2. ZeroArgCall(Says(c, r + 1, r + 1, "CONTENT")) BY <2>8
      <3>3. HasTools /\ \E p : Lone(c.window, p) /\ p > r BY <3>1, <3>2, SaidLone
      <3>4. PICK p : Lone(c.window, p) /\ p > r BY <3>3
      <3>5. p > Cut(c.window) BY <1>1, <2>1, <3>4
      <3>6. Cut(c.window) = k + Cut(a.window) BY <3>3, <3>4, <3>5
      <3>7. r = k + q BY <1>1, <2>1, <2>2, <3>6
      <3>8. x = z BY <1>2, <2>1, <2>2, <2>5, <2>7, <2>8, <3>7
      <3> QED BY <2>12, <3>8
    <2>13. ASSUME x # z PROVE ~ZeroArgCall(Says(c, x, x, "CONTENT"))
      <3> SUFFICES ASSUME ZeroArgCall(Says(c, x, x, "CONTENT")) PROVE FALSE OBVIOUS
      <3>1. PICK o \in 0 .. Len(c.window) : o + 1 = x /\ o >= k /\ o \in Nat
        <4>1. q \in Nat /\ q <= m BY <1>4, <2>2
        <4>2. k + q \in 0 .. n /\ (k + q) + 1 = k + (q + 1) /\ k + q >= k /\ k + q \in Nat
          BY <1>2, <1>4, <4>1
        <4>3. x = k + (q + 1) BY <2>5, <2>7
        <4>4. k + q \in 0 .. Len(c.window) BY <1>1, <1>2, <4>2
        <4> QED BY <4>2, <4>3, <4>4
      <3>2. ZeroArgCall(Says(c, o + 1, o + 1, "CONTENT")) BY <3>1
      <3>3. HasTools /\ \E p : Lone(c.window, p) /\ p > o BY <3>2, SaidLone
      <3>4. PICK p : Lone(c.window, p) /\ p > o BY <3>3
      <3>5. p > k
        <4>1. p \in Nat BY <3>4, <1>1, <1>2 DEF Lone
        <4> QED BY <1>2, <3>1, <3>4, <4>1
      <3>6. Cut(c.window) = k + Cut(a.window) BY <3>3, <3>4, <3>5
      <3>7. r = k + q BY <1>1, <2>1, <2>2, <3>6
      <3>8. x = z BY <1>2, <2>1, <2>2, <2>5, <2>7, <2>8, <3>7
      <3> QED BY <2>13, <3>8
    <2>14. CASE x = z BY <2>9, <2>11, <2>14
    <2>15. CASE x # z
      <3>1. Flush(req, Says(c, x, x, "CONTENT")) = Flush(req, Says(c, z, z, "CONTENT"))
        BY <2>12, <2>13, <2>15, FlushedSame
      <3> QED BY <2>9, <2>11, <3>1
    <2> QED BY <2>14, <2>15
  <1>9. CASE Hits(c) # {}
    <2>1. PICK i : FirstIn(i, Hits(c)) BY <1>9, FirstMet
    <2>2. i \in Hits(c) /\ i > k BY <2>1 DEF FirstIn
    <2>3. PICK h : h = i - k /\ FirstIn(h, Hits(a)) BY <1>5, <2>1
    <2>4. i \in Nat BY <2>2, CorePlaces DEF Hits
    <2>5. CASE i \in ThinkHits(c)
      <3>1. h \in ThinkHits(a) BY <1>5, <2>2, <2>3, <2>5
      <3>2. CoreRound(req, c) = Again(Says(c, i, i + 2, "REASONING")) BY ZenonT(40), <2>1, <2>5, RoundWhen
      <3>3. CoreRound(req, a) = Again(Says(a, h, h + 2, "REASONING"))
        BY <1>3, <2>3, <3>1, RoundWhen
      <3>4. h \in 1 .. Len(a.window) + 1 /\ h + 2 \in 1 .. Len(a.window) + 1
        <4>1. h \in 1 .. Len(a.window) - 1 /\ h + 2 \in 1 .. Len(a.window) + 1 BY <3>1, CorePlaces
        <4> QED BY <1>4, <4>1
      <3>5. PICK j : j = h + 2 BY <3>4
      <3>6. Says(a, h, j, "REASONING") = Says(c, k + h, k + j, "REASONING")
        <4>1. h \in 1 .. Len(a.window) + 1 /\ j \in 1 .. Len(a.window) + 1 BY <3>4, <3>5
        <4>2. PICK next \in Modes : next = "REASONING" BY <1>6
        <4>3. Says(a, h, j, next) = Says(c, k + h, k + j, next) BY <1>7, <4>1
        <4> QED BY <4>2, <4>3
      <3>7. k + h = i /\ k + j = i + 2 BY <1>2, <2>3, <2>4, <3>5
      <3>8. PICK d : d = Says(c, i, i + 2, "REASONING") OBVIOUS
      <3>9. CoreRound(req, c) = Again(d) BY <3>2, <3>8
      <3>10. CoreRound(req, a) = Again(d) BY <3>3, <3>5, <3>6, <3>7, <3>8
      <3>11. To(req, c) = To(req, d) BY <3>9, ToRound
      <3>12. To(req, a) = To(req, d) BY <3>10, ToRound
      <3> QED BY <3>11, <3>12
    <2>6. CASE i \in CloseHits(c)
      <3>1. h \in CloseHits(a) BY <1>5, <2>2, <2>3, <2>6
      <3>2. CoreRound(req, c) = Again(Says(c, i, i + 2, "CONTENT")) BY ZenonT(40), <2>1, <2>6, RoundWhen
      <3>3. CoreRound(req, a) = Again(Says(a, h, h + 2, "CONTENT"))
        BY <1>3, <2>3, <3>1, RoundWhen
      <3>4. h \in 1 .. Len(a.window) + 1 /\ h + 2 \in 1 .. Len(a.window) + 1
        <4>1. h \in 1 .. Len(a.window) - 1 /\ h + 2 \in 1 .. Len(a.window) + 1 BY <3>1, CorePlaces
        <4> QED BY <1>4, <4>1
      <3>5. PICK j : j = h + 2 BY <3>4
      <3>6. Says(a, h, j, "CONTENT") = Says(c, k + h, k + j, "CONTENT")
        <4>1. h \in 1 .. Len(a.window) + 1 /\ j \in 1 .. Len(a.window) + 1 BY <3>4, <3>5
        <4>2. PICK next \in Modes : next = "CONTENT" BY <1>6
        <4>3. Says(a, h, j, next) = Says(c, k + h, k + j, next) BY <1>7, <4>1
        <4> QED BY <4>2, <4>3
      <3>7. k + h = i /\ k + j = i + 2 BY <1>2, <2>3, <2>4, <3>5
      <3>8. PICK d : d = Says(c, i, i + 2, "CONTENT") OBVIOUS
      <3>9. CoreRound(req, c) = Again(d) BY <3>2, <3>8
      <3>10. CoreRound(req, a) = Again(d) BY <3>3, <3>5, <3>6, <3>7, <3>8
      <3>11. To(req, c) = To(req, d) BY <3>9, ToRound
      <3>12. To(req, a) = To(req, d) BY <3>10, ToRound
      <3> QED BY <3>11, <3>12
    <2>7. CASE i \in ToolHits(c)
      <3>1. h \in ToolHits(a) BY <1>5, <2>2, <2>3, <2>7
      <3>2. CoreRound(req, c) = Again(OpensSaid(c, i)) BY <2>1, <2>7, RoundWhen DEF OpensSaid
      <3>3. CoreRound(req, a) = Again(OpensSaid(a, h)) BY <1>3, <2>3, <3>1, RoundWhen DEF OpensSaid
      <3>4. h \in 1 .. Len(a.window) + 1
        <4>1. h \in 1 .. Len(a.window) BY <3>1, CorePlaces
        <4> QED BY <1>4, <4>1
      <3>5. k + h = i BY <1>2, <2>3, <2>4
      <3>6. OpensSaid(a, h) = OpensSaid(c, k + h)
        <4>1. a = Says(c, k + 1, k + 1, "CONTENT") => OpensSaid(a, h) = OpensSaid(c, k + h)
          BY <3>4, OpensTwice
        <4> QED BY <4>1
      <3>7. CoreRound(req, a) = Again(OpensSaid(c, i)) BY <3>3, <3>5, <3>6
      <3>8. PICK d : d = OpensSaid(c, i) OBVIOUS
      <3>9. CoreRound(req, c) = Again(d) BY <3>2, <3>8
      <3>10. CoreRound(req, a) = Again(d) BY <3>7, <3>8
      <3>11. To(req, c) = To(req, d) BY <3>9, ToRound
      <3>12. To(req, a) = To(req, d) BY <3>10, ToRound
      <3> QED BY <3>11, <3>12
    <2> QED BY <2>2, <2>5, <2>6, <2>7 DEF Hits
  <1> QED BY <1>8, <1>9

\* An open tool buffer has taken the window or takes it with what follows.
LEMMA TookSame ==
    ASSUME Asked(req), NEW c \in Cores, c.mode = "TOOL_BUFFER", NEW x \in Text
    PROVE  To(req, Ext(Took(c), x)) = To(req, Ext(c, x))
  <1>1. PICK w \in Text : w = c.window BY CoresAre
  <1>2. PICK t \in Text : t = c.toolBuffer BY CoresAre
  <1>3. PICK none \in Text : none = <<>> /\ \A s \in Text : s \o none = s /\ none \o s = s BY CatIs
  <1>4. PICK d \in Cores :
           /\ d = Took(c) /\ d.mode = c.mode /\ d.window = none
           /\ d.toolBuffer = c.toolBuffer \o c.window /\ d.content = c.content
           /\ d.reasoning = c.reasoning /\ d.fromReasoning = c.fromReasoning
           /\ d.fallback = c.fallback /\ d.checkedPrefix = c.checkedPrefix
    BY <1>3, TookIs
  <1>5. PICK f \in Cores :
           /\ f = Ext(d, x) /\ f.window = d.window \o x /\ f.mode = d.mode
           /\ f.toolBuffer = d.toolBuffer /\ f.content = d.content /\ f.reasoning = d.reasoning
           /\ f.fromReasoning = d.fromReasoning /\ f.fallback = d.fallback
           /\ f.checkedPrefix = d.checkedPrefix
    BY ExtIs
  <1>6. PICK g \in Cores :
           /\ g = Ext(c, x) /\ g.window = c.window \o x /\ g.mode = c.mode
           /\ g.toolBuffer = c.toolBuffer /\ g.content = c.content /\ g.reasoning = c.reasoning
           /\ g.fromReasoning = c.fromReasoning /\ g.fallback = c.fallback
           /\ g.checkedPrefix = c.checkedPrefix
    BY ExtIs
  <1>7. PICK p \in Cores :
            /\ p = Took(f) /\ p.mode = f.mode /\ p.window = none
            /\ p.toolBuffer = f.toolBuffer \o f.window /\ p.content = f.content
            /\ p.reasoning = f.reasoning /\ p.fromReasoning = f.fromReasoning
            /\ p.fallback = f.fallback /\ p.checkedPrefix = f.checkedPrefix
    BY <1>3, TookIs
  <1>8. PICK q \in Cores :
            /\ q = Took(g) /\ q.mode = g.mode /\ q.window = none
            /\ q.toolBuffer = g.toolBuffer \o g.window /\ q.content = g.content
            /\ q.reasoning = g.reasoning /\ q.fromReasoning = g.fromReasoning
            /\ q.fallback = g.fallback /\ q.checkedPrefix = g.checkedPrefix
    BY <1>3, TookIs
  <1>9. p.toolBuffer = q.toolBuffer
    <2>1. (t \o w) \o x = t \o (w \o x) BY Regrouped
    <2>2. f.window = x BY <1>3, <1>4, <1>5
    <2>3. f.toolBuffer = t \o w BY <1>1, <1>2, <1>4, <1>5
    <2>4. p.toolBuffer = (t \o w) \o x BY <1>7, <2>2, <2>3
    <2>5. q.toolBuffer = t \o (w \o x) BY <1>1, <1>2, <1>6, <1>8
    <2> QED BY <2>1, <2>4, <2>5
  <1>10. /\ p.mode = q.mode /\ p.window = q.window /\ p.content = q.content
         /\ p.reasoning = q.reasoning /\ p.fromReasoning = q.fromReasoning
         /\ p.fallback = q.fallback /\ p.checkedPrefix = q.checkedPrefix
    <2>1. /\ p.mode = c.mode /\ p.window = none /\ p.content = c.content
          /\ p.reasoning = c.reasoning /\ p.fromReasoning = c.fromReasoning
          /\ p.fallback = c.fallback /\ p.checkedPrefix = c.checkedPrefix
      BY <1>4, <1>5, <1>7
    <2>2. /\ q.mode = c.mode /\ q.window = none /\ q.content = c.content
          /\ q.reasoning = c.reasoning /\ q.fromReasoning = c.fromReasoning
          /\ q.fallback = c.fallback /\ q.checkedPrefix = c.checkedPrefix
      BY <1>6, <1>8
    <2> QED BY <2>1, <2>2
  <1>11. p = q BY <1>9, <1>10, CoresSame
  <1>12. CoreRound(req, f) = Waits(p)
    <2>1. f.mode = "TOOL_BUFFER" BY <1>4, <1>5
    <2>2. CoreRound(req, f) = Waits(Took(f)) BY <2>1, RoundWhen
    <2> QED BY <2>2, <1>7
  <1>13. CoreRound(req, g) = Waits(q)
    <2>1. g.mode = "TOOL_BUFFER" BY <1>6
    <2>2. CoreRound(req, g) = Waits(Took(g)) BY <2>1, RoundWhen
    <2> QED BY <2>2, <1>8
  <1>14. To(req, f) = Flush(req, p) BY <1>12, ToRound
  <1>15. To(req, g) = Flush(req, q) BY <1>13, ToRound
  <1> QED BY <1>4, <1>5, <1>6, <1>11, <1>14, <1>15

\* A round that waits comes to the same whether more was there before it or is put
\* behind it, unless a bare brace decided.
LEMMA WaitExt ==
    ASSUME Asked(req), NameLimit \in Nat, NEW c \in Cores, NEW raw, Suits(req, c, raw), NEW x \in Text,
           ~TooLong(req, raw \o x), NEW d, CoreRound(req, c) = Waits(d), ~To(req, Ext(d, x)).fallback
    PROVE  To(req, Ext(d, x)) = To(req, Ext(c, x))
  <1>1. PICK w \in Text : w = c.window BY CoresAre
  <1>2. PICK n \in Nat : n = Len(w) BY TextIs
  <1>3. PICK u \in Text : u = w \o x BY CatIs
  <1>4. PICK e \in Cores : /\ e = Ext(c, x) /\ e.window = u /\ e.mode = c.mode
                           /\ e.checkedPrefix = c.checkedPrefix
    BY <1>1, <1>3, ExtIs
  <1>5. \A r : CoreRound(req, c) # Again(r)
    <2> SUFFICES ASSUME NEW r PROVE CoreRound(req, c) # Again(r) OBVIOUS
    <2>1. Again(r) # Waits(d) BY Outcomes
    <2> QED BY <2>1
  <1>6. \A r : CoreRound(req, c) = Waits(r) => r = d
    <2> SUFFICES ASSUME NEW r, CoreRound(req, c) = Waits(r) PROVE r = d OBVIOUS
    <2>1. Waits(r) = Waits(d) OBVIOUS
    <2> QED BY <2>1, Outcomes
  <1>7. "CONTENT" \in Modes /\ "REASONING" \in Modes BY DEF Modes
  <1>8. Len(u) \in Nat /\ n <= Len(u)
    <2>1. Len(u) = Len(w) + Len(x) BY <1>3, CatIs
    <2>2. Len(x) \in Nat BY TextIs
    <2> QED BY <1>2, <2>1, <2>2
  <1>9. CASE c.mode = "TOOL_BUFFER"
    <2>1. d = Took(c) BY <1>6, <1>9, RoundWhen
    <2> QED BY <1>9, <2>1, TookSame
  <1>10. CASE c.mode = "REASONING" /\ ~c.checkedPrefix
    <2>1. PrefixOpen(c) BY <1>5, <1>10, RoundWhen
    <2>2. d = c BY <1>6, <1>10, <2>1, RoundWhen
    <2> QED BY <2>2
  <1>11. CASE c.mode = "REASONING" /\ c.checkedPrefix
    <2>1. Closers(c) = {}
      <3> SUFFICES ASSUME Closers(c) # {} PROVE FALSE OBVIOUS
      <3>1. PICK i : FirstIn(i, Closers(c)) BY FirstMet
      <3>2. i \in CloseHits(c) \/ i \in ToolHits(c) BY <3>1 DEF FirstIn, Closers
      <3>3. \E r : CoreRound(req, c) = Again(r)
        <4>1. CASE i \in CloseHits(c) BY ZenonT(40), <1>11, <3>1, <4>1, RoundWhen
        <4>2. CASE i \in ToolHits(c) BY ZenonT(40), <1>11, <3>1, <4>2, RoundWhen
        <4> QED BY <3>2, <4>1, <4>2
      <3> QED BY <1>5, <3>3
    <2>2. PICK k \in 0 .. n : k = Releasable(w) BY <1>2, CutAgain DEF Asked
    <2>3. PICK one : one = k + 1 /\ one \in 1 .. Len(c.window) + 1
      <3>1. k + 1 \in 1 .. Len(c.window) + 1 BY <1>1, <1>2, <2>2
      <3> QED BY <3>1
    <2>4. d = Thinks(c, one, one, "REASONING")
      <3>1. CoreRound(req, c) = Waits(Thinks(c, Releasable(w) + 1, Releasable(w) + 1, "REASONING"))
        BY <1>1, <1>11, <2>1, RoundWhen
      <3> QED BY <1>6, <2>2, <2>3, <3>1
    <2>5. Ext(d, x) = Thinks(e, one, one, "REASONING")
      <3>1. PICK mode \in Modes : mode = "REASONING" BY <1>7
      <3>2. Thinks(Ext(c, x), one, one, mode) = Ext(Thinks(c, one, one, mode), x) BY <2>3, PartsExt
      <3> QED BY <1>4, <2>4, <3>1, <3>2
    <2>6. \A i \in Closers(e) : i > k
      <3>1. \A i \in Closers(Ext(c, x)) : i > Releasable(c.window) BY <1>11, <2>1, NoneThought
      <3> QED BY <1>1, <1>4, <2>2, <3>1
    <2>7. k \in 0 .. Len(e.window) BY <1>2, <1>4, <1>8, <2>2
    <2>8. To(req, Thinks(e, k + 1, k + 1, "REASONING")) = To(req, e)
      BY <1>4, <1>11, <2>6, <2>7, ThoughtSame
    <2> QED BY <1>4, <2>3, <2>5, <2>8
  <1>12. CASE c.mode = "CONTENT"
    <2>1. Hits(c) = {}
      <3> SUFFICES ASSUME Hits(c) # {} PROVE FALSE OBVIOUS
      <3>1. PICK i : FirstIn(i, Hits(c)) BY FirstMet
      <3>2. i \in ThinkHits(c) \/ i \in CloseHits(c) \/ i \in ToolHits(c) BY <3>1 DEF FirstIn, Hits
      <3>3. \E r : CoreRound(req, c) = Again(r)
        <4>1. CASE i \in CloseHits(c) BY <1>12, <3>1, <4>1, RoundWhen
        <4>2. CASE i \in ToolHits(c) BY <1>12, <3>1, <4>2, RoundWhen
        <4>3. CASE i \in ThinkHits(c) BY <1>12, <3>1, <4>3, RoundWhen
        <4> QED BY <3>2, <4>1, <4>2, <4>3
      <3> QED BY <1>5, <3>3
    <2>2. ~BareJson(c) BY <1>5, <1>12, <2>1, RoundWhen
    <2>3. PICK k \in 0 .. n : k = Cut(w)
      <3>1. Cut(w) \in Nat /\ Cut(w) <= Free(w) /\ Free(w) \in Nat /\ Free(w) <= Len(w)
        BY FreeIs DEF Asked
      <3>2. Cut(w) \in 0 .. n BY <1>2, <3>1
      <3> QED BY <3>2
    <2>4. PICK one : one = k + 1 /\ one \in 1 .. Len(c.window) + 1
      <3>1. k + 1 \in 1 .. Len(c.window) + 1 BY <1>1, <1>2, <2>3
      <3> QED BY <3>1
    <2>5. d = Says(c, one, one, "CONTENT")
      <3>1. CoreRound(req, c) = Waits(Says(c, Cut(w) + 1, Cut(w) + 1, "CONTENT"))
        BY <1>1, <1>12, <2>1, <2>2, RoundWhen
      <3> QED BY <1>6, <2>3, <2>4, <3>1
    <2>6. PICK a \in Cores : a = Ext(d, x) /\ a = Says(e, one, one, "CONTENT")
      <3>1. PICK mode \in Modes : mode = "CONTENT" BY <1>7
      <3>2. Says(Ext(c, x), one, one, mode) = Ext(Says(c, one, one, mode), x)
            /\ Says(c, one, one, mode) \in Cores
        BY <2>4, PartsExt
      <3>3. d \in Cores BY <2>5, <3>1, <3>2
      <3>4. Ext(d, x) \in Cores BY <3>3, ExtIs
      <3> QED BY <1>4, <2>5, <3>1, <3>2, <3>4
    <2>7. k \in 0 .. Len(e.window) /\ one \in 1 .. Len(e.window) + 1
      <3>1. k \in 0 .. Len(u) /\ k + 1 \in 1 .. Len(u) + 1 BY <1>2, <1>8, <2>3
      <3> QED BY <1>4, <2>4, <3>1
    <2>8. a.mode = "CONTENT" /\ a.window = From(u, one)
      <3>1. PICK mode \in Modes : mode = "CONTENT" BY <1>7
      <3>2. PICK s \in Cores : s = Says(e, one, one, mode) /\ s.mode = mode /\ s.window = From(e.window, one)
        BY <2>7, SaysIs
      <3>3. a = s BY <2>6, <3>1, <3>2
      <3> QED BY <1>4, <3>1, <3>2, <3>3
    <2>9. \A i \in Hits(e) : i > k
      <3>1. \A i \in Hits(Ext(c, x)) : i > Cut(c.window) BY <1>12, <2>1, NoneSaid
      <3> QED BY <1>1, <1>4, <2>3, <3>1
    <2>10. Hits(e) = {} => ~BareJson(e) /\ ~BareJson(a)
      <3> SUFFICES ASSUME Hits(e) = {} PROVE ~BareJson(e) /\ ~BareJson(a) OBVIOUS
      <3>1. Hits(a) = {}
        <4>1. a.window = From(e.window, k + 1) BY <1>4, <2>4, <2>8
        <4> QED BY <2>7, <2>9, <4>1, FirstShift
      <3>2. ~BareJson(a)
        <4> SUFFICES ASSUME BareJson(a) PROVE FALSE OBVIOUS
        <4>1. PICK b : b = ToBuffer(a, 1, FALSE, TRUE) OBVIOUS
        <4>2. CoreRound(req, a) = Again(b) BY <2>8, <3>1, <4>1, RoundWhen
        <4>3. b \in Cores /\ To(req, a) = To(req, b) BY <4>2, ToRound
        <4>4. b.fallback
          <5>1. PICK no \in BOOLEAN : no = FALSE OBVIOUS
          <5>2. PICK yes \in BOOLEAN : yes = TRUE OBVIOUS
          <5>3. 1 \in 1 .. Len(a.window) + 1
            <6>1. Len(a.window) \in Nat BY CoresAre
            <6> QED BY <6>1
          <5>4. PICK one1 \in 1 .. Len(a.window) + 1 : one1 = 1 BY <5>3
          <5>5. yes => ToBuffer(a, one1, no, yes).fallback BY OpenedIs
          <5> QED BY <4>1, <5>1, <5>2, <5>4, <5>5
        <4>5. To(req, b).fallback BY <4>3, <4>4, FallbackStays
        <4> QED BY <2>6, <4>3, <4>5
      <3>3. ~BareJson(Ext(Says(c, k + 1, k + 1, "CONTENT"), x)) BY <2>4, <2>5, <2>6, <3>2
      <3>4. k \in 0 .. Len(c.window) BY <1>1, <1>2, <2>3
      <3>5. ~BareJson(Ext(c, x)) BY <2>2, <3>3, <3>4, BareMore
      <3> QED BY <1>4, <3>2, <3>5
    <2>11. HasTools => \A p : Lone(e.window, p) =>
              /\ p > Cut(e.window) => p > k
              /\ p > k => Cut(e.window) = k + Cut(a.window)
      <3> SUFFICES ASSUME HasTools, NEW p, Lone(e.window, p)
                   PROVE  /\ p > Cut(e.window) => p > k
                          /\ p > k => Cut(e.window) = k + Cut(a.window)
        OBVIOUS
      <3>1. Lone(w \o x, p) BY <1>3, <1>4
      <3>2. /\ p > Cut(w \o x) => p > Cut(w)
            /\ p > Cut(w) => Cut(w \o x) = Cut(w) + Cut(From(w \o x, Cut(w) + 1))
        BY <3>1, LoneShift
      <3>3. a.window = From(w \o x, Cut(w) + 1) BY <1>3, <2>3, <2>4, <2>8
      <3>4. e.window = w \o x /\ k = Cut(w) BY <1>3, <1>4, <2>3
      <3> QED BY <3>2, <3>3, <3>4
    <2>12. a = Says(e, k + 1, k + 1, "CONTENT") BY <2>4, <2>6
    <2>13. To(req, a) = To(req, e)
      BY <1>4, <1>12, <2>7, <2>9, <2>10, <2>11, <2>12, SaidSame
    <2> QED BY <1>4, <2>6, <2>13
  <1>13. c.mode \in Modes BY CoresAre
  <1> QED BY <1>9, <1>10, <1>11, <1>12, <1>13 DEF Modes

\* What is left of a window is still the end of the text.
LEMMA SuitsCut ==
    ASSUME NEW c \in Cores, NEW raw \in Text, EndsWith(raw, c.window),
           NEW j \in 1 .. Len(c.window) + 1
    PROVE  EndsWith(raw, From(c.window, j))
  <1>1. PICK w \in Text : w = c.window BY CoresAre
  <1>2. PICK k \in 0 .. Len(w) : k + 1 = j
    <2>1. Len(w) \in Nat BY TextIs
    <2>2. j - 1 \in 0 .. Len(w) /\ (j - 1) + 1 = j BY <1>1, <2>1
    <2> QED BY <2>2
  <1>3. PICK t : t = From(w, k + 1) OBVIOUS
  <1>4. EndsWith(raw, t) BY <1>1, <1>3, EndsFrom
  <1> QED BY <1>1, <1>2, <1>3, <1>4

\* A round keeps it so.
LEMMA SuitsRound ==
    ASSUME Asked(req), NameLimit \in Nat, NEW c, NEW raw, Suits(req, c, raw), NEW d,
           CoreRound(req, c) = Again(d) \/ CoreRound(req, c) = Waits(d)
    PROVE  Suits(req, d, raw)
  <1>1. /\ c \in Cores /\ raw \in Text
        /\ c.mode # "TOOL_BUFFER" => EndsWith(raw, c.window)
        /\ c.mode = "REASONING" => req.thinking \/ At(raw, ThinkOpen) # {}
    BY DEF Suits
  <1>2. d \in Cores BY <1>1, FallbackStays
  <1>3. \A r : CoreRound(req, c) = Again(r) \/ CoreRound(req, c) = Waits(r) => r = d
    <2> SUFFICES ASSUME NEW r, CoreRound(req, c) = Again(r) \/ CoreRound(req, c) = Waits(r)
                 PROVE  r = d
      OBVIOUS
    <2>1. /\ Again(r) # Waits(d) /\ Again(d) # Waits(r)
          /\ Again(r) = Again(d) => r = d
          /\ Waits(r) = Waits(d) => r = d
      BY Outcomes
    <2> QED BY <2>1
  <1>4. "CONTENT" \in Modes /\ "REASONING" \in Modes BY DEF Modes
  <1>5. ASSUME d.mode = "TOOL_BUFFER" PROVE Suits(req, d, raw)
    BY <1>1, <1>2, <1>5 DEF Suits
  <1>6. ASSUME c.mode # "TOOL_BUFFER", NEW j \in 1 .. Len(c.window) + 1, d.window = From(c.window, j),
               d.mode = "REASONING" => req.thinking \/ At(raw, ThinkOpen) # {}
        PROVE  Suits(req, d, raw)
    <2>1. EndsWith(raw, From(c.window, j)) BY <1>1, <1>6, SuitsCut
    <2> QED BY <1>1, <1>2, <1>6, <2>1 DEF Suits
  <1>7. CASE c.mode = "TOOL_BUFFER"
    <2>1. d = Took(c) BY <1>1, <1>3, <1>7, RoundWhen
    <2>2. d.mode = "TOOL_BUFFER" BY <1>1, <1>7, <2>1, TookIs
    <2> QED BY <1>5, <2>2
  <1>8. CASE c.mode = "REASONING" /\ ~c.checkedPrefix
    <2>1. CASE PrefixOpen(c)
      <3>1. d = c BY <1>1, <1>3, <1>8, <2>1, RoundWhen
      <3> QED BY <3>1
    <2>2. CASE ~PrefixOpen(c)
      <3>1. d = PrefixDropped(c) BY <1>1, <1>3, <1>8, <2>2, RoundWhen
      <3>2. PICK p : p = PrefixDropped(c) OBVIOUS
      <3>3. p.mode = c.mode /\ \E j \in 1 .. Len(c.window) + 1 : p.window = From(c.window, j)
        BY <1>1, <3>2, DroppedIs
      <3>4. PICK j \in 1 .. Len(c.window) + 1 : d.window = From(c.window, j) BY <3>1, <3>2, <3>3
      <3> QED BY <1>1, <1>6, <1>8, <3>1, <3>2, <3>3, <3>4
    <2> QED BY <2>1, <2>2
  <1>9. CASE c.mode = "REASONING" /\ c.checkedPrefix
    <2>1. ASSUME NEW i \in 1 .. Len(c.window) + 1, NEW j \in 1 .. Len(c.window) + 1,
                 NEW mode \in Modes, d = Thinks(c, i, j, mode)
          PROVE  Suits(req, d, raw)
      <3>1. PICK b \in Cores : b = Thinks(c, i, j, mode) /\ b.mode = mode /\ b.window = From(c.window, j)
        BY <1>1, ThinksIs
      <3>2. d = b BY <2>1, <3>1
      <3> QED BY <1>1, <1>6, <1>9, <3>1, <3>2
    <2>2. CASE Closers(c) = {}
      <3>1. PICK w \in Text : w = c.window BY <1>1, CoresAre
      <3>2. Releasable(w) \in 0 .. Len(w) /\ Len(w) \in Nat BY CutAgain, TextIs DEF Asked
      <3>3. PICK j \in 1 .. Len(c.window) + 1 : j = Releasable(w) + 1
        <4>1. Releasable(w) + 1 \in 1 .. Len(w) + 1 BY <3>2
        <4> QED BY <3>1, <4>1
      <3>4. d = Thinks(c, j, j, "REASONING") BY <1>1, <1>3, <1>9, <2>2, <3>1, <3>3, RoundWhen
      <3> QED BY <1>4, <2>1, <3>4
    <2>3. CASE Closers(c) # {}
      <3>1. PICK i : i \in Closers(c) /\ FirstIn(i, Closers(c)) BY <1>1, <2>3, FirstMet
      <3>2. CASE i \in CloseHits(c)
        <4>1. d = Thinks(c, i, i + 2, "CONTENT") BY <1>1, <1>3, <1>9, <3>1, <3>2, RoundWhen
        <4>2. i \in 1 .. Len(c.window) - 1 /\ i + 2 \in 1 .. Len(c.window) + 1 BY <1>1, <3>2, CorePlaces
        <4>3. i \in 1 .. Len(c.window) + 1
          <5>1. Len(c.window) \in Nat BY <1>1, CoresAre
          <5> QED BY <4>2, <5>1
        <4>4. PICK j \in 1 .. Len(c.window) + 1 : j = i + 2 BY <4>2
        <4>5. d = Thinks(c, i, j, "CONTENT") BY <4>1, <4>4
        <4> QED BY <1>4, <2>1, <4>3, <4>5
      <3>3. CASE i \in ToolHits(c)
        <4>1. d = OpensThought(c, i) BY <1>1, <1>3, <1>9, <3>1, <3>3, RoundWhen DEF OpensThought
        <4>2. d.mode = "TOOL_BUFFER" BY <4>1 DEF OpensThought, ToBuffer
        <4> QED BY <1>5, <4>2
      <3> QED BY <3>1, <3>2, <3>3 DEF Closers
    <2> QED BY <2>2, <2>3
  <1>10. CASE c.mode = "CONTENT"
    <2>1. ASSUME NEW i \in 1 .. Len(c.window) + 1, NEW j \in 1 .. Len(c.window) + 1,
                 NEW mode \in Modes, d = Says(c, i, j, mode),
                 mode = "REASONING" => At(raw, ThinkOpen) # {}
          PROVE  Suits(req, d, raw)
      <3>1. PICK b \in Cores : b = Says(c, i, j, mode) /\ b.mode = mode /\ b.window = From(c.window, j)
        BY <1>1, SaysIs
      <3>2. d = b BY <2>1, <3>1
      <3> QED BY <1>1, <1>6, <1>10, <2>1, <3>1, <3>2
    <2>2. CASE Hits(c) = {}
      <3>1. CASE BareJson(c)
        <4>1. d = ToBuffer(c, 1, FALSE, TRUE) BY <1>1, <1>3, <1>10, <2>2, <3>1, RoundWhen
        <4>2. d.mode = "TOOL_BUFFER" BY <1>1, <4>1 DEF ToBuffer, Cores
        <4> QED BY <1>5, <4>2
      <3>2. CASE ~BareJson(c)
        <4>1. PICK w \in Text : w = c.window BY <1>1, CoresAre
        <4>2. /\ Cut(w) \in Nat /\ Cut(w) <= Free(w) /\ Free(w) \in Nat /\ Free(w) <= Len(w)
              /\ Len(w) \in Nat
          BY FreeIs, TextIs DEF Asked
        <4>3. PICK j \in 1 .. Len(c.window) + 1 : j = Cut(w) + 1
          <5>1. Cut(w) + 1 \in 1 .. Len(w) + 1 BY <4>2
          <5> QED BY <4>1, <5>1
        <4>4. d = Says(c, j, j, "CONTENT") BY <1>1, <1>3, <1>10, <2>2, <3>2, <4>1, <4>3, RoundWhen
        <4> QED BY <1>4, <2>1, <4>4
      <3> QED BY <3>1, <3>2
    <2>3. CASE Hits(c) # {}
      <3>1. PICK i : i \in Hits(c) /\ FirstIn(i, Hits(c)) BY <1>1, <2>3, FirstMet
      <3>2. i \in 1 .. Len(c.window) + 1 BY <1>1, <3>1, CorePlaces
      <3>3. CASE i \in CloseHits(c)
        <4>1. d = Says(c, i, i + 2, "CONTENT") BY ZenonT(40), <1>1, <1>3, <1>10, <3>1, <3>3, RoundWhen
        <4>2. PICK j \in 1 .. Len(c.window) + 1 : j = i + 2 BY <1>1, <3>3, CorePlaces
        <4>3. d = Says(c, i, j, "CONTENT") BY <4>1, <4>2
        <4> QED BY <1>4, <2>1, <3>2, <4>3
      <3>4. CASE i \in ThinkHits(c)
        <4>1. d = Says(c, i, i + 2, "REASONING") BY ZenonT(40), <1>1, <1>3, <1>10, <3>1, <3>4, RoundWhen
        <4>2. PICK j \in 1 .. Len(c.window) + 1 : j = i + 2 BY <1>1, <3>4, CorePlaces
        <4>3. d = Says(c, i, j, "REASONING") BY <4>1, <4>2
        <4>4. At(raw, ThinkOpen) # {}
          <5>1. PICK w \in Text : w = c.window BY <1>1, CoresAre
          <5>2. EndsWith(raw, w) /\ 0 \in 0 .. Len(w)
            <6>1. Len(w) \in Nat BY TextIs
            <6> QED BY <1>1, <1>10, <5>1, <6>1
          <5>3. PICK g : g = Len(raw) - Len(w) OBVIOUS
          <5>4. \A h \in At(w, ThinkOpen) : g + h \in At(raw, ThinkOpen)
            BY <1>1, <5>2, <5>3, EndsFrom
          <5>5. i \in At(w, ThinkOpen) BY <3>4, <5>1 DEF ThinkHits
          <5> QED BY <5>4, <5>5
        <4> QED BY <1>4, <2>1, <3>2, <4>3, <4>4
      <3>5. CASE i \in ToolHits(c)
        <4>1. d = OpensSaid(c, i) BY ZenonT(40), <1>1, <1>3, <1>10, <3>1, <3>5, RoundWhen DEF OpensSaid
        <4>2. d.mode = "TOOL_BUFFER" BY <4>1 DEF OpensSaid, ToBuffer
        <4> QED BY <1>5, <4>2
      <3> QED BY <3>1, <3>3, <3>4, <3>5 DEF Hits
    <2> QED BY <2>2, <2>3
  <1>11. c.mode \in Modes BY <1>1, CoresAre
  <1> QED BY <1>7, <1>8, <1>9, <1>10, <1>11 DEF Modes

\* All rounds of a window come to the same whether more was there before them or is
\* put behind what they leave, unless a bare brace decided.
LEMMA LeftExt ==
    ASSUME Asked(req), NameLimit \in Nat, NEW c \in Cores, NEW raw, Suits(req, c, raw), NEW x \in Text
    PROVE  /\ Suits(req, Left(req, c), raw)
           /\ ~TooLong(req, raw \o x) /\ ~To(req, Ext(Left(req, c), x)).fallback =>
                 To(req, Ext(Left(req, c), x)) = To(req, Ext(c, x))
  <1>1. PICK l \in Cores : l = Left(req, c) BY LeftIs
  <1>2. PICK e \in Em : Core(e) = c BY CoreOf
  <1>3. Comes(req, c, Core(Process(e))) /\ Core(Process(e)) = l BY <1>1, <1>2, ProcessComes, LeftIs
  <1>4. PICK f, n : Trace(req, f, n, c, l) BY <1>3 DEF Comes
  <1>5. /\ n \in Nat /\ f[0] = c /\ CoreRound(req, f[n]) = Waits(l)
        /\ \A m \in 0 .. n - 1 : CoreRound(req, f[m]) = Again(f[m + 1])
        /\ \A m \in 0 .. n : f[m] \in Cores
    BY <1>4 DEF Trace
  <1> DEFINE Kind(m) == Suits(req, f[m], raw) /\ Left(req, f[m]) = l
             A == {m \in 0 .. n : ~Kind(m)}
  <1>6. ASSUME A # {} PROVE FALSE
    <2>1. A \in SUBSET Nat BY <1>5
    <2>2. PICK m \in A : \A j \in A : m <= j BY <1>6, <2>1, LeastNumber
    <2>3. m \in 0 .. n /\ m \in Nat /\ ~Kind(m) BY <1>5, <2>2
    <2>4. m # 0 BY <1>1, <1>5, <2>3
    <2>5. PICK k \in Nat : k = m - 1 /\ k + 1 = m /\ k \in 0 .. n - 1 /\ k \in 0 .. n /\ ~(m <= k)
      <3>1. m - 1 \in Nat /\ (m - 1) + 1 = m /\ m - 1 \in 0 .. n - 1 /\ m - 1 \in 0 .. n /\ ~(m <= m - 1)
        BY <1>5, <2>3, <2>4
      <3> QED BY <3>1
    <2>6. Kind(k) BY <2>2, <2>5
    <2>7. PICK g \in Cores : g = f[k] BY <1>5, <2>5
    <2>8. PICK h : h = f[m] OBVIOUS
    <2>9. CoreRound(req, g) = Again(h) BY <1>5, <2>5, <2>7, <2>8
    <2>10. Suits(req, h, raw) BY <2>6, <2>7, <2>9, SuitsRound
    <2>11. Left(req, g) = Left(req, h) BY <2>9, LeftIs
    <2> QED BY <2>3, <2>6, <2>7, <2>8, <2>10, <2>11
  <1>7. n \in 0 .. n BY <1>5
  <1>8. \A m \in 0 .. n : Kind(m) BY <1>6
  <1>9. PICK b \in Cores : b = f[n] BY <1>5, <1>7
  <1>10. CoreRound(req, b) = Waits(l) /\ Suits(req, b, raw) BY <1>5, <1>7, <1>8, <1>9
  <1>11. Suits(req, l, raw) BY <1>10, SuitsRound
  <1>12. ASSUME ~TooLong(req, raw \o x), ~To(req, Ext(l, x)).fallback
         PROVE  To(req, Ext(l, x)) = To(req, Ext(c, x))
    <2>1. ~l.fallback
      <3> SUFFICES ASSUME l.fallback PROVE FALSE OBVIOUS
      <3>1. PICK d \in Cores : d = Ext(l, x) /\ d.fallback = l.fallback BY ExtIs
      <3>2. To(req, d).fallback BY <3>1, FallbackStays
      <3> QED BY <1>12, <3>1, <3>2
    <2>2. ASSUME NEW m \in 0 .. n PROVE ~f[m].fallback
      <3>1. PICK g \in Cores : g = f[m] BY <1>5
      <3>2. Left(req, g) = l BY <1>8, <3>1
      <3>3. g.fallback => Left(req, g).fallback BY FallbackStays
      <3> QED BY <2>1, <3>1, <3>2, <3>3
    <2> DEFINE B == {m \in 0 .. n : To(req, Ext(f[m], x)) # To(req, Ext(c, x))}
    <2>3. ASSUME B # {} PROVE FALSE
      <3>1. B \in SUBSET Nat BY <1>5
      <3>2. PICK m \in B : \A j \in B : m <= j BY <2>3, <3>1, LeastNumber
      <3>3. m \in 0 .. n /\ m \in Nat /\ To(req, Ext(f[m], x)) # To(req, Ext(c, x)) BY <1>5, <3>2
      <3>4. m # 0 BY <1>5, <3>3
      <3>5. PICK k \in Nat : k = m - 1 /\ k + 1 = m /\ k \in 0 .. n - 1 /\ k \in 0 .. n /\ ~(m <= k)
        <4>1. m - 1 \in Nat /\ (m - 1) + 1 = m /\ m - 1 \in 0 .. n - 1 /\ m - 1 \in 0 .. n /\ ~(m <= m - 1)
          BY <1>5, <3>3, <3>4
        <4> QED BY <4>1
      <3>6. To(req, Ext(f[k], x)) = To(req, Ext(c, x)) BY <3>2, <3>5
      <3>7. PICK g \in Cores : g = f[k] BY <1>5, <3>5
      <3>8. PICK h : h = f[m] /\ ~h.fallback BY <2>2, <3>3
      <3>9. CoreRound(req, g) = Again(h) BY <1>5, <3>5, <3>7, <3>8
      <3>10. To(req, Ext(g, x)) = To(req, Ext(h, x)) BY <3>8, <3>9, AgainExt
      <3> QED BY <3>3, <3>6, <3>7, <3>8, <3>10
    <2>4. To(req, Ext(b, x)) = To(req, Ext(c, x)) BY <1>7, <1>9, <2>3
    <2>5. To(req, Ext(l, x)) = To(req, Ext(b, x)) BY <1>10, <1>12, WaitExt
    <2> QED BY <2>4, <2>5
  <1> QED BY <1>1, <1>11, <1>12

-----------------------------------------------------------------------------
(* The end of an answer *)

\* A replaced half of a character behind a text makes no delimiter.
LEMMA QuestionNone ==
    ASSUME NEW w \in Text
    PROVE  LET u == w \o <<"?">>
           IN  /\ u \in Text /\ Len(u) = Len(w) + 1 /\ u[Len(w) + 1] = "?"
               /\ (\A i \in 1 .. Len(w) : u[i] = w[i])
               /\ At(w, ThinkOpen) = {} => At(u, ThinkOpen) = {}
               /\ At(w, ThinkClose) = {} => At(u, ThinkClose) = {}
               /\ ToolStarts(w) = {} => ToolStarts(u) = {}
  <1>1. PICK n \in Nat : n = Len(w) BY TextIs
  <1>2. PICK q \in Text : q = <<"?">> /\ Len(q) = 1 /\ q[1] = "?"
    <2>1. "?" \in Symbol BY DEF Symbol
    <2>2. <<"?">> \in Seq(Symbol) /\ Len(<<"?">>) = 1 /\ <<"?">>[1] = "?" BY <2>1
    <2> QED BY <2>2 DEF Text
  <1>3. PICK u \in Text : u = w \o q BY CatIs
  <1>4. Len(u) = n + 1 /\ u[n + 1] = "?" /\ \A i \in 1 .. n : u[i] = w[i]
    <2>1. /\ Len(u) = Len(w) + Len(q) /\ \A i \in 1 .. Len(w) : u[i] = w[i]
          /\ \A i \in 1 .. Len(q) : u[Len(w) + i] = q[i]
      BY <1>3, CatIs
    <2>2. 1 \in 1 .. Len(q) BY <1>2
    <2> QED BY <1>1, <1>2, <2>1, <2>2
  <1>5. ASSUME NEW i \in 1 .. Len(u) - 1, u[i + 1] # "?"
        PROVE  i \in 1 .. n /\ i + 1 \in 1 .. n /\ i \in 1 .. Len(w) - 1
    <2>1. i \in Nat /\ i >= 1 /\ i <= n BY <1>1, <1>4
    <2>2. i + 1 # n + 1 BY <1>4, <1>5
    <2> QED BY <1>1, <2>1, <2>2
  <1>6. At(w, ThinkOpen) = {} => At(u, ThinkOpen) = {}
    <2> SUFFICES ASSUME NEW i \in At(u, ThinkOpen) PROVE i \in At(w, ThinkOpen) OBVIOUS
    <2>1. i \in 1 .. Len(u) - 1 /\ u[i] = "o1" /\ u[i + 1] = "o2" BY PairsAre
    <2>2. i \in 1 .. n /\ i + 1 \in 1 .. n /\ i \in 1 .. Len(w) - 1 BY <1>5, <2>1
    <2>3. w[i] = "o1" /\ w[i + 1] = "o2" BY <1>4, <2>1, <2>2
    <2> QED BY <2>2, <2>3, PairsAre
  <1>7. At(w, ThinkClose) = {} => At(u, ThinkClose) = {}
    <2> SUFFICES ASSUME NEW i \in At(u, ThinkClose) PROVE i \in At(w, ThinkClose) OBVIOUS
    <2>1. i \in 1 .. Len(u) - 1 /\ u[i] = "c1" /\ u[i + 1] = "c2" BY PairsAre
    <2>2. i \in 1 .. n /\ i + 1 \in 1 .. n /\ i \in 1 .. Len(w) - 1 BY <1>5, <2>1
    <2>3. w[i] = "c1" /\ w[i + 1] = "c2" BY <1>4, <2>1, <2>2
    <2> QED BY <2>2, <2>3, PairsAre
  <1>8. ToolStarts(w) = {} => ToolStarts(u) = {}
    <2> SUFFICES ASSUME NEW i \in ToolStarts(u) PROVE i \in ToolStarts(w) OBVIOUS
    <2>1. i \in 1 .. Len(u) /\ Opens(u, i) BY ToolStartsAre
    <2>2. i \in 1 .. n + 1 /\ i \in Nat BY <1>1, <1>4, <2>1
    <2>3. i \in 1 .. Len(w) /\ Opens(w, i)
      <3>1. CASE i < Len(u) /\ u[i] = "t1" /\ u[i + 1] = "t2"
        <4>1. i \in 1 .. Len(u) - 1 BY <1>1, <1>4, <2>2, <3>1
        <4>2. i \in 1 .. n /\ i + 1 \in 1 .. n /\ i < Len(w) BY <1>1, <1>5, <3>1, <4>1
        <4>3. w[i] = "t1" /\ w[i + 1] = "t2" BY <1>4, <3>1, <4>2
        <4> QED BY <1>1, <4>2, <4>3 DEF Opens
      <3>2. CASE u[i] = "i1"
        <4>1. i # n + 1 BY <1>4, <3>2
        <4>2. i \in 1 .. n BY <1>1, <2>2, <4>1
        <4>3. w[i] = "i1" BY <1>4, <3>2, <4>2
        <4> QED BY <1>1, <4>2, <4>3 DEF Opens
      <3>3. CASE \E k \in 1 .. Len(u) : NameWith(u, i, k)
        <4>1. PICK k \in 1 .. Len(u) : NameWith(u, i, k) BY <3>3
        <4>2. /\ i < k /\ k < Len(u) /\ u[k] = "k1" /\ u[k + 1] = "k2"
              /\ (\A x \in i .. k - 1 : u[x] = "n") /\ (i = 1 \/ u[i - 1] # "n")
          BY <4>1 DEF NameWith
        <4>3. k \in 1 .. Len(u) - 1 BY <1>1, <1>4, <4>1, <4>2
        <4>4. k \in 1 .. n /\ k + 1 \in 1 .. n /\ k < Len(w) /\ k \in Nat BY <1>1, <1>5, <4>2, <4>3
        <4>5. i \in 1 .. n BY <1>1, <2>2, <4>2, <4>4
        <4>6. \A x \in i .. k - 1 : x \in 1 .. n BY <1>1, <4>4, <4>5
        <4>7. i = 1 \/ i - 1 \in 1 .. n BY <1>1, <4>5
        <4>8. w[k] = "k1" /\ w[k + 1] = "k2" BY <1>4, <4>2, <4>4
        <4>9. \A x \in i .. k - 1 : w[x] = "n" BY <1>4, <4>2, <4>6
        <4>10. i = 1 \/ w[i - 1] # "n" BY <1>4, <4>2, <4>7
        <4>11. NameWith(w, i, k) BY <4>2, <4>4, <4>8, <4>9, <4>10 DEF NameWith
        <4> QED BY <1>1, <4>4, <4>5, <4>11 DEF Opens
      <3> QED BY <2>1, <3>1, <3>2, <3>3 DEF Opens
    <2> QED BY <2>3, ToolStartsAre
  <1> QED BY <1>1, <1>2, <1>3, <1>4, <1>6, <1>7, <1>8

\* Of a window without delimiters nothing is lost when it is thought.
LEMMA ThoughtOut ==
    ASSUME Asked(req), NameLimit \in Nat, NEW c \in Cores, c.mode = "REASONING", c.checkedPrefix,
           Closers(c) = {}
    PROVE  To(req, c) = Flush(req, c)
  <1>1. PICK w \in Text : w = c.window BY CoresAre
  <1>2. Releasable(w) \in 0 .. Len(w) /\ Len(w) \in Nat BY CutAgain, TextIs DEF Asked
  <1>3. PICK j \in 1 .. Len(c.window) + 1 : j = Releasable(w) + 1
    <2>1. Releasable(w) + 1 \in 1 .. Len(w) + 1 BY <1>2
    <2> QED BY <1>1, <2>1
  <1>4. PICK one \in 1 .. Len(c.window) + 1 : one = 1
    <2>1. 1 \in 1 .. Len(w) + 1 BY <1>2
    <2> QED BY <1>1, <2>1
  <1>5. CoreRound(req, c) = Waits(Thinks(c, j, j, "REASONING")) BY <1>1, <1>3, RoundWhen
  <1>6. To(req, c) = Flush(req, Thinks(c, j, j, "REASONING")) BY <1>5, ToRound
  <1>7. Flush(req, Thinks(c, j, j, "REASONING")) = Flush(req, Thinks(c, one, one, "REASONING"))
    BY FlushedSame
  <1>8. Thinks(c, one, one, "REASONING") = c
    <2>1. PICK mode \in Modes : mode = "REASONING" BY DEF Modes
    <2>2. PICK d \in Cores :
             /\ d = Thinks(c, one, one, mode) /\ d.mode = mode /\ d.window = From(c.window, one)
             /\ d.toolBuffer = c.toolBuffer /\ d.content = c.content
             /\ d.reasoning = c.reasoning \o Before(c.window, one)
             /\ d.fromReasoning = c.fromReasoning /\ d.fallback = c.fallback
             /\ d.checkedPrefix = c.checkedPrefix
      BY ThinksIs
    <2>3. Before(w, 1) = <<>> /\ From(w, 1) = w BY FirstPlace
    <2>4. PICK q \in Text : q = c.reasoning /\ q \o <<>> = q BY CoresAre, CatIs
    <2>5. d.window = c.window /\ d.reasoning = c.reasoning /\ d.mode = c.mode
      BY <1>1, <1>4, <2>1, <2>2, <2>3, <2>4
    <2>6. d = c BY <2>2, <2>5, CoresSame
    <2> QED BY <2>1, <2>2, <2>6
  <1> QED BY <1>6, <1>7, <1>8

\* Nor when it is said, unless there is a name alone or a bare brace.
LEMMA SaidOut ==
    ASSUME Asked(req), NameLimit \in Nat, NEW c \in Cores, c.mode = "CONTENT", Hits(c) = {},
           ~BareJson(c), \A p : ~Lone(c.window, p)
    PROVE  To(req, c) = Flush(req, c)
  <1>1. PICK w \in Text : w = c.window BY CoresAre
  <1>2. Cut(w) \in 0 .. Len(w) /\ Len(w) \in Nat
    <2>1. /\ Cut(w) \in Nat /\ Cut(w) <= Free(w) /\ Free(w) \in Nat /\ Free(w) <= Len(w)
          /\ Len(w) \in Nat
      BY FreeIs, TextIs DEF Asked
    <2> QED BY <2>1
  <1>3. PICK j \in 1 .. Len(c.window) + 1 : j = Cut(w) + 1
    <2>1. Cut(w) + 1 \in 1 .. Len(w) + 1 BY <1>2
    <2> QED BY <1>1, <2>1
  <1>4. PICK one \in 1 .. Len(c.window) + 1 : one = 0 + 1
    <2>1. 0 + 1 \in 1 .. Len(w) + 1 BY <1>2
    <2> QED BY <1>1, <2>1
  <1>5. CoreRound(req, c) = Waits(Says(c, j, j, "CONTENT")) BY <1>1, <1>3, RoundWhen
  <1>6. To(req, c) = Flush(req, Says(c, j, j, "CONTENT")) BY <1>5, ToRound
  <1>7. ~ZeroArgCall(Says(c, j, j, "CONTENT")) /\ ~ZeroArgCall(Says(c, one, one, "CONTENT"))
    <2>1. PICK k \in 0 .. Len(c.window) : j = k + 1 BY <1>1, <1>2, <1>3
    <2>2. PICK o \in 0 .. Len(c.window) : one = o + 1
      <3>1. 0 \in 0 .. Len(c.window) BY <1>1, <1>2
      <3> QED BY <1>4, <3>1
    <2>3. ~ZeroArgCall(Says(c, k + 1, k + 1, "CONTENT")) BY SaidLone
    <2>4. ~ZeroArgCall(Says(c, o + 1, o + 1, "CONTENT")) BY SaidLone
    <2> QED BY <2>1, <2>2, <2>3, <2>4
  <1>8. Flush(req, Says(c, j, j, "CONTENT")) = Flush(req, Says(c, one, one, "CONTENT"))
    BY <1>7, FlushedSame
  <1>9. Says(c, one, one, "CONTENT") = c
    <2>1. PICK mode \in Modes : mode = "CONTENT" BY DEF Modes
    <2>2. PICK d \in Cores :
             /\ d = Says(c, one, one, mode) /\ d.mode = mode /\ d.window = From(c.window, one)
             /\ d.toolBuffer = c.toolBuffer /\ d.reasoning = c.reasoning
             /\ d.content = c.content \o Before(c.window, one)
             /\ d.fromReasoning = c.fromReasoning /\ d.fallback = c.fallback
             /\ d.checkedPrefix = c.checkedPrefix
      BY ZenonT(40), SaysIs
    <2>3. Before(w, 1) = <<>> /\ From(w, 1) = w BY FirstPlace
    <2>4. PICK q \in Text : q = c.content /\ q \o <<>> = q BY CoresAre, CatIs
    <2>7. one = 1 BY <1>4
    <2>5. d.window = c.window /\ d.content = c.content /\ d.mode = c.mode
      BY <1>1, <2>1, <2>2, <2>3, <2>4, <2>7
    <2>6. d = c BY <2>2, <2>5, CoresSame
    <2> QED BY <2>1, <2>2, <2>6
  <1> QED BY <1>6, <1>8, <1>9

\* What half a character at the end of an answer becomes.
Half == <<"?">>

\* It is a text.
LEMMA HalfIs == Half \in Text /\ Len(Half) = 1 /\ Half[1] = "?"
  <1>1. "?" \in Symbol BY DEF Symbol
  <1>2. <<"?">> \in Seq(Symbol) /\ Len(<<"?">>) = 1 /\ <<"?">>[1] = "?" BY <1>1
  <1> QED BY <1>2 DEF Text, Half

\* It is no bare brace.
LEMMA HalfBare ==
    ASSUME NEW c \in Cores, ~BareJson(c) PROVE ~BareJson(Ext(c, Half))
  <1> SUFFICES ASSUME BareJson(Ext(c, Half)) PROVE FALSE OBVIOUS
  <1>1. PICK w \in Text : w = c.window BY CoresAre
  <1>2. PICK n \in Nat : n = Len(w) BY TextIs
  <1>3. PICK d \in Cores : d = Ext(c, Half) /\ d.window = w \o Half /\ d.content = c.content
    BY <1>1, ExtIs, HalfIs
  <1>4. PICK u \in Text : /\ u = w \o Half /\ Len(u) = n + 1 /\ u[n + 1] = "?"
                          /\ \A i \in 1 .. n : u[i] = w[i]
    BY <1>2, QuestionNone DEF Half
  <1>5. PICK f : f = FirstBlack(u) OBVIOUS
  <1>6. HasTools /\ Blank(c.content) /\ ~Blank(u) /\ u[f] \in {"b", "j"}
    BY <1>3, <1>4, <1>5 DEF BareJson
  <1>7. f \in 1 .. n + 1 + 1 /\ \A y \in 1 .. f - 1 : u[y] = "w" BY <1>4, <1>5, FirstBlackIs
  <1>8. f # n + 2
    <2> SUFFICES ASSUME f = n + 2 PROVE FALSE OBVIOUS
    <2>1. n + 1 \in 1 .. f - 1 BY <1>7
    <2>2. u[n + 1] = "w" BY <1>7, <2>1
    <2> QED BY <1>4, <2>2
  <1>9. f # n + 1 BY <1>4, <1>6
  <1>10. f \in 1 .. n /\ f \in 1 .. Len(w) BY <1>2, <1>7, <1>8, <1>9
  <1>11. w[f] = u[f] /\ w[f] # "w" BY <1>4, <1>6, <1>10
  <1>12. \A y \in 1 .. f - 1 : w[y] = "w"
    <2> SUFFICES ASSUME NEW y \in 1 .. f - 1 PROVE w[y] = "w" OBVIOUS
    <2>1. y \in 1 .. n BY <1>10
    <2> QED BY <1>4, <1>7, <2>1
  <1>13. FirstBlack(w) = f /\ ~Blank(w) BY <1>10, <1>11, <1>12, FirstBlackAt
  <1>14. w[FirstBlack(w)] \in {"b", "j"} BY <1>6, <1>11, <1>13
  <1> QED BY <1>1, <1>6, <1>13, <1>14 DEF BareJson

\* It makes no delimiter of what a window ends with.
LEMMA HalfHits ==
    ASSUME NEW c \in Cores
    PROVE  LET d == Ext(c, Half)
           IN  (Hits(c) = {} => Hits(d) = {}) /\ (Closers(c) = {} => Closers(d) = {})
  <1>1. PICK w \in Text : w = c.window BY CoresAre
  <1>2. PICK d \in Cores : d = Ext(c, Half) /\ d.window = w \o Half BY <1>1, ExtIs, HalfIs
  <1>3. /\ At(w, ThinkOpen) = {} => At(w \o Half, ThinkOpen) = {}
        /\ At(w, ThinkClose) = {} => At(w \o Half, ThinkClose) = {}
        /\ ToolStarts(w) = {} => ToolStarts(w \o Half) = {}
    BY QuestionNone DEF Half
  <1>4. /\ ThinkHits(c) = {} => ThinkHits(d) = {}
        /\ CloseHits(c) = {} => CloseHits(d) = {}
        /\ ToolHits(c) = {} => ToolHits(d) = {}
    BY <1>1, <1>2, <1>3 DEF ThinkHits, CloseHits, ToolHits
  <1> QED BY <1>2, <1>4 DEF Hits, Closers

\* Said with nothing to find in front of it, it is said.
LEMMA HalfSaid ==
    ASSUME Asked(req), NameLimit \in Nat, NEW c \in Cores, c.mode = "CONTENT", Hits(c) = {},
           ~BareJson(c)
    PROVE  To(req, Ext(c, Half)) = Flush(req, Ext(c, Half))
  <1>1. PICK w \in Text : w = c.window BY CoresAre
  <1>2. PICK d \in Cores : d = Ext(c, Half) /\ d.window = w \o Half /\ d.mode = c.mode
    BY <1>1, ExtIs, HalfIs
  <1>3. Hits(d) = {} /\ ~BareJson(d) BY <1>2, HalfHits, HalfBare
  <1>4. \A p : ~Lone(d.window, p)
    <2> SUFFICES ASSUME NEW p, Lone(d.window, p) PROVE FALSE OBVIOUS
    <2>1. PICK n \in Nat : n = Len(w) BY TextIs
    <2>2. PICK u \in Text : u = w \o Half /\ Len(u) = n + 1 /\ u[n + 1] = "?"
      BY <2>1, QuestionNone DEF Half
    <2>3. /\ p \in 1 .. n + 1 /\ u[p] = "n" /\ \A x \in 1 .. n + 1 : x # p => u[x] = "w"
      BY <1>2, <2>2 DEF Lone
    <2>4. n + 1 \in 1 .. n + 1 OBVIOUS
    <2> QED BY <2>2, <2>3, <2>4
  <1> QED BY <1>2, <1>3, <1>4, SaidOut

\* A window in which one symbol, too short for a delimiter, follows white space has none.
LEMMA ShortNone ==
    ASSUME NEW w \in Text, NEW n \in Nat, n = Len(w), \A y \in 1 .. n - 1 : w[y] = "w",
           n >= 1 => w[n] \notin Long
    PROVE  At(w, ThinkClose) = {} /\ ToolStarts(w) = {}
  <1>1. At(w, ThinkClose) = {}
    <2> SUFFICES ASSUME NEW i \in At(w, ThinkClose) PROVE FALSE OBVIOUS
    <2>1. i \in 1 .. n - 1 /\ w[i] = "c1" BY PairsAre
    <2> QED BY <2>1
  <1>2. ToolStarts(w) = {}
    <2> SUFFICES ASSUME NEW i \in ToolStarts(w) PROVE FALSE OBVIOUS
    <2>1. i \in 1 .. n /\ Opens(w, i) BY ToolStartsAre
    <2>2. ASSUME NEW k, NameWith(w, i, k), k \in 1 .. Len(w) PROVE FALSE
      <3>1. k \in 1 .. n /\ k < n /\ w[k] = "k1" BY <2>2 DEF NameWith
      <3>2. k \in 1 .. n - 1 BY <3>1
      <3> QED BY <3>1, <3>2
    <2>3. (i < n /\ w[i] = "t1") \/ w[i] = "i1" BY <2>1, <2>2 DEF Opens
    <2>4. i \in 1 .. n - 1 \/ (i = n /\ n >= 1) BY <2>1
    <2>5. i \in 1 .. n - 1 => FALSE BY <2>3
    <2>6. i = n /\ n >= 1 /\ w[n] = "i1" BY <2>3, <2>4, <2>5
    <2> QED BY <2>6 DEF Long
  <1> QED BY <1>1, <1>2

\* Whether a leading <think> was looked for makes no difference to an outcome.
LEMMA UncheckedSame ==
    ASSUME NEW c \in Cores, NEW d \in Cores, c.mode = "REASONING", d.mode = "REASONING",
           c.window = d.window, c.content = d.content, c.reasoning = d.reasoning,
           c.fallback <=> d.fallback
    PROVE  /\ Outcome(Flush(req, c)) = Outcome(Flush(req, d))
           /\ Flush(req, c).fallback <=> Flush(req, d).fallback
  <1>1. PICK f : f = Flush(req, c) OBVIOUS
  <1>2. PICK g : g = Flush(req, d) OBVIOUS
  <1>3. /\ f.mode = IF c.mode = "CONTENT" /\ ZeroArgCall(c) THEN "TOOL_BUFFER" ELSE c.mode
        /\ f.content = IF c.mode = "CONTENT" /\ ~ZeroArgCall(c) THEN c.content \o c.window ELSE c.content
        /\ f.reasoning = IF c.mode = "REASONING" THEN c.reasoning \o c.window ELSE c.reasoning
        /\ f.fallback = c.fallback
    BY <1>1, FlushIs
  <1>4. /\ g.mode = IF d.mode = "CONTENT" /\ ZeroArgCall(d) THEN "TOOL_BUFFER" ELSE d.mode
        /\ g.content = IF d.mode = "CONTENT" /\ ~ZeroArgCall(d) THEN d.content \o d.window ELSE d.content
        /\ g.reasoning = IF d.mode = "REASONING" THEN d.reasoning \o d.window ELSE d.reasoning
        /\ g.fallback = d.fallback
    BY <1>2, FlushIs
  <1>5. f.mode = "REASONING" /\ f.content = c.content /\ f.reasoning = c.reasoning \o c.window
    BY <1>3
  <1>6. g.mode = "REASONING" /\ g.content = c.content /\ g.reasoning = c.reasoning \o c.window
    BY <1>4
  <1>7. Outcome(f) = <<f.content, f.reasoning, {}>> BY <1>5 DEF Outcome
  <1>8. Outcome(g) = <<g.content, g.reasoning, {}>> BY <1>6 DEF Outcome
  <1>9. Outcome(f) = Outcome(g) BY <1>5, <1>6, <1>7, <1>8
  <1>10. f.fallback <=> g.fallback BY <1>3, <1>4
  <1> QED BY <1>1, <1>2, <1>9, <1>10

\* Behind the beginning of what may be a leading <think>.
LEMMA HalfOpen ==
    ASSUME Asked(req), NameLimit \in Nat, NEW c \in Cores, c.mode = "REASONING", ~c.checkedPrefix,
           PrefixOpen(c)
    PROVE  /\ Outcome(Flush(req, Ext(c, Half))) = Outcome(To(req, Ext(c, Half)))
           /\ Flush(req, Ext(c, Half)).fallback <=> To(req, Ext(c, Half)).fallback
  <1>1. PICK w \in Text : w = c.window BY CoresAre
  <1>2. PICK n \in Nat : n = Len(w) BY TextIs
  <1>3. PICK d \in Cores : /\ d = Ext(c, Half) /\ d.window = w \o Half /\ d.mode = c.mode
                           /\ d.checkedPrefix = c.checkedPrefix
    BY <1>1, ExtIs, HalfIs
  <1>4. PICK u \in Text : /\ u = w \o Half /\ Len(u) = n + 1 /\ u[n + 1] = "?"
                          /\ \A i \in 1 .. n : u[i] = w[i]
    BY <1>2, QuestionNone DEF Half
  <1>5. CASE PrefixOpen(d)
    <2>1. CoreRound(req, d) = Waits(d) BY <1>3, <1>5, RoundWhen
    <2>2. To(req, d) = Flush(req, d) BY <2>1, ToRound
    <2> QED BY <1>3, <2>2
  <1>6. CASE ~PrefixOpen(d)
    <2>1. PICK f : f = FirstBlack(w) /\ f \in 1 .. n + 1 /\ \A y \in 1 .. f - 1 : w[y] = "w"
      BY <1>2, FirstBlackIs
    <2>2. f > n \/ (f = n /\ w[n] \notin Long) BY <1>1, <1>2, <2>1 DEF PrefixOpen
    <2>3. f # n + 1
      <3> SUFFICES ASSUME f = n + 1 PROVE FALSE OBVIOUS
      <3>1. \A y \in 1 .. n + 1 - 1 : u[y] = "w"
        <4> SUFFICES ASSUME NEW y \in 1 .. n + 1 - 1 PROVE u[y] = "w" OBVIOUS
        <4>1. y \in 1 .. n /\ y \in 1 .. f - 1 OBVIOUS
        <4> QED BY <1>4, <2>1, <4>1
      <3>2. n + 1 \in 1 .. Len(u) /\ u[n + 1] # "w" BY <1>4
      <3>3. FirstBlack(u) = n + 1 BY <3>1, <3>2, FirstBlackAt
      <3>4. "?" \notin Long BY DEF Long
      <3> QED BY <1>3, <1>4, <1>6, <3>3, <3>4 DEF PrefixOpen
    <2>4. f = n /\ n >= 1 /\ w[n] \notin Long BY <2>1, <2>2, <2>3
    <2>5. At(w, ThinkClose) = {} /\ ToolStarts(w) = {}
      <3>1. \A y \in 1 .. n - 1 : w[y] = "w" BY <2>1, <2>4
      <3> QED BY <1>2, <2>4, <3>1, ShortNone
    <2>6. At(u, ThinkClose) = {} /\ ToolStarts(u) = {} BY <1>4, <2>5, QuestionNone DEF Half
    <2>7. FirstBlack(u) = n
      <3>1. w[n] # "w"
        <4>1. FirstBlack(w) <= Len(w) => w[FirstBlack(w)] # "w" BY FirstBlackIs
        <4> QED BY <1>2, <2>1, <2>4, <4>1
      <3>2. n \in 1 .. Len(u) /\ u[n] # "w" BY <1>4, <2>4, <3>1
      <3>3. \A y \in 1 .. n - 1 : u[y] = "w"
        <4> SUFFICES ASSUME NEW y \in 1 .. n - 1 PROVE u[y] = "w" OBVIOUS
        <4>1. y \in 1 .. n /\ y \in 1 .. f - 1 BY <2>4
        <4> QED BY <1>4, <2>1, <4>1
      <3> QED BY <3>2, <3>3, FirstBlackAt
    <2>8. n \notin At(u, ThinkOpen)
      <3> SUFFICES ASSUME n \in At(u, ThinkOpen) PROVE FALSE OBVIOUS
      <3>1. u[n + 1] = "o2" BY PairsAre
      <3> QED BY <1>4, <3>1
    <2>9. PICK p \in Cores :
             /\ p = PrefixDropped(d) /\ p.mode = d.mode /\ p.content = d.content
             /\ p.reasoning = d.reasoning /\ p.fallback = d.fallback /\ p.checkedPrefix = TRUE
             /\ p.window = u
      <3>1. FirstBlack(d.window) = n /\ d.window = u BY <1>3, <1>4, <2>7
      <3>2. /\ PrefixDropped(d) \in Cores /\ PrefixDropped(d).mode = d.mode
            /\ PrefixDropped(d).content = d.content /\ PrefixDropped(d).reasoning = d.reasoning
            /\ PrefixDropped(d).fallback = d.fallback /\ PrefixDropped(d).checkedPrefix = TRUE
            /\ PrefixDropped(d).window =
                  IF FirstBlack(d.window) \in At(d.window, ThinkOpen)
                  THEN From(d.window, FirstBlack(d.window) + 2) ELSE d.window
        BY DroppedIs
      <3> QED BY <2>8, <3>1, <3>2
    <2>10. Closers(p) = {} BY <2>6, <2>9 DEF Closers, CloseHits, ToolHits
    <2>11. To(req, p) = Flush(req, p) BY <1>3, <2>9, <2>10, ThoughtOut
    <2>12. CoreRound(req, d) = Again(p) BY <1>3, <1>6, <2>9, RoundWhen
    <2>13. To(req, d) = Flush(req, p) BY <2>11, <2>12, ToRound
    <2>14. d.window = p.window BY <1>3, <1>4, <2>9
    <2>15. /\ Outcome(Flush(req, d)) = Outcome(Flush(req, p))
           /\ Flush(req, d).fallback <=> Flush(req, p).fallback
      BY <1>3, <2>9, <2>14, UncheckedSame
    <2> QED BY <1>3, <2>13, <2>15
  <1> QED BY <1>5, <1>6

\* The buffer takes an empty window without a change.
LEMMA TookAll ==
    ASSUME NEW c \in Cores PROVE Took(Took(c)) = Took(c)
  <1>1. PICK d \in Cores : d = Took(c) /\ d.window = <<>> BY TookIs
  <1>2. PICK f \in Cores :
           /\ f = Took(d) /\ f.mode = d.mode /\ f.window = <<>> /\ f.toolBuffer = d.toolBuffer \o d.window
           /\ f.content = d.content /\ f.reasoning = d.reasoning /\ f.fromReasoning = d.fromReasoning
           /\ f.fallback = d.fallback /\ f.checkedPrefix = d.checkedPrefix
    BY TookIs
  <1>3. PICK t \in Text : t = d.toolBuffer /\ t \o <<>> = t BY CoresAre, CatIs
  <1>4. f.toolBuffer = d.toolBuffer /\ f.window = d.window BY <1>1, <1>2, <1>3
  <1>5. f = d BY <1>2, <1>4, CoresSame
  <1> QED BY <1>1, <1>2, <1>5

\* The end of an answer keeps what going over its window once more would have come to.
LEMMA EndSame ==
    ASSUME Asked(req), NameLimit \in Nat, NEW c \in Cores, Left(req, c) = c, NEW rest \in {<<>>, Half}
    PROVE  /\ Outcome(Flush(req, Ext(c, rest))) = Outcome(To(req, Ext(c, rest)))
           /\ Flush(req, Ext(c, rest)).fallback <=> To(req, Ext(c, rest)).fallback
  <1>1. CoreRound(req, c) = Waits(c) BY LeftWaits
  <1>2. CASE rest = <<>>
    <2>1. <<>> \in Text BY DEF Text
    <2>2. Ext(c, rest) = c BY <1>2, <2>1, ExtExt
    <2>3. To(req, c) = Flush(req, c) BY DEF To
    <2> QED BY <2>2, <2>3
  <1>3. CASE rest = Half
    <2>1. PICK d \in Cores : d = Ext(c, Half) /\ d.mode = c.mode /\ d.checkedPrefix = c.checkedPrefix
      BY ExtIs, HalfIs
    <2>2. CASE c.mode = "TOOL_BUFFER"
      <3>1. CoreRound(req, d) = Waits(Took(d)) BY ZenonT(40), <2>1, <2>2, RoundWhen
      <3>2. To(req, d) = Flush(req, Took(d)) BY <3>1, ToRound
      <3>3. Took(d).mode = "TOOL_BUFFER" BY <2>1, <2>2, TookIs
      <3>4. Flush(req, Took(d)) = Took(Took(d)) /\ Flush(req, d) = Took(d)
        BY <2>1, <2>2, <3>3 DEF Flush
      <3>5. Flush(req, d) = To(req, d) BY <3>2, <3>4, TookAll
      <3> QED BY <1>3, <2>1, <3>5
    <2>3. CASE c.mode = "CONTENT"
      <3>1. ASSUME NEW b, CoreRound(req, c) = Again(b) PROVE FALSE
        <4>1. Again(b) # Waits(c) BY Outcomes
        <4> QED BY <1>1, <3>1, <4>1
      <3>2. Hits(c) = {}
        <4> SUFFICES ASSUME Hits(c) # {} PROVE FALSE OBVIOUS
        <4>1. PICK i \in Hits(c) : FirstIn(i, Hits(c)) BY FirstMet
        <4>2. i \in ThinkHits(c) => CoreRound(req, c) = Again(Says(c, i, i + 2, "REASONING"))
          BY <2>3, <4>1, RoundWhen
        <4>3. i \in CloseHits(c) => CoreRound(req, c) = Again(Says(c, i, i + 2, "CONTENT"))
          BY <2>3, <4>1, RoundWhen
        <4>4. i \in ToolHits(c) =>
                CoreRound(req, c) = Again(ToBuffer([c EXCEPT !.content = @ \o Before(c.window, i)],
                                                   i, FALSE, FALSE))
          BY <2>3, <4>1, RoundWhen
        <4> QED BY <3>1, <4>1, <4>2, <4>3, <4>4 DEF Hits
      <3>3. ~BareJson(c)
        <4> SUFFICES ASSUME BareJson(c) PROVE FALSE OBVIOUS
        <4>1. CoreRound(req, c) = Again(ToBuffer(c, 1, FALSE, TRUE)) BY <2>3, <3>2, RoundWhen
        <4> QED BY <3>1, <4>1
      <3>4. To(req, d) = Flush(req, d) BY <2>1, <2>3, <3>2, <3>3, HalfSaid
      <3> QED BY <1>3, <2>1, <3>4
    <2>4. CASE c.mode = "REASONING" /\ c.checkedPrefix
      <3>1. ASSUME NEW b, CoreRound(req, c) = Again(b) PROVE FALSE
        <4>1. Again(b) # Waits(c) BY Outcomes
        <4> QED BY <1>1, <3>1, <4>1
      <3>2. Closers(c) = {}
        <4> SUFFICES ASSUME Closers(c) # {} PROVE FALSE OBVIOUS
        <4>1. PICK i \in Closers(c) : FirstIn(i, Closers(c)) BY FirstMet
        <4>2. i \in CloseHits(c) => CoreRound(req, c) = Again(Thinks(c, i, i + 2, "CONTENT"))
          BY <2>4, <4>1, RoundWhen
        <4>3. i \in ToolHits(c) =>
                CoreRound(req, c) = Again(ToBuffer([c EXCEPT !.reasoning = @ \o Before(c.window, i)],
                                                   i, TRUE, FALSE))
          BY <2>4, <4>1, RoundWhen
        <4> QED BY <3>1, <4>1, <4>2, <4>3 DEF Closers
      <3>3. Closers(d) = {} BY <2>1, <3>2, HalfHits
      <3>4. To(req, d) = Flush(req, d) BY <2>1, <2>4, <3>3, ThoughtOut
      <3> QED BY <1>3, <2>1, <3>4
    <2>5. CASE c.mode = "REASONING" /\ ~c.checkedPrefix
      <3>1. PrefixOpen(c)
        <4> SUFFICES ASSUME ~PrefixOpen(c) PROVE FALSE OBVIOUS
        <4>1. CoreRound(req, c) = Again(PrefixDropped(c)) BY <2>5, RoundWhen
        <4>2. Again(PrefixDropped(c)) # Waits(c) BY Outcomes
        <4> QED BY <1>1, <4>1, <4>2
      <3> QED BY <1>3, <2>5, <3>1, HalfOpen
    <2>6. c.mode \in {"CONTENT", "REASONING", "TOOL_BUFFER"} BY CoresAre DEF Modes
    <2> QED BY <2>2, <2>3, <2>4, <2>5, <2>6
  <1> QED BY <1>2, <1>3

\* The core an answer begins with.
Fresh(r) == Core(Emitter(r.thinking))

\* What is kept of a whole text at once is what its core comes to.
LEMMA WholeKept ==
    ASSUME Asked(req), req.thinking \in BOOLEAN, NEW text \in Text
    PROVE  Fresh(req) \in Cores /\ Kept(Whole(text)) = Outcome(To(req, Ext(Fresh(req), text)))
  <1>1. PICK e \in Em : e = Emitter(req.thinking) BY EmitterIs
  <1>2. e.window = <<>> /\ e.tail = <<>> /\ e.calls = {} BY <1>1 DEF Emitter
  <1>3. PICK d : d = [e EXCEPT !.window = text, !.raw = text] OBVIOUS
  <1>4. d \in Em /\ d.tail = <<>> /\ d.calls = {} BY <1>2, <1>3 DEF Em
  <1>5. Core(e) \in Cores /\ Fresh(req) = Core(e) BY <1>1, CoreIs DEF Fresh
  <1>6. Core(d) = Ext(Core(e), text)
    <2>1. Core(d) = [Core(e) EXCEPT !.window = text]
      <3>1. /\ d.mode = e.mode /\ d.window = text /\ d.toolBuffer = e.toolBuffer /\ d.content = e.content
            /\ d.reasoning = e.reasoning /\ d.fromReasoning = e.fromReasoning
            /\ d.fallback = e.fallback /\ d.checkedPrefix = e.checkedPrefix
        BY <1>1, <1>3 DEF Em
      <3> QED BY <3>1 DEF Core
    <2>2. Core(e).window = <<>> BY <1>2, CoreIs
    <2>3. <<>> \o text = text BY CatIs
    <2> QED BY <1>5, <2>1, <2>2, <2>3 DEF Ext
  <1>7. PICK p : p = Process(d) /\ p \in Em /\ Beside(p, d) BY <1>1, <1>4, ProcessComes
  <1>8. Core(d) \in Cores BY <1>4, CoreIs
  <1>9. Core(p) = Left(req, Core(d)) BY <1>4, <1>7, <1>8, LeftIs
  <1>10. p.tail = <<>> /\ p.calls = {} BY <1>4, <1>7 DEF Beside
  <1>12. Sanitized(p.tail) = <<>>
    <2>1. <<>> \in Text /\ Unwrapped(<<>>) BY DEF Text, Unwrapped
    <2> QED BY <1>10, <2>1, SanitizedIs
  <1>13. PICK f : f = Flushed(p) /\ f \in Em /\ f.calls = {} /\ Core(f) = Flush(req, Ext(Core(p), <<>>))
    <2>1. p.tail \in {<<>>, <<"u1">>} BY <1>10
    <2>2. Flushed(p) \in Em /\ Flushed(p).calls = {}
          /\ Core(Flushed(p)) = Flush(req, Ext(Core(p), Sanitized(p.tail)))
      BY <1>7, <1>10, <2>1, FlushedKept
    <2> QED BY <1>12, <2>2
  <1>14. Core(p) \in Cores BY <1>7, CoreIs
  <1>15. Ext(Core(p), <<>>) = Core(p)
    <2>1. <<>> \in Text BY DEF Text
    <2> QED BY <1>14, <2>1, ExtExt
  <1>16. Core(f) = To(req, Core(d)) BY <1>9, <1>13, <1>15 DEF To
  <1>17. Kept(Resolved(f)) = Outcome(Core(f)) BY <1>13, ResolvedKept
  <1>18. Whole(text) = Resolved(f) BY <1>1, <1>3, <1>7, <1>13 DEF Whole
  <1> QED BY <1>5, <1>6, <1>16, <1>17, <1>18

\* Until a stop sequence: the loop has nothing left to do, and whatever comes next, the
\* answer comes to what the whole text would, unless a bare brace decides.
Smooth(r, e) ==
    ~e.stopHit =>
        /\ Suits(r, Core(e), e.raw) /\ Left(r, Core(e)) = Core(e)
        /\ \A x \in Text : ~TooLong(r, e.raw \o x) /\ ~To(r, Ext(Core(e), x)).fallback =>
                To(r, Ext(Core(e), x)) = To(r, Ext(Fresh(r), e.raw \o x))

\* A new emitter has nothing behind it.
LEMMA SmoothStart ==
    ASSUME Asked(req), req.thinking \in BOOLEAN
    PROVE  Smooth(req, Emitter(req.thinking))
  <1>1. PICK e \in Em : e = Emitter(req.thinking) BY EmitterIs
  <1>2. e.window = <<>> /\ e.raw = <<>> /\ e.stopHit = FALSE
        /\ (e.mode = "REASONING" => req.thinking) /\ e.mode # "TOOL_BUFFER"
    BY <1>1 DEF Emitter
  <1>3. PICK none \in Text : none = <<>> /\ Len(none) = 0 /\ \A x \in Text : none \o x = x
    <2>1. <<>> \in Text /\ Len(<<>>) = 0 BY DEF Text
    <2>2. \A x \in Text : <<>> \o x = x BY CatIs
    <2> QED BY <2>1, <2>2
  <1>4. PICK c \in Cores : c = Core(e) /\ c.window = none /\ c.mode = e.mode BY <1>2, <1>3, CoreIs
  <1>5. EndsWith(none, none) BY <1>3 DEF EndsWith
  <1>6. Suits(req, c, none) BY <1>2, <1>4, <1>5 DEF Suits
  <1>7. Left(req, c) = c BY <1>1, <1>2, <1>4, StartRests DEF Rested
  <1>8. Fresh(req) = c BY <1>1, <1>4 DEF Fresh
  <1>9. \A x \in Text : To(req, Ext(c, x)) = To(req, Ext(Fresh(req), none \o x)) BY <1>3, <1>8
  <1> QED BY <1>1, <1>2, <1>3, <1>4, <1>6, <1>7, <1>9 DEF Smooth

\* What is told of an answer makes no difference.
LEMMA SmoothSame ==
    ASSUME NEW e, NEW f, Smooth(req, e), Core(f) = Core(e), f.raw = e.raw, e.stopHit => f.stopHit
    PROVE  Smooth(req, f)
  BY DEF Smooth

\* Nor does its first event.
LEMMA SmoothStarted ==
    ASSUME NEW e \in Em, Smooth(req, e)
    PROVE  Smooth(req, Started(e))
  <1>1. PICK s : s = Started(e) OBVIOUS
  <1>2. s \in {e, Send(e, <<Event("open", e.kind, 0, <<>>)>>),
                [Send(e, <<Event("open", "text", 0, <<>>)>>) EXCEPT !.messageOpen = TRUE]}
    BY <1>1 DEF Started
  <1>3. /\ s.raw = e.raw /\ s.stopHit = e.stopHit /\ s.mode = e.mode
        /\ s.window = e.window /\ s.toolBuffer = e.toolBuffer /\ s.content = e.content
        /\ s.reasoning = e.reasoning /\ s.fromReasoning = e.fromReasoning
        /\ s.fallback = e.fallback /\ s.checkedPrefix = e.checkedPrefix
    BY ZenonT(40), <1>2 DEF Send, Em
  <1>4. Core(s) = Core(e) BY <1>3 DEF Core
  <1> QED BY <1>1, <1>3, <1>4, SmoothSame

\* More text behind a window that is a text's end.
LEMMA SuitsMore ==
    ASSUME NEW c, NEW raw, Suits(req, c, raw), NEW y \in Text
    PROVE  Suits(req, Ext(c, y), raw \o y)
  <1>1. c \in Cores /\ raw \in Text BY DEF Suits
  <1>2. PICK w \in Text : w = c.window BY <1>1, CoresAre
  <1>3. PICK d \in Cores : d = Ext(c, y) /\ d.window = w \o y /\ d.mode = c.mode BY <1>1, <1>2, ExtIs
  <1>4. PICK all \in Text : all = raw \o y BY <1>1, CatIs
  <1>5. d.mode # "TOOL_BUFFER" => EndsWith(all, d.window)
    <2> SUFFICES ASSUME d.mode # "TOOL_BUFFER" PROVE EndsWith(all, d.window) OBVIOUS
    <2>1. EndsWith(raw, w) BY <1>2, <1>3 DEF Suits
    <2>2. EndsWith(raw \o y, w \o y) BY <1>1, <2>1, EndsMore
    <2> QED BY <1>3, <1>4, <2>2
  <1>6. d.mode = "REASONING" => req.thinking \/ At(all, ThinkOpen) # {}
    <2>1. At(raw, ThinkOpen) \subseteq At(all, ThinkOpen) BY <1>1, <1>4, TagsOn
    <2>2. c.mode = "REASONING" => req.thinking \/ At(raw, ThinkOpen) # {} BY DEF Suits
    <2> QED BY <1>3, <2>1, <2>2
  <1>7. Suits(req, d, all) BY <1>3, <1>4, <1>5, <1>6 DEF Suits
  <1> QED BY <1>3, <1>4, <1>7

\* A token goes on so.
LEMMA SmoothToken ==
    ASSUME Asked(req), NameLimit \in Nat, NEW e \in Em, Plainly(e), Smooth(req, e),
           NEW piece \in Text, Unwrapped(piece)
    PROVE  Smooth(req, EmitToken(e, piece))
  <1>1. e.stopHit \in BOOLEAN BY EmTexts
  <1>2. CASE e.stopHit
    <2>1. EmitToken(e, piece) = e BY <1>2 DEF EmitToken
    <2> QED BY <2>1
  <1>3. CASE ~e.stopHit
    <2>1. PICK t : TakenBy(t, e, piece) /\ EmitToken(e, piece) = Advanced(t) BY <1>3, TokenIs
    <2>2. t \in Em BY <2>1 DEF TakenBy
    <2>3. PICK f : f = Advanced(t) /\ AdvancedBy(f, t) BY <2>2, AdvancedIs
    <2>4. CASE t.mode # "TOOL_BUFFER" /\ StopHits(t.window) # {}
      <3>1. HaltedBy(f, t) BY <2>3, <2>4 DEF AdvancedBy
      <3>2. f.stopHit BY <3>1 DEF HaltedBy
      <3> QED BY <2>1, <2>3, <3>2 DEF Smooth
    <2>5. CASE ~(t.mode # "TOOL_BUFFER" /\ StopHits(t.window) # {})
      <3>1. Beside(f, t) /\ Core(f) = Left(req, Core(t)) BY <2>3, <2>5 DEF AdvancedBy
      <3>2. PICK y \in Text : y = TokenAdds(e.tail, piece) BY TokenAddsIs
      <3>3. PICK raw \in Text : raw = e.raw BY EmTexts
      <3>4. PICK c \in Cores : c = Core(e) BY CoreIs
      <3>5. t.raw = raw \o y /\ Core(t) = Ext(c, y) BY <2>1, <3>2, <3>3, <3>4 DEF TakenBy, Ext
      <3>6. PICK d \in Cores : d = Ext(c, y) BY ExtIs
      <3>7. PICK all \in Text : all = raw \o y BY CatIs
      <3>8. /\ Suits(req, c, raw)
            /\ \A x \in Text : ~TooLong(req, raw \o x) /\ ~To(req, Ext(c, x)).fallback =>
                  To(req, Ext(c, x)) = To(req, Ext(Fresh(req), raw \o x))
        BY <1>3, <3>3, <3>4 DEF Smooth
      <3>9. Suits(req, d, all) BY <3>6, <3>7, <3>8, SuitsMore
      <3>10. PICK l \in Cores : l = Left(req, d) /\ Left(req, l) = l BY LeftIs, LeftWaits
      <3>11. Suits(req, l, all) BY <3>9, <3>10, LeftExt, CatIs
      <3>12. ASSUME NEW x \in Text, ~TooLong(req, all \o x), ~To(req, Ext(l, x)).fallback
             PROVE  To(req, Ext(l, x)) = To(req, Ext(Fresh(req), all \o x))
        <4>1. To(req, Ext(l, x)) = To(req, Ext(d, x)) BY <3>9, <3>10, <3>12, LeftExt
        <4>2. PICK z \in Text : z = y \o x BY CatIs
        <4>3. Ext(d, x) = Ext(c, z) BY <3>6, <4>2, ExtExt
        <4>4. all \o x = raw \o z
          <5>0. raw \in Text /\ y \in Text /\ x \in Text BY <3>12
          <5>1. (raw \o y) \o x = raw \o (y \o x) BY SMTT(60), <5>0, Regrouped
          <5> QED BY <3>7, <4>2, <5>1
        <4>5. ~TooLong(req, raw \o z) /\ ~To(req, Ext(c, z)).fallback BY <3>12, <4>1, <4>3, <4>4
        <4>6. To(req, Ext(c, z)) = To(req, Ext(Fresh(req), raw \o z)) BY <3>8, <4>5
        <4> QED BY <4>1, <4>3, <4>4, <4>6
      <3>13. f.raw = all /\ Core(f) = l BY <3>1, <3>5, <3>6, <3>7, <3>10 DEF Beside
      <3>14. Smooth(req, f) BY <3>10, <3>11, <3>12, <3>13 DEF Smooth
      <3> QED BY <2>1, <2>3, <3>14
    <2> QED BY <2>4, <2>5
  <1> QED BY <1>1, <1>2, <1>3

\* A streamed token does.
LEMMA SmoothStreamed ==
    ASSUME req \in Requests, NEW e, Running(req, e), Smooth(req, e), NEW token \in req.vocabulary.tokens
    PROVE  Smooth(req, Streamed(e, token))
  <1>1. Asked(req) /\ NameLimit \in Nat BY ReqIs, EmitterAssumption
  <1>2. PICK c : c = Classified(e, token) OBVIOUS
  <1>3. e \in Em /\ Plainly(e) BY DEF Running, Typed
  <1>4. c \in Em /\ Plainly(c) /\ Core(c) = Core(e) /\ (c.stopHit <=> e.stopHit)
    BY <1>2, <1>3, TwinClassified DEF Twin
  <1>5. c.raw = e.raw BY <1>2, <1>3 DEF Classified, Em
  <1>6. Smooth(req, c) BY <1>4, <1>5, SmoothSame
  <1>7. PICK piece \in Text : piece = TokenText[token] /\ Unwrapped(piece) BY TokenTexts
  <1>8. PICK f : f = EmitToken(c, piece) OBVIOUS
  <1>9. Smooth(req, f) BY <1>1, <1>4, <1>6, <1>7, <1>8, SmoothToken
  <1>10. Streamed(e, token) = c \/ Streamed(e, token) = f BY <1>2, <1>7, <1>8 DEF Streamed
  <1> QED BY <1>6, <1>9, <1>10

\* What is kept of an answer is what the whole text comes to.
Joined(r, e) ==
    ~e.stopHit /\ ~e.fallback /\ ~TooLong(r, e.raw) =>
        Kept(e) = Outcome(To(r, Ext(Fresh(r), e.raw)))

\* The end of a streamed answer makes it so.
LEMMA SmoothEnd ==
    ASSUME Asked(req), NameLimit \in Nat, NEW e, Running(req, e), Smooth(req, e), NEW capped \in BOOLEAN
    PROVE  Joined(req, EmitFinish(e, capped))
  <1>1. PICK f : f = EmitFinish(e, capped) OBVIOUS
  <1>2. e \in Em /\ Plainly(e) BY DEF Running, Typed
  <1>3. PICK rest : rest = Sanitized(e.tail) OBVIOUS
  <1>4. rest \in Text /\ rest \in {<<>>, Half}
    <2>1. e.tail \in {<<>>, <<"u1">>} BY <1>2 DEF Plainly
    <2>2. rest \in Text /\ Len(rest) <= 1 /\ \A i \in 1 .. Len(rest) : rest[i] = "?"
      BY <1>2, <1>3, <2>1, RestIs
    <2>3. PICK n \in Nat : n = Len(rest) /\ (rest = <<>> <=> n = 0) BY <2>2, TextIs
    <2>4. CASE n = 0 BY <2>2, <2>3, <2>4
    <2>5. CASE n = 1
      <3>1. 1 \in 1 .. Len(rest) BY <2>3, <2>5
      <3>2. rest[1] = "?" BY <2>2, <3>1
      <3>3. rest = Half 
        <4>1. PICK h \in Text : h = Half /\ Len(h) = 1 /\ h[1] = "?" BY HalfIs
        <4>2. rest = h
          <5>1. Len(rest) = Len(h) /\ \A i \in 1 .. Len(rest) : rest[i] = h[i]
            <6>1. \A i \in 1 .. Len(rest) : i = 1 BY <2>3, <2>5
            <6> QED BY <2>3, <2>5, <3>2, <4>1, <6>1
          <5> QED BY <2>2, <4>1, <5>1, SeqEqual DEF Text
        <4> QED BY <4>1, <4>2
      <3> QED BY <2>2, <3>3
    <2>6. n = 0 \/ n = 1 BY <2>2, <2>3
    <2> QED BY <2>4, <2>5, <2>6
  <1>5. PICK c \in Cores : c = Core(e) BY <1>2, CoreIs
  <1>6. PICK g : g = Flush(req, Ext(c, rest)) OBVIOUS
  <1>7. Kept(f) = Outcome(g) /\ f.raw = e.raw \o rest /\ (f.stopHit <=> e.stopHit)
        /\ (f.fallback <=> g.fallback)
    BY <1>1, <1>3, <1>5, <1>6, EndKept
  <1>8. ASSUME ~f.stopHit, ~f.fallback, ~TooLong(req, f.raw)
        PROVE  Kept(f) = Outcome(To(req, Ext(Fresh(req), f.raw)))
    <2>1. ~e.stopHit /\ ~g.fallback /\ ~TooLong(req, e.raw \o rest) BY <1>7, <1>8
    <2>2. /\ Left(req, c) = c
          /\ ~TooLong(req, e.raw \o rest) /\ ~To(req, Ext(c, rest)).fallback =>
                To(req, Ext(c, rest)) = To(req, Ext(Fresh(req), e.raw \o rest))
      BY <1>4, <1>5, <2>1 DEF Smooth
    <2>3. /\ Outcome(Flush(req, Ext(c, rest))) = Outcome(To(req, Ext(c, rest)))
          /\ Flush(req, Ext(c, rest)).fallback <=> To(req, Ext(c, rest)).fallback
      BY <1>4, <2>2, EndSame
    <2> QED BY <1>6, <1>7, <2>1, <2>2, <2>3
  <1> QED BY <1>1, <1>8 DEF Joined

\* A streamed answer is put together as it comes, and when it is done it is whole.
Smoothing ==
    req.stream => IF pc = "done" THEN Joined(req, em) ELSE Smooth(req, em)

\* At the beginning nothing has come.
LEMMA SmoothingInit == Init => Smoothing
  <1> SUFFICES ASSUME Init, req.stream PROVE Smoothing BY DEF Smoothing
  <1>1. req \in Requests /\ pc # "done" /\ em = Started(Emitter(req.thinking)) BY DEF Init
  <1>2. Asked(req) /\ req.thinking \in BOOLEAN BY <1>1, ReqIs DEF Requests
  <1>3. PICK e \in Em : e = Emitter(req.thinking) BY <1>2, EmitterIs
  <1>4. Smooth(req, e) BY <1>2, <1>3, SmoothStart
  <1>5. Smooth(req, em) BY <1>1, <1>3, <1>4, SmoothStarted
  <1> QED BY <1>1, <1>5 DEF Smoothing

\* A step of a streamed answer goes on so.
LEMMA SmoothingStep == IInv /\ Smoothing /\ [Next]_vars => Smoothing'
  <1> SUFFICES ASSUME IInv, Smoothing, [Next]_vars, req'.stream
               PROVE  IF pc' = "done" THEN Joined(req', em') ELSE Smooth(req', em')
    BY DEF Smoothing
  <1>1. req' = req BY DEF Next, OnToken, EndStream, EndWhole, vars
  <1>2. req.stream /\ req \in Requests BY <1>1 DEF IInv
  <1>3. Asked(req) /\ NameLimit \in Nat BY <1>2, ReqIs, EmitterAssumption
  <1>4. CASE OnToken
    <2>1. PICK token \in req.vocabulary.tokens : em' = Streamed(em, token) /\ pc' # "done" /\ pc # "done"
      BY <1>2, <1>4 DEF OnToken
    <2>2. Running(req, em) /\ Smooth(req, em) BY <1>2, <2>1 DEF IInv, Smoothing
    <2>3. PICK f : f = Streamed(em, token) /\ Smooth(req, f) BY <1>2, <2>1, <2>2, SmoothStreamed
    <2> QED BY <1>1, <2>1, <2>3
  <1>5. CASE EndStream
    <2>1. PICK capped \in BOOLEAN : em' = EmitFinish(em, capped) BY <1>5 DEF EndStream
    <2>2. pc # "done" /\ pc' = "done" BY <1>5 DEF EndStream
    <2>3. Running(req, em) /\ Smooth(req, em) BY <1>2, <2>2 DEF IInv, Smoothing
    <2>4. PICK f : f = EmitFinish(em, capped) /\ Joined(req, f) BY <1>3, <2>3, SmoothEnd
    <2> QED BY <1>1, <2>1, <2>2, <2>4
  <1>6. CASE EndWhole BY <1>2, <1>6 DEF EndWhole
  <1>7. CASE UNCHANGED vars
    <2>1. em' = em /\ pc' = pc BY <1>7 DEF vars
    <2> QED BY <1>1, <1>2, <2>1 DEF Smoothing
  <1> QED BY <1>4, <1>5, <1>6, <1>7 DEF Next

\* However the tokens cut a streamed answer, through the middle of any delimiter, the
\* client gets what the whole text would have given at once, unless a stop sequence or
\* a bare brace decides on what has arrived so far, or a name is longer than is held
\* back.
THEOREM TokensCutAnywhere == Spec => []CutAnywhere
  <1>1. IInv /\ Smoothing => CutAnywhere
    <2> SUFFICES ASSUME IInv, Smoothing, pc = "done", req.stream, ~em.stopHit, ~em.fallback,
                        ~NameTooLong(em.raw)
                 PROVE  Kept(em) = Kept(Whole(em.raw))
      BY DEF CutAnywhere
    <2>1. Joined(req, em) BY DEF Smoothing
    <2>2. ~TooLong(req, em.raw) BY DEF NameTooLong, NameBound, TooLong
    <2>3. Kept(em) = Outcome(To(req, Ext(Fresh(req), em.raw))) BY <2>1, <2>2 DEF Joined
    <2>4. req \in Requests BY DEF IInv
    <2>5. Asked(req) /\ req.thinking \in BOOLEAN BY <2>4, ReqIs DEF Requests
    <2>6. em.raw \in Text BY DEF IInv, Over, Settled, Em
    <2>7. Kept(Whole(em.raw)) = Outcome(To(req, Ext(Fresh(req), em.raw))) BY <2>5, <2>6, WholeKept
    <2> QED BY <2>3, <2>7
  <1>2. Init => Smoothing BY SmoothingInit
  <1>3. IInv /\ Smoothing /\ [Next]_vars => Smoothing' BY SmoothingStep
  <1> QED BY <1>1, <1>2, <1>3, Invariance, PTL DEF Spec

=============================================================================
