------------------------- MODULE SseEmitter_proofs --------------------------
(****************************************************************************)
(* Proofs about ToolParser and SseEmitter, for any vocabulary and answers   *)
(* of any length: calls, events, what is kept of a text.                    *)
(****************************************************************************)
EXTENDS SseEmitter, SequenceTheorems, FiniteSetTheorems, TLAPS

Text == Seq(Symbol)

-----------------------------------------------------------------------------
(* Least numbers *)

\* Nonempty sets of numbers have a least one: of the intervals below them one is
\* minimal under inclusion.
LEMMA LeastNumber ==
    ASSUME NEW A \in SUBSET Nat, A # {}
    PROVE  \E k \in A : \A j \in A : k <= j
  <1> DEFINE R == StrictSubsetOrdering(Nat)
             T == {0 .. k : k \in A}
  <1>1. IsWellFoundedOn(R, FiniteSubsetsOf(Nat)) BY FS_StrictSubsetOrderingWellFounded
  <1>2. T \subseteq FiniteSubsetsOf(Nat)
    <2> SUFFICES ASSUME NEW k \in A PROVE 0 .. k \in FiniteSubsetsOf(Nat) OBVIOUS
    <2>1. k \in Int /\ 0 \in Int /\ 0 .. k \subseteq Nat OBVIOUS
    <2>2. IsFiniteSet(0 .. k) BY <2>1, FS_Interval
    <2> QED BY <2>1, <2>2 DEF FiniteSubsetsOf
  <1>3. T # {} OBVIOUS
  <1> HIDE DEF R, T
  <1>4. PICK x \in T : \A y \in T : ~(<<y, x>> \in R) BY <1>1, <1>2, <1>3, WFMin
  <1> USE DEF R, T
  <1>5. PICK k \in A : x = 0 .. k OBVIOUS
  <1>6. ASSUME NEW j \in A PROVE k <= j
    <2> SUFFICES ASSUME j < k PROVE FALSE BY <1>5
    <2>1. 0 .. j \in T OBVIOUS
    <2>2. 0 .. j \in SUBSET Nat /\ 0 .. k \in SUBSET Nat /\ 0 .. j \subseteq 0 .. k OBVIOUS
    <2>3. k \in 0 .. k /\ k \notin 0 .. j OBVIOUS
    <2>4. <<0 .. j, 0 .. k>> \in R BY <2>2, <2>3 DEF StrictSubsetOrdering
    <2> QED BY <1>4, <1>5, <2>1, <2>4
  <1> QED BY <1>5, <1>6

\* The least of a set of numbers is in it and below all others.
LEMMA MinIs ==
    ASSUME NEW A \in SUBSET Nat, A # {}
    PROVE  Min(A) \in A /\ Min(A) \in Nat /\ \A j \in A : Min(A) <= j
  BY LeastNumber DEF Min

\* A bounded set has a greatest.
LEMMA MaxIs ==
    ASSUME NEW A \in SUBSET Nat, A # {}, NEW n \in Nat, \A j \in A : j <= n
    PROVE  Max(A) \in A /\ Max(A) \in Nat /\ \A j \in A : j <= Max(A)
  <1> DEFINE B == {n - j : j \in A}
  <1>0. B # {} OBVIOUS
  <1>1. B \in SUBSET Nat
    <2> SUFFICES ASSUME NEW j \in A PROVE n - j \in Nat OBVIOUS
    <2> QED OBVIOUS
  <1>2. PICK k \in B : \A j \in B : k <= j BY <1>0, <1>1, LeastNumber
  <1>3. PICK m \in A : k = n - m OBVIOUS
  <1>4. \A j \in A : j <= m
    <2> SUFFICES ASSUME NEW j \in A PROVE j <= m OBVIOUS
    <2>1. n - j \in B OBVIOUS
    <2> HIDE DEF B
    <2>2. n - m <= n - j BY <1>2, <1>3, <2>1
    <2> QED BY <2>2
  <1> QED BY <1>4 DEF Max

-----------------------------------------------------------------------------
(* Texts joined *)

\* f[n] joins the first n of the texts.
Joins(f, texts, n) ==
    f = [i \in 1 .. n |-> IF i = 1 THEN texts[i] ELSE f[i - 1] \o texts[i]]

\* The recursive function that joins texts exists: a least length for which it
\* does not would be one more than one for which it does.
LEMMA JoinsExist ==
    ASSUME NEW texts \in Seq(Text)
    PROVE  \E f : Joins(f, texts, Len(texts)) /\ f \in [1 .. Len(texts) -> Text]
  <1> DEFINE Has(n) == \E f : Joins(f, texts, n) /\ f \in [1 .. n -> Text]
             A == {n \in 0 .. Len(texts) : ~Has(n)}
  <1>1. Len(texts) \in Nat /\ \A i \in 1 .. Len(texts) : texts[i] \in Text
    BY LenProperties, ElementOfSeq
  <1>2. Has(0)
    <2> DEFINE f == [i \in 1 .. 0 |-> <<>>]
    <2>1. 1 .. 0 = {} OBVIOUS
    <2>2. Joins(f, texts, 0) BY <2>1 DEF Joins
    <2>3. f \in [1 .. 0 -> Text] BY <2>1
    <2> QED BY <2>2, <2>3
  <1> HIDE DEF Has
  <1>3. ASSUME A # {} PROVE FALSE
    <2>1. A \in SUBSET Nat OBVIOUS
    <2>2. PICK n \in A : \A j \in A : n <= j BY <1>3, <2>1, LeastNumber
    <2>3. n \in 1 .. Len(texts) /\ ~Has(n) BY <1>1, <1>2, <2>2
    <2>4. n - 1 \in 0 .. Len(texts) /\ ~(n <= n - 1) BY <1>1, <2>3
    <2>5. Has(n - 1) BY <2>2, <2>4
    <2>6. PICK f : Joins(f, texts, n - 1) /\ f \in [1 .. n - 1 -> Text] BY <2>5 DEF Has
    <2> DEFINE last == IF n = 1 THEN texts[n] ELSE f[n - 1] \o texts[n]
               g == [i \in 1 .. n |-> IF i = n THEN last ELSE f[i]]
    <2>7. last \in Text
      <3>1. CASE n = 1 BY <3>1, <2>3, <1>1
      <3>2. CASE n # 1
        <4>1. n - 1 \in 1 .. n - 1 BY <2>3, <3>2
        <4>2. f[n - 1] \in Text /\ texts[n] \in Text BY <4>1, <2>3, <2>6, <1>1
        <4>3. f[n - 1] \o texts[n] \in Text BY <4>2, ConcatProperties DEF Text
        <4> QED BY <4>3, <3>2
      <3> QED BY <3>1, <3>2
    <2>8. g \in [1 .. n -> Text]
      <3> HIDE DEF last
      <3> SUFFICES ASSUME NEW i \in 1 .. n PROVE (IF i = n THEN last ELSE f[i]) \in Text OBVIOUS
      <3>1. i # n => i \in 1 .. n - 1 BY <2>3
      <3> QED BY <3>1, <2>6, <2>7
    <2>9. ASSUME NEW i \in 1 .. n
          PROVE  g[i] = IF i = 1 THEN texts[i] ELSE g[i - 1] \o texts[i]
      <3>1. i # 1 => i - 1 \in 1 .. n - 1 /\ i - 1 \in 1 .. n /\ i - 1 # n BY <2>3
      <3>2. i # 1 => g[i - 1] = f[i - 1] BY <3>1
      <3>3. CASE i = n
        <4>1. g[i] = last BY <3>3
        <4> QED BY <4>1, <3>2, <3>3
      <3>4. CASE i # n
        <4>1. g[i] = f[i] /\ i \in 1 .. n - 1 BY <3>4, <2>3
        <4>2. f[i] = IF i = 1 THEN texts[i] ELSE f[i - 1] \o texts[i] BY <4>1, <2>6 DEF Joins
        <4> QED BY <4>1, <4>2, <3>2
      <3> QED BY <3>3, <3>4
    <2> HIDE DEF g, last
    <2>10. g = [i \in 1 .. n |-> IF i = 1 THEN texts[i] ELSE g[i - 1] \o texts[i]]
      BY <2>8, <2>9
    <2> QED BY <2>3, <2>8, <2>10 DEF Joins, Has
  <1>4. Has(Len(texts)) BY <1>1, <1>3
  <1> QED BY <1>4 DEF Has

\* Where two sequences of texts begin alike, so do the texts joined from them.
LEMMA JoinsAgree ==
    ASSUME NEW texts, NEW more, NEW m \in Nat, NEW n \in Nat, m <= n,
           \A i \in 1 .. m : texts[i] = more[i],
           NEW f, Joins(f, texts, m), NEW g, Joins(g, more, n)
    PROVE  \A i \in 1 .. m : f[i] = g[i]
  <1> DEFINE A == {i \in 1 .. m : f[i] # g[i]}
  <1>1. ASSUME A # {} PROVE FALSE
    <2>1. A \in SUBSET Nat OBVIOUS
    <2>2. PICK i \in A : \A j \in A : i <= j BY <1>1, <2>1, LeastNumber
    <2>3. i \in 1 .. m /\ i \in 1 .. n /\ f[i] # g[i] BY <2>2
    <2>4. f[i] = (IF i = 1 THEN texts[i] ELSE f[i - 1] \o texts[i]) BY <2>3 DEF Joins
    <2>5. g[i] = (IF i = 1 THEN more[i] ELSE g[i - 1] \o more[i]) BY <2>3 DEF Joins
    <2>6. i # 1 => i - 1 \in 1 .. m /\ ~(i <= i - 1) BY <2>3
    <2>7. i # 1 => f[i - 1] = g[i - 1] BY <2>2, <2>6
    <2> QED BY <2>3, <2>4, <2>5, <2>7
  <1> QED BY <1>1

\* FlattenSeq is its last value.
LEMMA FlattenJoins ==
    ASSUME NEW texts \in Seq(Text), texts # <<>>
    PROVE  \E f : /\ Joins(f, texts, Len(texts)) /\ FlattenSeq(texts) = f[Len(texts)]
                  /\ Len(texts) \in Nat /\ f[Len(texts)] \in Text /\ Len(texts) >= 1
  <1> DEFINE f == CHOOSE f : Joins(f, texts, Len(texts))
  <1>1. Joins(f, texts, Len(texts)) BY JoinsExist
  <1>2. Len(texts) # 0 /\ Len(texts) \in Nat /\ Len(texts) \in 1 .. Len(texts) BY EmptySeq
  <1>3. FlattenSeq(texts) = f[Len(texts)] BY <1>2 DEF FlattenSeq, Joins
  <1> HIDE DEF f
  <1>4. PICK g : Joins(g, texts, Len(texts)) /\ g \in [1 .. Len(texts) -> Text] BY JoinsExist
  <1>5. \A i \in 1 .. Len(texts) : f[i] = g[i] BY <1>1, <1>2, <1>4, JoinsAgree
  <1> QED BY <1>1, <1>2, <1>3, <1>4, <1>5

\* No texts joined are the empty text.
LEMMA FlattenNone == FlattenSeq(<<>>) = <<>>
  BY EmptySeq DEF FlattenSeq

\* Texts joined are a text.
LEMMA FlattenType ==
    ASSUME NEW texts \in Seq(Text)
    PROVE  FlattenSeq(texts) \in Text
  <1>1. CASE texts = <<>> BY <1>1, FlattenNone, EmptySeq DEF Text
  <1>2. CASE texts # <<>> BY <1>2, FlattenJoins
  <1> QED BY <1>1, <1>2

\* One more text comes behind the others.
LEMMA FlattenAppend ==
    ASSUME NEW texts \in Seq(Text), NEW text \in Text
    PROVE  FlattenSeq(Append(texts, text)) = FlattenSeq(texts) \o text
  <1> DEFINE n == Len(texts)
  <1>1. PICK more \in Seq(Text) : more = Append(texts, text) BY AppendProperties
  <1>2. /\ more # <<>> /\ n \in Nat /\ Len(more) = n + 1
        /\ (\A i \in 1 .. n : texts[i] = more[i]) /\ more[n + 1] = text
    BY <1>1, AppendProperties, LenProperties
  <1> HIDE DEF n
  <1>3. PICK g : Joins(g, more, n + 1) /\ FlattenSeq(more) = g[n + 1] BY <1>2, FlattenJoins
  <1>4. g[n + 1] = IF n + 1 = 1 THEN text ELSE g[n + 1 - 1] \o text
    <2>1. n + 1 \in 1 .. n + 1 BY <1>2
    <2>2. \A i \in 1 .. n + 1 : g[i] = IF i = 1 THEN more[i] ELSE g[i - 1] \o more[i]
      <3>1. g = [i \in 1 .. n + 1 |-> IF i = 1 THEN more[i] ELSE g[i - 1] \o more[i]]
        BY <1>3 DEF Joins
      <3> QED BY <3>1
    <2>3. g[n + 1] = IF n + 1 = 1 THEN more[n + 1] ELSE g[n + 1 - 1] \o more[n + 1]
      <3>1. PICK k \in 1 .. n + 1 : k = n + 1 BY <2>1
      <3> QED BY <3>1, <2>2, <1>2
    <2> QED BY <2>3, <1>2
  <1>5. CASE texts = <<>>
    <2>1. n = 0 BY <1>5, EmptySeq DEF n
    <2>2. g[n + 1] = text BY <1>4, <2>1
    <2>3. <<>> \o text = text BY ConcatEmptySeq DEF Text
    <2> QED BY <1>1, <1>3, <1>5, <2>2, <2>3, FlattenNone
  <1>6. CASE texts # <<>>
    <2>1. PICK f : Joins(f, texts, n) /\ FlattenSeq(texts) = f[n] /\ n >= 1 BY <1>6, FlattenJoins DEF n
    <2>2. \A i \in 1 .. n : f[i] = g[i]
      <3>1. PICK k \in Nat : k = n + 1 /\ n <= k BY <1>2
      <3>2. n \in Nat /\ \A i \in 1 .. n : texts[i] = more[i] BY <1>2
      <3>3. Joins(f, texts, n) BY <2>1
      <3>4. Joins(g, more, k) BY <1>3, <3>1
      <3> QED BY SMTT(60), <3>1, <3>2, <3>3, <3>4, JoinsAgree
    <2>3. n \in 1 .. n /\ n + 1 # 1 /\ n + 1 - 1 = n BY <1>2, <2>1
    <2>4. g[n + 1] = g[n] \o text BY <1>4, <2>3
    <2> QED BY <1>1, <1>3, <2>1, <2>2, <2>3, <2>4
  <1> QED BY <1>5, <1>6

-----------------------------------------------------------------------------
(* Places in a text *)

\* A text has a length and symbols.
LEMMA TextIs ==
    ASSUME NEW text \in Text
    PROVE  /\ Len(text) \in Nat /\ (text = <<>> <=> Len(text) = 0)
           /\ \A i \in 1 .. Len(text) : text[i] \in Symbol
  <1>1. Len(text) \in Nat /\ (text = <<>> <=> Len(text) = 0) BY EmptySeq, LenProperties DEF Text
  <1>2. \A i \in 1 .. Len(text) : text[i] \in Symbol BY ElementOfSeq DEF Text
  <1> QED BY <1>1, <1>2

\* What is cut out of a text.
LEMMA SubIs ==
    ASSUME NEW text \in Text, NEW m \in Nat, m >= 1, NEW n \in Int, n <= Len(text)
    PROVE  /\ SubSeq(text, m, n) \in Text
           /\ Len(SubSeq(text, m, n)) = IF m <= n THEN n - m + 1 ELSE 0
           /\ Len(SubSeq(text, m, n)) <= Len(text)
           /\ \A i \in 1 .. n - m + 1 : SubSeq(text, m, n)[i] = text[m + i - 1]
  <1>1. Len(text) \in Nat /\ \A i \in 1 .. Len(text) : text[i] \in Symbol BY TextIs
  <1>2. m \in Int /\ \A i \in m .. n : text[i] \in Symbol BY <1>1
  <1>3. /\ SubSeq(text, m, n) \in Text
        /\ Len(SubSeq(text, m, n)) = IF m <= n THEN n - m + 1 ELSE 0
        /\ \A i \in 1 .. n - m + 1 : SubSeq(text, m, n)[i] = text[m + i - 1]
    BY <1>2, SubSeqProperties DEF Text
  <1> QED BY <1>1, <1>3

\* What begins at a place.
LEMMA FromIs ==
    ASSUME NEW text \in Text, NEW i \in Nat, i >= 1
    PROVE  /\ From(text, i) \in Text /\ Len(From(text, i)) <= Len(text)
           /\ i <= Len(text) + 1 => Len(From(text, i)) = Len(text) - i + 1
           /\ i > Len(text) => Len(From(text, i)) = 0
           /\ \A x \in 1 .. Len(text) - i + 1 : From(text, i)[x] = text[i + x - 1]
  <1>1. Len(text) \in Nat /\ Len(text) \in Int /\ Len(text) <= Len(text) BY TextIs
  <1>2. /\ From(text, i) \in Text /\ Len(From(text, i)) <= Len(text)
        /\ Len(From(text, i)) = IF i <= Len(text) THEN Len(text) - i + 1 ELSE 0
        /\ \A x \in 1 .. Len(text) - i + 1 : From(text, i)[x] = text[i + x - 1]
    BY <1>1, SubIs DEF From
  <1> QED BY <1>1, <1>2

\* What is in front of a place.
LEMMA BeforeIs ==
    ASSUME NEW text \in Text, NEW i \in 1 .. Len(text) + 1
    PROVE  /\ Before(text, i) \in Text /\ Len(Before(text, i)) = i - 1
           /\ \A x \in 1 .. i - 1 : Before(text, i)[x] = text[x]
  <1>1. Len(text) \in Nat /\ i - 1 \in Int /\ i - 1 <= Len(text) /\ 1 \in Nat /\ 1 >= 1 /\ i \in Nat
    BY TextIs
  <1>2. /\ Before(text, i) \in Text
        /\ Len(Before(text, i)) = IF 1 <= i - 1 THEN i - 1 - 1 + 1 ELSE 0
        /\ \A x \in 1 .. i - 1 - 1 + 1 : Before(text, i)[x] = text[1 + x - 1]
    BY <1>1, SubIs DEF Before
  <1>3. Len(Before(text, i)) = i - 1 BY <1>1, <1>2
  <1>4. ASSUME NEW x \in 1 .. i - 1 PROVE Before(text, i)[x] = text[x]
    <2>1. x \in 1 .. i - 1 - 1 + 1 /\ 1 + x - 1 = x BY <1>1
    <2> QED BY <2>1, <1>2
  <1> QED BY <1>2, <1>3, <1>4

\* One text behind another.
LEMMA CatIs ==
    ASSUME NEW s \in Text, NEW t \in Text
    PROVE  /\ s \o t \in Text /\ Len(s \o t) = Len(s) + Len(t)
           /\ \A i \in 1 .. Len(s) : (s \o t)[i] = s[i]
           /\ \A i \in 1 .. Len(t) : (s \o t)[Len(s) + i] = t[i]
           /\ s \o <<>> = s /\ <<>> \o s = s /\ <<>> \in Text
  <1>1. Len(s) \in Nat /\ Len(t) \in Nat BY TextIs
  <1>2. /\ s \o t \in Text /\ Len(s \o t) = Len(s) + Len(t)
        /\ \A i \in 1 .. Len(s) + Len(t) : (s \o t)[i] = IF i <= Len(s) THEN s[i] ELSE t[i - Len(s)]
    BY ConcatProperties DEF Text
  <1>3. s \o <<>> = s /\ <<>> \o s = s /\ <<>> \in Text BY ConcatEmptySeq, EmptySeq DEF Text
  <1>4. \A i \in 1 .. Len(s) : (s \o t)[i] = s[i] BY <1>1, <1>2
  <1>5. ASSUME NEW i \in 1 .. Len(t) PROVE (s \o t)[Len(s) + i] = t[i]
    <2>1. Len(s) + i \in 1 .. Len(s) + Len(t) /\ ~(Len(s) + i <= Len(s)) /\ Len(s) + i - Len(s) = i
      BY <1>1
    <2> QED BY <2>1, <1>2
  <1> QED BY <1>2, <1>3, <1>4, <1>5

\* Sequences of one and of two elements.
LEMMA Short ==
    ASSUME NEW S, NEW a \in S, NEW b \in S
    PROVE  <<a>> \in Seq(S) /\ <<a, b>> \in Seq(S)
  OBVIOUS

\* Where a symbol is.
LEMMA WhereIs ==
    ASSUME NEW text \in Text, NEW sym
    PROVE  /\ Where(text, sym) \in SUBSET Nat /\ Where(text, sym) \subseteq 1 .. Len(text)
           /\ \A i : i \in Where(text, sym) <=> i \in 1 .. Len(text) /\ text[i] = sym
  <1>1. Len(text) \in Nat BY TextIs
  <1> QED BY <1>1 DEF Where

\* Where a delimiter of two symbols is.
LEMMA AtIs ==
    ASSUME NEW text \in Text, NEW a \in Symbol, NEW b \in Symbol
    PROVE  /\ At(text, <<a, b>>) \in SUBSET Nat
           /\ \A i : i \in At(text, <<a, b>>) <=>
                        i \in 1 .. Len(text) - 1 /\ text[i] = a /\ text[i + 1] = b
  <1>1. Len(text) \in Nat BY TextIs
  <1>2. Len(<<a, b>>) = 2 OBVIOUS
  <1>3. ASSUME NEW i \in 1 .. Len(text) - 1
        PROVE  SubSeq(text, i, i + 2 - 1) = <<a, b>> <=> text[i] = a /\ text[i + 1] = b
    <2> DEFINE d == SubSeq(text, i, i + 2 - 1)
    <2>1. i \in Nat /\ i >= 1 /\ i + 2 - 1 \in Int /\ i + 2 - 1 <= Len(text) BY <1>1
    <2>2. /\ d \in Text /\ Len(d) = IF i <= i + 2 - 1 THEN i + 2 - 1 - i + 1 ELSE 0
          /\ \A x \in 1 .. i + 2 - 1 - i + 1 : d[x] = text[i + x - 1]
      BY <2>1, SubIs
    <2> HIDE DEF d
    <2>3. Len(d) = 2 BY <2>1, <2>2
    <2>4. d[1] = text[i] /\ d[2] = text[i + 1]
      <3>1. 1 \in 1 .. i + 2 - 1 - i + 1 /\ 2 \in 1 .. i + 2 - 1 - i + 1 /\ i + 1 - 1 = i /\ i + 2 - 1 = i + 1
        BY <2>1
      <3> QED BY <3>1, <2>2
    <2>5. <<a, b>> \in Text BY Short DEF Text
    <2>6. d = <<a, b>> <=> d[1] = a /\ d[2] = b
      <3>1. <<a, b>>[1] = a /\ <<a, b>>[2] = b OBVIOUS
      <3>2. ASSUME d[1] = a, d[2] = b PROVE d = <<a, b>>
        <4>1. \A x \in 1 .. Len(d) : d[x] = <<a, b>>[x]
          <5>1. \A x \in 1 .. 2 : x = 1 \/ x = 2 OBVIOUS
          <5> QED BY <5>1, <3>1, <3>2, <2>3
        <4> QED BY <4>1, <2>2, <2>3, <2>5, <1>2, SeqEqual DEF Text
      <3> QED BY <3>1, <3>2
    <2> QED BY <2>4, <2>6 DEF d
  <1>4. At(text, <<a, b>>) = {i \in 1 .. Len(text) - 1 : text[i] = a /\ text[i + 1] = b}
    <2>1. Len(text) - 2 + 1 = Len(text) - 1 BY <1>1
    <2>2. At(text, <<a, b>>) = {i \in 1 .. Len(text) - 1 : SubSeq(text, i, i + 2 - 1) = <<a, b>>}
      BY <2>1, <1>2 DEF At
    <2> QED BY <2>2, <1>3
  <1> DEFINE A == At(text, <<a, b>>)
  <1>5. \A i : i \in A <=> i \in 1 .. Len(text) - 1 /\ text[i] = a /\ text[i + 1] = b BY <1>4
  <1> HIDE DEF A
  <1>6. A \in SUBSET Nat
    <2> SUFFICES ASSUME NEW i \in A PROVE i \in Nat OBVIOUS
    <2>1. i \in 1 .. Len(text) - 1 BY <1>5
    <2> QED BY <2>1, <1>1
  <1> QED BY <1>5, <1>6 DEF A

\* The first symbol that is not white space, or the place behind the text.
LEMMA FirstBlackIs ==
    ASSUME NEW text \in Text
    PROVE  /\ FirstBlack(text) \in 1 .. Len(text) + 1
           /\ \A x \in 1 .. FirstBlack(text) - 1 : text[x] = "w"
           /\ FirstBlack(text) <= Len(text) => text[FirstBlack(text)] # "w"
  <1> DEFINE A == {i \in 1 .. Len(text) + 1 : i > Len(text) \/ text[i] # "w"}
  <1>1. Len(text) \in Nat BY TextIs
  <1>2. A \in SUBSET Nat /\ Len(text) + 1 \in A BY <1>1
  <1>3. Min(A) \in A /\ \A j \in A : Min(A) <= j
    <2> HIDE DEF A
    <2> QED BY <1>2, MinIs
  <1>4. FirstBlack(text) = Min(A) BY DEF FirstBlack
  <1>5. PICK m : m = Min(A) OBVIOUS
  <1>6. m \in 1 .. Len(text) + 1 /\ (m <= Len(text) => text[m] # "w") BY <1>1, <1>3, <1>5
  <1>7. ASSUME NEW x \in 1 .. m - 1 PROVE text[x] = "w"
    <2>1. x \in 1 .. Len(text) + 1 /\ ~(x > Len(text)) /\ ~(m <= x) BY <1>1, <1>6
    <2>2. x \notin A BY <2>1, <1>3, <1>5
    <2> QED BY <2>1, <2>2
  <1> QED BY <1>4, <1>5, <1>6, <1>7

\* What is left of a text without the white space around it.
LEMMA TrimmedType ==
    ASSUME NEW text \in Text
    PROVE  Trimmed(text) \in Text /\ Len(Trimmed(text)) <= Len(text)
  <1>1. Len(text) \in Nat BY TextIs
  <1>2. CASE Blank(text) BY <1>1, <1>2, TextIs, EmptySeq DEF Trimmed, Text
  <1>3. CASE ~Blank(text)
    <2> DEFINE A == {i \in 1 .. Len(text) : text[i] # "w"}
    <2>1. A \in SUBSET Nat /\ A # {} /\ \A i \in A : i <= Len(text) BY <1>1, <1>3 DEF Blank
    <2>2. Max(A) \in A
      <3> HIDE DEF A
      <3> QED BY <1>1, <2>1, MaxIs
    <2>3. PICK n : n = Max(A) OBVIOUS
    <2>4. n \in Int /\ n <= Len(text) BY <1>1, <2>2, <2>3
    <2>5. PICK m : m = FirstBlack(text) OBVIOUS
    <2>6. m \in Nat /\ m >= 1 BY <1>1, <2>5, FirstBlackIs
    <2>7. Trimmed(text) = SubSeq(text, m, n) BY <1>3, <2>3, <2>5 DEF Trimmed
    <2> QED BY <2>4, <2>6, <2>7, SubIs
  <1> QED BY <1>2, <1>3

\* An identifier in front of a place begins there or earlier.
LEMMA NameStartIs ==
    ASSUME NEW text \in Text, NEW i \in Nat, i >= 1
    PROVE  /\ NameStart(text, i) \in 1 .. i
           /\ \A x \in NameStart(text, i) .. i - 1 : text[x] = "n"
  <1> DEFINE A == {m \in 1 .. i : \A x \in m .. i - 1 : text[x] = "n"}
  <1>1. A \in SUBSET Nat /\ i \in A OBVIOUS
  <1>2. Min(A) \in A
    <2> HIDE DEF A
    <2> QED BY <1>1, MinIs
  <1>3. NameStart(text, i) = Min(A) BY DEF NameStart
  <1> QED BY <1>2, <1>3

\* Between a place and the next symbol that is not white space there is nothing
\* else.
LEMMA NextBlackIs ==
    ASSUME NEW text \in Text, NEW i \in 1 .. Len(text)
    PROVE  /\ NextBlack(text, i) \in i + 1 .. Len(text) + 1
           /\ \A x \in i + 1 .. NextBlack(text, i) - 1 : text[x] = "w"
  <1>1. Len(text) \in Nat /\ i + 1 \in Nat /\ i + 1 >= 1 /\ i + 1 <= Len(text) + 1 BY TextIs
  <1>2. PICK r \in Text : r = From(text, i + 1) BY <1>1, FromIs
  <1>3. /\ Len(r) = Len(text) - (i + 1) + 1
        /\ \A x \in 1 .. Len(text) - (i + 1) + 1 : r[x] = text[i + 1 + x - 1]
    BY <1>1, <1>2, FromIs
  <1>4. PICK m : m = FirstBlack(r) OBVIOUS
  <1>5. m \in 1 .. Len(r) + 1 /\ \A x \in 1 .. m - 1 : r[x] = "w" BY <1>4, FirstBlackIs
  <1>6. NextBlack(text, i) = i + m BY <1>2, <1>4 DEF NextBlack
  <1>7. i + m \in i + 1 .. Len(text) + 1 BY <1>1, <1>3, <1>5
  <1>8. ASSUME NEW x \in i + 1 .. i + m - 1 PROVE text[x] = "w"
    <2>1. x - i \in 1 .. m - 1 /\ x - i \in 1 .. Len(text) - (i + 1) + 1 /\ i + 1 + (x - i) - 1 = x
      BY <1>1, <1>3, <1>5
    <2>2. r[x - i] = "w" /\ r[x - i] = text[i + 1 + (x - i) - 1] BY <2>1, <1>3, <1>5
    <2> QED BY <2>1, <2>2
  <1>9. PICK k : k = NextBlack(text, i) OBVIOUS
  <1>10. k = i + m BY <1>6, <1>9
  <1>11. \A x \in i + 1 .. k - 1 : text[x] = "w" BY <1>1, <1>5, <1>8, <1>10
  <1> QED BY <1>7, <1>9, <1>10, <1>11

\* Arguments end with a closing tag or the white space behind it.
LEMMA ArgsEndIs ==
    ASSUME NEW text \in Text, NEW key \in Nat, key >= 1, text[key] # "v",
           ArgsEnd(text, key) # 0
    PROVE  /\ ArgsEnd(text, key) \in key + 1 .. Len(text)
           /\ text[ArgsEnd(text, key)] \in {"v", "w"}
  <1> DEFINE closes == {i \in Where(text, "v") : i >= key}
             Another(i) == NextBlack(text, i) \in At(text, ArgKeyOpen)
             A == {i \in closes : ~Another(i) \/ i = Max(closes)}
  <1>1. Len(text) \in Nat BY TextIs
  <1>2. closes # {} BY DEF ArgsEnd
  <1>3. closes \in SUBSET Nat /\ \A i \in closes : i \in key .. Len(text) /\ text[i] = "v" BY <1>1, WhereIs
  <1> HIDE DEF closes
  <1>4. Max(closes) \in closes
    <2>1. \A i \in closes : i <= Len(text) BY <1>1, <1>3
    <2> QED BY <1>1, <1>2, <1>3, <2>1, MaxIs
  <1>5. A \in SUBSET Nat /\ A # {} BY <1>3, <1>4
  <1>6. Min(A) \in A
    <2> HIDE DEF A
    <2> QED BY <1>5, MinIs
  <1>7. PICK last \in closes : last = Min(A)
    <2>1. A \subseteq closes OBVIOUS
    <2> HIDE DEF A
    <2> QED BY <1>6, <2>1
  <1>8. last \in key .. Len(text) /\ text[last] = "v" /\ last \in 1 .. Len(text) BY <1>3, <1>7, <1>1
  <1>9. last # key BY <1>8
  <1> HIDE DEF A
  <1>10. ArgsEnd(text, key) = IF Another(last) THEN NextBlack(text, last) - 1 ELSE last
    BY <1>2, <1>7 DEF ArgsEnd, closes, A
  <1>11. CASE Another(last)
    <2>1. PICK m : m = NextBlack(text, last) OBVIOUS
    <2>2. m \in last + 1 .. Len(text) + 1 /\ \A x \in last + 1 .. m - 1 : text[x] = "w"
      BY <1>8, <2>1, NextBlackIs
    <2>3. m - 1 = last \/ m - 1 \in last + 1 .. m - 1 BY <1>8, <2>2
    <2>4. text[m - 1] \in {"v", "w"} BY <1>8, <2>2, <2>3
    <2>5. m - 1 \in key + 1 .. Len(text) BY <1>8, <1>9, <2>2
    <2> QED BY <1>10, <1>11, <2>1, <2>4, <2>5
  <1>12. CASE ~Another(last) BY <1>8, <1>9, <1>10, <1>12
  <1> QED BY <1>11, <1>12

\* Where an argument is opened.
LEMMA KeysAt ==
    ASSUME NEW text \in Text
    PROVE  /\ At(text, ArgKeyOpen) \in SUBSET Nat
           /\ \A i \in At(text, ArgKeyOpen) : i \in 1 .. Len(text) - 1 /\ text[i] = "k1"
  <1>1. "k1" \in Symbol /\ "k2" \in Symbol BY DEF Symbol
  <1> QED BY <1>1, AtIs DEF ArgKeyOpen

\* Where a block is opened.
LEMMA ToolsAt ==
    ASSUME NEW text \in Text
    PROVE  /\ At(text, ToolOpen) \in SUBSET Nat
           /\ \A i \in At(text, ToolOpen) :
                 i \in 1 .. Len(text) - 1 /\ text[i] = "t1" /\ text[i + 1] = "t2"
  <1>1. "t1" \in Symbol /\ "t2" \in Symbol BY DEF Symbol
  <1> QED BY <1>1, AtIs DEF ToolOpen

-----------------------------------------------------------------------------
(* Matches *)

\* Matches lie one behind the other, and nothing closes within one.
LEMMA MatchesIs ==
    ASSUME NEW opens \in SUBSET Nat, NEW closes \in SUBSET Nat,
           NEW s \in Matches(opens, closes)
    PROVE  /\ s[1] \in opens /\ s[2] \in closes /\ s[1] < s[2] /\ s = <<s[1], s[2]>>
           /\ \A c \in closes : ~(s[1] < c /\ c < s[2])
           /\ \A t \in Matches(opens, closes) : s # t => s[2] < t[1] \/ t[2] < s[1]
  <1>1. \A t \in Matches(opens, closes) :
           /\ t[1] \in opens /\ t[2] \in closes /\ t[1] < t[2] /\ t = <<t[1], t[2]>>
           /\ \A c \in closes : ~(t[1] < c /\ c < t[2])
           /\ \A o \in opens : o < t[1] => \E c \in closes : o < c /\ c < t[1]
    BY DEF Matches
  <1>2. ASSUME NEW t \in Matches(opens, closes), s # t PROVE s[2] < t[1] \/ t[2] < s[1]
    <2>1. PICK s1 \in Nat, s2 \in Nat, t1 \in Nat, t2 \in Nat :
             s1 = s[1] /\ s2 = s[2] /\ t1 = t[1] /\ t2 = t[2]
      BY <1>1
    <2>2. /\ s1 \in opens /\ s2 \in closes /\ s1 < s2
          /\ (\A c \in closes : ~(s1 < c /\ c < s2))
          /\ (s1 < t1 => \E c \in closes : s1 < c /\ c < t1)
      BY <1>1, <2>1
    <2>3. /\ t1 \in opens /\ t2 \in closes /\ t1 < t2
          /\ (\A c \in closes : ~(t1 < c /\ c < t2))
          /\ (t1 < s1 => \E c \in closes : t1 < c /\ c < s1)
      BY <1>1, <2>1
    <2>4. s1 # t1 \/ s2 # t2 BY <1>1, <1>2, <2>1
    <2>5. CASE s1 < t1
      <3>1. PICK c \in closes : s1 < c /\ c < t1 BY <2>2, <2>5
      <3>2. c \in Nat /\ ~(c < s2) BY <2>2, <3>1
      <3> QED BY <2>1, <3>1, <3>2
    <2>6. CASE t1 < s1
      <3>1. PICK c \in closes : t1 < c /\ c < s1 BY <2>3, <2>6
      <3>2. c \in Nat /\ ~(c < t2) BY <2>3, <3>1
      <3> QED BY <2>1, <3>1, <3>2
    <2>7. CASE s1 = t1
      <3>1. ~(s2 < t2) /\ ~(t2 < s2) BY <2>2, <2>3, <2>7
      <3> QED BY <2>1, <2>4, <2>7, <3>1
    <2> QED BY <2>1, <2>5, <2>6, <2>7
  <1> QED BY <1>1, <1>2

\* Whatever is opened and closed with nothing closed in between lies within a
\* match, which may begin earlier.
LEMMA MatchAround ==
    ASSUME NEW opens \in SUBSET Nat, NEW closes \in SUBSET Nat, opens \cap closes = {},
           NEW a \in opens, NEW b \in closes, a < b, \A c \in closes : ~(a < c /\ c < b)
    PROVE  \E s \in Matches(opens, closes) : s[1] <= a /\ s[2] = b
  <1> DEFINE A == {o \in opens : o <= a /\ \A c \in closes : ~(o < c /\ c < a)}
  <1>0. a \in Nat /\ closes \subseteq Nat OBVIOUS
  <1>1. A \in SUBSET Nat /\ a \in A
    <2>1. A \in SUBSET Nat OBVIOUS
    <2>2. \A c \in closes : ~(a < c /\ c < a) BY <1>0
    <2> QED BY <1>0, <2>1, <2>2
  <1>2. PICK o \in A : \A j \in A : o <= j
    <2> HIDE DEF A
    <2> QED BY <1>1, LeastNumber
  <1>3. o \in opens /\ o \in Nat /\ o <= a /\ a \in Nat /\ b \in Nat
        /\ \A c \in closes : ~(o < c /\ c < a)
    BY <1>2
  <1>4. ASSUME NEW c \in closes PROVE ~(o < c /\ c < b)
    <2>1. c \in Nat /\ c # a /\ ~(o < c /\ c < a) /\ ~(a < c /\ c < b) BY <1>3
    <2> QED BY <1>3, <2>1
  <1>5. ASSUME NEW p \in opens, p < o PROVE \E c \in closes : p < c /\ c < o
    <2>1. p \in Nat /\ ~(o <= p) /\ p <= a BY <1>3, <1>5
    <2>2. p \notin A BY <1>2, <2>1
    <2>3. PICK c \in closes : p < c /\ c < a BY <2>1, <2>2
    <2>4. c \in Nat /\ c # o /\ ~(o < c) BY <1>3, <2>3
    <2>5. c < o BY <2>4, <1>3
    <2> QED BY <2>3, <2>5
  <1>6. <<o, b>> \in Matches(opens, closes)
    <2>1. <<o, b>> \in opens \X closes /\ <<o, b>>[1] = o /\ <<o, b>>[2] = b BY <1>3
    <2>2. o < b BY <1>3
    <2> QED BY <1>4, <1>5, <2>1, <2>2 DEF Matches
  <1> QED BY <1>3, <1>6

\* The arguments of bare names lie one behind the other.
LEMMA LagunaIs ==
    ASSUME NEW text \in Text, NEW s \in Laguna(text)
    PROVE  /\ s[1] \in 1 .. Len(text) /\ s[2] \in 1 .. Len(text) /\ s[1] < s[2] /\ s = <<s[1], s[2]>>
           /\ text[s[1]] = "n"
           /\ \A t \in Laguna(text) : s # t => s[2] < t[1] \/ t[2] < s[1]
  <1> DEFINE keys == {k \in At(text, ArgKeyOpen) : NameStart(text, k) < k /\ ArgsEnd(text, k) > 0}
             outer == {k \in keys : \A h \in keys : h < k => ArgsEnd(text, h) < k}
             Is(k, t) == /\ k \in outer /\ k \in 2 .. Len(text) /\ t = <<k - 1, ArgsEnd(text, k)>>
                         /\ text[k - 1] = "n" /\ ArgsEnd(text, k) \in k + 1 .. Len(text)
                         /\ text[ArgsEnd(text, k)] \in {"v", "w"}
  <1>1. Len(text) \in Nat BY TextIs
  <1>2. ASSUME NEW t \in Laguna(text) PROVE \E k : Is(k, t)
    <2>1. PICK k \in outer : k - NameStart(text, k) = 1 /\ t = <<NameStart(text, k), ArgsEnd(text, k)>>
      BY DEF Laguna
    <2>2. k \in At(text, ArgKeyOpen) /\ ArgsEnd(text, k) > 0 BY <2>1
    <2>3. k \in 1 .. Len(text) - 1 /\ text[k] = "k1" BY <2>2, KeysAt
    <2>4. k \in Nat /\ k >= 1 BY <1>1, <2>3
    <2>5. NameStart(text, k) \in 1 .. k /\ \A x \in NameStart(text, k) .. k - 1 : text[x] = "n"
      BY <2>4, NameStartIs
    <2>6. NameStart(text, k) = k - 1 /\ k \in 2 .. Len(text) /\ text[k - 1] = "n"
      BY <1>1, <2>1, <2>3, <2>5
    <2>7. ArgsEnd(text, k) \in k + 1 .. Len(text) /\ text[ArgsEnd(text, k)] \in {"v", "w"}
      <3>1. text[k] # "v" /\ ArgsEnd(text, k) # 0 BY <2>2, <2>3
      <3> QED BY <2>4, <3>1, ArgsEndIs
    <2> QED BY <2>1, <2>6, <2>7
  <1> HIDE DEF outer
  <1>3. ASSUME NEW t \in Laguna(text)
        PROVE  /\ t[1] \in 1 .. Len(text) /\ t[2] \in 1 .. Len(text) /\ t[1] < t[2]
               /\ t = <<t[1], t[2]>> /\ text[t[1]] = "n"
    <2>1. PICK k : Is(k, t) BY <1>2
    <2> QED BY <1>1, <2>1
  <1>4. ASSUME NEW k, NEW t, NEW h, NEW u, Is(k, t), Is(h, u), h < k
        PROVE  u[2] < t[1]
    <2>1. PICK e : e = ArgsEnd(text, h) OBVIOUS
    <2>2. e < k
      <3>1. h \in keys /\ k \in outer BY <1>4 DEF outer
      <3> QED BY <3>1, <1>4, <2>1 DEF outer
    <2>3. e \in h + 1 .. Len(text) /\ text[e] \in {"v", "w"} /\ h \in Nat /\ k \in Nat
      BY <1>1, <1>4, <2>1
    <2>4. e # k - 1 BY <1>4, <2>3
    <2>5. e < k - 1 BY <2>2, <2>3, <2>4
    <2> QED BY <1>4, <2>1, <2>5
  <1>5. ASSUME NEW t \in Laguna(text), s # t PROVE s[2] < t[1] \/ t[2] < s[1]
    <2>1. PICK k : Is(k, s) BY <1>2
    <2>2. PICK h : Is(h, t) BY <1>2
    <2>3. k # h BY <2>1, <2>2, <1>5
    <2>4. k \in Nat /\ h \in Nat BY <1>1, <2>1, <2>2
    <2>5. k < h \/ h < k BY <2>3, <2>4
    <2> HIDE DEF Is
    <2> QED BY <2>1, <2>2, <2>5, <1>4
  <1> QED BY <1>3, <1>5

-----------------------------------------------------------------------------
(* Calls *)

Blocks(text) == Matches(At(text, ToolOpen), Where(text, "f"))

\* The units a block is made of: invokes, and JSON outside of all of them.
Units(text, block) ==
    InvokeCalls(text, block) \union
    {<<i, i>> : i \in {x \in JsonOutside(text, InvokeSpans(text)) : block[1] < x /\ x < block[2]}}

\* A unit is a stretch of the text.
Stretch(text, q) ==
    q = <<q[1], q[2]>> /\ q[1] \in 1 .. Len(text) /\ q[2] \in 1 .. Len(text) /\ q[1] <= q[2]

\* A call that takes out what it is read from.
Plain(text, c, q) == c = [at |-> q[1], span |-> q] /\ Stretch(text, q) /\ Extent(text, c) = q

\* Blocks are stretches of the text, one behind the other.
LEMMA BlocksAre ==
    ASSUME NEW text \in Text, NEW b \in Blocks(text)
    PROVE  /\ Stretch(text, b) /\ b[1] < b[2] /\ text[b[2]] = "f" /\ text[b[1]] = "t1"
           /\ \A c \in Blocks(text) : b # c => b[2] < c[1] \/ c[2] < b[1]
  <1> DEFINE A == At(text, ToolOpen)
             B == Where(text, "f")
  <1>1. Len(text) \in Nat BY TextIs
  <1>2. A \in SUBSET Nat /\ B \in SUBSET Nat BY ToolsAt, WhereIs
  <1>3. b \in Matches(A, B) /\ Blocks(text) = Matches(A, B) BY DEF Blocks
  <1>4. /\ \A i \in A : i \in 1 .. Len(text) /\ text[i] = "t1"
        /\ \A i \in B : i \in 1 .. Len(text) /\ text[i] = "f"
    BY <1>1, ToolsAt, WhereIs
  <1> HIDE DEF A, B
  <1>5. /\ b[1] \in A /\ b[2] \in B /\ b[1] < b[2] /\ b = <<b[1], b[2]>>
        /\ \A t \in Matches(A, B) : b # t => b[2] < t[1] \/ t[2] < b[1]
    BY <1>2, <1>3, MatchesIs
  <1>6. Stretch(text, b) BY <1>1, <1>4, <1>5 DEF Stretch
  <1> QED BY <1>3, <1>4, <1>5, <1>6

\* What the first sweeps find: a wrapped name, alone in the text, or a bare one
\* with its arguments.
LEMMA NamesAre ==
    ASSUME NEW text \in Text, NEW c \in Patterns8(text)
    PROVE  \E q : /\ Plain(text, c, q)
                  /\ \/ q[1] = q[2] /\ text[q[1]] = "z"
                     \/ q \in Laguna(text)
  <1>1. Len(text) \in Nat BY TextIs
  <1>2. PICK q \in Wrapped(text) \union Laguna(text) : c = [at |-> q[1], span |-> q]
    BY DEF Patterns8, Own
  <1>3. c.at = q[1] /\ c.span = q BY <1>2
  <1>4. CASE q \in Wrapped(text)
    <2>1. PICK i \in Where(text, "z") : q = <<i, i>> BY <1>4 DEF Wrapped
    <2>2. i \in 1 .. Len(text) /\ text[i] = "z" BY WhereIs
    <2>3. q[1] = i /\ q[2] = i BY <2>1
    <2>4. Stretch(text, q) BY <1>1, <2>1, <2>2, <2>3 DEF Stretch
    <2>5. Extent(text, c) = q BY <1>3, <2>2, <2>3 DEF Extent
    <2> QED BY <1>2, <2>2, <2>3, <2>4, <2>5 DEF Plain
  <1>5. CASE q \in Laguna(text)
    <2>1. /\ q[1] \in 1 .. Len(text) /\ q[2] \in 1 .. Len(text) /\ q[1] < q[2] /\ q = <<q[1], q[2]>>
          /\ text[q[1]] = "n"
      BY <1>5, LagunaIs
    <2>2. Stretch(text, q) BY <1>1, <2>1 DEF Stretch
    <2>3. Extent(text, c) = q BY <1>3, <2>1 DEF Extent
    <2> QED BY <1>2, <1>5, <2>2, <2>3 DEF Plain
  <1> QED BY <1>2, <1>4, <1>5

\* The units of a block lie within it, one behind the other.
LEMMA UnitsAre ==
    ASSUME NEW text \in Text, NEW b \in Blocks(text), NEW q \in Units(text, b)
    PROVE  /\ Stretch(text, q) /\ b[1] < q[1] /\ q[2] < b[2]
           /\ \/ text[q[1]] = "i1" /\ q[2] = Min({x \in Where(text, "i2") : x > q[1]})
              \/ text[q[1]] # "i1" /\ q[1] = q[2]
           /\ \A r \in Units(text, b) : q # r => q[2] < r[1] \/ r[2] < q[1]
  <1> DEFINE I == Where(text, "i1")
             J == Where(text, "i2")
             opens == I \cap (b[1] .. b[2])
             closes == J \cap (b[1] .. b[2])
             Invoke(r) == /\ r[1] \in opens /\ r[2] \in closes /\ r[1] < r[2]
                          /\ \A x \in J : ~(r[1] < x /\ x < r[2])
             Json(i) == i \in 1 .. Len(text) /\ text[i] = "j" /\ ~Overlaps(InvokeSpans(text), i)
                        /\ b[1] < i /\ i < b[2]
  <1>1. Len(text) \in Nat BY TextIs
  <1>2. /\ I \in SUBSET Nat /\ J \in SUBSET Nat
        /\ \A i \in I : i \in 1 .. Len(text) /\ text[i] = "i1"
        /\ \A i \in J : i \in 1 .. Len(text) /\ text[i] = "i2"
        /\ I \cap J = {}
    BY WhereIs
  <1>3. /\ b[1] \in 1 .. Len(text) /\ b[2] \in 1 .. Len(text) /\ b[1] < b[2]
        /\ text[b[2]] = "f" /\ text[b[1]] = "t1"
    BY BlocksAre DEF Stretch
  <1>4. opens \in SUBSET Nat /\ closes \in SUBSET Nat BY <1>2
  <1>5. InvokeSpans(text) = Matches(I, J) BY DEF InvokeSpans
  <1>6. InvokeCalls(text, b) \subseteq Matches(opens, closes) BY DEF InvokeCalls
  <1>7. ASSUME NEW i, Json(i) PROVE i \in Nat /\ i # b[1] BY <1>1, <1>7
  <1>8. \A r \in Units(text, b) :
           \/ r \in Matches(opens, closes)
           \/ \E i : r = <<i, i>> /\ Json(i)
    <2> SUFFICES ASSUME NEW r \in Units(text, b), r \notin Matches(opens, closes)
                 PROVE  \E i : r = <<i, i>> /\ Json(i)
      OBVIOUS
    <2>1. PICK i \in JsonOutside(text, InvokeSpans(text)) : r = <<i, i>> /\ b[1] < i /\ i < b[2]
      BY <1>6 DEF Units
    <2>2. i \in Where(text, "j") /\ ~Overlaps(InvokeSpans(text), i) BY DEF JsonOutside
    <2>3. i \in 1 .. Len(text) /\ text[i] = "j" BY <2>2, WhereIs
    <2> QED BY <2>1, <2>2, <2>3
  <1> HIDE DEF I, J, opens, closes
  <1>9. ASSUME NEW r \in Matches(opens, closes)
        PROVE  /\ Invoke(r) /\ r = <<r[1], r[2]>>
               /\ \A t \in Matches(opens, closes) : r # t => r[2] < t[1] \/ t[2] < r[1]
    <2>1. /\ r[1] \in opens /\ r[2] \in closes /\ r[1] < r[2] /\ r = <<r[1], r[2]>>
          /\ \A c \in closes : ~(r[1] < c /\ c < r[2])
          /\ \A t \in Matches(opens, closes) : r # t => r[2] < t[1] \/ t[2] < r[1]
      BY <1>4, MatchesIs
    <2>2. ASSUME NEW x \in J, r[1] < x, x < r[2] PROVE FALSE
      <3>1. x \in Nat /\ r[1] \in b[1] .. b[2] /\ r[2] \in b[1] .. b[2] BY <1>2, <2>1 DEF opens, closes
      <3>2. x \in b[1] .. b[2] BY <1>3, <2>2, <3>1
      <3>3. x \in closes BY <3>2 DEF closes
      <3> QED BY <2>1, <2>2, <3>3
    <2> QED BY <2>1, <2>2
  <1>10. ASSUME NEW r, Invoke(r)
         PROVE  /\ r[1] \in 1 .. Len(text) /\ r[2] \in 1 .. Len(text) /\ r[1] < r[2]
                /\ b[1] < r[1] /\ r[2] < b[2] /\ text[r[1]] = "i1"
    <2>1. /\ r[1] \in I /\ r[2] \in J /\ r[1] < r[2]
          /\ r[1] \in b[1] .. b[2] /\ r[2] \in b[1] .. b[2]
      BY <1>10 DEF opens, closes
    <2>2. text[r[1]] = "i1" /\ text[r[2]] = "i2" /\ r[1] \in 1 .. Len(text) /\ r[2] \in 1 .. Len(text)
      BY <2>1, <1>2
    <2>3. r[1] # b[1] /\ r[2] # b[2] BY <2>2, <1>3
    <2> QED BY <1>3, <2>1, <2>2, <2>3
  <1>11. ASSUME NEW r, Invoke(r), NEW i, Json(i) PROVE i < r[1] \/ r[2] < i
    <2>1. r[1] \in I /\ r[2] \in J /\ r[1] < r[2] BY <1>11 DEF opens, closes
    <2>2. PICK s \in Matches(I, J) : s[1] <= r[1] /\ s[2] = r[2]
      <3>1. PICK x \in I, y \in J : x = r[1] /\ y = r[2] BY <2>1
      <3>2. x < y /\ \A c \in J : ~(x < c /\ c < y) BY <1>11, <2>1, <3>1
      <3> QED BY <1>2, <3>1, <3>2, MatchAround
    <2>3. s[1] \in Nat /\ s[2] \in Nat
      <3>1. s[1] \in I /\ s[2] \in J BY <1>2, MatchesIs
      <3> QED BY <1>2, <3>1
    <2>4. ~(s[1] <= i /\ i <= s[2]) BY <1>5, <1>11 DEF Overlaps
    <2>5. i \in Nat /\ r[1] \in Nat /\ r[2] \in Nat BY <1>2, <1>7, <1>11, <2>1
    <2> QED BY <2>2, <2>3, <2>4, <2>5
  <1>12. ASSUME NEW r, Invoke(r) PROVE r[2] = Min({x \in J : x > r[1]})
    <2> DEFINE X == {x \in J : x > r[1]}
    <2>1. r[1] \in Nat /\ r[2] \in Nat /\ r[2] \in J /\ r[1] < r[2] BY <1>2, <1>12 DEF opens, closes
    <2>2. X \in SUBSET Nat /\ r[2] \in X BY <1>2, <2>1
    <2>3. \A x \in X : x \in J /\ r[1] < x BY <2>1, <1>2
    <2> HIDE DEF X
    <2>4. Min(X) \in X /\ Min(X) \in Nat /\ Min(X) <= r[2] BY <2>2, MinIs
    <2>5. ~(Min(X) < r[2]) BY <1>12, <2>3, <2>4
    <2>6. r[2] = Min(X) BY <2>1, <2>4, <2>5
    <2> QED BY <2>6 DEF X
  <1> HIDE DEF Invoke, Json
  <1>13. CASE q \in Matches(opens, closes)
    <2>1. Invoke(q) /\ q = <<q[1], q[2]>> BY <1>9, <1>13
    <2>2. /\ q[1] \in 1 .. Len(text) /\ q[2] \in 1 .. Len(text) /\ q[1] < q[2]
          /\ b[1] < q[1] /\ q[2] < b[2] /\ text[q[1]] = "i1"
      BY <2>1, <1>10
    <2>3. Stretch(text, q) BY <1>1, <2>1, <2>2 DEF Stretch
    <2>4. q[2] = Min({x \in Where(text, "i2") : x > q[1]}) BY <2>1, <1>12 DEF J
    <2>5. ASSUME NEW r \in Units(text, b), q # r PROVE q[2] < r[1] \/ r[2] < q[1]
      <3>1. CASE r \in Matches(opens, closes) BY <1>9, <1>13, <2>5, <3>1
      <3>2. ASSUME NEW i, r = <<i, i>>, Json(i) PROVE q[2] < r[1] \/ r[2] < q[1]
        <4>1. r[1] = i /\ r[2] = i BY <3>2
        <4> QED BY <4>1, <3>2, <2>1, <1>11
      <3> QED BY <1>8, <3>1, <3>2
    <2> QED BY <2>2, <2>3, <2>4, <2>5
  <1>14. ASSUME NEW i, q = <<i, i>>, Json(i)
         PROVE  /\ Stretch(text, q) /\ b[1] < q[1] /\ q[2] < b[2]
                /\ text[q[1]] # "i1" /\ q[1] = q[2]
                /\ \A r \in Units(text, b) : q # r => q[2] < r[1] \/ r[2] < q[1]
    <2>1. q[1] = i /\ q[2] = i BY <1>14
    <2>2. i \in 1 .. Len(text) /\ text[i] = "j" /\ b[1] < i /\ i < b[2] BY <1>14 DEF Json
    <2>3. Stretch(text, q) BY <1>1, <1>14, <2>1, <2>2 DEF Stretch
    <2>4. ASSUME NEW r \in Units(text, b), q # r PROVE q[2] < r[1] \/ r[2] < q[1]
      <3>1. CASE r \in Matches(opens, closes)
        <4>1. Invoke(r) BY <1>9, <3>1
        <4> QED BY <4>1, <1>14, <2>1, <1>11
      <3>2. ASSUME NEW h, r = <<h, h>>, Json(h) PROVE q[2] < r[1] \/ r[2] < q[1]
        <4>1. r[1] = h /\ r[2] = h /\ h # i BY <3>2, <2>4, <1>14
        <4>2. h \in Nat /\ i \in Nat BY <1>1, <2>2, <3>2 DEF Json
        <4> QED BY <2>1, <4>1, <4>2
      <3> QED BY <1>8, <3>1, <3>2
    <2> QED BY <2>1, <2>2, <2>3, <2>4
  <1> QED BY <1>8, <1>13, <1>14

\* A call of a block is one of its units, and takes out that or all of the block.
LEMMA BlockCallsAre ==
    ASSUME NEW text \in Text, NEW b \in Blocks(text), NEW c \in BlockCalls(text, b)
    PROVE  \E q \in Units(text, b) :
              /\ c.at = q[1] /\ c.span \in {q, b} /\ Extent(text, c) = q
              /\ c = [at |-> q[1], span |-> c.span]
              /\ \A d \in BlockCalls(text, b) :
                    \E r \in Units(text, b) :
                       /\ d.at = r[1] /\ Extent(text, d) = r /\ d = [at |-> r[1], span |-> d.span]
                       /\ (c.span = q /\ d.span = r) \/ (c.span = b /\ d.span = b)
  <1> DEFINE calls == Units(text, b)
             clean == \A i \in b[1] + 2 .. b[2] - 1 : text[i] = "w" \/ Overlaps(calls, i)
  <1>1. BlockCalls(text, b) = {[at |-> q[1], span |-> IF clean THEN b ELSE q] : q \in calls}
    BY DEF BlockCalls, Taken, Units
  <1> HIDE DEF clean
  <1>2. ASSUME NEW d \in BlockCalls(text, b)
        PROVE  \E q \in calls : /\ d = [at |-> q[1], span |-> d.span] /\ d.at = q[1]
                                /\ d.span = IF clean THEN b ELSE q
                                /\ Extent(text, d) = q
    <2>1. PICK q \in calls : d = [at |-> q[1], span |-> IF clean THEN b ELSE q] BY <1>1
    <2>2. d.at = q[1] /\ d.span = (IF clean THEN b ELSE q) BY <2>1
    <2>3. /\ Stretch(text, q) /\ b[1] < q[1]
          /\ \/ text[q[1]] = "i1" /\ q[2] = Min({x \in Where(text, "i2") : x > q[1]})
             \/ text[q[1]] # "i1" /\ q[1] = q[2]
      BY UnitsAre
    <2>4. q = <<q[1], q[2]>> BY <2>3 DEF Stretch
    <2>5. b[1] # q[1]
      <3>1. b[1] \in Nat /\ q[1] \in Nat BY <2>3, BlocksAre, TextIs DEF Stretch
      <3> QED BY <2>3, <3>1
    <2>6. CASE text[q[1]] = "i1"
      <3>1. Extent(text, d) = <<q[1], Min({x \in Where(text, "i2") : x > q[1]})>>
        BY <2>2, <2>6 DEF Extent
      <3> QED BY <2>1, <2>2, <2>3, <2>4, <2>6, <3>1
    <2>7. CASE text[q[1]] # "i1"
      <3>1. Extent(text, d) = IF d.span[1] = q[1] THEN d.span ELSE <<q[1], q[1]>>
        BY <2>2, <2>7 DEF Extent
      <3>2. q = <<q[1], q[1]>> BY <2>3, <2>4, <2>7
      <3>3. d.span = b \/ d.span = q BY <2>2
      <3>4. Extent(text, d) = q BY <2>5, <3>1, <3>2, <3>3
      <3> QED BY <2>1, <2>2, <3>4
    <2> QED BY <2>6, <2>7
  <1>3. PICK q \in calls : /\ c = [at |-> q[1], span |-> c.span] /\ c.at = q[1]
                           /\ c.span = (IF clean THEN b ELSE q) /\ Extent(text, c) = q
    BY <1>2
  <1>4. ASSUME NEW d \in BlockCalls(text, b)
        PROVE  \E r \in Units(text, b) :
                  /\ d.at = r[1] /\ Extent(text, d) = r /\ d = [at |-> r[1], span |-> d.span]
                  /\ (c.span = q /\ d.span = r) \/ (c.span = b /\ d.span = b)
    <2>1. PICK r \in calls : /\ d = [at |-> r[1], span |-> d.span] /\ d.at = r[1]
                             /\ d.span = (IF clean THEN b ELSE r) /\ Extent(text, d) = r
      BY <1>2
    <2> QED BY <1>3, <2>1
  <1> QED BY <1>3, <1>4

\* The last sweep finds JSON that no call before took out.
LEMMA BareAre ==
    ASSUME NEW text \in Text, NEW done, NEW c \in Pattern6(text, done)
    PROVE  \E q : /\ Plain(text, c, q) /\ q[1] = q[2]
                  /\ \A d \in done : ~(d.span[1] <= q[1] /\ q[1] <= d.span[2])
  <1>1. PICK i \in JsonOutside(text, InvokeSpans(text)) :
           ~Overlaps(SpansOf(done), i) /\ c = [at |-> <<i, i>>[1], span |-> <<i, i>>]
    BY DEF Pattern6, Own
  <1> DEFINE q == <<i, i>>
  <1>2. i \in 1 .. Len(text) /\ text[i] = "j"
    <2>1. i \in Where(text, "j") BY DEF JsonOutside
    <2> QED BY <2>1, WhereIs
  <1>3. q[1] = i /\ q[2] = i /\ i <= i BY <1>2, TextIs
  <1>4. c.at = i /\ c.span = q /\ c.span[1] = i BY <1>1, <1>3
  <1>5. Extent(text, c) = q BY <1>2, <1>4 DEF Extent
  <1>6. Stretch(text, q) BY <1>2, <1>3 DEF Stretch
  <1>7. \A d \in done : ~(d.span[1] <= i /\ i <= d.span[2]) BY <1>1 DEF Overlaps, SpansOf
  <1> QED BY <1>1, <1>3, <1>5, <1>6, <1>7 DEF Plain

\* The emitter writes a wrapped name only where there is nothing else.
WrappedAlone(text) == \A i \in 1 .. Len(text) : text[i] = "z" => Len(text) = 1

\* c lies in front of d.
InFrontOf(text, c, d) ==
    /\ Extent(text, c)[2] < Extent(text, d)[1]
    /\ (c.span = d.span \/ c.span[2] < d.span[1])

Sided(text, c, d) == InFrontOf(text, c, d) \/ InFrontOf(text, d, c)

\* Names with their arguments are not within each other.
LEMMA NamesSided ==
    ASSUME NEW text \in Text, WrappedAlone(text),
           NEW c \in Patterns8(text), NEW d \in Patterns8(text), c # d
    PROVE  Sided(text, c, d)
  <1>1. PICK q : /\ Plain(text, c, q)
                 /\ (q[1] = q[2] /\ text[q[1]] = "z") \/ q \in Laguna(text)
    BY NamesAre
  <1>2. PICK r : /\ Plain(text, d, r)
                 /\ (r[1] = r[2] /\ text[r[1]] = "z") \/ r \in Laguna(text)
    BY NamesAre
  <1>3. /\ q = <<q[1], q[2]>> /\ q[1] \in 1 .. Len(text) /\ q[2] \in 1 .. Len(text)
        /\ r = <<r[1], r[2]>> /\ r[1] \in 1 .. Len(text) /\ r[2] \in 1 .. Len(text)
        /\ Extent(text, c) = q /\ Extent(text, d) = r /\ c.span = q /\ d.span = r
        /\ q # r /\ Len(text) \in Nat
    BY <1>1, <1>2, TextIs DEF Plain, Stretch
  <1>4. CASE q \in Laguna(text) /\ r \in Laguna(text)
    <2>1. q[2] < r[1] \/ r[2] < q[1] BY <1>3, <1>4, LagunaIs
    <2> QED BY <1>3, <2>1 DEF Sided, InFrontOf
  <1>5. ASSUME text[q[1]] = "z" \/ text[r[1]] = "z" PROVE FALSE
    <2>1. Len(text) = 1 BY <1>3, <1>5 DEF WrappedAlone
    <2>2. q = <<1, 1>> /\ r = <<1, 1>>
      <3>1. q[1] = 1 /\ q[2] = 1 /\ r[1] = 1 /\ r[2] = 1 BY <1>3, <2>1
      <3> QED BY <1>3, <3>1
    <2> QED BY <1>3, <2>2
  <1> QED BY <1>1, <1>2, <1>4, <1>5

\* Nor are they within blocks, or blocks within them.
LEMMA NameAndBlockSided ==
    ASSUME NEW text \in Text, WrappedAlone(text), ~ArgsInBlock(text),
           NEW c \in Patterns8(text), NEW b \in Blocks(text),
           ~Overlaps(SpansOf(Patterns8(text)), b[1]), NEW d \in BlockCalls(text, b)
    PROVE  Sided(text, c, d)
  <1>1. PICK q : /\ Plain(text, c, q)
                 /\ (q[1] = q[2] /\ text[q[1]] = "z") \/ q \in Laguna(text)
    BY NamesAre
  <1>2. PICK r \in Units(text, b) : Extent(text, d) = r /\ d.span \in {r, b} BY BlockCallsAre
  <1>3. /\ q[1] \in 1 .. Len(text) /\ q[2] \in 1 .. Len(text) /\ q[1] <= q[2]
        /\ r[1] \in 1 .. Len(text) /\ r[2] \in 1 .. Len(text) /\ r[1] <= r[2]
        /\ b[1] < r[1] /\ r[2] < b[2]
        /\ Extent(text, c) = q /\ c.span = q /\ Len(text) \in Nat
    BY <1>1, <1>2, UnitsAre, TextIs DEF Plain, Stretch
  <1>4. b[1] \in 1 .. Len(text) /\ b[2] \in 1 .. Len(text) /\ b[1] < b[2] /\ text[b[2]] = "f"
    BY BlocksAre DEF Stretch
  <1>5. CASE text[q[1]] = "z"
    <2>1. Len(text) = 1 BY <1>3, <1>5 DEF WrappedAlone
    <2> QED BY <1>4, <2>1
  <1>6. CASE q \in Laguna(text)
    <2>1. ~(q[1] <= b[1] /\ b[1] <= q[2])
      <3>1. q \in SpansOf(Patterns8(text)) BY <1>3 DEF SpansOf
      <3> QED BY <3>1 DEF Overlaps
    <2>2. ~(b[1] < q[1] /\ q[1] < b[2]) BY <1>6 DEF ArgsInBlock, Blocks
    <2>3. q[1] # b[2] BY <1>4, <1>6, LagunaIs
    <2>4. q[2] < b[1] \/ b[2] < q[1] BY <1>3, <1>4, <2>1, <2>2, <2>3
    <2>5. CASE q[2] < b[1]
      <3>1. q[2] < r[1] BY <1>3, <1>4, <2>5
      <3> QED BY <1>2, <1>3, <2>5, <3>1 DEF Sided, InFrontOf
    <2>6. CASE b[2] < q[1]
      <3>1. r[2] < q[1] BY <1>3, <1>4, <2>6
      <3> QED BY <1>2, <1>3, <2>6, <3>1 DEF Sided, InFrontOf
    <2> QED BY <2>4, <2>5, <2>6
  <1> QED BY <1>1, <1>5, <1>6

\* The calls of one block or of two.
LEMMA BlocksSided ==
    ASSUME NEW text \in Text, NEW a \in Blocks(text), NEW b \in Blocks(text),
           NEW c \in BlockCalls(text, a), NEW d \in BlockCalls(text, b), c # d
    PROVE  Sided(text, c, d)
  <1>1. Len(text) \in Nat BY TextIs
  <1>2. CASE a = b
    <2>1. PICK q \in Units(text, a) :
             /\ Extent(text, c) = q /\ c = [at |-> q[1], span |-> c.span]
             /\ \A x \in BlockCalls(text, a) :
                   \E r \in Units(text, a) :
                       /\ Extent(text, x) = r /\ x = [at |-> r[1], span |-> x.span]
                       /\ (c.span = q /\ x.span = r) \/ (c.span = a /\ x.span = a)
      BY BlockCallsAre
    <2>2. PICK r \in Units(text, a) :
             /\ Extent(text, d) = r /\ d = [at |-> r[1], span |-> d.span]
             /\ (c.span = q /\ d.span = r) \/ (c.span = a /\ d.span = a)
      BY <1>2, <2>1
    <2>3. q # r BY <2>1, <2>2
    <2>4. q[2] < r[1] \/ r[2] < q[1] BY <2>3, UnitsAre
    <2> QED BY <2>1, <2>2, <2>4 DEF Sided, InFrontOf
  <1>3. CASE a # b
    <2>1. PICK q \in Units(text, a) : Extent(text, c) = q /\ c.span \in {q, a} BY BlockCallsAre
    <2>2. PICK r \in Units(text, b) : Extent(text, d) = r /\ d.span \in {r, b} BY BlockCallsAre
    <2>3. /\ q[1] \in 1 .. Len(text) /\ q[2] \in 1 .. Len(text) /\ a[1] < q[1] /\ q[2] < a[2]
          /\ r[1] \in 1 .. Len(text) /\ r[2] \in 1 .. Len(text) /\ b[1] < r[1] /\ r[2] < b[2]
      BY UnitsAre DEF Stretch
    <2>4. /\ a[1] \in 1 .. Len(text) /\ a[2] \in 1 .. Len(text)
          /\ b[1] \in 1 .. Len(text) /\ b[2] \in 1 .. Len(text)
      BY BlocksAre DEF Stretch
    <2>5. a[2] < b[1] \/ b[2] < a[1] BY <1>3, BlocksAre
    <2>6. CASE a[2] < b[1]
      <3>1. q[2] < r[1] /\ q[2] < b[1] /\ a[2] < r[1] BY <1>1, <2>3, <2>4, <2>6
      <3> QED BY <2>1, <2>2, <2>6, <3>1 DEF Sided, InFrontOf
    <2>7. CASE b[2] < a[1]
      <3>1. r[2] < q[1] /\ r[2] < a[1] /\ b[2] < q[1] BY <1>1, <2>3, <2>4, <2>7
      <3> QED BY <2>1, <2>2, <2>7, <3>1 DEF Sided, InFrontOf
    <2> QED BY <2>5, <2>6, <2>7
  <1> QED BY <1>2, <1>3

\* What all calls before the last sweep have in common: each is read from within
\* what it takes out.
LEMMA ReadWithin ==
    ASSUME NEW text \in Text, NEW c \in WithBlocks(text, Patterns8(text))
    PROVE  \E q \in (1 .. Len(text)) \X (1 .. Len(text)) :
              /\ Extent(text, c) = q /\ q[1] <= q[2]
              /\ c.span[1] \in 1 .. Len(text) /\ c.span[2] \in 1 .. Len(text)
              /\ c.span[1] <= q[1] /\ q[2] <= c.span[2]
              /\ c.at \in 1 .. Len(text) /\ c.span \in (1 .. Len(text)) \X (1 .. Len(text))
              /\ c = [at |-> c.at, span |-> c.span]
  <1>1. Len(text) \in Nat BY TextIs
  <1>2. CASE c \in Patterns8(text)
    <2>1. PICK q : Plain(text, c, q) BY <1>2, NamesAre
    <2>2. /\ q = <<q[1], q[2]>> /\ q[1] \in 1 .. Len(text) /\ q[2] \in 1 .. Len(text) /\ q[1] <= q[2]
          /\ Extent(text, c) = q /\ c.at = q[1] /\ c.span = q /\ c = [at |-> q[1], span |-> q]
      BY <2>1 DEF Plain, Stretch
    <2>3. q \in (1 .. Len(text)) \X (1 .. Len(text)) BY <2>2
    <2> QED BY <1>1, <2>2, <2>3
  <1>3. CASE c \notin Patterns8(text)
    <2>1. PICK b \in Blocks(text) : c \in BlockCalls(text, b)
      BY <1>3 DEF WithBlocks, Pattern4d, Blocks
    <2>2. PICK q \in Units(text, b) :
             /\ c.at = q[1] /\ c.span \in {q, b} /\ Extent(text, c) = q
             /\ c = [at |-> q[1], span |-> c.span]
      BY <2>1, BlockCallsAre
    <2>3. /\ q = <<q[1], q[2]>> /\ q[1] \in 1 .. Len(text) /\ q[2] \in 1 .. Len(text) /\ q[1] <= q[2]
          /\ b[1] < q[1] /\ q[2] < b[2]
      BY UnitsAre DEF Stretch
    <2>4. b = <<b[1], b[2]>> /\ b[1] \in 1 .. Len(text) /\ b[2] \in 1 .. Len(text)
      BY BlocksAre DEF Stretch
    <2>5. /\ q \in (1 .. Len(text)) \X (1 .. Len(text))
          /\ b \in (1 .. Len(text)) \X (1 .. Len(text))
      BY <2>3, <2>4
    <2>6. CASE c.span = q BY <1>1, <2>2, <2>3, <2>5, <2>6
    <2>7. CASE c.span = b
      <3>1. b[1] <= q[1] /\ q[2] <= b[2] BY <1>1, <2>3, <2>4
      <3> QED BY <2>2, <2>3, <2>4, <2>5, <2>7, <3>1
    <2> QED BY <2>2, <2>6, <2>7
  <1> QED BY <1>2, <1>3

\* The last sweep against those before it.
LEMMA BareSided ==
    ASSUME NEW text \in Text, NEW c \in WithBlocks(text, Patterns8(text)),
           NEW d \in Pattern6(text, WithBlocks(text, Patterns8(text)))
    PROVE  Sided(text, c, d)
  <1> DEFINE done == WithBlocks(text, Patterns8(text))
  <1>1. PICK r : /\ Plain(text, d, r) /\ r[1] = r[2]
                 /\ \A x \in done : ~(x.span[1] <= r[1] /\ r[1] <= x.span[2])
    BY BareAre
  <1>2. r[1] \in 1 .. Len(text) /\ Extent(text, d) = r /\ d.span = r /\ Len(text) \in Nat
    BY <1>1, TextIs DEF Plain, Stretch
  <1>3. PICK q \in (1 .. Len(text)) \X (1 .. Len(text)) :
           /\ Extent(text, c) = q /\ q[1] <= q[2]
           /\ c.span[1] \in 1 .. Len(text) /\ c.span[2] \in 1 .. Len(text)
           /\ c.span[1] <= q[1] /\ q[2] <= c.span[2]
    BY ReadWithin
  <1>4. q[1] \in 1 .. Len(text) /\ q[2] \in 1 .. Len(text) BY <1>3
  <1>5. ~(c.span[1] <= r[1] /\ r[1] <= c.span[2]) BY <1>1
  <1>6. CASE r[1] < c.span[1]
    <2>1. r[2] < q[1] BY <1>1, <1>2, <1>3, <1>4, <1>6
    <2> QED BY <1>1, <1>2, <1>3, <1>6, <2>1 DEF Sided, InFrontOf
  <1>7. CASE c.span[2] < r[1]
    <2>1. q[2] < r[1] BY <1>1, <1>2, <1>3, <1>4, <1>7
    <2> QED BY <1>1, <1>2, <1>3, <1>7, <2>1 DEF Sided, InFrontOf
  <1>8. r[1] < c.span[1] \/ c.span[2] < r[1] BY <1>2, <1>3, <1>5
  <1> QED BY <1>6, <1>7, <1>8

\* Two calls of the last sweep.
LEMMA BaresSided ==
    ASSUME NEW text \in Text, NEW done,
           NEW c \in Pattern6(text, done), NEW d \in Pattern6(text, done), c # d
    PROVE  Sided(text, c, d)
  <1>1. PICK q : Plain(text, c, q) /\ q[1] = q[2] BY BareAre
  <1>2. PICK r : Plain(text, d, r) /\ r[1] = r[2] BY BareAre
  <1>3. /\ q = <<q[1], q[2]>> /\ q[1] \in 1 .. Len(text) /\ Extent(text, c) = q /\ c.span = q
        /\ r = <<r[1], r[2]>> /\ r[1] \in 1 .. Len(text) /\ Extent(text, d) = r /\ d.span = r
        /\ q # r /\ Len(text) \in Nat
    BY <1>1, <1>2, TextIs DEF Plain, Stretch
  <1>4. q[1] # r[1] BY <1>1, <1>2, <1>3
  <1>5. q[2] < r[1] \/ r[2] < q[1] BY <1>1, <1>2, <1>3, <1>4
  <1> QED BY <1>3, <1>5 DEF Sided, InFrontOf

\* Whatever the text, no two of the calls read from it overlap, unless a bare
\* name's arguments begin within a block.
THEOREM CallsAreApart ==
    ASSUME NEW text \in Text, WrappedAlone(text), ~ArgsInBlock(text)
    PROVE  Apart(text, Calls(text))
  <1> DEFINE names == Patterns8(text)
             done == WithBlocks(text, names)
             bares == Pattern6(text, done)
  <1>1. Calls(text) = done \union bares BY DEF Calls, WithBareJson
  <1>2. \A c \in done \ names :
           \E b \in Blocks(text) : c \in BlockCalls(text, b) /\ ~Overlaps(SpansOf(names), b[1])
    BY DEF WithBlocks, Pattern4d, Blocks
  <1>3. ASSUME NEW c \in done, NEW d \in done, c # d PROVE Sided(text, c, d)
    <2>1. CASE c \in names /\ d \in names BY <1>3, <2>1, NamesSided
    <2>2. CASE c \in names /\ d \notin names
      <3>1. PICK b \in Blocks(text) : d \in BlockCalls(text, b) /\ ~Overlaps(SpansOf(names), b[1])
        BY <1>2, <2>2
      <3> QED BY <2>2, <3>1, NameAndBlockSided
    <2>3. CASE c \notin names /\ d \in names
      <3>1. PICK b \in Blocks(text) : c \in BlockCalls(text, b) /\ ~Overlaps(SpansOf(names), b[1])
        BY <1>2, <2>3
      <3>2. Sided(text, d, c) BY <2>3, <3>1, NameAndBlockSided
      <3> QED BY <3>2 DEF Sided
    <2>4. CASE c \notin names /\ d \notin names
      <3>1. PICK a \in Blocks(text) : c \in BlockCalls(text, a) BY <1>2, <2>4
      <3>2. PICK b \in Blocks(text) : d \in BlockCalls(text, b) BY <1>2, <2>4
      <3> QED BY <1>3, <3>1, <3>2, BlocksSided
    <2> QED BY <2>1, <2>2, <2>3, <2>4
  <1>4. ASSUME NEW c \in done, NEW d \in bares PROVE Sided(text, c, d) BY BareSided
  <1>5. ASSUME NEW c \in bares, NEW d \in bares, c # d PROVE Sided(text, c, d) BY <1>5, BaresSided
  <1> HIDE DEF done, bares
  <1>6. ASSUME NEW c \in Calls(text), NEW d \in Calls(text), c # d PROVE Sided(text, c, d)
    <2>1. CASE c \in bares /\ d \in done
      <3>1. Sided(text, d, c) BY <2>1, <1>4
      <3> QED BY <3>1 DEF Sided
    <2> QED BY <1>1, <1>3, <1>4, <1>5, <1>6, <2>1
  <1> QED BY <1>6 DEF Apart, Sided, InFrontOf

-----------------------------------------------------------------------------
(* Types *)

Call == [at : Nat, span : Nat \X Nat]

\* Only finitely many calls can be read from a text.
LEMMA CallsFinite ==
    ASSUME NEW text \in Text
    PROVE  Calls(text) \subseteq Call /\ IsFiniteSet(Calls(text))
  <1> DEFINE n == Len(text)
             spans == (1 .. n) \X (1 .. n)
             pairs == (1 .. n) \X spans
             all == {[at |-> p[1], span |-> p[2]] : p \in pairs}
             f == [p \in pairs |-> [at |-> p[1], span |-> p[2]]]
  <1>1. n \in Nat BY TextIs
  <1>2. IsFiniteSet(pairs)
    <2>1. 1 \in Int /\ n \in Int BY <1>1
    <2>2. IsFiniteSet(1 .. n) BY <2>1, FS_Interval
    <2>3. IsFiniteSet(spans) BY <2>2, FS_Product
    <2> QED BY <2>2, <2>3, FS_Product
  <1>3. f \in Surjection(pairs, all)
    <2>1. f \in [pairs -> all] OBVIOUS
    <2>2. \A x \in all : \E p \in pairs : f[p] = x OBVIOUS
    <2> QED BY <2>1, <2>2 DEF Surjection
  <1>4. IsFiniteSet(all)
    <2> HIDE DEF f, all, pairs
    <2> QED BY <1>2, <1>3, FS_Surjection
  <1>5. ASSUME NEW c, c.at \in 1 .. n, c.span \in spans, c = [at |-> c.at, span |-> c.span]
        PROVE  c \in all
    <2>1. <<c.at, c.span>> \in pairs BY <1>5
    <2> QED BY <1>5, <2>1
  <1>6. all \subseteq Call
    <2> SUFFICES ASSUME NEW p \in pairs PROVE [at |-> p[1], span |-> p[2]] \in Call OBVIOUS
    <2>1. p[1] \in Nat /\ p[2] \in Nat \X Nat BY <1>1
    <2> QED BY <2>1 DEF Call
  <1>7. Calls(text) \subseteq all
    <2> SUFFICES ASSUME NEW c \in Calls(text) PROVE c \in all OBVIOUS
    <2> DEFINE done == WithBlocks(text, Patterns8(text))
    <2>1. c \in done \/ c \in Pattern6(text, done) BY DEF Calls, WithBareJson
    <2>2. CASE c \in done
      <3>1. c.at \in 1 .. n /\ c.span \in spans /\ c = [at |-> c.at, span |-> c.span]
        BY <2>2, ReadWithin
      <3> QED BY <3>1, <1>5
    <2>3. CASE c \in Pattern6(text, done)
      <3>1. PICK q : Plain(text, c, q) BY <2>3, BareAre
      <3>2. /\ q = <<q[1], q[2]>> /\ q[1] \in 1 .. n /\ q[2] \in 1 .. n
            /\ c.at = q[1] /\ c.span = q /\ c = [at |-> q[1], span |-> q]
        BY <3>1 DEF Plain, Stretch
      <3>3. q \in spans BY <3>2
      <3> QED BY <3>2, <3>3, <1>5
    <2> QED BY <2>1, <2>2, <2>3
  <1>8. IsFiniteSet(Calls(text))
    <2> HIDE DEF all
    <2> QED BY <1>4, <1>7, FS_Subset
  <1> QED BY <1>6, <1>7, <1>8

\* What is left of a text without its calls is a text.
LEMMA ParsedIs ==
    ASSUME NEW text \in Text
    PROVE  /\ ParseToolCalls(text).calls = Calls(text)
           /\ ParseToolCalls(text).cleaned \in Text
  <1> DEFINE calls == Calls(text)
             left == [i \in 1 .. Len(text) |->
                         IF Overlaps(SpansOf(calls), i) THEN <<>> ELSE <<text[i]>>]
  <1>1. /\ ParseToolCalls(text).calls = calls
        /\ ParseToolCalls(text).cleaned = IF calls = {} THEN text ELSE Trimmed(FlattenSeq(left))
    BY DEF ParseToolCalls, Parsed
  <1>2. left \in Seq(Text)
    <2> SUFFICES ASSUME NEW i \in 1 .. Len(text)
                 PROVE  (IF Overlaps(SpansOf(calls), i) THEN <<>> ELSE <<text[i]>>) \in Text
      <3>1. Len(text) \in Nat BY TextIs
      <3> QED BY <3>1
    <2>1. text[i] \in Symbol BY TextIs
    <2>2. <<>> \in Text /\ <<text[i]>> \in Text BY <2>1, EmptySeq, Short DEF Text
    <2> QED BY <2>2
  <1> HIDE DEF left
  <1>3. PICK t \in Text : t = FlattenSeq(left) BY <1>2, FlattenType
  <1>4. Trimmed(t) \in Text BY TrimmedType
  <1> QED BY <1>1, <1>3, <1>4

-----------------------------------------------------------------------------
(* Whole characters *)

\* No character is cut: every first half is followed by a second one, and every
\* second half comes behind a first.
Uncut(text) ==
    /\ \A i \in 1 .. Len(text) : text[i] = "u1" => i < Len(text) /\ text[i + 1] = "u2"
    /\ \A i \in 1 .. Len(text) : text[i] = "u2" => i > 1 /\ text[i - 1] = "u1"

\* A short text without halves, and one character.
LEMMA UncutShort ==
    /\ Uncut(<<>>) /\ Uncut(<<"u1", "u2">>)
    /\ \A sym : sym \notin {"u1", "u2"} => Uncut(<<sym>>)
  <1>1. Uncut(<<>>)
    <2>1. Len(<<>>) = 0 /\ 1 .. 0 = {} OBVIOUS
    <2> QED BY <2>1 DEF Uncut
  <1>2. Uncut(<<"u1", "u2">>)
    <2> DEFINE c == <<"u1", "u2">>
    <2>1. Len(c) = 2 /\ c[1] = "u1" /\ c[2] = "u2" /\ 1 .. 2 = {1, 2} OBVIOUS
    <2> HIDE DEF c
    <2>2. "u1" # "u2" OBVIOUS
    <2>3. Uncut(c) BY <2>1, <2>2 DEF Uncut
    <2> QED BY <2>3 DEF c
  <1>3. ASSUME NEW sym, sym \notin {"u1", "u2"} PROVE Uncut(<<sym>>)
    <2>1. Len(<<sym>>) = 1 /\ <<sym>>[1] = sym /\ 1 .. 1 = {1} OBVIOUS
    <2> QED BY <1>3, <2>1 DEF Uncut
  <1> QED BY <1>1, <1>2, <1>3

\* Joined texts.
LEMMA UncutCat ==
    ASSUME NEW s \in Text, NEW t \in Text, Uncut(s), Uncut(t)
    PROVE  Uncut(s \o t)
  <1> DEFINE c == s \o t
  <1>1. PICK m \in Nat : m = Len(s) BY TextIs
  <1>2. PICK n \in Nat : n = Len(t) BY TextIs
  <1>3. /\ Len(c) = m + n
        /\ \A i \in 1 .. m : c[i] = s[i]
        /\ \A i \in 1 .. n : c[m + i] = t[i]
    BY <1>1, <1>2, CatIs
  <1> HIDE DEF c
  <1>4. ASSUME NEW i \in 1 .. m + n
        PROVE  /\ c[i] = "u1" => i < m + n /\ c[i + 1] = "u2"
               /\ c[i] = "u2" => i > 1 /\ c[i - 1] = "u1"
    <2>1. CASE i <= m
      <3>1. i \in 1 .. m /\ c[i] = s[i] BY <1>3, <2>1
      <3>2. ASSUME c[i] = "u1" PROVE i < m + n /\ c[i + 1] = "u2"
        <4>1. i < m /\ s[i + 1] = "u2" BY <1>1, <3>1, <3>2 DEF Uncut
        <4>2. i + 1 \in 1 .. m BY <3>1, <4>1
        <4> QED BY <1>3, <4>1, <4>2
      <3>3. ASSUME c[i] = "u2" PROVE i > 1 /\ c[i - 1] = "u1"
        <4>1. i > 1 /\ s[i - 1] = "u1" BY <1>1, <3>1, <3>3 DEF Uncut
        <4>2. i - 1 \in 1 .. m BY <3>1, <4>1
        <4> QED BY <1>3, <4>1, <4>2
      <3> QED BY <3>2, <3>3
    <2>2. CASE ~(i <= m)
      <3>1. PICK k \in 1 .. n : i = m + k BY <2>2
      <3>2. c[i] = t[k] BY <1>3, <3>1
      <3>3. ASSUME c[i] = "u1" PROVE i < m + n /\ c[i + 1] = "u2"
        <4>1. k < n /\ t[k + 1] = "u2" BY <1>2, <3>1, <3>2, <3>3 DEF Uncut
        <4>2. k + 1 \in 1 .. n /\ i + 1 = m + (k + 1) BY <3>1, <4>1
        <4> QED BY <1>3, <3>1, <4>1, <4>2
      <3>4. ASSUME c[i] = "u2" PROVE i > 1 /\ c[i - 1] = "u1"
        <4>1. k > 1 /\ t[k - 1] = "u1" BY <1>2, <3>1, <3>2, <3>4 DEF Uncut
        <4>2. k - 1 \in 1 .. n /\ i - 1 = m + (k - 1) /\ i > 1 BY <3>1, <4>1
        <4> QED BY <1>3, <4>1, <4>2
      <3> QED BY <3>3, <3>4
    <2> QED BY <2>1, <2>2
  <1>5. Uncut(c) BY <1>3, <1>4 DEF Uncut
  <1> QED BY <1>5 DEF c

\* What is cut out of a text neither begins with a second half nor ends with a first.
LEMMA UncutSub ==
    ASSUME NEW text \in Text, Uncut(text), NEW m \in Nat, m >= 1, NEW n \in Int, n <= Len(text),
           m <= Len(text) => text[m] # "u2", n >= 1 => text[n] # "u1"
    PROVE  Uncut(SubSeq(text, m, n))
  <1> DEFINE c == SubSeq(text, m, n)
  <1>1. PICK l \in Nat : l = Len(text) BY TextIs
  <1>2. /\ Len(c) = IF m <= n THEN n - m + 1 ELSE 0
        /\ \A i \in 1 .. n - m + 1 : c[i] = text[m + i - 1]
    BY SubIs
  <1> HIDE DEF c
  <1>3. CASE ~(m <= n)
    <2>1. Len(c) = 0 /\ 1 .. 0 = {} BY <1>2, <1>3
    <2> QED BY <2>1 DEF Uncut, c
  <1>4. CASE m <= n
    <2>1. PICK k \in Nat : k = n - m + 1 BY <1>4
    <2>2. Len(c) = k /\ \A i \in 1 .. k : c[i] = text[m + i - 1] BY <1>2, <1>4, <2>1
    <2>3. ASSUME NEW i \in 1 .. k
          PROVE  /\ c[i] = "u1" => i < k /\ c[i + 1] = "u2"
                 /\ c[i] = "u2" => i > 1 /\ c[i - 1] = "u1"
      <3>1. PICK j \in 1 .. l : j = m + i - 1 /\ j <= n BY <1>1, <2>1
      <3>2. c[i] = text[j] BY <2>2, <3>1
      <3>3. ASSUME c[i] = "u1" PROVE i < k /\ c[i + 1] = "u2"
        <4>1. text[j + 1] = "u2" BY <1>1, <3>1, <3>2, <3>3 DEF Uncut
        <4>2. j # n
          <5>1. n >= 1 BY <1>4
          <5>2. text[n] # "u1" BY <5>1
          <5> QED BY <3>2, <3>3, <5>2
        <4>3. i + 1 \in 1 .. k /\ m + (i + 1) - 1 = j + 1 /\ i < k BY <2>1, <3>1, <4>2
        <4> QED BY <2>2, <4>1, <4>3
      <3>4. ASSUME c[i] = "u2" PROVE i > 1 /\ c[i - 1] = "u1"
        <4>1. text[j - 1] = "u1" BY <1>1, <3>1, <3>2, <3>4 DEF Uncut
        <4>2. m <= Len(text) BY <1>4
        <4>3. j # m BY <3>2, <3>4, <4>2
        <4>4. i - 1 \in 1 .. k /\ m + (i - 1) - 1 = j - 1 /\ i > 1 BY <2>1, <3>1, <4>3
        <4> QED BY <2>2, <4>1, <4>4
      <3> QED BY <3>3, <3>4
    <2> QED BY <2>2, <2>3 DEF Uncut, c
  <1> QED BY <1>3, <1>4

\* In front of and from any symbol that is not a second half.
LEMMA UncutParts ==
    ASSUME NEW text \in Text, Uncut(text), NEW i \in 1 .. Len(text) + 1,
           i <= Len(text) => text[i] # "u2"
    PROVE  Uncut(Before(text, i)) /\ Uncut(From(text, i))
  <1>1. PICK l \in Nat : l = Len(text) BY TextIs
  <1>2. i - 1 >= 1 => text[i - 1] # "u1"
    <2> SUFFICES ASSUME i - 1 >= 1, text[i - 1] = "u1" PROVE FALSE OBVIOUS
    <2>1. i - 1 \in 1 .. l BY <1>1
    <2>2. i - 1 < l /\ text[(i - 1) + 1] = "u2" BY <1>1, <2>1 DEF Uncut
    <2>3. (i - 1) + 1 = i /\ i <= l BY <1>1, <2>1, <2>2
    <2> QED BY <1>1, <2>2, <2>3
  <1>3. Uncut(Before(text, i))
    <2>1. 1 <= Len(text) => text[1] # "u2" BY <1>1 DEF Uncut
    <2>2. i - 1 \in Int /\ i - 1 <= Len(text) BY <1>1
    <2> QED BY <1>2, <2>1, <2>2, UncutSub DEF Before
  <1>4. Uncut(From(text, i))
    <2>1. Len(text) >= 1 => text[Len(text)] # "u1" BY <1>1 DEF Uncut
    <2>2. i \in Nat /\ i >= 1 /\ Len(text) \in Int /\ Len(text) <= Len(text) BY <1>1
    <2> QED BY <2>1, <2>2, UncutSub DEF From
  <1> QED BY <1>3, <1>4

\* White space around a text cuts no character.
LEMMA UncutTrimmed ==
    ASSUME NEW text \in Text, Uncut(text) PROVE Uncut(Trimmed(text))
  <1>1. PICK l \in Nat : l = Len(text) BY TextIs
  <1>2. CASE Blank(text) BY <1>2, UncutShort DEF Trimmed
  <1>3. CASE ~Blank(text)
    <2> DEFINE B == {i \in 1 .. Len(text) : text[i] # "w"}
    <2>1. B # {} /\ B \in SUBSET Nat /\ \A j \in B : j <= l BY <1>1, <1>3 DEF Blank
    <2>2. PICK b \in B : b = Max(B) /\ \A j \in B : j <= b BY <1>1, <2>1, MaxIs
    <2>3. PICK a \in 1 .. l + 1 : a = FirstBlack(text) /\ \A x \in 1 .. a - 1 : text[x] = "w"
      BY <1>1, FirstBlackIs
    <2>4. Trimmed(text) = SubSeq(text, a, b) BY <1>3, <2>2, <2>3 DEF Trimmed
    <2>5. b \in 1 .. l BY <1>1, <2>2
    <2>6. text[b] # "u1"
      <3> SUFFICES ASSUME text[b] = "u1" PROVE FALSE OBVIOUS
      <3>1. b < l /\ text[b + 1] = "u2" BY <1>1, <2>5 DEF Uncut
      <3>2. "u2" # "w" /\ b + 1 \in 1 .. l /\ ~(b + 1 <= b) BY <2>5, <3>1
      <3>3. b + 1 \in B BY <1>1, <3>1, <3>2
      <3> QED BY <2>2, <3>2, <3>3
    <2>7. a <= l => text[a] # "u2"
      <3> SUFFICES ASSUME a <= l, text[a] = "u2" PROVE FALSE OBVIOUS
      <3>1. a > 1 /\ text[a - 1] = "u1" BY <1>1, <2>3 DEF Uncut
      <3>2. a - 1 \in 1 .. a - 1 /\ "u1" # "w" BY <2>3, <3>1
      <3> QED BY <2>3, <3>1, <3>2
    <2>8. a \in Nat /\ a >= 1 /\ b \in Int /\ b <= Len(text) BY <1>1, <2>3, <2>5
    <2> HIDE DEF B
    <2> QED BY <1>1, <2>4, <2>6, <2>7, <2>8, UncutSub
  <1> QED BY <1>2, <1>3

\* A stretch that begins with no second half and ends with no first.
Framed(text, s) ==
    /\ s[1] \in 1 .. Len(text) /\ s[2] \in 1 .. Len(text)
    /\ text[s[1]] # "u2" /\ text[s[2]] # "u1"

\* No call takes out half a character.
LEMMA SpansFramed ==
    ASSUME NEW text \in Text, NEW c \in Calls(text)
    PROVE  Framed(text, c.span)
  <1>1. \A q : q \in Laguna(text) => Framed(text, q)
    <2> SUFFICES ASSUME NEW q \in Laguna(text) PROVE Framed(text, q) OBVIOUS
    <2>1. q[1] \in 1 .. Len(text) /\ q[2] \in 1 .. Len(text) /\ text[q[1]] = "n" BY LagunaIs
    <2>2. PICK k \in At(text, ArgKeyOpen) : q[2] = ArgsEnd(text, k) /\ ArgsEnd(text, k) > 0
      BY DEF Laguna
    <2>3. k \in Nat /\ k >= 1 /\ text[k] = "k1" BY KeysAt
    <2>4. text[k] # "v" /\ ArgsEnd(text, k) # 0 BY <2>2, <2>3
    <2>5. text[q[2]] \in {"v", "w"} BY <2>2, <2>3, <2>4, ArgsEndIs
    <2> QED BY <2>1, <2>5 DEF Framed
  <1>2. \A b \in Blocks(text) : Framed(text, b)
    <2> SUFFICES ASSUME NEW b \in Blocks(text) PROVE Framed(text, b) OBVIOUS
    <2>1. Stretch(text, b) /\ text[b[2]] = "f" /\ text[b[1]] = "t1" BY BlocksAre
    <2> QED BY <2>1 DEF Framed, Stretch
  <1>3. \A i : i \in Where(text, "j") \/ i \in Where(text, "z") => Framed(text, <<i, i>>)
    BY WhereIs DEF Framed
  <1>4. CASE c \in Patterns8(text)
    <2>1. PICK q : Plain(text, c, q) /\ ((q[1] = q[2] /\ text[q[1]] = "z") \/ q \in Laguna(text))
      BY <1>4, NamesAre
    <2>2. c.span = q BY <2>1 DEF Plain
    <2>3. CASE q[1] = q[2] /\ text[q[1]] = "z" BY <2>1, <2>2, <2>3 DEF Plain, Stretch, Framed
    <2> QED BY <1>1, <2>1, <2>2, <2>3
  <1>5. ASSUME NEW b \in Blocks(text), c \in BlockCalls(text, b) PROVE Framed(text, c.span)
    <2>1. PICK q \in Units(text, b) : c.span \in {q, b} BY <1>5, BlockCallsAre
    <2>2. Stretch(text, q)
          /\ \/ text[q[1]] = "i1" /\ q[2] = Min({x \in Where(text, "i2") : x > q[1]})
             \/ text[q[1]] # "i1" /\ q[1] = q[2]
      BY UnitsAre
    <2>3. Framed(text, q)
      <3>1. CASE q \in InvokeCalls(text, b)
        <4> DEFINE opens  == Where(text, "i1") \cap (b[1] .. b[2])
                   closes == Where(text, "i2") \cap (b[1] .. b[2])
        <4>1. opens \in SUBSET Nat /\ closes \in SUBSET Nat BY WhereIs
        <4>2. q \in Matches(opens, closes) BY <3>1 DEF InvokeCalls
        <4> HIDE DEF opens, closes
        <4>3. q[1] \in opens /\ q[2] \in closes BY <4>1, <4>2, MatchesIs
        <4>4. q[1] \in Where(text, "i1") /\ q[2] \in Where(text, "i2") BY <4>3 DEF opens, closes
        <4> QED BY <4>4, WhereIs DEF Framed
      <3>2. CASE q \notin InvokeCalls(text, b)
        <4>1. PICK i \in JsonOutside(text, InvokeSpans(text)) : q = <<i, i>> BY <3>2 DEF Units
        <4>2. i \in Where(text, "j") BY <4>1 DEF JsonOutside
        <4> QED BY <1>3, <4>1, <4>2
      <3> QED BY <3>1, <3>2
    <2> QED BY <1>2, <2>1, <2>3
  <1>6. ASSUME NEW done, c \in Pattern6(text, done) PROVE Framed(text, c.span)
    <2>1. PICK i \in JsonOutside(text, InvokeSpans(text)) : c.span = <<i, i>>
      BY <1>6 DEF Pattern6, Own
    <2>2. i \in Where(text, "j") BY <2>1 DEF JsonOutside
    <2> QED BY <1>3, <2>1, <2>2
  <1>7. \/ c \in Patterns8(text)
        \/ \E b \in Blocks(text) : c \in BlockCalls(text, b)
        \/ \E done : c \in Pattern6(text, done)
    BY DEF Calls, WithBareJson, WithBlocks, Pattern4d, Blocks
  <1> QED BY <1>4, <1>5, <1>6, <1>7

\* Both halves of a character are taken out or neither.
LEMMA HalvesTogether ==
    ASSUME NEW text \in Text, Uncut(text), NEW spans, \A s \in spans : Framed(text, s),
           NEW i \in 1 .. Len(text), text[i] = "u1"
    PROVE  Overlaps(spans, i) <=> Overlaps(spans, i + 1)
  <1>1. PICK l \in Nat : l = Len(text) BY TextIs
  <1>2. i < l /\ text[i + 1] = "u2" BY <1>1 DEF Uncut
  <1>3. ASSUME NEW s \in spans PROVE s[1] <= i /\ i <= s[2] <=> s[1] <= i + 1 /\ i + 1 <= s[2]
    <2>1. PICK a \in 1 .. l, b \in 1 .. l : a = s[1] /\ b = s[2] /\ text[a] # "u2" /\ text[b] # "u1"
      BY <1>1, <1>3 DEF Framed
    <2>2. a # i + 1 /\ b # i BY <1>2, <2>1
    <2>3. a <= i /\ i <= b <=> a <= i + 1 /\ i + 1 <= b BY <2>2
    <2> QED BY <2>1, <2>3
  <1> QED BY <1>3 DEF Overlaps

\* Nothing of a text, or the symbol at a place.
WithoutSpans(text, spans) == [i \in 1 .. Len(text) |-> IF Overlaps(spans, i) THEN <<>> ELSE <<text[i]>>]

\* What is left of a text's first symbols without some stretches.
LEMMA KeptBegins ==
    ASSUME NEW text \in Text, NEW spans
    PROVE  LET left == WithoutSpans(text, spans)
           IN  /\ left \in Seq(Text) /\ Len(left) = Len(text)
               /\ SubSeq(left, 1, 0) = <<>> /\ SubSeq(left, 1, Len(text)) = left
               /\ \A n \in 1 .. Len(text) :
                     /\ SubSeq(left, 1, n - 1) \in Seq(Text) /\ left[n] \in Text
                     /\ SubSeq(left, 1, n) = Append(SubSeq(left, 1, n - 1), left[n])
  <1> DEFINE left == WithoutSpans(text, spans)
  <1>1. PICK l \in Nat : l = Len(text) /\ \A i \in 1 .. l : text[i] \in Symbol BY TextIs
  <1>2. ASSUME NEW i \in 1 .. l
        PROVE  (IF Overlaps(spans, i) THEN <<>> ELSE <<text[i]>>) \in Text
    <2>1. <<>> \in Text BY EmptySeq DEF Text
    <2>2. <<text[i]>> \in Text
      <3>1. text[i] \in Symbol BY <1>1
      <3> QED BY <3>1, Short DEF Text
    <2> QED BY <2>1, <2>2
  <1>3. left \in [1 .. l -> Text] BY <1>1, <1>2 DEF WithoutSpans
  <1> HIDE DEF left
  <1>4. left \in Seq(Text) /\ Len(left) = l BY <1>3
  <1>5. SubSeq(left, 1, 0) = <<>> /\ SubSeq(left, 1, l) = left BY <1>4
  <1>6. ASSUME NEW n \in 1 .. l
        PROVE  /\ SubSeq(left, 1, n - 1) \in Seq(Text) /\ left[n] \in Text
               /\ SubSeq(left, 1, n) = Append(SubSeq(left, 1, n - 1), left[n])
    <2>1. left[n] \in Text BY <1>3
    <2>2. SubSeq(left, 1, n - 1) \in Seq(Text) BY <1>4
    <2>3. SubSeq(left, 1, n) = Append(SubSeq(left, 1, n - 1), left[n]) BY <1>4
    <2> QED BY <2>1, <2>2, <2>3
  <1> QED BY <1>1, <1>4, <1>5, <1>6 DEF left

\* Without stretches that take out whole characters, a text is of whole characters:
\* of the prefixes, the shortest one that is not would extend one that is.
LEMMA UncutKept ==
    ASSUME NEW text \in Text, Uncut(text), NEW spans, \A s \in spans : Framed(text, s)
    PROVE  FlattenSeq(WithoutSpans(text, spans)) \in Text /\ Uncut(FlattenSeq(WithoutSpans(text, spans)))
  <1> DEFINE left == WithoutSpans(text, spans)
             F(n) == FlattenSeq(SubSeq(left, 1, n))
             K(n) == IF n > 0 /\ text[n] = "u1" /\ ~Overlaps(spans, n) THEN Uncut(F(n) \o <<"u2">>)
                     ELSE Uncut(F(n))
  <1>1. PICK l \in Nat : l = Len(text) BY TextIs
  <1>2. /\ left \in Seq(Text) /\ SubSeq(left, 1, 0) = <<>> /\ SubSeq(left, 1, l) = left
        /\ \A n \in 1 .. l :
              /\ SubSeq(left, 1, n - 1) \in Seq(Text) /\ left[n] \in Text
              /\ SubSeq(left, 1, n) = Append(SubSeq(left, 1, n - 1), left[n])
    BY <1>1, KeptBegins
  <1>3. \A n \in 1 .. l : left[n] = IF Overlaps(spans, n) THEN <<>> ELSE <<text[n]>>
    BY <1>1 DEF WithoutSpans
  <1> HIDE DEF left
  <1>4. \A n \in 1 .. l : F(n - 1) \in Text /\ F(n) = F(n - 1) \o left[n]
    BY <1>2, FlattenType, FlattenAppend
  <1>5. F(0) = <<>> BY <1>2, FlattenNone
  <1> HIDE DEF F
  <1>6. ASSUME NEW n \in 1 .. l, K(n - 1) PROVE K(n)
    <2>1. PICK f \in Text : f = F(n - 1) BY <1>4
    <2>2. CASE Overlaps(spans, n)
      <3>1. F(n) = f
        <4>1. left[n] = <<>> BY <1>3, <2>2
        <4> QED BY <1>4, <2>1, <4>1, CatIs
      <3>2. Uncut(f)
        <4> SUFFICES ASSUME n - 1 > 0, text[n - 1] = "u1", ~Overlaps(spans, n - 1) PROVE FALSE
          BY <1>6, <2>1
        <4>1. n - 1 \in 1 .. Len(text) /\ (n - 1) + 1 = n BY <1>1
        <4>2. Overlaps(spans, n - 1) <=> Overlaps(spans, n) BY <4>1, HalvesTogether
        <4> QED BY <2>2, <4>2
      <3> QED BY <2>2, <3>1, <3>2
    <2>3. CASE ~Overlaps(spans, n)
      <3>1. F(n) = f \o <<text[n]>>
        <4>1. left[n] = <<text[n]>> BY <1>3, <2>3
        <4> QED BY <1>4, <2>1, <4>1
      <3>2. CASE text[n] = "u2"
        <4>1. n > 1 /\ text[n - 1] = "u1" BY <1>1, <3>2 DEF Uncut
        <4>2. n - 1 \in 1 .. Len(text) /\ (n - 1) + 1 = n /\ n - 1 > 0 BY <1>1, <4>1
        <4>3. ~Overlaps(spans, n - 1) BY <2>3, <4>1, <4>2, HalvesTogether
        <4>4. Uncut(f \o <<"u2">>) BY <1>6, <2>1, <4>1, <4>2, <4>3
        <4>5. text[n] # "u1" BY <3>2
        <4> QED BY <3>1, <3>2, <4>4, <4>5
      <3>3. CASE text[n] # "u2"
        <4>1. Uncut(f)
          <5> SUFFICES ASSUME n - 1 > 0, text[n - 1] = "u1" PROVE FALSE BY <1>6, <2>1
          <5>1. n - 1 \in 1 .. Len(text) /\ (n - 1) + 1 = n BY <1>1
          <5>2. text[(n - 1) + 1] = "u2" BY <5>1 DEF Uncut
          <5> QED BY <3>3, <5>1, <5>2
        <4>2. CASE text[n] = "u1"
          <5>1. (f \o <<"u1">>) \o <<"u2">> = f \o <<"u1", "u2">>
            <6>1. "u1" \in Symbol /\ "u2" \in Symbol BY DEF Symbol
            <6> QED BY <6>1 DEF Text
          <5>2. <<"u1", "u2">> \in Text
            <6>1. "u1" \in Symbol /\ "u2" \in Symbol BY DEF Symbol
            <6> QED BY <6>1, Short DEF Text
          <5>3. Uncut(f \o <<"u1", "u2">>) BY <4>1, <5>2, UncutShort, UncutCat
          <5>4. n > 0 /\ F(n) = f \o <<"u1">> BY <3>1, <4>2
          <5> QED BY <2>3, <4>2, <5>1, <5>3, <5>4
        <4>3. CASE text[n] # "u1"
          <5>1. <<text[n]>> \in Text
            <6>1. text[n] \in Symbol BY <1>1, TextIs
            <6> QED BY <6>1, Short DEF Text
          <5>2. Uncut(<<text[n]>>) BY <3>3, <4>3, UncutShort
          <5>3. Uncut(f \o <<text[n]>>) BY <4>1, <5>1, <5>2, UncutCat
          <5> QED BY <3>1, <4>3, <5>3
        <4> QED BY <4>2, <4>3
      <3> QED BY <3>2, <3>3
    <2> QED BY <2>2, <2>3
  <1>7. K(0) BY <1>5, UncutShort
  <1> HIDE DEF K
  <1>8. \A n \in 0 .. l : K(n)
    <2> DEFINE A == {n \in 0 .. l : ~K(n)}
    <2>1. ASSUME A # {} PROVE FALSE
      <3>1. A \in SUBSET Nat OBVIOUS
      <3>2. PICK m \in A : \A j \in A : m <= j BY <2>1, <3>1, LeastNumber
      <3>3. m # 0 BY <1>7, <3>2
      <3>4. m \in 1 .. l /\ m - 1 \in 0 .. l /\ ~(m <= m - 1) BY <3>2, <3>3
      <3>5. K(m - 1) BY <3>2, <3>4
      <3>6. K(m) BY <1>6, <3>4, <3>5
      <3> QED BY <3>2, <3>6
    <2> QED BY <2>1
  <1>9. Uncut(F(l))
    <2>1. K(l) BY <1>1, <1>8
    <2>2. l > 0 => text[l] # "u1" BY <1>1 DEF Uncut
    <2> QED BY <2>1, <2>2 DEF K
  <1>10. F(l) = FlattenSeq(left) BY <1>2 DEF F
  <1>11. FlattenSeq(left) \in Text BY <1>2, FlattenType
  <1> QED BY <1>9, <1>10, <1>11 DEF left

\* What is left of a text of whole characters is one.
LEMMA UncutParsed ==
    ASSUME NEW text \in Text, Uncut(text)
    PROVE  Uncut(ParseToolCalls(text).cleaned)
  <1> DEFINE calls == Calls(text)
             spans == SpansOf(calls)
             left  == FlattenSeq(WithoutSpans(text, spans))
  <1>1. \A s \in spans : Framed(text, s) BY SpansFramed DEF SpansOf
  <1>2. left \in Text /\ Uncut(left) BY <1>1, UncutKept
  <1>3. Uncut(Trimmed(left)) BY <1>2, UncutTrimmed
  <1>4. ParseToolCalls(text).cleaned = IF calls = {} THEN text ELSE Trimmed(left)
    BY DEF ParseToolCalls, Parsed, WithoutSpans
  <1> HIDE DEF calls, spans, left
  <1> QED BY <1>3, <1>4

-----------------------------------------------------------------------------
(* Events *)

Events == [type : {"open", "close", "delta", "call", "done"},
           kind : {"text", "thinking", "tool", "", "stop", "length", "tool_calls"},
           index : Nat, text : Text]

\* What the events of s say of a kind, as TextOf has it.
Part(s, kind) ==
    [i \in 1 .. Len(s) |-> IF s[i].type = "delta" /\ s[i].kind = kind THEN s[i].text ELSE <<>>]

Added(s, kind) == FlattenSeq(Part(s, kind))

\* One event more.
LEMMA AppendEvent ==
    ASSUME NEW s \in Seq(Events), NEW v \in Events
    PROVE  /\ s \o <<v>> = Append(s, v) /\ Append(s, v) \in Seq(Events)
           /\ Len(s) \in Nat /\ Len(Append(s, v)) = Len(s) + 1
           /\ \A i \in 1 .. Len(s) : Append(s, v)[i] = s[i] /\ s[i] \in Events
           /\ Append(s, v)[Len(s) + 1] = v
  <1>1. Len(s) \in Nat BY LenProperties
  <1>2. s \o <<v>> = Append(s, v) BY AppendIsConcat
  <1>3. \A i \in 1 .. Len(s) : s[i] \in Events BY ElementOfSeq
  <1> QED BY <1>1, <1>2, <1>3, AppendProperties

\* Of no events, nothing was said.
LEMMA AddedNone == ASSUME NEW kind PROVE Added(<<>>, kind) = <<>>
  <1>1. Len(<<>>) = 0 /\ 1 .. 0 = {} OBVIOUS
  <1>2. Part(<<>>, kind) = <<>> BY <1>1 DEF Part
  <1> QED BY <1>2, FlattenNone DEF Added

\* The texts of events are texts.
LEMMA PartType ==
    ASSUME NEW s \in Seq(Events), NEW kind
    PROVE  Part(s, kind) \in Seq(Text) /\ Len(Part(s, kind)) = Len(s)
  <1>1. Len(s) \in Nat /\ \A i \in 1 .. Len(s) : s[i] \in Events BY LenProperties, ElementOfSeq
  <1>2. ASSUME NEW i \in 1 .. Len(s)
        PROVE  (IF s[i].type = "delta" /\ s[i].kind = kind THEN s[i].text ELSE <<>>) \in Text
    <2>1. s[i].text \in Text BY <1>1 DEF Events
    <2>2. <<>> \in Text BY EmptySeq DEF Text
    <2> QED BY <2>1, <2>2
  <1>3. Part(s, kind) \in [1 .. Len(s) -> Text] BY <1>2 DEF Part
  <1> QED BY <1>1, <1>3

\* A delta of the kind adds its text, any other event adds nothing.
LEMMA AddedAppend ==
    ASSUME NEW s \in Seq(Events), NEW v \in Events, NEW kind
    PROVE  /\ Added(s, kind) \in Text
           /\ Added(Append(s, v), kind) =
                 IF v.type = "delta" /\ v.kind = kind THEN Added(s, kind) \o v.text ELSE Added(s, kind)
  <1> DEFINE t == IF v.type = "delta" /\ v.kind = kind THEN v.text ELSE <<>>
             a == Append(s, v)
             x == Part(a, kind)
             y == Append(Part(s, kind), t)
  <1>1. t \in Text
    <2>1. v.text \in Text BY DEF Events
    <2>2. <<>> \in Text BY EmptySeq DEF Text
    <2> QED BY <2>1, <2>2
  <1>2. /\ a \in Seq(Events) /\ Len(s) \in Nat /\ Len(a) = Len(s) + 1
        /\ (\A i \in 1 .. Len(s) : a[i] = s[i]) /\ a[Len(s) + 1] = v
    BY AppendEvent
  <1> HIDE DEF a
  <1>3. x \in Seq(Text) /\ Len(x) = Len(s) + 1 BY <1>2, PartType
  <1>4. Part(s, kind) \in Seq(Text) /\ Len(Part(s, kind)) = Len(s) BY PartType
  <1>5. /\ y \in Seq(Text) /\ Len(y) = Len(s) + 1 /\ y[Len(s) + 1] = t
        /\ \A i \in 1 .. Len(s) : y[i] = Part(s, kind)[i]
    <2> HIDE DEF t
    <2> QED BY <1>1, <1>4, AppendProperties
  <1>6. \A i \in 1 .. Len(x) : x[i] = y[i]
    <2> SUFFICES ASSUME NEW i \in 1 .. Len(s) + 1 PROVE x[i] = y[i] BY <1>3
    <2>1. x[i] = IF a[i].type = "delta" /\ a[i].kind = kind THEN a[i].text ELSE <<>>
      BY <1>2 DEF Part
    <2>2. CASE i = Len(s) + 1
      <3>1. a[i] = v /\ y[i] = t BY <1>2, <1>5, <2>2
      <3> HIDE DEF x, y
      <3> QED BY <2>1, <3>1
    <2>3. CASE i # Len(s) + 1
      <3>1. i \in 1 .. Len(s) BY <1>2, <2>3
      <3>2. a[i] = s[i] /\ y[i] = Part(s, kind)[i] BY <1>2, <1>5, <3>1
      <3>3. Part(s, kind)[i] = IF s[i].type = "delta" /\ s[i].kind = kind THEN s[i].text ELSE <<>>
        BY <3>1 DEF Part
      <3> HIDE DEF x, y
      <3> QED BY <2>1, <3>2, <3>3
    <2> QED BY <2>2, <2>3
  <1> HIDE DEF x, y, t
  <1>7. x = y BY <1>3, <1>5, <1>6, SeqEqual
  <1>8. FlattenSeq(y) = FlattenSeq(Part(s, kind)) \o t BY <1>1, <1>4, FlattenAppend DEF y
  <1>9. Added(s, kind) \in Text BY <1>4, FlattenType DEF Added
  <1>10. Added(a, kind) = Added(s, kind) \o t BY <1>7, <1>8 DEF Added, x
  <1>11. Added(s, kind) \o <<>> = Added(s, kind) BY <1>9, CatIs
  <1> QED BY <1>9, <1>10, <1>11 DEF t, a

\* The events of s and ev, one more of ev.
LEMMA CatEvents ==
    ASSUME NEW s \in Seq(Events), NEW ev \in Seq(Events)
    PROVE  /\ s \o ev \in Seq(Events) /\ Len(s) \in Nat /\ Len(ev) \in Nat
           /\ Len(s \o ev) = Len(s) + Len(ev) /\ s \o <<>> = s
           /\ (\A i \in 1 .. Len(s) : (s \o ev)[i] = s[i])
           /\ (\A i \in 1 .. Len(ev) : (s \o ev)[Len(s) + i] = ev[i] /\ ev[i] \in Events)
           /\ \A v \in Events : s \o Append(ev, v) = Append(s \o ev, v)
  <1>1. Len(s) \in Nat /\ Len(ev) \in Nat BY LenProperties
  <1>2. /\ s \o ev \in Seq(Events) /\ Len(s \o ev) = Len(s) + Len(ev)
        /\ \A i \in 1 .. Len(s) + Len(ev) :
              (s \o ev)[i] = IF i <= Len(s) THEN s[i] ELSE ev[i - Len(s)]
    BY ConcatProperties
  <1>3. s \o <<>> = s BY ConcatEmptySeq
  <1>4. \A i \in 1 .. Len(s) : (s \o ev)[i] = s[i] BY <1>1, <1>2
  <1>5. ASSUME NEW i \in 1 .. Len(ev) PROVE (s \o ev)[Len(s) + i] = ev[i] /\ ev[i] \in Events
    <2>1. Len(s) + i \in 1 .. Len(s) + Len(ev) /\ ~(Len(s) + i <= Len(s)) /\ Len(s) + i - Len(s) = i
      BY <1>1
    <2> QED BY <2>1, <1>2, ElementOfSeq
  <1>6. ASSUME NEW v \in Events PROVE s \o Append(ev, v) = Append(s \o ev, v)
    <2>1. PICK one \in Seq(Events) : one = <<v>> BY Short
    <2>2. (s \o ev) \o one = s \o (ev \o one) BY ConcatAssociative
    <2>3. PICK c \in Seq(Events) : c = s \o ev BY <1>2
    <2>4. c \o one = Append(c, v) /\ ev \o one = Append(ev, v) BY <2>1, AppendEvent
    <2> QED BY <2>2, <2>3, <2>4
  <1> QED BY <1>1, <1>2, <1>3, <1>4, <1>5, <1>6

-----------------------------------------------------------------------------
(* Turns *)

\* The indices that events of a type have named, as Indices has them.
Named(s, type, n) == {s[h].index : h \in {x \in 1 .. n : s[x].type = type}}

\* What is open after the first n events.
Open(s, n) == Named(s, "open", n) \ Named(s, "close", n)

Known(s, hit, i) ==
    \/ \E h \in 1 .. i - 1 : s[h] = Event("open", s[i].kind, s[i].index, <<>>)
    \/ hit /\ s[i].kind = "thinking"

\* What BlocksInTurn and ItemsInTurn ask of one event.
BlockTurn(s, hit, i) ==
    LET open == Open(s, i - 1)
    IN  CASE s[i].type = "open" -> open = {} /\ s[i].index = Cardinality(Named(s, "open", i - 1))
          [] s[i].type \in {"delta", "close"} -> open = {s[i].index} /\ Known(s, hit, i)
          [] OTHER -> open = {}

ItemTurn(s, i) ==
    LET open == Open(s, i - 1)
    IN  CASE s[i].type = "open" -> open = {} /\ s[i].index = Cardinality(Named(s, "open", i - 1))
          [] s[i].type = "delta" -> s[i].index \in open
          [] OTHER -> TRUE

BlockTurns(s, hit) == \A i \in 1 .. Len(s) : BlockTurn(s, hit, i)
ItemTurns(s) == \A i \in 1 .. Len(s) : ItemTurn(s, i)

\* Numbers below n.
Below(n) == {i \in Nat : i < n}

\* How many numbers are below n, and below the next.
LEMMA BelowIs ==
    ASSUME NEW n \in Nat
    PROVE  /\ Cardinality(Below(n)) = n
           /\ Below(n + 1) = Below(n) \union {n} /\ n \notin Below(n)
           /\ Below(n + 1) \ Below(n) = {n} /\ Below(n) \ Below(n) = {}
           /\ n \in Below(n + 1) /\ Below(0) = {}
  <1>1. Below(n) = 0 .. n - 1 BY DEF Below
  <1>2. Cardinality(0 .. n - 1) = n
    <2>1. 0 \in Int /\ n - 1 \in Int OBVIOUS
    <2>2. Cardinality(0 .. n - 1) = IF 0 > n - 1 THEN 0 ELSE n - 1 - 0 + 1 BY <2>1, FS_Interval
    <2> QED BY <2>2
  <1>3. Cardinality(Below(n)) = n BY <1>1, <1>2
  <1>4. Below(n + 1) = Below(n) \union {n} /\ n \notin Below(n) BY DEF Below
  <1>5. Below(0) = {} BY DEF Below
  <1> QED BY <1>3, <1>4, <1>5

\* An event more names its index, and changes nothing of what was named before.
LEMMA NamedAppend ==
    ASSUME NEW s \in Seq(Events), NEW v \in Events, NEW type
    PROVE  /\ \A n \in 0 .. Len(s) : Named(Append(s, v), type, n) = Named(s, type, n)
           /\ Named(Append(s, v), type, Len(s) + 1) =
                 IF v.type = type THEN Named(s, type, Len(s)) \union {v.index}
                 ELSE Named(s, type, Len(s))
  <1> DEFINE a == Append(s, v)
  <1>1. /\ Len(s) \in Nat /\ (\A i \in 1 .. Len(s) : a[i] = s[i]) /\ a[Len(s) + 1] = v
    BY AppendEvent
  <1> HIDE DEF a
  <1>2. ASSUME NEW n \in 0 .. Len(s) PROVE Named(a, type, n) = Named(s, type, n)
    <2>1. \A h \in 1 .. n : a[h] = s[h] BY <1>1
    <2> QED BY <2>1 DEF Named
  <1>3. Named(a, type, Len(s) + 1) =
           IF v.type = type THEN Named(s, type, Len(s)) \union {v.index} ELSE Named(s, type, Len(s))
    <2>1. \A h : h \in 1 .. Len(s) + 1 <=> h \in 1 .. Len(s) \/ h = Len(s) + 1 BY <1>1
    <2>2. CASE v.type = type BY <1>1, <2>1, <2>2 DEF Named
    <2>3. CASE v.type # type BY <1>1, <2>1, <2>3 DEF Named
    <2> QED BY <2>2, <2>3
  <1> QED BY <1>2, <1>3 DEF a

\* What was in turn stays so, and the new event has to be.
LEMMA TurnsAppend ==
    ASSUME NEW s \in Seq(Events), NEW v \in Events, NEW hit
    PROVE  LET n    == Len(s)
               a    == Append(s, v)
               open == Open(s, n)
           IN  /\ BlockTurns(a, hit) <=>
                     /\ BlockTurns(s, hit)
                     /\ CASE v.type = "open" -> open = {} /\ v.index = Cardinality(Named(s, "open", n))
                          [] v.type \in {"delta", "close"} ->
                                /\ open = {v.index}
                                /\ \/ \E h \in 1 .. n : s[h] = Event("open", v.kind, v.index, <<>>)
                                   \/ hit /\ v.kind = "thinking"
                          [] OTHER -> open = {}
               /\ ItemTurns(a) <=>
                     /\ ItemTurns(s)
                     /\ CASE v.type = "open" -> open = {} /\ v.index = Cardinality(Named(s, "open", n))
                          [] v.type = "delta" -> v.index \in open
                          [] OTHER -> TRUE
  <1> DEFINE n == Len(s)
             a == Append(s, v)
  <1>1. /\ n \in Nat /\ Len(a) = n + 1 /\ (\A i \in 1 .. n : a[i] = s[i]) /\ a[n + 1] = v
    BY AppendEvent
  <1>2. \A type : \A m \in 0 .. n : Named(a, type, m) = Named(s, type, m) BY ZenonT(40), NamedAppend
  <1> HIDE DEF a
  <1>3. \A m \in 0 .. n : Open(a, m) = Open(s, m) BY <1>2 DEF Open
  <1>4. ASSUME NEW i \in 1 .. n
        PROVE  (BlockTurn(a, hit, i) <=> BlockTurn(s, hit, i)) /\ (ItemTurn(a, i) <=> ItemTurn(s, i))
    <2>1. i - 1 \in 0 .. n /\ a[i] = s[i] BY <1>1
    <2>2. Open(a, i - 1) = Open(s, i - 1) /\ Named(a, "open", i - 1) = Named(s, "open", i - 1)
      BY <1>2, <1>3, <2>1
    <2>3. \A h \in 1 .. i - 1 : a[h] = s[h] BY <1>1
    <2>4. Known(a, hit, i) <=> Known(s, hit, i) BY <2>1, <2>3 DEF Known
    <2> QED BY <2>1, <2>2, <2>4 DEF BlockTurn, ItemTurn
  <1>5. n \in 0 .. n /\ n + 1 - 1 = n BY <1>1
  <1>6. Open(a, n) = Open(s, n) /\ Named(a, "open", n) = Named(s, "open", n) BY <1>2, <1>3, <1>5
  <1>7. Known(a, hit, n + 1) <=>
           \/ \E h \in 1 .. n : s[h] = Event("open", v.kind, v.index, <<>>)
           \/ hit /\ v.kind = "thinking"
    BY <1>1, <1>5 DEF Known
  <1>8. BlockTurn(a, hit, n + 1) <=>
           CASE v.type = "open" -> Open(s, n) = {} /\ v.index = Cardinality(Named(s, "open", n))
             [] v.type \in {"delta", "close"} ->
                   /\ Open(s, n) = {v.index}
                   /\ \/ \E h \in 1 .. n : s[h] = Event("open", v.kind, v.index, <<>>)
                      \/ hit /\ v.kind = "thinking"
             [] OTHER -> Open(s, n) = {}
    BY <1>1, <1>5, <1>6, <1>7 DEF BlockTurn
  <1>9. ItemTurn(a, n + 1) <=>
           CASE v.type = "open" -> Open(s, n) = {} /\ v.index = Cardinality(Named(s, "open", n))
             [] v.type = "delta" -> v.index \in Open(s, n)
             [] OTHER -> TRUE
    BY <1>1, <1>5, <1>6 DEF ItemTurn
  <1>10. \A i : i \in 1 .. Len(a) <=> i \in 1 .. n \/ i = n + 1 BY <1>1
  <1>11. BlockTurns(a, hit) <=> BlockTurns(s, hit) /\ BlockTurn(a, hit, n + 1)
    BY <1>4, <1>10 DEF BlockTurns
  <1>12. ItemTurns(a) <=> ItemTurns(s) /\ ItemTurn(a, n + 1) BY <1>4, <1>10 DEF ItemTurns
  <1> QED BY <1>8, <1>9, <1>11, <1>12 DEF a

-----------------------------------------------------------------------------
(* The open block *)

\* Every block up to the one of this number has been opened, every one before it
\* closed, and it was opened as one of its kind.
BlocksTo(s, hit, kind, block) ==
    /\ BlockTurns(s, hit)
    /\ Named(s, "open", Len(s)) = Below(block + 1)
    /\ Named(s, "close", Len(s)) = Below(block)
    /\ kind \in {"text", "thinking", "tool"}
    /\ \E h \in 1 .. Len(s) : s[h] = Event("open", kind, block, <<>>)

\* A stop sequence only allows more.
LEMMA BlockTurnsHit ==
    ASSUME NEW s, NEW hit, BlockTurns(s, hit) PROVE BlockTurns(s, TRUE)
  <1>1. ASSUME NEW i \in 1 .. Len(s) PROVE BlockTurn(s, TRUE, i)
    <2>1. BlockTurn(s, hit, i) BY DEF BlockTurns
    <2>2. Known(s, hit, i) => Known(s, TRUE, i) BY DEF Known
    <2> QED BY <2>1, <2>2 DEF BlockTurn
  <1> QED BY <1>1 DEF BlockTurns

\* A delta of the open block.
LEMMA BlockDelta ==
    ASSUME NEW s \in Seq(Events), NEW hit \in BOOLEAN, NEW kind, NEW block \in Nat,
           BlocksTo(s, hit, kind, block),
           NEW v \in Events, v.type = "delta", v.index = block,
           v.kind = kind \/ (hit /\ v.kind = "thinking")
    PROVE  BlocksTo(Append(s, v), hit, kind, block)
  <1> DEFINE n == Len(s)
             a == Append(s, v)
  <1>1. /\ n \in Nat /\ Len(a) = n + 1 /\ (\A i \in 1 .. n : a[i] = s[i]) /\ a[n + 1] = v
    BY AppendEvent
  <1>2. /\ Named(a, "open", n + 1) = Named(s, "open", n)
        /\ Named(a, "close", n + 1) = Named(s, "close", n)
    BY ZenonT(40), NamedAppend
  <1>3. Open(s, n) = {block} BY BelowIs DEF Open, BlocksTo
  <1>4. PICK h \in 1 .. n : s[h] = Event("open", kind, block, <<>>) BY DEF BlocksTo
  <1>5. h \in 1 .. n + 1 /\ a[h] = Event("open", kind, block, <<>>) BY <1>1, <1>4
  <1>6. BlockTurns(a, hit)
    <2>1. BlockTurns(s, hit) BY DEF BlocksTo
    <2>2. \/ \E x \in 1 .. n : s[x] = Event("open", v.kind, v.index, <<>>)
          \/ hit /\ v.kind = "thinking"
      BY <1>4
    <2> QED BY <2>1, <2>2, <1>3, TurnsAppend
  <1> HIDE DEF a, n
  <1> QED BY <1>1, <1>2, <1>5, <1>6 DEF BlocksTo, a, n

\* The open block is closed.
LEMMA BlockClosed ==
    ASSUME NEW s \in Seq(Events), NEW hit \in BOOLEAN, NEW kind, NEW block \in Nat,
           BlocksTo(s, hit, kind, block),
           NEW v \in Events, v.type = "close", v.index = block, v.kind = kind
    PROVE  LET a == Append(s, v)
           IN  /\ BlockTurns(a, hit)
               /\ Named(a, "open", Len(a)) = Below(block + 1)
               /\ Named(a, "close", Len(a)) = Below(block + 1)
               /\ Open(a, Len(a)) = {}
  <1> DEFINE n == Len(s)
             a == Append(s, v)
  <1>1. n \in Nat /\ Len(a) = n + 1 BY AppendEvent
  <1>2. /\ Named(a, "open", n + 1) = Named(s, "open", n)
        /\ Named(a, "close", n + 1) = Named(s, "close", n) \union {block}
    BY NamedAppend
  <1>3. Open(s, n) = {block} BY BelowIs DEF Open, BlocksTo
  <1>4. PICK h \in 1 .. n : s[h] = Event("open", kind, block, <<>>) BY DEF BlocksTo
  <1>5. BlockTurns(a, hit)
    <2>1. BlockTurns(s, hit) BY DEF BlocksTo
    <2>2. \E x \in 1 .. n : s[x] = Event("open", v.kind, v.index, <<>>) BY <1>4
    <2> QED BY <2>1, <2>2, <1>3, TurnsAppend
  <1>6. Named(s, "close", n) \union {block} = Below(block + 1) BY BelowIs DEF BlocksTo
  <1>7. Named(s, "open", n) = Below(block + 1) BY DEF BlocksTo
  <1> HIDE DEF a, n
  <1> QED BY <1>1, <1>2, <1>5, <1>6, <1>7 DEF Open, a, n

\* The next block is opened.
LEMMA BlockOpened ==
    ASSUME NEW s \in Seq(Events), NEW hit \in BOOLEAN, NEW kind \in {"text", "thinking", "tool"},
           NEW block \in Nat,
           BlockTurns(s, hit), Named(s, "open", Len(s)) = Below(block),
           Named(s, "close", Len(s)) = Below(block),
           NEW v \in Events, v.type = "open", v.kind = kind, v.index = block, v.text = <<>>
    PROVE  LET a == Append(s, v)
           IN  /\ BlockTurns(a, hit)
               /\ Named(a, "open", Len(a)) = Below(block + 1)
               /\ Named(a, "close", Len(a)) = Below(block)
               /\ a[Len(a)] = v /\ Len(a) \in 1 .. Len(a)
               /\ BlocksTo(a, hit, kind, block)
  <1> DEFINE n == Len(s)
             a == Append(s, v)
  <1>1. v = Event("open", kind, block, <<>>) BY DEF Event, Events
  <1>2. n \in Nat /\ Len(a) = n + 1 /\ a[n + 1] = v /\ n + 1 \in 1 .. n + 1 BY AppendEvent
  <1>3. /\ Named(a, "open", n + 1) = Named(s, "open", n) \union {block}
        /\ Named(a, "close", n + 1) = Named(s, "close", n)
    BY ZenonT(40), NamedAppend
  <1>4. Open(s, n) = {} /\ Cardinality(Named(s, "open", n)) = block BY BelowIs DEF Open
  <1>5. BlockTurns(a, hit) BY <1>4, TurnsAppend
  <1>6. Named(s, "open", n) \union {block} = Below(block + 1) BY BelowIs
  <1>7. PICK k : k = n + 1 OBVIOUS
  <1>8. Len(a) = k /\ a[k] = v /\ k \in 1 .. k BY <1>2, <1>7
  <1>9. Named(a, "open", k) = Below(block + 1) /\ Named(a, "close", k) = Below(block)
    BY <1>3, <1>6, <1>7
  <1> HIDE DEF a, n
  <1>10. BlocksTo(a, hit, kind, block) BY <1>1, <1>5, <1>8, <1>9 DEF BlocksTo
  <1> QED BY <1>5, <1>8, <1>9, <1>10 DEF a

-----------------------------------------------------------------------------
(* The open item *)

\* ThoughtFirst, of the events of s.
FirstThought(s) ==
    \A i, h \in 1 .. Len(s) :
        s[i].kind = "text" /\ s[h].kind = "thinking" /\ s[h].type = "open" => h < i

\* Every item below this number has been opened and closed; one of this number is
\* open when the reasoning or the message is.
ItemsTo(s, index, reasoning, message) ==
    /\ message => \E h \in 1 .. Len(s) : s[h].kind = "text"
    /\ FirstThought(s) =>
          /\ ItemTurns(s)
          /\ ~(reasoning /\ message)
          /\ Named(s, "open", Len(s)) = IF reasoning \/ message THEN Below(index + 1) ELSE Below(index)
          /\ Named(s, "close", Len(s)) = Below(index)

\* What has been thought first in more has been thought first before.
LEMMA FirstThoughtBefore ==
    ASSUME NEW s \in Seq(Events), NEW v \in Events, FirstThought(Append(s, v))
    PROVE  FirstThought(s)
  <1> DEFINE a == Append(s, v)
  <1>1. Len(s) \in Nat /\ Len(a) = Len(s) + 1 /\ (\A i \in 1 .. Len(s) : a[i] = s[i]) BY AppendEvent
  <1> HIDE DEF a
  <1>2. FirstThought(a) BY DEF a
  <1>3. ASSUME NEW i \in 1 .. Len(s), NEW h \in 1 .. Len(s),
               s[i].kind = "text", s[h].kind = "thinking", s[h].type = "open"
        PROVE  h < i
    <2>1. i \in 1 .. Len(a) /\ h \in 1 .. Len(a) /\ a[i] = s[i] /\ a[h] = s[h] BY <1>1
    <2> QED BY <1>2, <1>3, <2>1 DEF FirstThought
  <1> QED BY <1>3 DEF FirstThought

\* Once there has been text.
LEMMA TextBefore ==
    ASSUME NEW s \in Seq(Events), NEW v \in Events, \E h \in 1 .. Len(s) : s[h].kind = "text"
    PROVE  /\ \E h \in 1 .. Len(Append(s, v)) : Append(s, v)[h].kind = "text"
           /\ v.kind = "thinking" /\ v.type = "open" => ~FirstThought(Append(s, v))
  <1> DEFINE a == Append(s, v)
  <1>1. /\ Len(s) \in Nat /\ Len(a) = Len(s) + 1 /\ (\A i \in 1 .. Len(s) : a[i] = s[i])
        /\ a[Len(s) + 1] = v
    BY AppendEvent
  <1> HIDE DEF a
  <1>2. PICK h \in 1 .. Len(s) : s[h].kind = "text" OBVIOUS
  <1>3. PICK k : k = Len(s) + 1 OBVIOUS
  <1>4. h \in 1 .. Len(a) /\ k \in 1 .. Len(a) /\ a[h].kind = "text" /\ a[k] = v /\ ~(k < h)
    BY <1>1, <1>2, <1>3
  <1>5. ASSUME v.kind = "thinking", v.type = "open" PROVE ~FirstThought(a)
    BY <1>4, <1>5 DEF FirstThought
  <1> QED BY <1>4, <1>5 DEF a

\* A delta of the open item, or an event that is about none.
LEMMA ItemSaid ==
    ASSUME NEW s \in Seq(Events), NEW index \in Nat, NEW reasoning \in BOOLEAN,
           NEW message \in BOOLEAN, ItemsTo(s, index, reasoning, message),
           NEW v \in Events, v.type \notin {"open", "close"},
           v.type = "delta" => (reasoning \/ message) /\ v.index = index
    PROVE  ItemsTo(Append(s, v), index, reasoning, message)
  <1> DEFINE n == Len(s)
             a == Append(s, v)
  <1>1. n \in Nat /\ Len(a) = n + 1 BY AppendEvent
  <1>2. /\ Named(a, "open", n + 1) = Named(s, "open", n)
        /\ Named(a, "close", n + 1) = Named(s, "close", n)
    BY NamedAppend
  <1>3. message => \E h \in 1 .. Len(a) : a[h].kind = "text" BY TextBefore DEF ItemsTo
  <1>4. ASSUME FirstThought(a) PROVE FirstThought(s) /\ ItemTurns(a)
    <2>1. FirstThought(s) BY <1>4, FirstThoughtBefore
    <2>2. ItemTurns(s) BY <2>1 DEF ItemsTo
    <2>3. v.type = "delta" => v.index \in Open(s, n)
      <3> SUFFICES ASSUME v.type = "delta" PROVE v.index \in Open(s, n) OBVIOUS
      <3>1. Named(s, "open", n) = Below(index + 1) /\ Named(s, "close", n) = Below(index)
        BY <2>1 DEF ItemsTo
      <3>2. v.index = index /\ index \in Below(index + 1) /\ index \notin Below(index) BY BelowIs
      <3>3. Open(s, n) = Below(index + 1) \ Below(index) BY <3>1 DEF Open
      <3> QED BY <3>2, <3>3
    <2> QED BY <2>1, <2>2, <2>3, TurnsAppend
  <1> HIDE DEF a, n
  <1>5. Named(a, "open", Len(a)) = Named(s, "open", Len(s)) BY <1>1, <1>2 DEF n
  <1>6. Named(a, "close", Len(a)) = Named(s, "close", Len(s)) BY <1>1, <1>2 DEF n
  <1>7. ItemsTo(a, index, reasoning, message) BY <1>3, <1>4, <1>5, <1>6 DEF ItemsTo
  <1> QED BY <1>7 DEF a

\* The reasoning item is closed and gives up its index.
LEMMA ItemClosed ==
    ASSUME NEW s \in Seq(Events), NEW index \in Nat, NEW message \in BOOLEAN,
           ItemsTo(s, index, TRUE, message),
           NEW v \in Events, v.type = "close", v.index = index
    PROVE  ItemsTo(Append(s, v), index + 1, FALSE, message)
  <1> DEFINE n == Len(s)
             a == Append(s, v)
  <1>1. n \in Nat /\ Len(a) = n + 1 BY AppendEvent
  <1>2. /\ Named(a, "open", n + 1) = Named(s, "open", n)
        /\ Named(a, "close", n + 1) = Named(s, "close", n) \union {index}
    BY ZenonT(40), NamedAppend
  <1>3. message => \E h \in 1 .. Len(a) : a[h].kind = "text" BY TextBefore DEF ItemsTo
  <1>4. ASSUME FirstThought(a)
        PROVE  /\ FirstThought(s) /\ ItemTurns(a) /\ message = FALSE
               /\ Named(s, "open", n) = Below(index + 1)
               /\ Named(s, "close", n) \union {index} = Below(index + 1)
    <2>1. FirstThought(s) BY <1>4, FirstThoughtBefore
    <2>2. /\ ItemTurns(s) /\ message = FALSE
          /\ Named(s, "open", n) = Below(index + 1) /\ Named(s, "close", n) = Below(index)
      BY <2>1 DEF ItemsTo
    <2>3. ItemTurns(a) BY <2>2, TurnsAppend
    <2> QED BY <2>1, <2>2, <2>3, BelowIs
  <1> HIDE DEF a, n
  <1>5. ItemsTo(a, index + 1, FALSE, message) BY <1>1, <1>2, <1>3, <1>4 DEF ItemsTo
  <1> QED BY <1>5 DEF a

\* With no item open, the reasoning or the message is announced.
LEMMA ItemOpened ==
    ASSUME NEW s \in Seq(Events), NEW index \in Nat, NEW message \in BOOLEAN,
           ItemsTo(s, index, FALSE, message),
           NEW v \in Events, v.type = "open", v.index = index
    PROVE  /\ v.kind = "thinking" => ItemsTo(Append(s, v), index, TRUE, message)
           /\ v.kind = "text" /\ ~message => ItemsTo(Append(s, v), index, FALSE, TRUE)
  <1> DEFINE n == Len(s)
             a == Append(s, v)
  <1>1. n \in Nat /\ Len(a) = n + 1 /\ a[n + 1] = v /\ n + 1 \in 1 .. n + 1 BY AppendEvent
  <1>2. /\ Named(a, "open", n + 1) = Named(s, "open", n) \union {index}
        /\ Named(a, "close", n + 1) = Named(s, "close", n)
    BY ZenonT(40), NamedAppend
  <1>3. message => \E h \in 1 .. Len(a) : a[h].kind = "text" BY TextBefore DEF ItemsTo
  <1>4. ASSUME FirstThought(a), ~message
        PROVE  /\ ItemTurns(a)
               /\ Named(s, "open", n) \union {index} = Below(index + 1)
               /\ Named(s, "close", n) = Below(index)
    <2>1. FirstThought(s) BY <1>4, FirstThoughtBefore
    <2>2. ItemTurns(s) /\ Named(s, "open", n) = Below(index) /\ Named(s, "close", n) = Below(index)
      BY <1>4, <2>1 DEF ItemsTo
    <2>3. Open(s, n) = {} /\ Cardinality(Named(s, "open", n)) = index BY <2>2, BelowIs DEF Open
    <2>4. ItemTurns(a) BY <2>2, <2>3, TurnsAppend
    <2> QED BY <2>2, <2>4, BelowIs
  <1>5. ASSUME v.kind = "thinking" PROVE FirstThought(a) => ~message
    <2>1. message => \E h \in 1 .. Len(s) : s[h].kind = "text" BY DEF ItemsTo
    <2> QED BY <1>5, <2>1, TextBefore
  <1>6. v.kind = "text" => \E h \in 1 .. Len(a) : a[h].kind = "text" BY <1>1
  <1> HIDE DEF a, n
  <1>7. v.kind = "thinking" => ItemsTo(a, index, TRUE, message)
    BY <1>1, <1>2, <1>3, <1>4, <1>5 DEF ItemsTo
  <1>8. v.kind = "text" /\ ~message => ItemsTo(a, index, FALSE, TRUE)
    BY <1>1, <1>2, <1>4, <1>6 DEF ItemsTo
  <1> QED BY <1>7, <1>8 DEF a

-----------------------------------------------------------------------------
(* The emitter *)

Em == [mode : Modes, kind : {"text", "thinking", ""}, window : Text, tail : Text, toolBuffer : Text,
       fromReasoning : BOOLEAN, fallback : BOOLEAN, suppress : BOOLEAN,
       content : Text, reasoning : Text, raw : Text, calls : SUBSET Call, remembered : Text,
       checkedPrefix : BOOLEAN, firstContent : Int, count : Nat, stopHit : BOOLEAN,
       block : Nat, reasoningOpen : BOOLEAN, messageOpen : BOOLEAN, outputIndex : Nat,
       reason : {"stop", "length", "tool_calls"}, sent : Seq(Events), pieces : Seq(Text)]

\* Of two emitters, all that sending a text leaves alone.
Same(d, e) ==
    /\ d.mode = e.mode /\ d.window = e.window /\ d.tail = e.tail /\ d.toolBuffer = e.toolBuffer
    /\ d.fromReasoning = e.fromReasoning /\ d.fallback = e.fallback /\ d.suppress = e.suppress
    /\ d.raw = e.raw /\ d.calls = e.calls /\ d.remembered = e.remembered
    /\ d.checkedPrefix = e.checkedPrefix /\ d.firstContent = e.firstContent /\ d.count = e.count
    /\ d.stopHit = e.stopHit /\ d.reason = e.reason /\ d.pieces = e.pieces

\* All that opening and closing blocks and items leaves alone.
Alike(d, e) == Same(d, e) /\ d.content = e.content /\ d.reasoning = e.reasoning

\* Neither has said more than the other.
Quiet(d, e) ==
    /\ Added(d.sent, "text") = Added(e.sent, "text")
    /\ Added(d.sent, "thinking") = Added(e.sent, "thinking")

\* The blocks or items are in turn.
Turned(f, e) ==
    /\ f = "anthropic" => BlocksTo(e.sent, e.stopHit, e.kind, e.block)
    /\ f = "responses" => ItemsTo(e.sent, e.outputIndex, e.reasoningOpen, e.messageOpen)
    /\ f # "responses" => e.reasoningOpen = FALSE

\* Sending one event, and two.
LEMMA SendIs ==
    ASSUME NEW e \in Em, NEW v \in Events, NEW w \in Events
    PROVE  /\ Send(e, <<v>>) = [e EXCEPT !.sent = Append(e.sent, v)]
           /\ Send(e, <<v, w>>) = [e EXCEPT !.sent = Append(Append(e.sent, v), w)]
           /\ e.sent \in Seq(Events) /\ Append(e.sent, v) \in Seq(Events)
           /\ Append(Append(e.sent, v), w) \in Seq(Events)
           /\ Send(e, <<v>>) \in Em /\ Send(e, <<v, w>>) \in Em
  <1>1. PICK s \in Seq(Events) : s = e.sent BY DEF Em
  <1>2. PICK a \in Seq(Events) : a = Append(s, v) /\ s \o <<v>> = a BY AppendEvent
  <1>3. PICK b \in Seq(Events) : b = Append(a, w) /\ a \o <<w>> = b BY AppendEvent
  <1>4. s \o <<v, w>> = b
    <2>1. PICK one \in Seq(Events) : one = <<v>> BY Short
    <2>2. <<v, w>> = Append(one, w) BY <2>1
    <2>3. s \o Append(one, w) = Append(s \o one, w) BY CatEvents
    <2> QED BY <1>2, <1>3, <2>1, <2>2, <2>3
  <1>5. Send(e, <<v>>) = [e EXCEPT !.sent = a] BY <1>1, <1>2 DEF Send
  <1>6. Send(e, <<v, w>>) = [e EXCEPT !.sent = b] BY <1>1, <1>4 DEF Send
  <1>7. [e EXCEPT !.sent = a] \in Em /\ [e EXCEPT !.sent = b] \in Em BY DEF Em
  <1> QED BY <1>1, <1>2, <1>3, <1>5, <1>6, <1>7

\* What has been said is a text.
LEMMA AddedType ==
    ASSUME NEW s \in Seq(Events), NEW kind PROVE Added(s, kind) \in Text
  BY PartType, FlattenType DEF Added

\* Opening and closing says nothing.
LEMMA QuietEvent ==
    ASSUME NEW s \in Seq(Events), NEW v \in Events, v.type # "delta", NEW kind
    PROVE  Added(Append(s, v), kind) = Added(s, kind)
  BY AddedAppend

\* An Anthropic answer goes on in an open block of the wanted kind.
LEMMA SwitchedIs ==
    ASSUME NEW e \in Em, NEW kind \in {"text", "thinking"},
           BlocksTo(e.sent, e.stopHit, e.kind, e.block)
    PROVE  LET s == Switched(e, kind)
           IN  /\ s \in Em /\ Alike(s, e) /\ Quiet(s, e) /\ s.kind = kind
               /\ s.reasoningOpen = e.reasoningOpen
               /\ BlocksTo(s.sent, s.stopHit, s.kind, s.block)
  <1> DEFINE s == Switched(e, kind)
  <1>1. CASE e.kind = kind BY <1>1 DEF Switched, Alike, Same, Quiet
  <1>2. CASE e.kind # kind
    <2>1. <<>> \in Text BY EmptySeq DEF Text
    <2>2. e.sent \in Seq(Events) /\ e.stopHit \in BOOLEAN /\ e.block \in Nat BY DEF Em
    <2>0. PICK k \in Nat : k = e.block + 1 BY <2>2
    <2>3. e.kind \in {"text", "thinking"} BY DEF BlocksTo, Em
    <2>4a. PICK v : v = Event("close", e.kind, e.block, <<>>) OBVIOUS
    <2>4. v \in Events /\ v.type = "close" /\ v.kind = e.kind /\ v.index = e.block
      BY <2>1, <2>2, <2>3, <2>4a DEF Event, Events
    <2>5a. PICK w : w = Event("open", kind, k, <<>>) OBVIOUS
    <2>5. w \in Events /\ w.type = "open" /\ w.kind = kind /\ w.index = k /\ w.text = <<>>
      BY <2>1, <2>2, <2>5a DEF Event, Events
    <2>6. PICK a \in Seq(Events) : a = Append(e.sent, v) BY <2>2, <2>4, AppendEvent
    <2>7. PICK b \in Seq(Events) : b = Append(a, w) BY <2>5, AppendEvent
    <2>8. PICK d : d = Send(e, <<v, w>>) OBVIOUS
    <2>9. d \in Em /\ d = [e EXCEPT !.sent = b] BY <2>4, <2>5, <2>6, <2>7, <2>8, SendIs
    <2>10. d.block = e.block /\ s = [d EXCEPT !.kind = kind, !.block = k]
      <3>1. d.block = e.block BY <2>9 DEF Em
      <3> QED BY <3>1, <1>2, <2>0, <2>4a, <2>5a, <2>8 DEF Switched
    <2> HIDE DEF s
    <2>11. /\ s \in Em /\ Alike(s, e) /\ s.kind = kind /\ s.sent = b
           /\ s.stopHit = e.stopHit /\ s.block = k /\ s.reasoningOpen = e.reasoningOpen
      <3>1. s \in Em BY ZenonT(40), <2>9, <2>10 DEF Em
      <3>2. /\ s.kind = kind /\ s.sent = b /\ s.stopHit = e.stopHit /\ s.block = k
            /\ s.reasoningOpen = e.reasoningOpen
        BY <2>9, <2>10 DEF Em
      <3>3. Alike(s, e) BY ZenonT(40), <2>9, <2>10 DEF Em, Alike, Same
      <3> QED BY <3>1, <3>2, <3>3
    <2>12. /\ BlockTurns(a, e.stopHit)
           /\ Named(a, "open", Len(a)) = Below(k)
           /\ Named(a, "close", Len(a)) = Below(k)
      <3>1. PICK k0 \in Nat : k0 = e.block BY <2>2
      <3>2. PICK hit \in BOOLEAN : hit = e.stopHit BY <2>2
      <3>3. BlocksTo(e.sent, hit, e.kind, k0) BY <3>1, <3>2
      <3> QED BY SMTT(60), <3>1, <3>2, <3>3, <2>0, <2>2, <2>4, <2>6, BlockClosed
    <2>13. BlocksTo(b, e.stopHit, kind, k) BY <2>2, <2>5, <2>7, <2>12, BlockOpened
    <2>14. Quiet(s, e)
      <3>1. \A x : Added(a, x) = Added(e.sent, x) BY <2>2, <2>4, <2>6, QuietEvent
      <3>2. \A x : Added(b, x) = Added(a, x) BY <2>5, <2>7, QuietEvent
      <3> QED BY <3>1, <3>2, <2>11 DEF Quiet
    <2> QED BY <2>11, <2>13, <2>14 DEF s
  <1> QED BY <1>1, <1>2

\* A Responses answer closes its reasoning item.
LEMMA ReasoningClosedIs ==
    ASSUME NEW e \in Em, ItemsTo(e.sent, e.outputIndex, e.reasoningOpen, e.messageOpen)
    PROVE  LET s == ReasoningClosed(e)
           IN  /\ s \in Em /\ Alike(s, e) /\ Quiet(s, e) /\ s.reasoningOpen = FALSE
               /\ s.kind = e.kind /\ s.block = e.block
               /\ ItemsTo(s.sent, s.outputIndex, s.reasoningOpen, s.messageOpen)
  <1> DEFINE s == ReasoningClosed(e)
  <1>0. e.reasoningOpen \in BOOLEAN BY DEF Em
  <1>1. CASE ~e.reasoningOpen
    <2>1. s = e /\ e.reasoningOpen = FALSE BY <1>0, <1>1 DEF ReasoningClosed
    <2> QED BY <2>1 DEF Alike, Same, Quiet
  <1>2. CASE e.reasoningOpen
    <2>1. e.sent \in Seq(Events) /\ e.messageOpen \in BOOLEAN /\ e.outputIndex \in Nat /\ e.reasoning \in Text
      BY DEF Em
    <2>2a. PICK v : v = Event("close", "thinking", e.outputIndex, e.reasoning) OBVIOUS
    <2>2. v \in Events /\ v.type = "close" /\ v.index = e.outputIndex
      BY <2>1, <2>2a DEF Event, Events
    <2>3. PICK a \in Seq(Events) : a = Append(e.sent, v) BY <2>1, <2>2, AppendEvent
    <2>4. PICK d : d = Send(e, <<v>>) OBVIOUS
    <2>5. d \in Em /\ d = [e EXCEPT !.sent = a] BY <2>2, <2>3, <2>4, SendIs
    <2>0. PICK k \in Nat : k = e.outputIndex + 1 BY <2>1
    <2>9. s = [d EXCEPT !.reasoningOpen = FALSE, !.outputIndex = k]
      <3>1. d.outputIndex = e.outputIndex BY <2>5 DEF Em
      <3> QED BY <3>1, <1>2, <2>0, <2>2a, <2>4 DEF ReasoningClosed
    <2> HIDE DEF s
    <2>6. /\ s \in Em /\ Alike(s, e) /\ s.sent = a /\ s.reasoningOpen = FALSE
          /\ s.messageOpen = e.messageOpen /\ s.outputIndex = k
          /\ s.kind = e.kind /\ s.block = e.block
      <3>1. s \in Em BY ZenonT(40), <2>5, <2>9 DEF Em
      <3>2. /\ s.sent = a /\ s.reasoningOpen = FALSE /\ s.messageOpen = e.messageOpen
            /\ s.outputIndex = k /\ s.kind = e.kind /\ s.block = e.block
        BY <2>5, <2>9 DEF Em
      <3>3. Alike(s, e) BY ZenonT(40), <2>5, <2>9 DEF Em, Alike, Same
      <3> QED BY <3>1, <3>2, <3>3
    <2>7. ItemsTo(a, k, FALSE, e.messageOpen)
      <3>1. ItemsTo(e.sent, e.outputIndex, TRUE, e.messageOpen) BY <1>0, <1>2
      <3> QED BY <3>1, <2>0, <2>1, <2>2, <2>3, ItemClosed
    <2>8. Quiet(s, e)
      <3>1. Added(a, "text") = Added(e.sent, "text") BY <2>1, <2>2, <2>3, QuietEvent
      <3>2. Added(a, "thinking") = Added(e.sent, "thinking") BY <2>1, <2>2, <2>3, QuietEvent
      <3> QED BY <3>1, <3>2, <2>6 DEF Quiet
    <2> QED BY <2>6, <2>7, <2>8 DEF s
  <1> QED BY <1>1, <1>2

\* It announces its message when the reasoning is closed, and its reasoning.
LEMMA ItemOpenedIs ==
    ASSUME NEW e \in Em, ItemsTo(e.sent, e.outputIndex, e.reasoningOpen, e.messageOpen)
    PROVE  /\ e.reasoningOpen = FALSE =>
                 LET s == MessageOpened(e)
                 IN  /\ s \in Em /\ Alike(s, e) /\ Quiet(s, e) /\ s.messageOpen = TRUE
                     /\ s.kind = e.kind /\ s.block = e.block
                     /\ ItemsTo(s.sent, s.outputIndex, s.reasoningOpen, s.messageOpen)
           /\ LET s == ReasoningOpened(e)
              IN  /\ s \in Em /\ Alike(s, e) /\ Quiet(s, e) /\ s.reasoningOpen = TRUE
                  /\ s.kind = e.kind /\ s.block = e.block
                  /\ ItemsTo(s.sent, s.outputIndex, s.reasoningOpen, s.messageOpen)
  <1>0. e.sent \in Seq(Events) /\ e.messageOpen \in BOOLEAN /\ e.reasoningOpen \in BOOLEAN
        /\ e.outputIndex \in Nat /\ <<>> \in Text
    BY EmptySeq DEF Em, Text
  <1>1. ASSUME e.reasoningOpen = FALSE
        PROVE  LET s == MessageOpened(e)
               IN  /\ s \in Em /\ Alike(s, e) /\ Quiet(s, e) /\ s.messageOpen = TRUE
                   /\ s.kind = e.kind /\ s.block = e.block
                   /\ ItemsTo(s.sent, s.outputIndex, s.reasoningOpen, s.messageOpen)
    <2> DEFINE s == MessageOpened(e)
    <2>1. CASE e.messageOpen
      <3>1. s = e /\ e.messageOpen = TRUE BY <1>0, <2>1 DEF MessageOpened
      <3> QED BY <3>1 DEF Alike, Same, Quiet
    <2>2. CASE ~e.messageOpen
      <3>1a. PICK v : v = Event("open", "text", e.outputIndex, <<>>) OBVIOUS
      <3>1. v \in Events /\ v.type = "open" /\ v.index = e.outputIndex /\ v.kind = "text"
        BY <1>0, <3>1a DEF Event, Events
      <3>2. PICK a \in Seq(Events) : a = Append(e.sent, v) BY <1>0, <3>1, AppendEvent
      <3>3. PICK d : d = Send(e, <<v>>) OBVIOUS
      <3>8. d \in Em /\ d = [e EXCEPT !.sent = a] BY <3>1, <3>2, <3>3, SendIs
      <3>4. s = [d EXCEPT !.messageOpen = TRUE] BY <2>2, <3>1a, <3>3 DEF MessageOpened
      <3> HIDE DEF s
      <3>5. /\ s \in Em /\ Alike(s, e) /\ s.sent = a /\ s.messageOpen = TRUE
            /\ s.reasoningOpen = e.reasoningOpen /\ s.outputIndex = e.outputIndex
            /\ s.kind = e.kind /\ s.block = e.block
        <4>1. s \in Em BY ZenonT(40), <3>8, <3>4 DEF Em
        <4>2. /\ s.sent = a /\ s.messageOpen = TRUE /\ s.reasoningOpen = e.reasoningOpen
              /\ s.outputIndex = e.outputIndex /\ s.kind = e.kind /\ s.block = e.block
          BY <3>8, <3>4 DEF Em
        <4>3. Alike(s, e) BY ZenonT(40), <3>8, <3>4 DEF Em, Alike, Same
        <4> QED BY <4>1, <4>2, <4>3
      <3>6. ItemsTo(a, e.outputIndex, FALSE, TRUE)
        <4>1. ItemsTo(e.sent, e.outputIndex, FALSE, e.messageOpen) BY <1>1
        <4> QED BY <4>1, <1>0, <2>2, <3>1, <3>2, ItemOpened
      <3>7. Quiet(s, e)
        <4>1. Added(a, "text") = Added(e.sent, "text") BY <1>0, <3>1, <3>2, QuietEvent
        <4>2. Added(a, "thinking") = Added(e.sent, "thinking") BY <1>0, <3>1, <3>2, QuietEvent
        <4> QED BY <4>1, <4>2, <3>5 DEF Quiet
      <3> QED BY <1>1, <3>5, <3>6, <3>7 DEF s
    <2> QED BY <2>1, <2>2
  <1>2. LET s == ReasoningOpened(e)
        IN  /\ s \in Em /\ Alike(s, e) /\ Quiet(s, e) /\ s.reasoningOpen = TRUE
            /\ s.kind = e.kind /\ s.block = e.block
            /\ ItemsTo(s.sent, s.outputIndex, s.reasoningOpen, s.messageOpen)
    <2> DEFINE s == ReasoningOpened(e)
    <2>1. CASE e.reasoningOpen
      <3>1. s = e /\ e.reasoningOpen = TRUE BY <1>0, <2>1 DEF ReasoningOpened
      <3> QED BY <3>1 DEF Alike, Same, Quiet
    <2>2. CASE ~e.reasoningOpen
      <3>1a. PICK v : v = Event("open", "thinking", e.outputIndex, <<>>) OBVIOUS
      <3>1. v \in Events /\ v.type = "open" /\ v.index = e.outputIndex /\ v.kind = "thinking"
        BY <1>0, <3>1a DEF Event, Events
      <3>2. PICK a \in Seq(Events) : a = Append(e.sent, v) BY <1>0, <3>1, AppendEvent
      <3>3. PICK d : d = Send(e, <<v>>) OBVIOUS
      <3>8. d \in Em /\ d = [e EXCEPT !.sent = a] BY <3>1, <3>2, <3>3, SendIs
      <3>4. s = [d EXCEPT !.reasoningOpen = TRUE] BY <2>2, <3>1a, <3>3 DEF ReasoningOpened
      <3> HIDE DEF s
      <3>5. /\ s \in Em /\ Alike(s, e) /\ s.sent = a /\ s.reasoningOpen = TRUE
            /\ s.messageOpen = e.messageOpen /\ s.outputIndex = e.outputIndex
            /\ s.kind = e.kind /\ s.block = e.block
        <4>1. s \in Em BY ZenonT(40), <3>8, <3>4 DEF Em
        <4>2. /\ s.sent = a /\ s.reasoningOpen = TRUE /\ s.messageOpen = e.messageOpen
              /\ s.outputIndex = e.outputIndex /\ s.kind = e.kind /\ s.block = e.block
          BY <3>8, <3>4 DEF Em
        <4>3. Alike(s, e) BY ZenonT(40), <3>8, <3>4 DEF Em, Alike, Same
        <4> QED BY <4>1, <4>2, <4>3
      <3>6. ItemsTo(a, e.outputIndex, TRUE, e.messageOpen)
        <4>1. ItemsTo(e.sent, e.outputIndex, FALSE, e.messageOpen) BY <1>0, <2>2
        <4> QED BY <4>1, <1>0, <3>1, <3>2, ItemOpened
      <3>7. Quiet(s, e)
        <4>1. Added(a, "text") = Added(e.sent, "text") BY <1>0, <3>1, <3>2, QuietEvent
        <4>2. Added(a, "thinking") = Added(e.sent, "thinking") BY <1>0, <3>1, <3>2, QuietEvent
        <4> QED BY <4>1, <4>2, <3>5 DEF Quiet
      <3> QED BY <3>5, <3>6, <3>7 DEF s
    <2> QED BY <2>1, <2>2
  <1> QED BY <1>1, <1>2

-----------------------------------------------------------------------------
(* Saying *)

\* What the client has been sent is what the emitter keeps, in turn.
Told(f, e) ==
    /\ Added(e.sent, "text") = e.content
    /\ (e.stopHit /\ f = "responses") \/ Added(e.sent, "thinking") = e.reasoning
    /\ Turned(f, e)

ThreeFormats == {"openai", "anthropic", "responses"}

\* d is e with one more delta sent.
Uttered(d, e, v) ==
    /\ d \in Em /\ d.sent = Append(e.sent, v) /\ e.sent \in Seq(Events) /\ Alike(d, e)
    /\ d.kind = e.kind /\ d.block = e.block /\ d.outputIndex = e.outputIndex
    /\ d.reasoningOpen = e.reasoningOpen /\ d.messageOpen = e.messageOpen
    /\ \A k : Added(d.sent, k) = IF v.kind = k THEN Added(e.sent, k) \o v.text ELSE Added(e.sent, k)

\* One delta.
LEMMA DeltaIs ==
    ASSUME NEW e \in Em, NEW v \in Events, v.type = "delta"
    PROVE  Uttered(Delta(e, v.kind, v.index, v.text), e, v)
  <1>1. v = Event("delta", v.kind, v.index, v.text) BY DEF Event, Events
  <1>2. PICK d : d = Delta(e, v.kind, v.index, v.text) OBVIOUS
  <1>3. PICK a \in Seq(Events) : a = Append(e.sent, v) BY AppendEvent DEF Em
  <1>4. d = Send(e, <<v>>) BY <1>1, <1>2 DEF Delta
  <1>5. d \in Em /\ d = [e EXCEPT !.sent = a] /\ e.sent \in Seq(Events) BY <1>3, <1>4, SendIs
  <1>6. /\ d.sent = a /\ d.kind = e.kind /\ d.block = e.block /\ d.outputIndex = e.outputIndex
        /\ d.reasoningOpen = e.reasoningOpen /\ d.messageOpen = e.messageOpen
    BY <1>5 DEF Em
  <1>7. Alike(d, e) BY ZenonT(40), <1>5 DEF Em, Alike, Same
  <1>8. \A k : Added(a, k) = IF v.kind = k THEN Added(e.sent, k) \o v.text ELSE Added(e.sent, k)
    BY <1>3, <1>5, AddedAppend
  <1> QED BY <1>2, <1>3, <1>5, <1>6, <1>7, <1>8 DEF Uttered

\* An event for a text.
LEMMA DeltaEvent ==
    ASSUME NEW kind \in {"text", "thinking"}, NEW index \in Nat, NEW text \in Text
    PROVE  \E v \in Events : v.type = "delta" /\ v.kind = kind /\ v.index = index /\ v.text = text
  <1>1. Event("delta", kind, index, text) \in Events BY DEF Event, Events
  <1>2. PICK v \in Events : v = Event("delta", kind, index, text) BY <1>1
  <1>3. v.type = "delta" /\ v.kind = kind /\ v.index = index /\ v.text = text BY <1>2 DEF Event
  <1> QED BY <1>3

\* c is e with one more text of a kind sent, in turn.
Spoke(f, c, e, kind, text) ==
    /\ c \in Em /\ Alike(c, e) /\ Turned(f, c)
    /\ \A k \in {"text", "thinking"} :
          Added(c.sent, k) = IF k = kind THEN Added(e.sent, k) \o text ELSE Added(e.sent, k)

\* Where nothing is said, nothing changes.
LEMMA NothingSpoken ==
    ASSUME NEW e \in Em, NEW kind \in {"text", "thinking"}, NEW f, Turned(f, e)
    PROVE  Spoke(f, e, e, kind, <<>>)
  <1>1. e.sent \in Seq(Events) BY DEF Em
  <1>2. ASSUME NEW k PROVE Added(e.sent, k) = Added(e.sent, k) \o <<>>
    <2>1. Added(e.sent, k) \in Text BY <1>1, AddedType
    <2> QED BY <2>1, CatIs
  <1>3. Alike(e, e) BY DEF Alike, Same
  <1> QED BY <1>2, <1>3 DEF Spoke

\* An Anthropic delta goes to the open block.
LEMMA BlockSpoken ==
    ASSUME NEW e \in Em, NEW kind \in {"text", "thinking"}, NEW text \in Text,
           Turned("anthropic", e), e.kind = kind \/ (e.stopHit /\ kind = "thinking")
    PROVE  LET d == Delta(e, kind, e.block, text)
           IN  Spoke("anthropic", d, e, kind, text)
  <1>0. BlocksTo(e.sent, e.stopHit, e.kind, e.block) /\ e.reasoningOpen = FALSE BY DEF Turned
  <1>1. e.block \in Nat /\ e.stopHit \in BOOLEAN BY DEF Em
  <1>2. PICK v \in Events : v.type = "delta" /\ v.kind = kind /\ v.index = e.block /\ v.text = text
    BY <1>1, DeltaEvent
  <1>3. PICK d : d = Delta(e, kind, e.block, text) OBVIOUS
  <1>4. Uttered(d, e, v)
    <2>1. d = Delta(e, v.kind, v.index, v.text) BY <1>2, <1>3
    <2> QED BY <2>1, <1>2, DeltaIs
  <1>5. /\ d \in Em /\ d.sent = Append(e.sent, v) /\ e.sent \in Seq(Events) /\ Alike(d, e)
        /\ d.kind = e.kind /\ d.block = e.block /\ d.stopHit = e.stopHit
        /\ d.reasoningOpen = e.reasoningOpen
    BY <1>4 DEF Uttered, Alike, Same
  <1>6. BlocksTo(Append(e.sent, v), e.stopHit, e.kind, e.block)
    <2>0. PICK own : own = e.kind OBVIOUS
    <2>1. PICK s \in Seq(Events), hit \in BOOLEAN, block \in Nat :
             s = e.sent /\ hit = e.stopHit /\ block = e.block
      BY <1>1, <1>5
    <2>2. BlocksTo(s, hit, own, block) BY <1>0, <2>0, <2>1
    <2>3. v.index = block /\ (v.kind = own \/ (hit /\ v.kind = "thinking")) BY <1>2, <2>0, <2>1
    <2>4. BlocksTo(Append(s, v), hit, own, block) BY <1>2, <2>2, <2>3, BlockDelta
    <2> QED BY <2>0, <2>1, <2>4
  <1>7. Turned("anthropic", d) BY <1>0, <1>5, <1>6 DEF Turned
  <1>8. \A k : Added(d.sent, k) = IF k = kind THEN Added(e.sent, k) \o text ELSE Added(e.sent, k)
    BY <1>2, <1>4 DEF Uttered
  <1> QED BY <1>3, <1>5, <1>7, <1>8 DEF Spoke

\* A Responses delta goes to the open item.
LEMMA ItemSpoken ==
    ASSUME NEW e \in Em, NEW kind \in {"text", "thinking"}, NEW text \in Text,
           ItemsTo(e.sent, e.outputIndex, e.reasoningOpen, e.messageOpen),
           e.reasoningOpen \/ e.messageOpen
    PROVE  LET d == Delta(e, kind, e.outputIndex, text)
           IN  Spoke("responses", d, e, kind, text)
  <1>1. e.outputIndex \in Nat /\ e.reasoningOpen \in BOOLEAN /\ e.messageOpen \in BOOLEAN BY DEF Em
  <1>2. PICK v \in Events : /\ v.type = "delta" /\ v.kind = kind /\ v.index = e.outputIndex
                            /\ v.text = text
    BY <1>1, DeltaEvent
  <1>3. PICK d : d = Delta(e, kind, e.outputIndex, text) OBVIOUS
  <1>4. Uttered(d, e, v)
    <2>1. d = Delta(e, v.kind, v.index, v.text) BY <1>2, <1>3
    <2> QED BY <2>1, <1>2, DeltaIs
  <1>5. /\ d \in Em /\ d.sent = Append(e.sent, v) /\ e.sent \in Seq(Events) /\ Alike(d, e)
        /\ d.outputIndex = e.outputIndex /\ d.reasoningOpen = e.reasoningOpen
        /\ d.messageOpen = e.messageOpen
    BY <1>4 DEF Uttered
  <1>6. ItemsTo(Append(e.sent, v), e.outputIndex, e.reasoningOpen, e.messageOpen)
    <2>1. PICK s \in Seq(Events), index \in Nat, reasoning \in BOOLEAN, message \in BOOLEAN :
             /\ s = e.sent /\ index = e.outputIndex
             /\ reasoning = e.reasoningOpen /\ message = e.messageOpen
      BY <1>1, <1>5
    <2>2. ItemsTo(s, index, reasoning, message) BY <2>1
    <2>3. v.index = index /\ (reasoning \/ message) /\ v.type \notin {"open", "close"} BY <1>2, <2>1
    <2>4. ItemsTo(Append(s, v), index, reasoning, message) BY <2>2, <2>3, ItemSaid
    <2> QED BY <2>1, <2>4
  <1>7. Turned("responses", d) BY <1>5, <1>6 DEF Turned
  <1>8. \A k : Added(d.sent, k) = IF k = kind THEN Added(e.sent, k) \o text ELSE Added(e.sent, k)
    BY <1>2, <1>4 DEF Uttered
  <1> QED BY <1>3, <1>5, <1>7, <1>8 DEF Spoke

\* An OpenAI delta has no place.
LEMMA PlainSpoken ==
    ASSUME NEW e \in Em, NEW kind \in {"text", "thinking"}, NEW text \in Text,
           Turned("openai", e)
    PROVE  Spoke("openai", Delta(e, kind, 0, text), e, kind, text)
  <1>1. PICK v \in Events : v.type = "delta" /\ v.kind = kind /\ v.index = 0 /\ v.text = text
    BY DeltaEvent
  <1>2. PICK d : d = Delta(e, kind, 0, text) OBVIOUS
  <1>3. Uttered(d, e, v)
    <2>1. d = Delta(e, v.kind, v.index, v.text) BY <1>1, <1>2
    <2> QED BY <2>1, <1>1, DeltaIs
  <1>4. d \in Em /\ Alike(d, e) /\ d.reasoningOpen = e.reasoningOpen BY <1>3 DEF Uttered
  <1>5. Turned("openai", d) BY <1>4 DEF Turned
  <1>6. \A k : Added(d.sent, k) = IF k = kind THEN Added(e.sent, k) \o text ELSE Added(e.sent, k)
    BY <1>1, <1>3 DEF Uttered
  <1> QED BY <1>2, <1>4, <1>5, <1>6 DEF Spoke

\* What is said after opening and closing is said all the same.
LEMMA QuietSpoke ==
    ASSUME NEW f, NEW d, NEW s, NEW e, NEW kind, NEW text,
           Alike(s, e), Quiet(s, e), Spoke(f, d, s, kind, text)
    PROVE  Spoke(f, d, e, kind, text)
  <1>1. Alike(d, e) BY DEF Spoke, Alike, Same
  <1>2. \A k \in {"text", "thinking"} : Added(s.sent, k) = Added(e.sent, k) BY DEF Quiet
  <1> QED BY <1>1, <1>2 DEF Spoke

\* The deltas of the answer's text.
LEMMA ContentDeltaIs ==
    ASSUME NEW e \in Em, NEW text \in Text, req.format \in ThreeFormats, Turned(req.format, e)
    PROVE  Spoke(req.format, ContentDelta(e, text), e, "text", text)
  <1> DEFINE c == ContentDelta(e, text)
  <1>0. "text" \in {"text", "thinking"} OBVIOUS
  <1>1. CASE text = <<>>
    <2>1. c = e BY <1>1 DEF ContentDelta
    <2>2. Spoke(req.format, e, e, "text", <<>>) BY <1>0, NothingSpoken
    <2> QED BY <1>1, <2>1, <2>2
  <1>2. CASE text # <<>> /\ req.format = "anthropic"
    <2>1. BlocksTo(e.sent, e.stopHit, e.kind, e.block) BY <1>2 DEF Turned
    <2>2. PICK s : s = Switched(e, "text") OBVIOUS
    <2>3. /\ s \in Em /\ Alike(s, e) /\ Quiet(s, e) /\ s.kind = "text"
          /\ s.reasoningOpen = e.reasoningOpen
          /\ BlocksTo(s.sent, s.stopHit, s.kind, s.block)
      BY <1>0, <2>1, <2>2, SwitchedIs
    <2>4. c = Delta(s, "text", s.block, text) BY <1>2, <2>2 DEF ContentDelta
    <2>7. PICK kind \in {"text", "thinking"} : kind = "text" BY <1>0
    <2>10. Turned("anthropic", s) BY <1>2, <2>3 DEF Turned
    <2>9. s.kind = kind \/ (s.stopHit /\ kind = "thinking") BY <2>3, <2>7
    <2>8. Spoke("anthropic", Delta(s, kind, s.block, text), s, kind, text)
      BY <2>3, <2>9, <2>10, BlockSpoken
    <2>5. Spoke("anthropic", Delta(s, "text", s.block, text), s, "text", text) BY <2>7, <2>8
    <2>6. Spoke("anthropic", c, e, "text", text) BY <2>3, <2>4, <2>5, QuietSpoke
    <2> QED BY <1>2, <2>6
  <1>3. CASE text # <<>> /\ req.format = "responses"
    <2>1. ItemsTo(e.sent, e.outputIndex, e.reasoningOpen, e.messageOpen) BY <1>3 DEF Turned
    <2>2. PICK r : r = ReasoningClosed(e) OBVIOUS
    <2>3. /\ r \in Em /\ Alike(r, e) /\ Quiet(r, e) /\ r.reasoningOpen = FALSE
          /\ ItemsTo(r.sent, r.outputIndex, r.reasoningOpen, r.messageOpen)
      BY <2>1, <2>2, ReasoningClosedIs
    <2>4. PICK m : m = MessageOpened(r) OBVIOUS
    <2>5. /\ m \in Em /\ Alike(m, r) /\ Quiet(m, r) /\ m.messageOpen = TRUE
          /\ ItemsTo(m.sent, m.outputIndex, m.reasoningOpen, m.messageOpen)
      BY <2>3, <2>4, ItemOpenedIs
    <2>6. c = Delta(m, "text", m.outputIndex, text) BY <1>3, <2>2, <2>4 DEF ContentDelta
    <2>7. Spoke("responses", Delta(m, "text", m.outputIndex, text), m, "text", text)
      BY <1>0, <2>5, ItemSpoken
    <2>8. Spoke("responses", c, r, "text", text) BY <2>5, <2>6, <2>7, QuietSpoke
    <2>9. Spoke("responses", c, e, "text", text) BY <2>3, <2>8, QuietSpoke
    <2> QED BY <1>3, <2>9
  <1>4. CASE text # <<>> /\ req.format = "openai"
    <2>1. c = Delta(e, "text", 0, text) BY <1>4 DEF ContentDelta
    <2>2. Turned("openai", e) BY <1>4
    <2> QED BY <2>2, <1>0, <1>4, <2>1, PlainSpoken
  <1> QED BY <1>1, <1>2, <1>3, <1>4 DEF ThreeFormats

\* And those of its reasoning.
LEMMA ReasoningDeltaIs ==
    ASSUME NEW e \in Em, NEW text \in Text, req.format \in ThreeFormats, Turned(req.format, e)
    PROVE  Spoke(req.format, ReasoningDelta(e, text), e, "thinking", text)
  <1> DEFINE c == ReasoningDelta(e, text)
  <1>0. "thinking" \in {"text", "thinking"} OBVIOUS
  <1>1. CASE text = <<>>
    <2>1. c = e BY <1>1 DEF ReasoningDelta
    <2>2. Spoke(req.format, e, e, "thinking", <<>>) BY <1>0, NothingSpoken
    <2> QED BY <1>1, <2>1, <2>2
  <1>2. CASE text # <<>> /\ req.format = "anthropic"
    <2>1. BlocksTo(e.sent, e.stopHit, e.kind, e.block) BY <1>2 DEF Turned
    <2>2. PICK s : s = Switched(e, "thinking") OBVIOUS
    <2>3. /\ s \in Em /\ Alike(s, e) /\ Quiet(s, e) /\ s.kind = "thinking"
          /\ s.reasoningOpen = e.reasoningOpen
          /\ BlocksTo(s.sent, s.stopHit, s.kind, s.block)
      BY <1>0, <2>1, <2>2, SwitchedIs
    <2>4. c = Delta(s, "thinking", s.block, text) BY <1>2, <2>2 DEF ReasoningDelta
    <2>7. Turned("anthropic", s) BY <1>2, <2>3 DEF Turned
    <2>5. Spoke("anthropic", Delta(s, "thinking", s.block, text), s, "thinking", text)
      BY <1>0, <2>3, <2>7, BlockSpoken
    <2>6. Spoke("anthropic", c, e, "thinking", text) BY <2>3, <2>4, <2>5, QuietSpoke
    <2> QED BY <1>2, <2>6
  <1>3. CASE text # <<>> /\ req.format = "responses"
    <2>1. ItemsTo(e.sent, e.outputIndex, e.reasoningOpen, e.messageOpen) BY <1>3 DEF Turned
    <2>2. PICK m : m = ReasoningOpened(e) OBVIOUS
    <2>3. /\ m \in Em /\ Alike(m, e) /\ Quiet(m, e) /\ m.reasoningOpen = TRUE
          /\ ItemsTo(m.sent, m.outputIndex, m.reasoningOpen, m.messageOpen)
      BY <2>1, <2>2, ItemOpenedIs
    <2>4. c = Delta(m, "thinking", m.outputIndex, text) BY <1>3, <2>2 DEF ReasoningDelta
    <2>5. Spoke("responses", Delta(m, "thinking", m.outputIndex, text), m, "thinking", text)
      BY <1>0, <2>3, ItemSpoken
    <2>6. Spoke("responses", c, e, "thinking", text) BY <2>3, <2>4, <2>5, QuietSpoke
    <2> QED BY <1>3, <2>6
  <1>4. CASE text # <<>> /\ req.format = "openai"
    <2>1. c = Delta(e, "thinking", 0, text) BY <1>4 DEF ReasoningDelta
    <2>2. Turned("openai", e) BY <1>4
    <2> QED BY <2>2, <1>0, <1>4, <2>1, PlainSpoken
  <1> QED BY <1>1, <1>2, <1>3, <1>4 DEF ThreeFormats

\* Every text that becomes part of the answer is sent, and nothing else changes.
LEMMA SayIs ==
    ASSUME NEW e \in Em, NEW text \in Text, req.format \in ThreeFormats, Told(req.format, e)
    PROVE  LET s == Say(e, text)
           IN  /\ s \in Em /\ Same(s, e) /\ Told(req.format, s)
               /\ s.content = e.content \o text /\ s.reasoning = e.reasoning
  <1>1. e.content \in Text BY DEF Em
  <1>2. PICK t \in Text : t = e.content \o text BY <1>1, CatIs
  <1>3. PICK f : f = [e EXCEPT !.content = t] OBVIOUS
  <1>4. f \in Em BY <1>3 DEF Em
  <1>5. Same(f, e) /\ f.content = t /\ f.reasoning = e.reasoning BY <1>3 DEF Em, Same
  <1>6. /\ f.sent = e.sent /\ f.kind = e.kind /\ f.block = e.block /\ f.outputIndex = e.outputIndex
        /\ f.reasoningOpen = e.reasoningOpen /\ f.messageOpen = e.messageOpen
    BY <1>3 DEF Em
  <1>7. Turned(req.format, f) BY <1>5, <1>6 DEF Turned, Told, Same
  <1>8. PICK s : s = ContentDelta(f, text) OBVIOUS
  <1>13. Spoke(req.format, s, f, "text", text) BY <1>4, <1>7, <1>8, ContentDeltaIs
  <1>9. /\ s \in Em /\ Alike(s, f) /\ Turned(req.format, s)
        /\ Added(s.sent, "text") = Added(f.sent, "text") \o text
        /\ Added(s.sent, "thinking") = Added(f.sent, "thinking")
    BY <1>13 DEF Spoke
  <1>10. Say(e, text) = s BY <1>2, <1>3, <1>8 DEF Say
  <1>11. Same(s, e) /\ s.content = t /\ s.reasoning = e.reasoning BY <1>5, <1>9 DEF Alike, Same
  <1>12. Told(req.format, s)
    <2>1. s.stopHit = e.stopHit BY <1>11 DEF Same
    <2> QED BY <2>1, <1>2, <1>6, <1>9, <1>11 DEF Told
  <1> QED BY <1>2, <1>9, <1>10, <1>11, <1>12

\* And every text that becomes part of its reasoning.
LEMMA ThinkIs ==
    ASSUME NEW e \in Em, NEW text \in Text, req.format \in ThreeFormats, Told(req.format, e)
    PROVE  LET s == Think(e, text)
           IN  /\ s \in Em /\ Same(s, e) /\ Told(req.format, s)
               /\ s.reasoning = e.reasoning \o text /\ s.content = e.content
  <1>1. e.reasoning \in Text BY DEF Em
  <1>2. PICK t \in Text : t = e.reasoning \o text BY <1>1, CatIs
  <1>3. PICK f : f = [e EXCEPT !.reasoning = t] OBVIOUS
  <1>4. f \in Em BY <1>3 DEF Em
  <1>5. Same(f, e) /\ f.reasoning = t /\ f.content = e.content BY <1>3 DEF Em, Same
  <1>6. /\ f.sent = e.sent /\ f.kind = e.kind /\ f.block = e.block /\ f.outputIndex = e.outputIndex
        /\ f.reasoningOpen = e.reasoningOpen /\ f.messageOpen = e.messageOpen
    BY <1>3 DEF Em
  <1>7. Turned(req.format, f) BY <1>5, <1>6 DEF Turned, Told, Same
  <1>8. PICK s : s = ReasoningDelta(f, text) OBVIOUS
  <1>13. Spoke(req.format, s, f, "thinking", text) BY <1>4, <1>7, <1>8, ReasoningDeltaIs
  <1>9. /\ s \in Em /\ Alike(s, f) /\ Turned(req.format, s)
        /\ Added(s.sent, "thinking") = Added(f.sent, "thinking") \o text
        /\ Added(s.sent, "text") = Added(f.sent, "text")
    BY <1>13 DEF Spoke
  <1>10. Think(e, text) = s BY <1>2, <1>3, <1>8 DEF Think
  <1>11. Same(s, e) /\ s.reasoning = t /\ s.content = e.content BY <1>5, <1>9 DEF Alike, Same
  <1>12. Told(req.format, s)
    <2>1. s.stopHit = e.stopHit BY <1>11 DEF Same
    <2> QED BY <2>1, <1>2, <1>6, <1>9, <1>11 DEF Told
  <1> QED BY <1>2, <1>9, <1>10, <1>11, <1>12

-----------------------------------------------------------------------------
(* Texts of tokens *)

\* No token writes a wrapped name.
Unwrapped(text) == \A i \in 1 .. Len(text) : text[i] # "z"

\* Nor does what is cut out of such texts.
LEMMA UnwrappedSub ==
    ASSUME NEW text \in Text, Unwrapped(text), NEW m \in Nat, m >= 1, NEW n \in Int, n <= Len(text)
    PROVE  Unwrapped(SubSeq(text, m, n))
  <1> DEFINE d == SubSeq(text, m, n)
  <1>1. Len(text) \in Nat BY TextIs
  <1>2. /\ d \in Text /\ Len(d) = IF m <= n THEN n - m + 1 ELSE 0
        /\ \A i \in 1 .. n - m + 1 : d[i] = text[m + i - 1]
    BY SubIs
  <1> HIDE DEF d
  <1>3. ASSUME NEW i \in 1 .. Len(d) PROVE d[i] # "z"
    <2>1. i \in 1 .. n - m + 1 /\ m + i - 1 \in 1 .. Len(text) BY <1>1, <1>2
    <2> QED BY <2>1, <1>2 DEF Unwrapped
  <1> QED BY <1>3 DEF Unwrapped, d

\* Nor does what is joined from them.
LEMMA UnwrappedCat ==
    ASSUME NEW s \in Text, NEW t \in Text, Unwrapped(s), Unwrapped(t)
    PROVE  Unwrapped(s \o t)
  <1> DEFINE d == s \o t
  <1>1. Len(s) \in Nat /\ Len(t) \in Nat BY TextIs
  <1>2. /\ Len(d) = Len(s) + Len(t) /\ (\A i \in 1 .. Len(s) : d[i] = s[i])
        /\ \A i \in 1 .. Len(t) : d[Len(s) + i] = t[i]
    BY CatIs
  <1> HIDE DEF d
  <1>3. ASSUME NEW i \in 1 .. Len(d) PROVE d[i] # "z"
    <2>1. CASE i <= Len(s)
      <3>1. i \in 1 .. Len(s) BY <1>1, <1>2, <2>1
      <3> QED BY <3>1, <1>2 DEF Unwrapped
    <2>2. CASE i > Len(s)
      <3>1. i - Len(s) \in 1 .. Len(t) /\ Len(s) + (i - Len(s)) = i BY <1>1, <1>2, <2>2
      <3>2. d[Len(s) + (i - Len(s))] = t[i - Len(s)] /\ t[i - Len(s)] # "z"
        BY <3>1, <1>2 DEF Unwrapped
      <3> QED BY <3>1, <3>2
    <2> QED BY <1>1, <1>2, <2>1, <2>2
  <1> QED BY <1>3 DEF Unwrapped, d

\* Half characters are replaced one by one.
LEMMA SanitizedIs ==
    ASSUME NEW text \in Text, Unwrapped(text)
    PROVE  /\ Sanitized(text) \in Text /\ Len(Sanitized(text)) = Len(text)
           /\ Unwrapped(Sanitized(text)) /\ Sanitized(<<>>) = <<>>
           /\ \A i \in 1 .. Len(text) : Sanitized(text)[i] \in {"?", text[i]}
  <1> DEFINE d == Sanitized(text)
             half(i) == \/ text[i] = "u1" /\ (i = Len(text) \/ text[i + 1] # "u2")
                        \/ text[i] = "u2" /\ (i = 1 \/ text[i - 1] # "u1")
  <1>1. Len(text) \in Nat /\ \A i \in 1 .. Len(text) : text[i] \in Symbol BY TextIs
  <1>2. d = [i \in 1 .. Len(text) |-> IF half(i) THEN "?" ELSE text[i]] BY DEF Sanitized
  <1>3. ASSUME NEW i \in 1 .. Len(text)
        PROVE  (IF half(i) THEN "?" ELSE text[i]) \in Symbol
    <2>1. "?" \in Symbol BY DEF Symbol
    <2> HIDE DEF half
    <2> QED BY <1>1, <2>1
  <1> HIDE DEF d, half
  <1>4. d \in [1 .. Len(text) -> Symbol] BY <1>2, <1>3
  <1>5. d \in Text /\ Len(d) = Len(text) BY <1>1, <1>4 DEF Text
  <1>6. \A i \in 1 .. Len(text) : d[i] \in {"?", text[i]} BY <1>2
  <1>7. Unwrapped(d) BY <1>5, <1>6 DEF Unwrapped
  <1>8. Sanitized(<<>>) = <<>>
    <2>1. Len(<<>>) = 0 /\ 1 .. 0 = {} OBVIOUS
    <2> QED BY <2>1 DEF Sanitized
  <1> QED BY <1>5, <1>6, <1>7, <1>8 DEF d

\* What is held back is half a character or nothing, in front of it the rest.
LEMMA TailIs ==
    ASSUME NEW text \in Text, Unwrapped(text)
    PROVE  /\ TailOf(text) \in {<<>>, <<"u1">>} /\ TailOf(text) \in Text /\ Unwrapped(TailOf(text))
           /\ Len(TailOf(text)) <= 1 /\ Len(TailOf(text)) \in Nat /\ Len(TailOf(text)) <= Len(text)
           /\ TailOf(<<>>) = <<>> /\ TailOf(<<"u1">>) = <<"u1">>
  <1>1. Len(text) \in Nat /\ (text = <<>> <=> Len(text) = 0) BY TextIs
  <1>2. "u1" \in Symbol /\ "u1" # "z" BY DEF Symbol
  <1>3. <<>> \in Text /\ Len(<<>>) = 0 /\ Unwrapped(<<>>) BY EmptySeq DEF Text, Unwrapped
  <1>4. <<"u1">> \in Text /\ Len(<<"u1">>) = 1 BY <1>2, Short DEF Text
  <1>5. Unwrapped(<<"u1">>)
    <2>1. \A i \in 1 .. 1 : <<"u1">>[i] = "u1" OBVIOUS
    <2> QED BY <2>1, <1>2, <1>4 DEF Unwrapped
  <1>6. TailOf(text) = <<>> \/ (TailOf(text) = <<"u1">> /\ text # <<>>) BY DEF TailOf
  <1>7. TailOf(<<>>) = <<>> /\ TailOf(<<"u1">>) = <<"u1">>
    <2>1. <<"u1">> # <<>> /\ <<"u1">>[Len(<<"u1">>)] = "u1" BY <1>4
    <2> QED BY <2>1 DEF TailOf
  <1>8. PICK t : t = TailOf(text) OBVIOUS
  <1>9. t = <<>> \/ (t = <<"u1">> /\ Len(text) # 0) BY <1>1, <1>6, <1>8
  <1>10. Len(t) = 0 \/ (Len(t) = 1 /\ Len(text) # 0) BY <1>3, <1>4, <1>9
  <1>11. Len(t) <= 1 /\ Len(t) \in Nat /\ Len(t) <= Len(text)
    <2>1. PICK n \in Nat : n = Len(text) BY <1>1
    <2>2. PICK k : k = Len(t) OBVIOUS
    <2>3. k = 0 \/ (k = 1 /\ n # 0) BY <1>10, <2>1, <2>2
    <2>4. k <= 1 /\ k \in Nat /\ k <= n BY <2>3
    <2> QED BY <2>1, <2>2, <2>4
  <1>12. t \in {<<>>, <<"u1">>} /\ t \in Text /\ Unwrapped(t) BY <1>3, <1>4, <1>5, <1>9
  <1> QED BY <1>7, <1>8, <1>11, <1>12

\* Where the stop sequence is.
LEMMA StopAt ==
    ASSUME NEW text \in Text
    PROVE  /\ At(text, Stop) \in SUBSET Nat /\ Len(Stop) = 3
           /\ \A i : i \in At(text, Stop) <=>
                        /\ i \in 1 .. Len(text) - 2
                        /\ text[i] = "s1" /\ text[i + 1] = "s2" /\ text[i + 2] = "s3"
  <1>1. Len(text) \in Nat BY TextIs
  <1>2. Len(Stop) = 3 /\ Stop[1] = "s1" /\ Stop[2] = "s2" /\ Stop[3] = "s3" BY DEF Stop
  <1>3. Stop \in Text
    <2>1. "s1" \in Symbol /\ "s2" \in Symbol /\ "s3" \in Symbol BY DEF Symbol
    <2> QED BY <2>1 DEF Stop, Text
  <1>4. ASSUME NEW i \in 1 .. Len(text) - 2
        PROVE  SubSeq(text, i, i + 3 - 1) = Stop <=>
                  text[i] = "s1" /\ text[i + 1] = "s2" /\ text[i + 2] = "s3"
    <2> DEFINE d == SubSeq(text, i, i + 3 - 1)
    <2>1. i \in Nat /\ i >= 1 /\ i + 3 - 1 \in Int /\ i + 3 - 1 <= Len(text) BY <1>1
    <2>2. /\ d \in Text /\ Len(d) = IF i <= i + 3 - 1 THEN i + 3 - 1 - i + 1 ELSE 0
          /\ \A x \in 1 .. i + 3 - 1 - i + 1 : d[x] = text[i + x - 1]
      BY <2>1, SubIs
    <2> HIDE DEF d
    <2>3. Len(d) = 3 BY <2>1, <2>2
    <2>4. d[1] = text[i] /\ d[2] = text[i + 1] /\ d[3] = text[i + 2]
      <3>1. /\ 1 \in 1 .. i + 3 - 1 - i + 1 /\ 2 \in 1 .. i + 3 - 1 - i + 1
            /\ 3 \in 1 .. i + 3 - 1 - i + 1
            /\ i + 1 - 1 = i /\ i + 2 - 1 = i + 1 /\ i + 3 - 1 = i + 2
        BY <2>1
      <3> QED BY <3>1, <2>2
    <2>5. ASSUME d[1] = "s1", d[2] = "s2", d[3] = "s3" PROVE d = Stop
      <3>1. \A x \in 1 .. Len(d) : d[x] = Stop[x]
        <4>1. \A x \in 1 .. 3 : x = 1 \/ x = 2 \/ x = 3 OBVIOUS
        <4> QED BY <4>1, <1>2, <2>3, <2>5
      <3> QED BY <3>1, <1>2, <1>3, <2>2, <2>3, SeqEqual DEF Text
    <2> QED BY <2>4, <2>5, <1>2 DEF d
  <1>5. At(text, Stop) = {i \in 1 .. Len(text) - 2 :
                             text[i] = "s1" /\ text[i + 1] = "s2" /\ text[i + 2] = "s3"}
    <2>1. Len(text) - 3 + 1 = Len(text) - 2 BY <1>1
    <2>2. At(text, Stop) = {i \in 1 .. Len(text) - 2 : SubSeq(text, i, i + 3 - 1) = Stop}
      BY <2>1, <1>2 DEF At
    <2> QED BY <2>2, <1>4
  <1> DEFINE A == At(text, Stop)
  <1>6. \A i : i \in A <=> /\ i \in 1 .. Len(text) - 2
                           /\ text[i] = "s1" /\ text[i + 1] = "s2" /\ text[i + 2] = "s3"
    BY <1>5
  <1> HIDE DEF A
  <1>7. A \in SUBSET Nat
    <2> SUFFICES ASSUME NEW i \in A PROVE i \in Nat OBVIOUS
    <2>1. i \in 1 .. Len(text) - 2 BY <1>6
    <2> QED BY <2>1, <1>1
  <1> QED BY <1>2, <1>6, <1>7 DEF A

\* How much of a window goes out: all that is left in it where it holds back
\* enough, and never more than there is.
LEMMA ReleasableIs ==
    ASSUME NEW text \in Text, req.vocabulary.stop \in BOOLEAN
    PROVE  /\ Releasable(text) \in 0 .. Len(text)
           /\ req.vocabulary.stop /\ Releasable(text) > 0 => Len(text) - Releasable(text) >= 3
           /\ NameHeld(text, Releasable(text)) \in 0 .. Releasable(text)
  <1>1. Len(text) \in Nat BY TextIs
  <1>2. PICK h \in Nat : h = Holdback /\ (req.vocabulary.stop => h >= 3) /\ h >= 1
    <2>1. SyntaxHoldback = 1
      <3>1. Len(ToolOpen) = 2 BY DEF ToolOpen
      <3> QED BY <3>1 DEF SyntaxHoldback
    <2>2. StopHoldback = IF req.vocabulary.stop THEN 3 ELSE 0 BY StopAt DEF StopHoldback
    <2> DEFINE A == {SyntaxHoldback, StopHoldback}
    <2>3. A \in SUBSET Nat /\ A # {} /\ (\A j \in A : j <= 3) /\ 3 \in Nat BY <2>1, <2>2
    <2> HIDE DEF A
    <2>4. Max(A) \in A /\ Max(A) \in Nat /\ \A j \in A : j <= Max(A) BY <2>3, MaxIs
    <2>5. SyntaxHoldback <= Max(A) /\ StopHoldback <= Max(A) BY <2>4 DEF A
    <2>6. Holdback = Max(A) BY DEF Holdback, A
    <2> QED BY <2>1, <2>2, <2>4, <2>5, <2>6
  <1>3. PICK r : r = Releasable(text) OBVIOUS
  <1>4. r = IF Len(text) > h THEN SafeLen(text, Len(text) - h) ELSE 0 BY <1>2, <1>3 DEF Releasable
  <1>5. r \in 0 .. Len(text) /\ (r > 0 => Len(text) - r >= h)
    <2>1. CASE Len(text) > h
      <3>1. PICK n \in Nat : n = Len(text) - h /\ n > 0 BY <1>1, <2>1
      <3>2. r = n \/ r = n - 1 BY <1>4, <2>1, <3>1 DEF SafeLen
      <3> QED BY <1>1, <1>2, <3>1, <3>2
    <2>2. CASE ~(Len(text) > h) BY <1>1, <1>4, <2>2
    <2> QED BY <2>1, <2>2
  <1>6. NameHeld(text, r) \in 0 .. r
    <2>1. PICK m : m = NameStart(text, r + 1) OBVIOUS
    <2>2. r + 1 \in Nat /\ r + 1 >= 1 BY <1>1, <1>5
    <2>3. m \in 1 .. r + 1 BY <2>1, <2>2, NameStartIs
    <2>4. r \in Nat BY <1>1, <1>5
    <2>5. NameHeld(text, r) = IF HasTools /\ r + 1 - m < NameLimit THEN r - (r + 1 - m) ELSE r
      BY <2>1 DEF NameHeld
    <2>6. r - (r + 1 - m) \in 0 .. r /\ r \in 0 .. r BY <2>3, <2>4
    <2> QED BY <2>5, <2>6
  <1> QED BY <1>2, <1>3, <1>5, <1>6

-----------------------------------------------------------------------------
(* The emitter while the answer is generated *)

Typed(e) ==
    /\ e \in Em
    /\ e.mode # "TOOL_BUFFER" => e.toolBuffer = <<>>
    /\ Len(e.window) <= Len(e.raw) /\ Len(e.tail) <= 1
    /\ e.firstContent \in -1 .. e.count /\ e.count = Len(e.pieces)

\* How much of the text is in the window no more.
Gone(e) == Len(e.raw) - Len(e.window)

KeptLength(e) == Len(e.content) + Len(e.reasoning)

\* Where there is a stop sequence to wait for: it has not come, the window is the
\* end of the text, what was in front of the window is no part of a stop sequence
\* that reaches into it, and of that no more has been kept than there was.
Watching(e) ==
    /\ At(e.raw, Stop) = {}
    /\ \A x \in 1 .. Len(e.window) : e.raw[Gone(e) + x] = e.window[x]
    /\ Len(e.window) >= 2 \/ Gone(e) = 0 \/ e.raw[Gone(e)] \notin {"s1", "s2"}
    /\ KeptLength(e) <= Gone(e)

\* It has come, and only what was in front of it is kept.
Ahead(e) == At(e.raw, Stop) # {} /\ KeptLength(e) < Min(At(e.raw, Stop))

\* The stop sequence is honoured so far.
Watched(r, e) ==
    /\ e.stopHit =>
          /\ r.vocabulary.stop /\ e.mode # "TOOL_BUFFER" /\ e.pieces # <<>> /\ e.window = <<>>
          /\ Ahead(e)
          /\ TailOf(Last(e.pieces)) = <<>> => e.tail = <<>>
    /\ r.vocabulary.stop /\ e.mode # "TOOL_BUFFER" /\ ~e.stopHit => Watching(e)

Plainly(e) ==
    /\ Unwrapped(e.window) /\ Unwrapped(e.tail) /\ Unwrapped(e.toolBuffer)
    /\ e.tail \in {<<>>, <<"u1">>} /\ e.calls = {}

\* What holds of the emitter until the answer has ended.
Running(r, e) == Typed(e) /\ Plainly(e) /\ Told(r.format, e) /\ Watched(r, e)

\* Of two emitters, all that taking text from the window leaves alone.
Moved(f, s) ==
    /\ f.kind = s.kind /\ f.tail = s.tail /\ f.suppress = s.suppress
    /\ f.content = s.content /\ f.reasoning = s.reasoning /\ f.raw = s.raw /\ f.calls = s.calls
    /\ f.remembered = s.remembered /\ f.firstContent = s.firstContent /\ f.count = s.count
    /\ f.stopHit = s.stopHit /\ f.block = s.block /\ f.reasoningOpen = s.reasoningOpen
    /\ f.messageOpen = s.messageOpen /\ f.outputIndex = s.outputIndex /\ f.reason = s.reason
    /\ f.sent = s.sent /\ f.pieces = s.pieces

\* What has been told does not depend on the window.
LEMMA MovedTold ==
    ASSUME NEW f, NEW s, Moved(f, s), NEW format, Told(format, s)
    PROVE  Told(format, f)
  BY DEF Moved, Told, Turned

\* The lengths of an emitter's texts.
LEMMA EmTexts ==
    ASSUME NEW e \in Em
    PROVE  /\ e.window \in Text /\ e.raw \in Text /\ e.content \in Text /\ e.reasoning \in Text
           /\ e.tail \in Text /\ e.toolBuffer \in Text
           /\ Len(e.window) \in Nat /\ Len(e.raw) \in Nat /\ Len(e.content) \in Nat
           /\ Len(e.reasoning) \in Nat /\ Len(e.tail) \in Nat
           /\ e.mode \in Modes /\ e.stopHit \in BOOLEAN
  <1>1. /\ e.window \in Text /\ e.raw \in Text /\ e.content \in Text /\ e.reasoning \in Text
        /\ e.tail \in Text /\ e.toolBuffer \in Text /\ e.mode \in Modes /\ e.stopHit \in BOOLEAN
    BY DEF Em
  <1> QED BY <1>1, TextIs

\* What is kept has a length.
LEMMA KeptIs == ASSUME NEW e \in Em PROVE KeptLength(e) \in Nat
  <1>1. PICK a \in Nat, b \in Nat : a = Len(e.content) /\ b = Len(e.reasoning) BY EmTexts
  <1>2. a + b \in Nat OBVIOUS
  <1> QED BY <1>1, <1>2 DEF KeptLength

\* f is what e became: no stop sequence has ended the answer, and nothing more was
\* given to it.
Onward(r, f, e) == Running(r, f) /\ ~f.stopHit /\ f.pieces = e.pieces

\* A part of the window's front goes out or is dropped: no more of it is kept than
\* was in it, and it does not end within what may be the stop sequence.
LEMMA WindowMoved ==
    ASSUME NEW r, r.vocabulary.stop \in BOOLEAN, NEW e, Running(r, e), ~e.stopHit,
           e.mode # "TOOL_BUFFER",
           NEW s \in Em, Same(s, e), Told(r.format, s), NEW j \in 1 .. Len(e.window) + 1,
           KeptLength(s) <= KeptLength(e) + j - 1,
           NEW f \in Em, Moved(f, s), f.window = From(e.window, j), f.mode # "TOOL_BUFFER",
           f.toolBuffer = <<>>,
           \/ j = 1
           \/ r.vocabulary.stop => Len(f.window) >= 2
           \/ e.window[j - 1] \notin {"s1", "s2"}
    PROVE  Onward(r, f, e)
  <1>1. Typed(e) /\ Plainly(e) /\ Watched(r, e) /\ e \in Em BY DEF Running, Typed
  <1>2. /\ e.window \in Text /\ Len(e.window) \in Nat /\ Len(e.raw) \in Nat /\ j \in Nat /\ j >= 1
        /\ Len(e.window) <= Len(e.raw)
    BY <1>1, EmTexts DEF Typed
  <1>3. /\ f.raw = e.raw /\ f.tail = e.tail /\ f.calls = e.calls /\ f.firstContent = e.firstContent
        /\ f.count = e.count /\ f.stopHit = e.stopHit /\ f.pieces = e.pieces
        /\ f.content = s.content /\ f.reasoning = s.reasoning
    BY DEF Moved, Same
  <1>4. /\ Len(f.window) = Len(e.window) - j + 1
        /\ \A x \in 1 .. Len(e.window) - j + 1 : f.window[x] = e.window[j + x - 1]
    <2>1. PICK w \in Text : w = e.window BY <1>2
    <2>2. j <= Len(w) + 1 BY <1>2, <2>1
    <2>3. /\ Len(From(w, j)) = Len(w) - j + 1
          /\ \A x \in 1 .. Len(w) - j + 1 : From(w, j)[x] = w[j + x - 1]
      BY <1>2, <2>2, FromIs
    <2>4. f.window = From(w, j) BY <2>1
    <2> QED BY <2>1, <2>3, <2>4
  <1>5. Unwrapped(f.window)
    <2>1. Len(e.window) \in Int /\ Len(e.window) <= Len(e.window) /\ Unwrapped(e.window)
      BY <1>1, <1>2 DEF Plainly
    <2>2. Unwrapped(SubSeq(e.window, j, Len(e.window))) BY <1>2, <2>1, UnwrappedSub
    <2> QED BY <2>2 DEF From
  <1>6. Unwrapped(<<>>)
    <2>1. Len(<<>>) = 0 /\ 1 .. 0 = {} OBVIOUS
    <2> QED BY <2>1 DEF Unwrapped
  <1>7. Typed(f) /\ Plainly(f)
    <2>1. Len(f.window) <= Len(f.raw) BY <1>2, <1>3, <1>4
    <2>2. Typed(f) BY <1>1, <1>3, <2>1 DEF Typed
    <2>3. Plainly(f) BY <1>1, <1>3, <1>5, <1>6 DEF Plainly
    <2> QED BY <2>2, <2>3
  <1>8. Told(r.format, f) BY MovedTold
  <1>9. ASSUME r.vocabulary.stop PROVE Watching(f)
    <2>1. Watching(e) BY <1>1, <1>9 DEF Watched
    <2>2. PICK g \in Nat : g = Gone(e) /\ g = Len(e.raw) - Len(e.window)
      <3>1. PICK a \in Nat, b \in Nat : a = Len(e.raw) /\ b = Len(e.window) BY <1>2
      <3>2. a - b \in Nat BY <1>2, <3>1
      <3> QED BY <3>1, <3>2 DEF Gone
    <2>3. Gone(f) = g + j - 1 BY <1>2, <1>3, <1>4, <2>2 DEF Gone
    <2>4. At(f.raw, Stop) = {} BY <1>3, <2>1 DEF Watching
    <2>5. ASSUME NEW x \in 1 .. Len(f.window) PROVE f.raw[Gone(f) + x] = f.window[x]
      <3>1. j + x - 1 \in 1 .. Len(e.window) /\ x \in 1 .. Len(e.window) - j + 1
            /\ g + j - 1 + x = g + (j + x - 1)
        BY <1>2, <1>4
      <3>2. e.raw[g + (j + x - 1)] = e.window[j + x - 1] BY <2>1, <2>2, <3>1 DEF Watching
      <3>3. f.window[x] = e.window[j + x - 1] BY <1>4, <3>1
      <3> QED BY <1>3, <2>3, <3>1, <3>2, <3>3
    <2>6. Len(f.window) >= 2 \/ Gone(f) = 0 \/ f.raw[Gone(f)] \notin {"s1", "s2"}
      <3>1. CASE j = 1
        <4>1. Gone(f) = g /\ Len(f.window) = Len(e.window) BY <1>2, <1>4, <2>2, <2>3, <3>1
        <4> QED BY <4>1, <1>3, <2>1, <2>2 DEF Watching
      <3>2. CASE Len(f.window) >= 2 BY <3>2
      <3>3. CASE j # 1 /\ e.window[j - 1] \notin {"s1", "s2"}
        <4>1. j - 1 \in 1 .. Len(e.window) /\ g + (j - 1) = g + j - 1 BY <1>2, <3>3
        <4>2. e.raw[g + (j - 1)] = e.window[j - 1] BY <2>1, <2>2, <4>1 DEF Watching
        <4> QED BY <1>3, <2>3, <3>3, <4>1, <4>2
      <3> QED BY <1>9, <3>1, <3>2, <3>3
    <2>7. KeptLength(f) <= Gone(f)
      <3>1. KeptLength(e) <= g BY <2>1, <2>2 DEF Watching
      <3>2. KeptLength(f) = KeptLength(s) BY <1>3 DEF KeptLength
      <3>3. PICK a \in Nat : a = KeptLength(e) BY <1>1, KeptIs
      <3>4. PICK b \in Nat : b = KeptLength(s) BY KeptIs
      <3>5. b <= a + j - 1 /\ a <= g BY <3>1, <3>3, <3>4
      <3> QED BY <1>2, <2>3, <3>2, <3>4, <3>5
    <2> QED BY <2>4, <2>5, <2>6, <2>7 DEF Watching
  <1>10. ~f.stopHit BY <1>3
  <1>11. Watched(r, f) BY <1>9, <1>10 DEF Watched
  <1> QED BY <1>3, <1>7, <1>8, <1>10, <1>11 DEF Running, Onward

\* The rest of the window goes to the tool buffer.
LEMMA ToolsMoved ==
    ASSUME NEW r, NEW e, Running(r, e), ~e.stopHit,
           NEW s \in Em, Same(s, e), Told(r.format, s), NEW j \in 1 .. Len(e.window) + 1,
           NEW f \in Em, Moved(f, s), f.window = <<>>, f.mode = "TOOL_BUFFER",
           f.toolBuffer = From(e.window, j)
    PROVE  Onward(r, f, e)
  <1>1. Typed(e) /\ Plainly(e) /\ e \in Em BY DEF Running, Typed
  <1>2. /\ e.window \in Text /\ Len(e.window) \in Nat /\ Len(e.raw) \in Nat /\ j \in Nat /\ j >= 1
    BY <1>1, EmTexts
  <1>3. /\ f.raw = e.raw /\ f.tail = e.tail /\ f.calls = e.calls /\ f.firstContent = e.firstContent
        /\ f.count = e.count /\ f.stopHit = e.stopHit /\ f.pieces = e.pieces
    BY DEF Moved, Same
  <1>4. Unwrapped(f.toolBuffer)
    <2>1. Len(e.window) \in Int /\ Len(e.window) <= Len(e.window) /\ Unwrapped(e.window)
      BY <1>1, <1>2 DEF Plainly
    <2>2. Unwrapped(SubSeq(e.window, j, Len(e.window))) BY <1>2, <2>1, UnwrappedSub
    <2> QED BY <2>2 DEF From
  <1>5. Len(<<>>) = 0 /\ Unwrapped(<<>>)
    <2>1. Len(<<>>) = 0 /\ 1 .. 0 = {} OBVIOUS
    <2> QED BY <2>1 DEF Unwrapped
  <1>6. Len(f.window) <= Len(f.raw)
    <2>1. Len(f.window) = 0 BY <1>5
    <2> QED BY <2>1, <1>2, <1>3
  <1>7. Typed(f) BY <1>1, <1>3, <1>6 DEF Typed
  <1>8. Plainly(f) BY <1>1, <1>3, <1>4, <1>5 DEF Plainly
  <1>9. Told(r.format, f) BY MovedTold
  <1>10. ~f.stopHit BY <1>3
  <1>11. Watched(r, f) BY <1>10 DEF Watched
  <1> QED BY <1>3, <1>7, <1>8, <1>9, <1>10, <1>11 DEF Running, Onward

-----------------------------------------------------------------------------
(* A round *)

\* What a request may ask.
Asked(r) ==
    r.format \in ThreeFormats /\ r.vocabulary.stop \in BOOLEAN /\ r.vocabulary.tools \in BOOLEAN

\* Requests ask for one of three formats, and may declare tools and a stop sequence.
LEMMA ReqIs == ASSUME req \in Requests PROVE Asked(req)
  BY EmitterAssumption DEF Requests, Asked, ThreeFormats

\* s is e with one more text said.
Voiced(r, s, e, text) ==
    /\ s \in Em /\ Same(s, e) /\ Told(r.format, s)
    /\ KeptLength(s) = KeptLength(e) + Len(text)

\* Saying and thinking both add a text to what is kept.
LEMMA SpeakIs ==
    ASSUME NEW e \in Em, NEW text \in Text, Asked(req), Told(req.format, e)
    PROVE  Voiced(req, Say(e, text), e, text) /\ Voiced(req, Think(e, text), e, text)
  <1>1. req.format \in ThreeFormats BY DEF Asked
  <1>2. e.content \in Text /\ e.reasoning \in Text BY EmTexts
  <1>3. /\ Len(e.content) \in Nat /\ Len(e.reasoning) \in Nat /\ Len(text) \in Nat
        /\ Len(e.content \o text) = Len(e.content) + Len(text)
        /\ Len(e.reasoning \o text) = Len(e.reasoning) + Len(text)
    BY <1>2, TextIs, CatIs
  <1>4. PICK a \in Nat, b \in Nat, n \in Nat :
           a = Len(e.content) /\ b = Len(e.reasoning) /\ n = Len(text)
    BY <1>3
  <1>5. Voiced(req, Say(e, text), e, text)
    <2> DEFINE s == Say(e, text)
    <2>1. /\ s \in Em /\ Same(s, e) /\ Told(req.format, s)
          /\ s.content = e.content \o text /\ s.reasoning = e.reasoning
      BY <1>1, SayIs
    <2> HIDE DEF s
    <2>2. Len(s.content) = a + n /\ Len(s.reasoning) = b BY <1>3, <1>4, <2>1
    <2>3. (a + n) + b = (a + b) + n OBVIOUS
    <2>4. KeptLength(s) = KeptLength(e) + Len(text) BY <1>4, <2>2, <2>3 DEF KeptLength
    <2>5. Voiced(req, s, e, text) BY <2>1, <2>4 DEF Voiced
    <2> QED BY <2>5 DEF s
  <1>6. Voiced(req, Think(e, text), e, text)
    <2> DEFINE s == Think(e, text)
    <2>1. /\ s \in Em /\ Same(s, e) /\ Told(req.format, s)
          /\ s.reasoning = e.reasoning \o text /\ s.content = e.content
      BY <1>1, ThinkIs
    <2> HIDE DEF s
    <2>2. Len(s.content) = a /\ Len(s.reasoning) = b + n BY <1>3, <1>4, <2>1
    <2>3. a + (b + n) = (a + b) + n OBVIOUS
    <2>4. KeptLength(s) = KeptLength(e) + Len(text) BY <1>4, <2>2, <2>3 DEF KeptLength
    <2>5. Voiced(req, s, e, text) BY <2>1, <2>4 DEF Voiced
    <2> QED BY <2>5 DEF s
  <1> QED BY <1>5, <1>6

\* An answer of any format closes its reasoning item if it has one.
LEMMA ReasoningEnds ==
    ASSUME NEW e \in Em, Told(req.format, e)
    PROVE  LET s == ReasoningClosed(e)
           IN  /\ s \in Em /\ Alike(s, e) /\ Told(req.format, s) /\ KeptLength(s) = KeptLength(e)
               /\ s.reasoningOpen = FALSE /\ s.kind = e.kind /\ s.block = e.block
  <1> DEFINE s == ReasoningClosed(e)
  <1>1. CASE req.format = "responses"
    <2>1. ItemsTo(e.sent, e.outputIndex, e.reasoningOpen, e.messageOpen)
      BY <1>1 DEF Told, Turned
    <2>2. /\ s \in Em /\ Alike(s, e) /\ Quiet(s, e) /\ s.reasoningOpen = FALSE
          /\ s.kind = e.kind /\ s.block = e.block
          /\ ItemsTo(s.sent, s.outputIndex, s.reasoningOpen, s.messageOpen)
      BY <2>1, ReasoningClosedIs
    <2> HIDE DEF s
    <2>3. Turned(req.format, s) BY <1>1, <2>2 DEF Turned
    <2>4. Told(req.format, s) BY <2>2, <2>3 DEF Told, Alike, Same, Quiet
    <2>5. KeptLength(s) = KeptLength(e) BY <2>2 DEF KeptLength, Alike
    <2>6. /\ s \in Em /\ Alike(s, e) /\ Told(req.format, s) /\ KeptLength(s) = KeptLength(e)
          /\ s.reasoningOpen = FALSE /\ s.kind = e.kind /\ s.block = e.block
      BY <2>2, <2>4, <2>5
    <2> QED BY <2>6 DEF s
  <1>2. CASE req.format # "responses"
    <2>1. e.reasoningOpen = FALSE BY <1>2 DEF Told, Turned
    <2>2. s = e BY <2>1 DEF ReasoningClosed
    <2>3. Alike(e, e) BY DEF Alike, Same
    <2> HIDE DEF s
    <2>4. /\ s \in Em /\ Alike(s, e) /\ Told(req.format, s) /\ KeptLength(s) = KeptLength(e)
          /\ s.reasoningOpen = FALSE /\ s.kind = e.kind /\ s.block = e.block
      BY <2>1, <2>2, <2>3
    <2> QED BY <2>4 DEF s
  <1> QED BY <1>1, <1>2

\* A text that was in the window's front has been said, and with it a delimiter
\* may be gone.
LEMMA SpokenMoved ==
    ASSUME Asked(req), NEW e, Running(req, e), ~e.stopHit, e.mode # "TOOL_BUFFER",
           NEW i \in 1 .. Len(e.window) + 1, NEW j \in i .. Len(e.window) + 1,
           NEW s, Voiced(req, s, e, Before(e.window, i)), NEW mode \in {"CONTENT", "REASONING"},
           \/ j = 1
           \/ req.vocabulary.stop => Len(e.window) - j + 1 >= 2
           \/ e.window[j - 1] \notin {"s1", "s2"}
    PROVE  LET f == [s EXCEPT !.window = From(e.window, j), !.mode = mode]
           IN  Onward(req, f, e)
  <1> DEFINE f == [s EXCEPT !.window = From(e.window, j), !.mode = mode]
  <1>1. Typed(e) /\ e \in Em /\ e.toolBuffer = <<>> BY DEF Running, Typed
  <1>2. e.window \in Text /\ Len(e.window) \in Nat BY <1>1, EmTexts
  <1>3. i \in Nat /\ j \in Nat /\ j >= 1 /\ i >= 1 /\ i <= j /\ j \in 1 .. Len(e.window) + 1 BY <1>2
  <1>4. PICK w \in Text : w = From(e.window, j) BY <1>2, <1>3, FromIs
  <1>5. Len(w) = Len(e.window) - j + 1
    <2>1. j <= Len(e.window) + 1 BY <1>2, <1>3
    <2> QED BY <1>2, <1>3, <1>4, <2>1, FromIs
  <1>6. s \in Em /\ Same(s, e) /\ Told(req.format, s)
        /\ KeptLength(s) = KeptLength(e) + Len(Before(e.window, i))
    BY DEF Voiced
  <1>7. Len(Before(e.window, i)) = i - 1 BY <1>2, BeforeIs
  <1>8. KeptLength(s) <= KeptLength(e) + j - 1
    <2>1. PICK a \in Nat : a = KeptLength(e) BY <1>1, KeptIs
    <2>2. KeptLength(s) = a + (i - 1) BY <1>6, <1>7, <2>1
    <2> QED BY <1>3, <2>1, <2>2
  <1>9. f = [s EXCEPT !.window = w, !.mode = mode] BY <1>4
  <1> HIDE DEF f
  <1>10. mode \in Modes BY DEF Modes
  <1>11. f \in Em BY <1>6, <1>9, <1>10 DEF Em
  <1>12. f.window = w /\ f.mode = mode /\ Moved(f, s) /\ f.toolBuffer = s.toolBuffer
    BY <1>6, <1>9 DEF Em, Moved
  <1>13. f.window = From(e.window, j) /\ f.mode # "TOOL_BUFFER" /\ f.toolBuffer = <<>>
    BY <1>1, <1>4, <1>6, <1>12 DEF Same
  <1>14. \/ j = 1
         \/ req.vocabulary.stop => Len(f.window) >= 2
         \/ e.window[j - 1] \notin {"s1", "s2"}
    BY <1>5, <1>12
  <1>15. req.vocabulary.stop \in BOOLEAN BY DEF Asked
  <1>16. Onward(req, f, e)
    BY <1>3, <1>6, <1>8, <1>11, <1>12, <1>13, <1>14, <1>15, WindowMoved
  <1> QED BY <1>16 DEF f

\* The tool buffer is opened.
LEMMA BufferOpened ==
    ASSUME NEW e, Running(req, e), ~e.stopHit,
           NEW s \in Em, Same(s, e), Told(req.format, s), NEW j \in 1 .. Len(e.window) + 1,
           NEW before \in BOOLEAN, NEW fallback \in BOOLEAN
    PROVE  LET f == ToBuffer(s, j, before, fallback)
           IN  Onward(req, f, e)
  <1> DEFINE f == ToBuffer(s, j, before, fallback)
  <1>1. e \in Em /\ e.window \in Text /\ Len(e.window) \in Nat /\ j \in Nat /\ j >= 1
    BY EmTexts DEF Running, Typed
  <1>2. PICK w \in Text : w = From(e.window, j) BY <1>1, FromIs
  <1>3. s.window = e.window /\ <<>> \in Text BY CatIs, <1>1 DEF Same
  <1>4. PICK g \in BOOLEAN : g = (s.fallback \/ fallback) OBVIOUS
  <1>5. f = [s EXCEPT !.toolBuffer = w, !.window = <<>>, !.mode = "TOOL_BUFFER",
                      !.fromReasoning = before, !.fallback = g]
    BY <1>2, <1>3, <1>4 DEF ToBuffer
  <1> HIDE DEF f
  <1>6. "TOOL_BUFFER" \in Modes BY DEF Modes
  <1>7. f \in Em BY <1>3, <1>5, <1>6 DEF Em
  <1>8. f.window = <<>> /\ f.mode = "TOOL_BUFFER" /\ f.toolBuffer = w /\ Moved(f, s)
    BY <1>5 DEF Em, Moved
  <1>9. f.toolBuffer = From(e.window, j) BY <1>2, <1>8
  <1>10. Onward(req, f, e) BY <1>7, <1>8, <1>9, ToolsMoved
  <1> QED BY <1>10 DEF f

\* What comes behind an open tool buffer goes there.
LEMMA BufferedIs ==
    ASSUME NEW e, Running(req, e), ~e.stopHit, e.mode = "TOOL_BUFFER"
    PROVE  Onward(req, Buffered(e), e)
  <1> DEFINE f == Buffered(e)
  <1>1. Typed(e) /\ e \in Em /\ Plainly(e) /\ Told(req.format, e) BY DEF Running, Typed
  <1>2. e.window \in Text /\ e.toolBuffer \in Text /\ Len(e.raw) \in Nat /\ Len(e.window) \in Nat
    BY <1>1, EmTexts
  <1>3. PICK full \in Text : full = e.toolBuffer \o e.window /\ Unwrapped(full)
    <2>1. Unwrapped(e.toolBuffer) /\ Unwrapped(e.window) BY <1>1 DEF Plainly
    <2>2. e.toolBuffer \o e.window \in Text BY <1>2, CatIs
    <2>3. Unwrapped(e.toolBuffer \o e.window) BY <1>2, <2>1, UnwrappedCat
    <2> QED BY <2>2, <2>3
  <1>4. e.firstContent \in Int /\ e.count \in Nat /\ e.firstContent \in -1 .. e.count
    BY <1>1 DEF Typed, Em
  <1>5. \E first \in -1 .. e.count :
           f = [e EXCEPT !.toolBuffer = full, !.window = <<>>, !.firstContent = first]
    <2> DEFINE ends  == Where(full, "f")
               close == {i \in At(full, ThinkClose) : i > Min(ends)}
               after == From(full, Min(close) + Len(ThinkClose))
               seen  == e.fromReasoning /\ e.firstContent < 0 /\ ends # {} /\ close # {}
               first == IF ~seen THEN e.firstContent ELSE IF Blank(after) THEN e.count ELSE e.count - 1
    <2>1. f = [e EXCEPT !.toolBuffer = full, !.window = <<>>, !.firstContent = first]
      BY <1>3 DEF Buffered
    <2> HIDE DEF seen, after
    <2>2. first \in -1 .. e.count BY <1>4
    <2> QED BY <2>1, <2>2
  <1>6. PICK first \in -1 .. e.count :
           f = [e EXCEPT !.toolBuffer = full, !.window = <<>>, !.firstContent = first]
    BY <1>5
  <1> HIDE DEF f
  <1>7. first \in Int /\ <<>> \in Text /\ Len(<<>>) = 0 /\ Unwrapped(<<>>)
    <2>1. 1 .. 0 = {} /\ Len(<<>>) = 0 OBVIOUS
    <2> QED BY <1>4, <1>2, <2>1, CatIs DEF Unwrapped
  <1>8. f \in Em BY <1>1, <1>6, <1>7 DEF Em
  <1>9. /\ f.mode = e.mode /\ f.window = <<>> /\ f.toolBuffer = full /\ f.raw = e.raw
        /\ f.tail = e.tail /\ f.firstContent = first /\ f.count = e.count /\ f.pieces = e.pieces
        /\ f.calls = e.calls /\ f.stopHit = e.stopHit
    BY <1>1, <1>6 DEF Em
  <1>10. /\ f.sent = e.sent /\ f.content = e.content /\ f.reasoning = e.reasoning /\ f.kind = e.kind
         /\ f.block = e.block /\ f.outputIndex = e.outputIndex
         /\ f.reasoningOpen = e.reasoningOpen /\ f.messageOpen = e.messageOpen
    BY <1>1, <1>6 DEF Em
  <1>11. Typed(f)
    <2>1. Len(f.window) <= Len(f.raw) BY <1>2, <1>7, <1>9
    <2> QED BY <1>1, <1>8, <1>9, <2>1 DEF Typed
  <1>12. Plainly(f) BY <1>1, <1>3, <1>7, <1>9 DEF Plainly
  <1>13. Told(req.format, f) BY <1>1, <1>9, <1>10 DEF Told, Turned
  <1>14. Watched(req, f) BY <1>9 DEF Watched
  <1>15. Onward(req, f, e) BY <1>9, <1>11, <1>12, <1>13, <1>14 DEF Running, Onward
  <1> QED BY <1>15 DEF f

\* The places of delimiters in a window.
LEMMA HitsIn ==
    ASSUME NEW e \in Em
    PROVE  /\ CloseHits(e) \in SUBSET Nat /\ ThinkHits(e) \in SUBSET Nat /\ ToolHits(e) \in SUBSET Nat
           /\ \A i \in CloseHits(e) : i \in 1 .. Len(e.window) - 1 /\ e.window[i + 1] = "c2"
           /\ \A i \in ThinkHits(e) : i \in 1 .. Len(e.window) - 1 /\ e.window[i + 1] = "o2"
           /\ \A i \in ToolHits(e) : i \in 1 .. Len(e.window)
  <1>1. e.window \in Text /\ Len(e.window) \in Nat BY EmTexts
  <1>2. PICK w \in Text : w = e.window /\ Len(w) \in Nat BY <1>1
  <1>3. {"c1", "c2", "o1", "o2"} \subseteq Symbol BY DEF Symbol
  <1>4. /\ CloseHits(e) \in SUBSET Nat
        /\ \A i \in CloseHits(e) : i \in 1 .. Len(w) - 1 /\ w[i + 1] = "c2"
    BY <1>2, <1>3, AtIs DEF CloseHits, ThinkClose
  <1>5. /\ ThinkHits(e) \in SUBSET Nat
        /\ \A i \in ThinkHits(e) : i \in 1 .. Len(w) - 1 /\ w[i + 1] = "o2"
    BY <1>2, <1>3, AtIs DEF ThinkHits, ThinkOpen
  <1>6. ASSUME NEW i \in ToolStarts(w) PROVE i \in Nat /\ i \in 1 .. Len(w)
    <2>1. CASE i \in At(w, ToolOpen)
      <3>1. i \in 1 .. Len(w) - 1 BY <2>1, ToolsAt
      <3> QED BY <1>2, <3>1
    <2>2. CASE i \in Where(w, "i1")
      <3>1. i \in 1 .. Len(w) BY <2>2, WhereIs
      <3> QED BY <1>2, <3>1
    <2>3. CASE i \in {m \in {NameStart(w, k) : k \in At(w, ArgKeyOpen)} : w[m] = "n"}
      <3>1. PICK k \in At(w, ArgKeyOpen) : i = NameStart(w, k) BY <2>3
      <3>2. k \in 1 .. Len(w) - 1 BY KeysAt
      <3>3. k \in Nat /\ k >= 1 BY <1>2, <3>2
      <3>4. i \in 1 .. k BY <3>1, <3>3, NameStartIs
      <3> QED BY <1>2, <3>2, <3>4
    <2> QED BY <2>1, <2>2, <2>3 DEF ToolStarts
  <1>7. ToolHits(e) \in SUBSET Nat /\ \A i \in ToolHits(e) : i \in 1 .. Len(w)
    BY <1>2, <1>6 DEF ToolHits
  <1> QED BY <1>2, <1>4, <1>5, <1>7

\* A leading <think> is looked for and dropped.
LEMMA PrefixDroppedIs ==
    ASSUME Asked(req), NEW e, Running(req, e), ~e.stopHit, e.mode = "REASONING"
    PROVE  Onward(req, PrefixDropped(e), e)
  <1> DEFINE f == PrefixDropped(e)
  <1>1. Typed(e) /\ e \in Em /\ Told(req.format, e) /\ e.toolBuffer = <<>> BY DEF Running, Typed
  <1>2. e.window \in Text /\ Len(e.window) \in Nat BY <1>1, EmTexts
  <1>3. {"o1", "o2"} \subseteq Symbol /\ Len(ThinkOpen) = 2 BY DEF Symbol, ThinkOpen
  <1>4. PICK i \in Nat : i = FirstBlack(e.window) /\ i >= 1
    <2>1. FirstBlack(e.window) \in 1 .. Len(e.window) + 1 BY <1>2, FirstBlackIs
    <2> QED BY <1>2, <2>1
  <1>5. \E j \in 1 .. Len(e.window) + 1 :
           /\ f = [e EXCEPT !.checkedPrefix = TRUE, !.window = From(e.window, j)]
           /\ j = 1 \/ e.window[j - 1] = "o2"
    <2>1. CASE i \in At(e.window, ThinkOpen)
      <3>1. i \in 1 .. Len(e.window) - 1 /\ e.window[i + 1] = "o2"
        BY <1>2, <1>3, <2>1, AtIs DEF ThinkOpen
      <3>2. i + 2 \in 1 .. Len(e.window) + 1 /\ (i + 2) - 1 = i + 1 BY <1>2, <1>4, <3>1
      <3>3. f = [e EXCEPT !.checkedPrefix = TRUE, !.window = From(e.window, i + 2)]
        BY <1>1, <1>3, <1>4, <2>1 DEF PrefixDropped
      <3> QED BY <3>1, <3>2, <3>3
    <2>2. CASE i \notin At(e.window, ThinkOpen)
      <3>1. From(e.window, 1) = e.window BY <1>2 DEF From, Text
      <3>2. f = [e EXCEPT !.checkedPrefix = TRUE, !.window = From(e.window, 1)]
        BY <1>1, <1>4, <2>2, <3>1 DEF PrefixDropped
      <3>3. 1 \in 1 .. Len(e.window) + 1 BY <1>2
      <3> QED BY <3>2, <3>3
    <2> QED BY <2>1, <2>2
  <1>6. PICK j \in 1 .. Len(e.window) + 1 :
           /\ f = [e EXCEPT !.checkedPrefix = TRUE, !.window = From(e.window, j)]
           /\ j = 1 \/ e.window[j - 1] = "o2"
    BY <1>5
  <1>7. j \in Nat /\ j >= 1 BY <1>2
  <1>8. PICK w \in Text : w = From(e.window, j) BY <1>2, <1>7, FromIs
  <1>9. f = [e EXCEPT !.checkedPrefix = TRUE, !.window = w] BY <1>6, <1>8
  <1> HIDE DEF f
  <1>10. f \in Em BY <1>1, <1>9 DEF Em
  <1>11. f.window = w /\ Moved(f, e) /\ f.mode = e.mode /\ f.toolBuffer = e.toolBuffer
    BY <1>1, <1>9 DEF Em, Moved
  <1>12. Same(e, e) BY DEF Same
  <1>13. KeptLength(e) <= KeptLength(e) + j - 1
    <2>1. PICK a \in Nat : a = KeptLength(e) BY <1>1, KeptIs
    <2> QED BY <1>7, <2>1
  <1>14. \/ j = 1
         \/ req.vocabulary.stop => Len(f.window) >= 2
         \/ e.window[j - 1] \notin {"s1", "s2"}
    BY <1>6
  <1>15. req.vocabulary.stop \in BOOLEAN BY DEF Asked
  <1>16. f.window = From(e.window, j) /\ f.mode # "TOOL_BUFFER" /\ f.toolBuffer = <<>>
         /\ e.mode # "TOOL_BUFFER"
    BY <1>1, <1>8, <1>11
  <1>17. Onward(req, f, e)
    BY <1>1, <1>10, <1>11, <1>12, <1>13, <1>14, <1>15, <1>16, WindowMoved
  <1> QED BY <1>17 DEF f

\* </think> is dropped and what is in front of it was thought.
LEMMA ThoughtIs ==
    ASSUME Asked(req), NEW e, Running(req, e), ~e.stopHit, e.mode = "REASONING",
           NEW i \in CloseHits(e)
    PROVE  Onward(req, Thought(e, i), e)
  <1>1. e \in Em /\ Told(req.format, e) /\ e.window \in Text /\ Len(e.window) \in Nat
    BY EmTexts DEF Running, Typed
  <1>2. i \in Nat /\ i \in 1 .. Len(e.window) - 1 /\ e.window[i + 1] = "c2" BY <1>1, HitsIn
  <1>3. PICK j \in Nat : j = i + 2 /\ j - 1 = i + 1 BY <1>2
  <1>4. i \in 1 .. Len(e.window) + 1 /\ j \in i .. Len(e.window) + 1 BY <1>1, <1>2, <1>3
  <1>5. PICK text \in Text : text = Before(e.window, i) BY <1>1, <1>4, BeforeIs
  <1>6. PICK s : s = Think(e, Before(e.window, i)) OBVIOUS
  <1>7. Voiced(req, s, e, Before(e.window, i))
    <2>1. Voiced(req, Think(e, text), e, text) BY <1>1, SpeakIs
    <2> QED BY <1>5, <1>6, <2>1
  <1>8. \/ j = 1
        \/ req.vocabulary.stop => Len(e.window) - j + 1 >= 2
        \/ e.window[j - 1] \notin {"s1", "s2"}
    BY SMTT(60), <1>2, <1>3
  <1> DEFINE f == [s EXCEPT !.window = From(e.window, j), !.mode = "CONTENT"]
  <1>9. Onward(req, f, e)
    <2>1. "CONTENT" \in {"CONTENT", "REASONING"} /\ e.mode # "TOOL_BUFFER" OBVIOUS
    <2> QED BY ZenonT(40), <1>4, <1>7, <1>8, <2>1, SpokenMoved
  <1>10. Thought(e, i) = f
    <2>1. Len(ThinkClose) = 2 BY DEF ThinkClose
    <2> QED BY <1>3, <1>6, <2>1 DEF Thought
  <1> HIDE DEF f
  <1> QED BY <1>9, <1>10

\* Of the window's front, what can be part of no delimiter goes out.
LEMMA CutIs ==
    ASSUME Asked(req), NEW e, Running(req, e), ~e.stopHit, e.mode # "TOOL_BUFFER",
           NEW cut \in 0 .. Releasable(e.window)
    PROVE  /\ Onward(req, Thinking(e, cut), e)
           /\ Onward(req, Saying(e, cut), e)
  <1>1. e \in Em /\ Told(req.format, e) /\ e.window \in Text /\ Len(e.window) \in Nat
    BY EmTexts DEF Running, Typed
  <1>2. PICK rel \in Nat : rel = Releasable(e.window) /\ rel <= Len(e.window)
                           /\ (req.vocabulary.stop /\ rel > 0 => Len(e.window) - rel >= 3)
    <2>1. req.vocabulary.stop \in BOOLEAN BY DEF Asked
    <2>2. /\ Releasable(e.window) \in 0 .. Len(e.window)
          /\ req.vocabulary.stop /\ Releasable(e.window) > 0 =>
                Len(e.window) - Releasable(e.window) >= 3
      BY <1>1, <2>1, ReleasableIs
    <2> QED BY <1>1, <2>2
  <1>3. PICK j \in Nat : j = cut + 1 /\ cut \in Nat /\ j >= 1 /\ j - 1 = cut /\ cut <= rel
    BY <1>2
  <1>4. j \in 1 .. Len(e.window) + 1 /\ j \in j .. Len(e.window) + 1 BY <1>1, <1>2, <1>3
  <1>5. PICK text \in Text : text = Before(e.window, j) /\ text = SubSeq(e.window, 1, cut)
    BY <1>1, <1>3, <1>4, BeforeIs DEF Before
  <1>6. \/ j = 1
        \/ req.vocabulary.stop => Len(e.window) - j + 1 >= 2
        \/ e.window[j - 1] \notin {"s1", "s2"}
    <2>1. CASE cut = 0 BY <1>3, <2>1
    <2>2. CASE cut # 0
      <3>1. rel > 0 BY <1>2, <1>3, <2>2
      <3> QED BY <1>1, <1>2, <1>3, <3>1
    <2> QED BY <2>1, <2>2
  <1>7. e.mode \in {"CONTENT", "REASONING"} BY <1>1, EmTexts DEF Modes
  <1>8. ASSUME NEW s, Voiced(req, s, e, text)
        PROVE  LET f == [s EXCEPT !.window = From(@, cut + 1)] IN Onward(req, f, e)
    <2> DEFINE g == [s EXCEPT !.window = From(e.window, j), !.mode = e.mode]
    <2>1. Voiced(req, s, e, Before(e.window, j)) BY SMTT(60), <1>5, <1>8
    <2>2. Onward(req, g, e) BY ZenonT(40), <1>4, <1>6, <1>7, <2>1, SpokenMoved
    <2>3. s \in Em /\ s.window = e.window /\ s.mode = e.mode BY <1>8 DEF Voiced, Same
    <2>4. g = [s EXCEPT !.window = From(e.window, j)] BY <2>3 DEF Em
    <2>5. [s EXCEPT !.window = From(@, cut + 1)] = g BY <1>3, <2>3, <2>4
    <2> HIDE DEF g
    <2> QED BY <2>2, <2>5
  <1>9. Onward(req, Thinking(e, cut), e)
    <2>1. Voiced(req, Think(e, text), e, text) BY <1>1, SpeakIs
    <2>2. PICK s : s = Think(e, text) OBVIOUS
    <2>3. Voiced(req, s, e, text) BY <2>1, <2>2
    <2>4. Thinking(e, cut) = [s EXCEPT !.window = From(@, cut + 1)] BY <1>5, <2>2 DEF Thinking
    <2> QED BY <1>8, <2>3, <2>4
  <1>10. Onward(req, Saying(e, cut), e)
    <2>1. Voiced(req, Say(e, text), e, text) BY <1>1, SpeakIs
    <2>2. PICK s : s = Say(e, text) OBVIOUS
    <2>3. Voiced(req, s, e, text) BY <2>1, <2>2
    <2>4. Saying(e, cut) = [s EXCEPT !.window = From(@, cut + 1)] BY <1>5, <2>2 DEF Saying
    <2> QED BY <1>8, <2>3, <2>4
  <1> QED BY <1>9, <1>10

\* No stop sequence has ended the answer.
Going(r, e) == Running(r, e) /\ ~e.stopHit

\* A round leaves the emitter so, and tells whether there is another.
Goes(r, l, e) == Onward(r, l.em, e) /\ l.again \in BOOLEAN

\* It goes on or waits.
LEMMA GoesIs ==
    ASSUME NEW r, NEW f, NEW e, Onward(r, f, e)
    PROVE  Goes(r, Again(f), e) /\ Goes(r, Waits(f), e)
  BY DEF Goes, Again, Waits

\* While it reasons.
LEMMA ReasoningIs ==
    ASSUME Asked(req), NEW e, Going(req, e), e.mode = "REASONING"
    PROVE  Goes(req, Reasoning(e, CloseHits(e), ToolHits(e)), e)
  <1> DEFINE closes == CloseHits(e)
             tools  == ToolHits(e)
  <1>1. Running(req, e) /\ ~e.stopHit /\ e.mode # "TOOL_BUFFER" BY DEF Going
  <1>2. e \in Em /\ Told(req.format, e) /\ e.window \in Text /\ Len(e.window) \in Nat
    BY <1>1, EmTexts DEF Running, Typed
  <1>3. /\ closes \in SUBSET Nat /\ tools \in SUBSET Nat
        /\ \A i \in tools : i \in 1 .. Len(e.window)
    BY <1>2, HitsIn
  <1>4. CASE ~e.checkedPrefix
    <2>1. Onward(req, PrefixDropped(e), e) BY <1>1, PrefixDroppedIs DEF Going
    <2>2. Onward(req, e, e) BY <1>1 DEF Onward
    <2>3. Goes(req, Waits(e), e) /\ Goes(req, Again(PrefixDropped(e)), e) BY <2>1, <2>2, GoesIs
    <2> QED BY <1>4, <2>3 DEF Reasoning
  <1>5. CASE e.checkedPrefix /\ closes # {} /\ \A t \in tools : Min(closes) < t
    <2>1. PICK i \in CloseHits(e) : i = Min(closes) BY <1>3, <1>5, MinIs
    <2>2. Onward(req, Thought(e, i), e) BY <1>1, ThoughtIs DEF Going
    <2>3. Goes(req, Again(Thought(e, i)), e) BY <2>2, GoesIs
    <2> HIDE DEF closes, tools
    <2>4. Reasoning(e, closes, tools) = Again(Thought(e, i)) BY <1>5, <2>1 DEF Reasoning
    <2>5. Goes(req, Reasoning(e, closes, tools), e) BY <2>3, <2>4
    <2> QED BY <2>5 DEF closes, tools
  <1>6. CASE e.checkedPrefix /\ ~(closes # {} /\ \A t \in tools : Min(closes) < t) /\ tools # {}
    <2>1. PICK j \in 1 .. Len(e.window) : j = Min(tools) BY <1>3, <1>6, MinIs
    <2>2. j \in 1 .. Len(e.window) + 1 BY <1>2
    <2>3. PICK text \in Text : text = Before(e.window, j) BY <1>2, <2>2, BeforeIs
    <2>4. PICK s : s = Think(e, text) OBVIOUS
    <2>5. s \in Em /\ Same(s, e) /\ Told(req.format, s)
      <3>1. Voiced(req, Think(e, text), e, text) BY <1>2, SpeakIs
      <3> QED BY <2>4, <3>1 DEF Voiced
    <2>6. PICK d : d = ReasoningClosed(s) OBVIOUS
    <2>7. d \in Em /\ Same(d, e) /\ Told(req.format, d)
      <3>1. d \in Em /\ Alike(d, s) /\ Told(req.format, d) BY <2>5, <2>6, ReasoningEnds
      <3> QED BY <2>5, <3>1 DEF Alike, Same
    <2>8. Onward(req, ToBuffer(d, j, TRUE, FALSE), e)
      <3>1. TRUE \in BOOLEAN /\ FALSE \in BOOLEAN OBVIOUS
      <3> QED BY <1>1, <2>2, <2>7, <3>1, BufferOpened DEF Going
    <2>9. Goes(req, Again(ToBuffer(d, j, TRUE, FALSE)), e) BY <2>8, GoesIs
    <2> HIDE DEF closes, tools
    <2>10. Reasoning(e, closes, tools) = Again(ToBuffer(d, j, TRUE, FALSE))
      BY <1>6, <2>1, <2>3, <2>4, <2>6 DEF Reasoning
    <2>11. Goes(req, Reasoning(e, closes, tools), e) BY <2>9, <2>10
    <2> QED BY <2>11 DEF closes, tools
  <1>7. CASE e.checkedPrefix /\ ~(closes # {} /\ \A t \in tools : Min(closes) < t) /\ tools = {}
    <2>1. PICK cut : cut = Releasable(e.window) OBVIOUS
    <2>2. cut \in 0 .. Releasable(e.window)
      <3>1. req.vocabulary.stop \in BOOLEAN BY DEF Asked
      <3>2. Releasable(e.window) \in 0 .. Len(e.window) BY <1>2, <3>1, ReleasableIs
      <3> QED BY <1>2, <2>1, <3>2
    <2>3. Onward(req, Thinking(e, cut), e) BY <1>1, <2>2, CutIs DEF Going
    <2>4. Goes(req, Waits(Thinking(e, cut)), e) BY <2>3, GoesIs
    <2> HIDE DEF closes, tools
    <2>5. Reasoning(e, closes, tools) = Waits(Thinking(e, cut)) BY <1>7, <2>1 DEF Reasoning
    <2>6. Goes(req, Reasoning(e, closes, tools), e) BY <2>4, <2>5
    <2> QED BY <2>6 DEF closes, tools
  <1> HIDE DEF closes, tools
  <1>8. e.checkedPrefix \in BOOLEAN BY <1>2 DEF Em
  <1>9. Goes(req, Reasoning(e, closes, tools), e) BY <1>4, <1>5, <1>6, <1>7, <1>8 DEF closes, tools
  <1> QED BY <1>9 DEF closes, tools

\* At a delimiter in the answer's text.
LEMMA DividedIs ==
    ASSUME Asked(req), NEW e, Going(req, e), e.mode = "CONTENT",
           NEW first \in ThinkHits(e) \union CloseHits(e) \union ToolHits(e)
    PROVE  Goes(req, Divided(Say(e, Before(e.window, first)), first, ThinkHits(e), CloseHits(e)), e)
  <1>1. Running(req, e) /\ ~e.stopHit /\ e.mode # "TOOL_BUFFER" BY DEF Going
  <1>2. e \in Em /\ Told(req.format, e) /\ e.window \in Text /\ Len(e.window) \in Nat
    BY <1>1, EmTexts DEF Running, Typed
  <1>3. /\ first \in Nat /\ first \in 1 .. Len(e.window)
        /\ first \in ThinkHits(e) =>
              first \in 1 .. Len(e.window) - 1 /\ e.window[first + 1] = "o2"
        /\ first \in CloseHits(e) =>
              first \in 1 .. Len(e.window) - 1 /\ e.window[first + 1] = "c2"
    <2>1. /\ ThinkHits(e) \in SUBSET Nat /\ CloseHits(e) \in SUBSET Nat /\ ToolHits(e) \in SUBSET Nat
          /\ \A i \in CloseHits(e) : i \in 1 .. Len(e.window) - 1 /\ e.window[i + 1] = "c2"
          /\ \A i \in ThinkHits(e) : i \in 1 .. Len(e.window) - 1 /\ e.window[i + 1] = "o2"
          /\ \A i \in ToolHits(e) : i \in 1 .. Len(e.window)
      BY <1>2, HitsIn
    <2> QED BY <1>2, <2>1
  <1>4. first \in 1 .. Len(e.window) + 1 BY <1>2, <1>3
  <1>5. PICK text \in Text : text = Before(e.window, first) BY <1>2, <1>4, BeforeIs
  <1>6. PICK s : s = Say(e, text) OBVIOUS
  <1>7. Voiced(req, s, e, Before(e.window, first))
    <2>1. Voiced(req, Say(e, text), e, text) BY <1>2, SpeakIs
    <2> QED BY <1>5, <1>6, <2>1
  <1>8. s \in Em /\ Same(s, e) /\ Told(req.format, s) /\ s.window = e.window /\ s.mode = e.mode
    BY <1>7 DEF Voiced, Same
  <1>9. PICK j \in Nat : j = first + 2 /\ j - 1 = first + 1 BY SMTT(60), <1>3
  <1>10. ASSUME first \in ThinkHits(e) \/ first \in CloseHits(e), NEW mode \in {"CONTENT", "REASONING"}
         PROVE  LET f == [s EXCEPT !.window = From(e.window, j), !.mode = mode]
                IN  Onward(req, f, e)
    <2>1. j \in first .. Len(e.window) + 1 BY <1>2, <1>3, <1>9, <1>10
    <2>2. \/ j = 1
          \/ req.vocabulary.stop => Len(e.window) - j + 1 >= 2
          \/ e.window[j - 1] \notin {"s1", "s2"}
      BY <1>3, <1>9, <1>10
    <2> QED BY ZenonT(40), <1>1, <1>4, <1>7, <1>10, <2>1, <2>2, SpokenMoved
  <1>11. Len(ThinkOpen) = 2 /\ Len(ThinkClose) = 2 BY DEF ThinkOpen, ThinkClose
  <1>12. CASE first \in ThinkHits(e)
    <2> DEFINE f == [s EXCEPT !.window = From(e.window, j), !.mode = "REASONING"]
    <2>1. Onward(req, f, e) BY <1>10, <1>12 DEF Going
    <2>2. Divided(s, first, ThinkHits(e), CloseHits(e)) = Again(f)
      BY <1>8, <1>9, <1>11, <1>12 DEF Divided
    <2> HIDE DEF f
    <2>3. Goes(req, Again(f), e) BY <2>1, GoesIs
    <2> QED BY <1>5, <1>6, <2>2, <2>3
  <1>13. CASE first \notin ThinkHits(e) /\ first \in CloseHits(e)
    <2> DEFINE f == [s EXCEPT !.window = From(e.window, j), !.mode = "CONTENT"]
    <2>1. Onward(req, f, e) BY <1>10, <1>13 DEF Going
    <2>2. f = [s EXCEPT !.window = From(e.window, j)] BY <1>8 DEF Em
    <2>3. Divided(s, first, ThinkHits(e), CloseHits(e)) = Again(f)
      BY <1>8, <1>9, <1>11, <1>13, <2>2 DEF Divided
    <2> HIDE DEF f
    <2>4. Goes(req, Again(f), e) BY <2>1, GoesIs
    <2> QED BY <1>5, <1>6, <2>3, <2>4
  <1>14. CASE first \notin ThinkHits(e) /\ first \notin CloseHits(e)
    <2>1. Onward(req, ToBuffer(s, first, FALSE, FALSE), e)
      <3>1. FALSE \in BOOLEAN OBVIOUS
      <3> QED BY <1>1, <1>4, <1>8, <3>1, BufferOpened DEF Going
    <2>2. Goes(req, Again(ToBuffer(s, first, FALSE, FALSE)), e) BY <2>1, GoesIs
    <2>3. Divided(s, first, ThinkHits(e), CloseHits(e)) = Again(ToBuffer(s, first, FALSE, FALSE))
      BY <1>14 DEF Divided
    <2> QED BY <1>5, <1>6, <2>2, <2>3
  <1> QED BY <1>12, <1>13, <1>14

\* In any mode.
LEMMA RoundIs ==
    ASSUME Asked(req), NEW e, Going(req, e) PROVE Goes(req, Round(e), e)
  <1>1. Running(req, e) /\ ~e.stopHit BY DEF Going
  <1>2. e \in Em /\ Told(req.format, e) /\ e.window \in Text /\ Len(e.window) \in Nat
    BY <1>1, EmTexts DEF Running, Typed
  <1>3. CASE e.mode = "TOOL_BUFFER"
    <2>1. Onward(req, Buffered(e), e) BY <1>1, <1>3, BufferedIs DEF Going
    <2>2. Goes(req, Waits(Buffered(e)), e) BY <2>1, GoesIs
    <2> QED BY <1>3, <2>2 DEF Round
  <1>4. CASE e.mode = "REASONING"
    <2>1. Goes(req, Reasoning(e, CloseHits(e), ToolHits(e)), e) BY <1>4, ReasoningIs
    <2> QED BY <1>4, <2>1 DEF Round
  <1>5. CASE e.mode = "CONTENT"
    <2> DEFINE hits  == ThinkHits(e) \union CloseHits(e) \union ToolHits(e)
               first == FirstOf(hits)
    <2>1. hits \in SUBSET Nat BY <1>2, HitsIn
    <2>2. Round(e) = Answering(e, first, ThinkHits(e), CloseHits(e)) BY <1>5 DEF Round
    <2>3. CASE hits # {} /\ first > 0
      <3>1. PICK i \in hits : i = first BY <2>1, <2>3, MinIs DEF FirstOf
      <3>2. Goes(req, Divided(Say(e, Before(e.window, i)), i, ThinkHits(e), CloseHits(e)), e)
        BY <1>5, DividedIs
      <3> HIDE DEF first
      <3>3. Answering(e, first, ThinkHits(e), CloseHits(e))
               = Divided(Say(e, Before(e.window, i)), i, ThinkHits(e), CloseHits(e))
        BY <2>3, <3>1 DEF Answering
      <3> QED BY <2>2, <3>2, <3>3
    <2>4. CASE ~(first > 0) /\ BareJson(e)
      <3>1. Onward(req, ToBuffer(e, 1, FALSE, TRUE), e)
        <4>1. FALSE \in BOOLEAN /\ TRUE \in BOOLEAN /\ Same(e, e) /\ 1 \in 1 .. Len(e.window) + 1
          BY <1>2 DEF Same
        <4> QED BY <1>1, <1>2, <4>1, BufferOpened DEF Going
      <3>2. Goes(req, Again(ToBuffer(e, 1, FALSE, TRUE)), e) BY <3>1, GoesIs
      <3> HIDE DEF first
      <3>3. Answering(e, first, ThinkHits(e), CloseHits(e)) = Again(ToBuffer(e, 1, FALSE, TRUE))
        BY <2>4 DEF Answering
      <3> QED BY <2>2, <3>2, <3>3
    <2>5. CASE ~(first > 0) /\ ~BareJson(e)
      <3>1. PICK cut \in 0 .. Releasable(e.window) : cut = NameHeld(e.window, Releasable(e.window))
        <4>1. req.vocabulary.stop \in BOOLEAN BY DEF Asked
        <4> QED BY <1>2, <4>1, ReleasableIs
      <3>2. Onward(req, Saying(e, cut), e) BY <1>1, <1>5, CutIs DEF Going
      <3>3. Goes(req, Waits(Saying(e, cut)), e) BY <3>2, GoesIs
      <3> HIDE DEF first
      <3>4. Answering(e, first, ThinkHits(e), CloseHits(e)) = Waits(Saying(e, cut))
        BY <2>5, <3>1 DEF Answering
      <3> QED BY <2>2, <3>3, <3>4
    <2>6. hits = {} => ~(first > 0) BY DEF FirstOf
    <2> HIDE DEF hits, first
    <2> QED BY <2>3, <2>4, <2>5, <2>6
  <1> QED BY <1>2, <1>3, <1>4, <1>5, EmTexts DEF Modes

\* f[n] is what n rounds have made of e.
Rounds(f, e, n) ==
    f = [m \in 0 .. n |->
            IF m = 0 THEN Again(e) ELSE IF f[m - 1].again THEN Round(f[m - 1].em) ELSE f[m - 1]]

\* The loop exists, by the least number of rounds for which it would not.
LEMMA RoundsExist ==
    ASSUME NEW e, NEW rounds \in Nat
    PROVE  \E f : Rounds(f, e, rounds)
  <1> DEFINE Has(n) == \E f : Rounds(f, e, n)
             A == {n \in 0 .. rounds : ~Has(n)}
  <1>1. Has(0)
    <2> DEFINE f == [m \in 0 .. 0 |-> Again(e)]
    <2>1. \A m \in 0 .. 0 : m = 0 OBVIOUS
    <2>2. f = [m \in 0 .. 0 |->
                 IF m = 0 THEN Again(e) ELSE IF f[m - 1].again THEN Round(f[m - 1].em) ELSE f[m - 1]]
      BY <2>1
    <2> QED BY <2>2 DEF Rounds
  <1> HIDE DEF Has
  <1>2. ASSUME A # {} PROVE FALSE
    <2>1. A \in SUBSET Nat OBVIOUS
    <2>2. PICK n \in A : \A j \in A : n <= j BY <1>2, <2>1, LeastNumber
    <2>3. n \in 1 .. rounds /\ n \in Nat /\ ~Has(n) BY <1>1, <2>2
    <2>4. n - 1 \in 0 .. rounds /\ ~(n <= n - 1) BY <2>3
    <2>5. Has(n - 1) BY <2>2, <2>4
    <2>6. PICK f : Rounds(f, e, n - 1) BY <2>5 DEF Has
    <2> DEFINE last == IF f[n - 1].again THEN Round(f[n - 1].em) ELSE f[n - 1]
               g == [m \in 0 .. n |-> IF m = n THEN last ELSE f[m]]
    <2>7. ASSUME NEW m \in 0 .. n
          PROVE  g[m] = IF m = 0 THEN Again(e)
                        ELSE IF g[m - 1].again THEN Round(g[m - 1].em) ELSE g[m - 1]
      <3>1. m # 0 => m - 1 \in 0 .. n - 1 /\ m - 1 \in 0 .. n /\ m - 1 # n BY <2>3
      <3>2. m # 0 => g[m - 1] = f[m - 1] BY <3>1
      <3>3. CASE m = n
        <4>1. g[m] = last /\ m # 0 BY <2>3, <3>3
        <4> QED BY <4>1, <3>2, <3>3
      <3>4. CASE m # n
        <4>1. g[m] = f[m] /\ m \in 0 .. n - 1 BY <2>3, <3>4
        <4>2. f[m] = IF m = 0 THEN Again(e)
                     ELSE IF f[m - 1].again THEN Round(f[m - 1].em) ELSE f[m - 1]
          BY <2>6, <4>1 DEF Rounds
        <4> QED BY <3>2, <4>1, <4>2
      <3> QED BY <3>3, <3>4
    <2>8. g = [m \in 0 .. n |-> g[m]] OBVIOUS
    <2> HIDE DEF g, last
    <2>9. g = [m \in 0 .. n |->
                 IF m = 0 THEN Again(e) ELSE IF g[m - 1].again THEN Round(g[m - 1].em) ELSE g[m - 1]]
      BY <2>7, <2>8
    <2> QED BY <2>3, <2>9 DEF Rounds, Has
  <1>3. Has(rounds) BY <1>2
  <1> QED BY <1>3 DEF Has

\* Every round leaves the emitter running.
LEMMA RoundsGo ==
    ASSUME Asked(req), NEW e, Going(req, e), NEW rounds \in Nat, NEW f, Rounds(f, e, rounds),
           NEW n \in 0 .. rounds
    PROVE  Goes(req, f[n], e)
  <1> DEFINE A == {m \in 0 .. rounds : ~Goes(req, f[m], e)}
  <1>1. ASSUME A # {} PROVE FALSE
    <2>1. A \in SUBSET Nat OBVIOUS
    <2>2. PICK m \in A : \A j \in A : m <= j BY <1>1, <2>1, LeastNumber
    <2>3. m \in 0 .. rounds /\ m \in Nat /\ ~Goes(req, f[m], e) BY <2>2
    <2>4. f[m] = IF m = 0 THEN Again(e)
                 ELSE IF f[m - 1].again THEN Round(f[m - 1].em) ELSE f[m - 1]
      BY <2>3 DEF Rounds
    <2>5. CASE m = 0
      <3>1. Onward(req, e, e) BY DEF Going, Onward
      <3>2. Goes(req, Again(e), e) BY <3>1, GoesIs
      <3> QED BY <2>3, <2>4, <2>5, <3>2
    <2>6. CASE m # 0
      <3>1. m - 1 \in 0 .. rounds /\ ~(m <= m - 1) BY <2>3, <2>6
      <3>2. PICK l : l = f[m - 1] OBVIOUS
      <3>3. Goes(req, l, e) BY <2>2, <3>1, <3>2
      <3>4. Going(req, l.em) /\ l.em.pieces = e.pieces BY <3>3 DEF Goes, Onward, Going
      <3>5. Goes(req, Round(l.em), l.em) BY <3>4, RoundIs
      <3>6. Goes(req, Round(l.em), e) BY <3>4, <3>5 DEF Goes, Onward
      <3> QED BY <2>3, <2>4, <2>6, <3>2, <3>3, <3>6
    <2> QED BY <2>5, <2>6
  <1> QED BY <1>1

\* So does the loop.
LEMMA ProcessIs ==
    ASSUME Asked(req), NEW e, Going(req, e) PROVE Onward(req, Process(e), e)
  <1>1. Len(e.window) \in Nat BY EmTexts DEF Going, Running, Typed
  <1>2. PICK rounds \in Nat : rounds = Len(e.window) + 3 BY <1>1
  <1> DEFINE f == CHOOSE f : Rounds(f, e, rounds)
  <1>3. Rounds(f, e, rounds) BY RoundsExist
  <1>4. Process(e) = f[rounds].em BY <1>2 DEF Process, Rounds
  <1> HIDE DEF f
  <1>5. rounds \in 0 .. rounds OBVIOUS
  <1>6. Goes(req, f[rounds], e) BY <1>3, <1>5, RoundsGo
  <1> QED BY <1>4, <1>6 DEF Goes

-----------------------------------------------------------------------------
(* A token *)

\* f is t at a stop sequence: what was in front of it has been kept.
Halted(f, t) ==
    /\ f \in Em /\ f.stopHit = TRUE /\ f.window = <<>> /\ f.mode = t.mode /\ f.tail = t.tail
    /\ f.toolBuffer = t.toolBuffer /\ f.raw = t.raw /\ f.calls = t.calls
    /\ f.firstContent = t.firstContent /\ f.count = t.count /\ f.pieces = t.pieces
    /\ KeptLength(f) = KeptLength(t) + (Min(StopHits(t.window)) - 1)

\* At a stop sequence, only what is in front of it goes out.
LEMMA StoppedIs ==
    ASSUME Asked(req), NEW t \in Em, Told(req.format, t), ~t.stopHit, StopHits(t.window) # {}
    PROVE  Halted(Stopped(t), t) /\ Told(req.format, Stopped(t))
  <1>1. /\ t.window \in Text /\ Len(t.window) \in Nat /\ <<>> \in Text /\ t.reasoning \in Text
        /\ t.content \in Text /\ Len(t.reasoning) \in Nat /\ Len(t.content) \in Nat
    BY EmTexts, CatIs
  <1>2. PICK m \in 1 .. Len(t.window) : m = Min(StopHits(t.window)) /\ m \in Nat
    <2>1. /\ At(t.window, Stop) \in SUBSET Nat
          /\ \A i \in At(t.window, Stop) : i \in 1 .. Len(t.window) - 2
      BY <1>1, StopAt
    <2>2. StopHits(t.window) = At(t.window, Stop) BY DEF StopHits
    <2>3. Min(StopHits(t.window)) \in At(t.window, Stop) /\ Min(StopHits(t.window)) \in Nat
      BY <2>1, <2>2, MinIs
    <2>4. Min(StopHits(t.window)) \in 1 .. Len(t.window) - 2 BY <2>1, <2>3
    <2> QED BY <1>1, <2>3, <2>4
  <1>3. m \in 1 .. Len(t.window) + 1 BY <1>1
  <1>4. PICK pre \in Text : pre = InFront(t) /\ Len(pre) = m - 1 BY <1>1, <1>2, <1>3, BeforeIs DEF InFront
  <1> DEFINE ended == [t EXCEPT !.window = <<>>, !.stopHit = TRUE]
  <1>5. ended \in Em BY <1>1 DEF Em
  <1>6. /\ ended.stopHit = TRUE /\ ended.window = <<>> /\ ended.mode = t.mode /\ ended.tail = t.tail
        /\ ended.toolBuffer = t.toolBuffer /\ ended.raw = t.raw /\ ended.calls = t.calls
        /\ ended.firstContent = t.firstContent /\ ended.count = t.count
        /\ ended.pieces = t.pieces
    BY DEF Em
  <1>7. /\ ended.sent = t.sent /\ ended.content = t.content /\ ended.reasoning = t.reasoning
        /\ ended.kind = t.kind /\ ended.block = t.block /\ ended.outputIndex = t.outputIndex
        /\ ended.reasoningOpen = t.reasoningOpen /\ ended.messageOpen = t.messageOpen
    BY DEF Em
  <1>8. Stopped(t) =
           IF t.mode # "REASONING" THEN Say(ended, pre)
           ELSE IF pre = <<>> \/ req.format = "responses" THEN [ended EXCEPT !.reasoning = @ \o pre]
           ELSE Delta([ended EXCEPT !.reasoning = @ \o pre], "thinking",
                      IF req.format = "anthropic" THEN ended.block ELSE 0, pre)
    BY <1>4, <1>7 DEF Stopped
  <1> HIDE DEF ended
  <1>9. Turned(req.format, ended)
    <2>1. ASSUME req.format = "anthropic" PROVE BlocksTo(t.sent, TRUE, t.kind, t.block)
      <3>1. BlocksTo(t.sent, t.stopHit, t.kind, t.block) BY <2>1 DEF Told, Turned
      <3>2. BlockTurns(t.sent, TRUE) BY <3>1, BlockTurnsHit DEF BlocksTo
      <3> QED BY <3>1, <3>2 DEF BlocksTo
    <2> QED BY <1>6, <1>7, <2>1 DEF Told, Turned
  <1>10. Told(req.format, ended) BY <1>6, <1>7, <1>9 DEF Told
  <1>11. PICK a \in Nat, b \in Nat : a = Len(t.content) /\ b = Len(t.reasoning) BY <1>1
  <1>12. KeptLength(ended) = KeptLength(t) BY <1>7 DEF KeptLength
  <1>13. CASE t.mode # "REASONING"
    <2> DEFINE s == Say(ended, pre)
    <2>1. Voiced(req, s, ended, pre) BY <1>5, <1>10, SpeakIs
    <2> HIDE DEF s
    <2>2. s \in Em /\ Same(s, ended) /\ Told(req.format, s) BY <2>1 DEF Voiced
    <2>3. KeptLength(s) = KeptLength(t) + (m - 1) BY <1>4, <1>12, <2>1 DEF Voiced
    <2>4. Halted(s, t) BY <1>2, <1>6, <2>2, <2>3 DEF Halted, Same
    <2> QED BY <1>8, <1>13, <2>2, <2>4 DEF s
  <1>14. CASE t.mode = "REASONING"
    <2>1. PICK more \in Text : more = ended.reasoning \o pre BY <1>1, <1>7, CatIs
    <2>2. Len(more) = b + (m - 1)
      <3>1. Len(t.reasoning \o pre) = Len(t.reasoning) + Len(pre) BY <1>1, CatIs
      <3> QED BY <1>4, <1>7, <1>11, <2>1, <3>1
    <2> DEFINE thought == [ended EXCEPT !.reasoning = more]
    <2>3. thought \in Em BY <1>5 DEF Em
    <2>4. /\ thought.stopHit = TRUE /\ thought.window = <<>> /\ thought.mode = t.mode
          /\ thought.tail = t.tail /\ thought.toolBuffer = t.toolBuffer /\ thought.raw = t.raw
          /\ thought.calls = t.calls /\ thought.firstContent = t.firstContent
          /\ thought.count = t.count /\ thought.pieces = t.pieces
      BY <1>5, <1>6 DEF Em
    <2>5. /\ thought.sent = ended.sent /\ thought.content = t.content /\ thought.reasoning = more
          /\ thought.kind = ended.kind /\ thought.block = ended.block
          /\ thought.outputIndex = ended.outputIndex
          /\ thought.reasoningOpen = ended.reasoningOpen
          /\ thought.messageOpen = ended.messageOpen
      BY <1>5, <1>7 DEF Em
    <2> HIDE DEF thought
    <2>6. KeptLength(thought) = KeptLength(t) + (m - 1)
      <3>1. KeptLength(thought) = a + (b + (m - 1)) BY <1>11, <2>2, <2>5 DEF KeptLength
      <3>2. KeptLength(t) = a + b BY <1>11 DEF KeptLength
      <3> QED BY <1>2, <3>1, <3>2
    <2>7. Halted(thought, t) BY <1>2, <2>3, <2>4, <2>6 DEF Halted
    <2>8. Turned(req.format, thought) BY <1>6, <1>9, <2>4, <2>5 DEF Turned
    <2>9. Added(thought.sent, "text") = thought.content BY <1>7, <1>10, <2>5 DEF Told
    <2>10. CASE pre = <<>> \/ req.format = "responses"
      <3>1. Stopped(t) = thought BY <1>8, <1>14, <2>1, <2>10 DEF thought
      <3>2. \/ req.format = "responses"
            \/ Added(thought.sent, "thinking") = thought.reasoning
        <4>1. CASE req.format = "responses" BY <4>1
        <4>2. CASE req.format # "responses"
          <5>1. more = t.reasoning
            <6>1. t.reasoning \o <<>> = t.reasoning BY <1>1, CatIs
            <6>2. pre = <<>> BY <2>10, <4>2
            <6> QED BY <1>7, <2>1, <6>1, <6>2
          <5>2. Added(t.sent, "thinking") = t.reasoning BY <4>2 DEF Told
          <5> QED BY <1>7, <2>5, <5>1, <5>2
        <4> QED BY <4>1, <4>2
      <3>3. Told(req.format, thought) BY <2>4, <2>8, <2>9, <3>2 DEF Told
      <3> QED BY <2>7, <3>1, <3>3
    <2>11. CASE ~(pre = <<>> \/ req.format = "responses")
      <3>1. Added(thought.sent, "thinking") \o pre = more
        <4>1. Added(t.sent, "thinking") = t.reasoning BY <2>11 DEF Told
        <4> QED BY <1>7, <2>1, <2>5, <4>1
      <3>2. "thinking" \in {"text", "thinking"} /\ "text" \in {"text", "thinking"}
            /\ "text" # "thinking"
        OBVIOUS
      <3>3. \E d : Stopped(t) = d /\ Spoke(req.format, d, thought, "thinking", pre)
        <4>1. CASE req.format = "anthropic"
          <5>1. Stopped(t) = Delta(thought, "thinking", thought.block, pre)
            BY <1>8, <1>14, <2>1, <2>5, <2>11, <4>1 DEF thought
          <5>2. Spoke("anthropic", Delta(thought, "thinking", thought.block, pre), thought,
                      "thinking", pre)
            <6>1. Turned("anthropic", thought) BY <2>8, <4>1
            <6> QED BY <2>3, <2>4, <3>2, <6>1, BlockSpoken
          <5> QED BY <4>1, <5>1, <5>2
        <4>2. CASE req.format = "openai"
          <5>1. Stopped(t) = Delta(thought, "thinking", 0, pre)
            BY <1>8, <1>14, <2>1, <2>5, <2>11, <4>2 DEF thought
          <5>2. Spoke("openai", Delta(thought, "thinking", 0, pre), thought, "thinking", pre)
            <6>1. Turned("openai", thought) BY <2>8, <4>2
            <6> QED BY <2>3, <3>2, <6>1, PlainSpoken
          <5> QED BY <4>2, <5>1, <5>2
        <4> QED BY <2>11, <4>1, <4>2 DEF Asked, ThreeFormats
      <3>4. PICK d : Stopped(t) = d /\ Spoke(req.format, d, thought, "thinking", pre) BY <3>3
      <3>5. /\ d \in Em /\ Alike(d, thought) /\ Turned(req.format, d)
            /\ Added(d.sent, "text") = Added(thought.sent, "text")
            /\ Added(d.sent, "thinking") = Added(thought.sent, "thinking") \o pre
        BY <3>2, <3>4 DEF Spoke
      <3>6. Told(req.format, d) BY <2>5, <2>9, <3>1, <3>5 DEF Told, Alike
      <3>7. KeptLength(d) = KeptLength(thought) BY <3>5 DEF KeptLength, Alike
      <3>8. Halted(d, t) BY <2>7, <3>5, <3>7 DEF Halted, Alike, Same
      <3> QED BY <3>4, <3>6, <3>8
    <2> QED BY <2>10, <2>11
  <1> QED BY <1>13, <1>14

\* What a token adds to the text, and what of it waits.  Where its end waits for
\* nothing, nothing waits or it had no text.
LEMMA PieceIs ==
    ASSUME NEW tail \in {<<>>, <<"u1">>}, NEW piece \in Text, Unwrapped(piece)
    PROVE  LET joined == tail \o piece
               rest   == TailOf(joined)
               text   == Sanitized(SubSeq(joined, 1, Len(joined) - Len(rest)))
           IN  /\ rest \in {<<>>, <<"u1">>} /\ rest \in Text /\ Unwrapped(rest) /\ Len(rest) <= 1
               /\ text \in Text /\ Unwrapped(text)
               /\ SubSeq(joined, 1, Len(joined) - Len(rest)) \in Text
               /\ TailOf(piece) = <<>> => rest = <<>> \/ text = <<>>
  <1> DEFINE joined == tail \o piece
             rest   == TailOf(joined)
             front  == SubSeq(joined, 1, Len(joined) - Len(rest))
             text   == Sanitized(front)
  <1>1. <<>> \in Text /\ <<"u1">> \in Text /\ Unwrapped(<<>>) /\ Unwrapped(<<"u1">>)
    <2>1. "u1" \in Symbol BY DEF Symbol
    <2>2. <<"u1">> \in Text /\ <<>> \in Text BY <2>1, CatIs DEF Text
    <2>3. Len(<<>>) = 0 /\ 1 .. 0 = {} /\ Len(<<"u1">>) = 1 /\ 1 .. 1 = {1} /\ <<"u1">>[1] = "u1"
      OBVIOUS
    <2>4. Unwrapped(<<>>) /\ Unwrapped(<<"u1">>) BY <2>3 DEF Unwrapped
    <2> QED BY <2>2, <2>4
  <1>2. tail \in Text /\ Unwrapped(tail) BY <1>1
  <1>3. joined \in Text /\ Len(joined) = Len(tail) + Len(piece) BY <1>2, CatIs
  <1>4. Unwrapped(joined) BY <1>2, UnwrappedCat
  <1>5. Len(tail) \in Nat /\ Len(piece) \in Nat /\ Len(joined) \in Nat BY <1>2, <1>3, TextIs
  <1> HIDE DEF joined
  <1>6. /\ rest \in {<<>>, <<"u1">>} /\ rest \in Text /\ Unwrapped(rest)
        /\ Len(rest) <= 1 /\ Len(rest) \in Nat /\ Len(rest) <= Len(joined)
    BY <1>3, <1>4, TailIs
  <1> HIDE DEF rest
  <1>7. PICK n \in Nat : n = Len(joined) - Len(rest) /\ n <= Len(joined)
    <2>1. PICK x \in Nat, y \in Nat : x = Len(joined) /\ y = Len(rest) BY <1>5, <1>6
    <2>2. x - y \in Nat /\ x - y <= x BY <1>6, <2>1
    <2> QED BY <2>1, <2>2
  <1>8. front \in Text /\ Unwrapped(front) /\ Len(front) = n
    <2>1. 1 \in Nat /\ 1 >= 1 /\ n \in Int BY <1>7
    <2>2. SubSeq(joined, 1, n) \in Text
          /\ Len(SubSeq(joined, 1, n)) = (IF 1 <= n THEN n - 1 + 1 ELSE 0)
      BY <1>3, <1>7, <2>1, SubIs
    <2>3. Unwrapped(SubSeq(joined, 1, n)) BY <1>3, <1>4, <1>7, <2>1, UnwrappedSub
    <2>4. (IF 1 <= n THEN n - 1 + 1 ELSE 0) = n BY <1>7
    <2> QED BY <1>7, <2>2, <2>3, <2>4
  <1>9. text \in Text /\ Unwrapped(text) /\ Len(text) = Len(front)
    <2> HIDE DEF front
    <2> QED BY <1>8, SanitizedIs
  <1> HIDE DEF text, front
  <1>10. ASSUME TailOf(piece) = <<>>, rest # <<>> PROVE text = <<>>
    <2>1. rest = <<"u1">> /\ joined # <<>> /\ joined[Len(joined)] = "u1" BY <1>6, <1>10 DEF rest, TailOf
    <2>2. ASSUME piece # <<>> PROVE FALSE
      <3>1. PICK x \in Nat, y \in Nat : x = Len(tail) /\ y = Len(piece) /\ y # 0
        BY <1>5, <2>2, TextIs
      <3>2. \A i \in 1 .. y : joined[x + i] = piece[i] BY <1>2, <3>1, CatIs DEF joined
      <3>3. y \in 1 .. y BY <3>1
      <3>4. piece[y] = "u1" BY <1>3, <2>1, <3>1, <3>2, <3>3
      <3>5. TailOf(piece) = <<"u1">> BY <2>2, <3>1, <3>4 DEF TailOf
      <3>6. <<"u1">> # <<>> OBVIOUS
      <3> QED BY <1>10, <3>5, <3>6
    <2>3. Len(piece) = 0 BY <2>2, TextIs
    <2>4. Len(tail) <= 1 /\ Len(rest) = 1
      <3>1. Len(<<>>) = 0 /\ Len(<<"u1">>) = 1 OBVIOUS
      <3>2. tail = <<>> \/ tail = <<"u1">> OBVIOUS
      <3>3. Len(tail) = 0 \/ Len(tail) = 1 BY <3>1, <3>2
      <3>4. Len(tail) <= 1
        <4>1. CASE Len(tail) = 0 BY <4>1
        <4>2. CASE Len(tail) = 1 BY <4>2
        <4> QED BY <3>3, <4>1, <4>2
      <3>5. Len(rest) = 1 BY <2>1, <3>1
      <3> QED BY <3>4, <3>5
    <2>5. Len(text) = 0 BY <1>3, <1>5, <1>6, <1>7, <1>8, <1>9, <2>3, <2>4
    <2> QED BY <1>9, <2>5, TextIs
  <1>11. /\ rest \in {<<>>, <<"u1">>} /\ rest \in Text /\ Unwrapped(rest) /\ Len(rest) <= 1
         /\ text \in Text /\ Unwrapped(text) /\ front \in Text
         /\ TailOf(piece) = <<>> => rest = <<>> \/ text = <<>>
    BY <1>6, <1>8, <1>9, <1>10
  <1> QED BY <1>11 DEF text, front, rest, joined

\* While the stop sequence is waited for, it only comes into the window: nothing
\* that has left the window is part of it.
LEMMA StopSeen ==
    ASSUME NEW e \in Em, Watching(e), Len(e.window) <= Len(e.raw), NEW text \in Text
    PROVE  LET raw    == e.raw \o text
               window == e.window \o text
               gone   == Gone(e)
           IN  /\ Len(raw) - Len(window) = gone /\ gone \in Nat
               /\ \A x \in 1 .. Len(window) : raw[gone + x] = window[x]
               /\ Len(window) >= 2 \/ gone = 0 \/ raw[gone] \notin {"s1", "s2"}
               /\ \A p \in At(raw, Stop) : p - gone \in At(window, Stop)
               /\ \A x \in At(window, Stop) : gone + x \in At(raw, Stop)
  <1> DEFINE raw    == e.raw \o text
             window == e.window \o text
  <1>1. e.raw \in Text /\ e.window \in Text BY EmTexts
  <1>2. PICK r \in Nat, w \in Nat, n \in Nat, g \in Nat :
           r = Len(e.raw) /\ w = Len(e.window) /\ n = Len(text) /\ r = g + w
    <2>1. Len(e.raw) \in Nat /\ Len(e.window) \in Nat /\ Len(text) \in Nat BY <1>1, TextIs
    <2>2. PICK a \in Nat, b \in Nat : a = Len(e.raw) /\ b = Len(e.window) BY <2>1
    <2>3. a - b \in Nat /\ a = (a - b) + b BY <2>2
    <2> QED BY <2>1, <2>2, <2>3
  <1>3. Gone(e) = g BY <1>2 DEF Gone
  <1>4. /\ raw \in Text /\ Len(raw) = r + n
        /\ (\A i \in 1 .. r : raw[i] = e.raw[i]) /\ \A i \in 1 .. n : raw[r + i] = text[i]
    <2>1. PICK a \in Text : a = e.raw BY <1>1
    <2>2. /\ a \o text \in Text /\ Len(a \o text) = Len(a) + Len(text)
          /\ \A i \in 1 .. Len(a) : (a \o text)[i] = a[i]
          /\ \A i \in 1 .. Len(text) : (a \o text)[Len(a) + i] = text[i]
      BY CatIs
    <2> QED BY <1>2, <2>1, <2>2
  <1>5. /\ window \in Text /\ Len(window) = w + n
        /\ (\A i \in 1 .. w : window[i] = e.window[i]) /\ \A i \in 1 .. n : window[w + i] = text[i]
    <2>1. PICK a \in Text : a = e.window BY <1>1
    <2>2. /\ a \o text \in Text /\ Len(a \o text) = Len(a) + Len(text)
          /\ \A i \in 1 .. Len(a) : (a \o text)[i] = a[i]
          /\ \A i \in 1 .. Len(text) : (a \o text)[Len(a) + i] = text[i]
      BY CatIs
    <2> QED BY <1>2, <2>1, <2>2
  <1> HIDE DEF raw, window
  <1>6. \A x \in 1 .. w : e.raw[g + x] = e.window[x] BY <1>2, <1>3 DEF Watching
  <1>7. ASSUME NEW x \in 1 .. w + n PROVE raw[g + x] = window[x]
    <2>1. CASE x <= w
      <3>1. x \in 1 .. w /\ g + x \in 1 .. r BY <1>2, <2>1
      <3> QED BY <1>4, <1>5, <1>6, <3>1
    <2>2. CASE x > w
      <3>1. PICK y \in 1 .. n : y = x - w
        <4>1. x \in Nat /\ x <= w + n /\ w \in Nat /\ n \in Nat BY <1>2
        <4>2. x - w \in 1 .. n BY <2>2, <4>1
        <4> QED BY <4>2
      <3>2. raw[r + y] = text[y] /\ window[w + y] = text[y] BY <1>4, <1>5
      <3>3. y \in Nat /\ x \in Nat BY <1>2
      <3>4. x = w + y BY <1>2, <3>1, <3>3
      <3>5. g + x = r + y BY <1>2, <3>3, <3>4
      <3> QED BY <3>2, <3>4, <3>5
    <2> QED BY <1>2, <2>1, <2>2
  <1>8. w >= 2 \/ g = 0 \/ (g \in 1 .. r /\ e.raw[g] \notin {"s1", "s2"})
    <2>1. w >= 2 \/ g = 0 \/ e.raw[g] \notin {"s1", "s2"} BY <1>2, <1>3 DEF Watching
    <2> QED BY <1>2, <2>1
  <1>9. w + n >= 2 \/ g = 0 \/ raw[g] \notin {"s1", "s2"} BY <1>2, <1>4, <1>8
  <1>10. ASSUME NEW p \in At(raw, Stop) PROVE p - g \in At(window, Stop)
    <2>1. /\ p \in 1 .. Len(raw) - 2
          /\ raw[p] = "s1" /\ raw[p + 1] = "s2" /\ raw[p + 2] = "s3"
      BY <1>4, StopAt
    <2>2. p \in Nat /\ p >= 1 /\ p + 2 <= r + n BY <1>2, <1>4, <2>1
    <2>3. p > g
      <3>1. ASSUME p <= g PROVE FALSE
        <4>1. ~(p + 2 <= r)
          <5>1. ASSUME p + 2 <= r PROVE FALSE
            <6>1. p \in 1 .. r - 2 /\ p \in 1 .. r /\ p + 1 \in 1 .. r /\ p + 2 \in 1 .. r
              BY <1>2, <2>2, <5>1
            <6>2. e.raw[p] = "s1" /\ e.raw[p + 1] = "s2" /\ e.raw[p + 2] = "s3"
              BY <1>4, <2>1, <6>1
            <6>3. p \in At(e.raw, Stop) BY <1>1, <1>2, <6>1, <6>2, StopAt
            <6> QED BY <6>3 DEF Watching
          <5> QED BY <5>1
        <4>2. w < 2 /\ g # 0 /\ g \in 1 .. r /\ (p = g \/ p + 1 = g)
          BY <1>2, <1>8, <2>2, <3>1, <4>1
        <4>3. raw[g] \in {"s1", "s2"} BY <2>1, <4>2
        <4>4. raw[g] = e.raw[g] BY <1>4, <4>2
        <4> QED BY <1>8, <4>2, <4>3, <4>4
      <3> QED BY <1>2, <2>2, <3>1
    <2>4. PICK x \in Nat : p = g + x /\ x >= 1 /\ p - g = x
      <3>1. p - g \in Nat /\ p - g >= 1 /\ p = g + (p - g) BY <1>2, <2>2, <2>3
      <3> QED BY <3>1
    <2>5. x \in 1 .. w + n /\ x + 1 \in 1 .. w + n /\ x + 2 \in 1 .. w + n /\ x \in 1 .. w + n - 2
      BY <1>2, <2>2, <2>4
    <2>6. g + (x + 1) = p + 1 /\ g + (x + 2) = p + 2 BY <1>2, <2>4
    <2>7. window[x] = "s1" /\ window[x + 1] = "s2" /\ window[x + 2] = "s3"
      BY <1>7, <2>1, <2>4, <2>5, <2>6
    <2>8. x \in 1 .. Len(window) - 2 BY <1>5, <2>5
    <2>9. x \in At(window, Stop) BY <1>5, <2>7, <2>8, StopAt
    <2> QED BY <2>4, <2>9
  <1>11. ASSUME NEW x \in At(window, Stop) PROVE g + x \in At(raw, Stop)
    <2>1. /\ x \in 1 .. Len(window) - 2
          /\ window[x] = "s1" /\ window[x + 1] = "s2" /\ window[x + 2] = "s3"
      BY <1>5, StopAt
    <2>2. x \in Nat /\ x >= 1 /\ x + 2 <= w + n BY <1>2, <1>5, <2>1
    <2>3. /\ x \in 1 .. w + n /\ x + 1 \in 1 .. w + n /\ x + 2 \in 1 .. w + n
          /\ g + x \in 1 .. r + n - 2 /\ (g + x) + 1 = g + (x + 1) /\ (g + x) + 2 = g + (x + 2)
      BY <1>2, <2>2
    <2>4. raw[g + x] = "s1" /\ raw[(g + x) + 1] = "s2" /\ raw[(g + x) + 2] = "s3"
      BY <1>7, <2>1, <2>3
    <2>5. PICK p : p = g + x OBVIOUS
    <2>6. p \in 1 .. Len(raw) - 2 BY <1>4, <2>3, <2>5
    <2>7. raw[p] = "s1" /\ raw[p + 1] = "s2" /\ raw[p + 2] = "s3" BY <2>4, <2>5
    <2>8. p \in At(raw, Stop) BY <1>4, <2>6, <2>7, StopAt
    <2> QED BY <2>5, <2>8
  <1>12. Len(raw) - Len(window) = g
    <2>1. PICK k \in Nat : k = w + n BY <1>2
    <2>2. r + n = g + k BY <1>2, <2>1
    <2>3. (g + k) - k = g BY <1>2, <2>1
    <2> QED BY <1>4, <1>5, <2>1, <2>2, <2>3
  <1> HIDE DEF Watching
  <1>13. /\ Len(raw) - Len(window) = Gone(e) /\ Gone(e) \in Nat
         /\ \A x \in 1 .. Len(window) : raw[Gone(e) + x] = window[x]
         /\ Len(window) >= 2 \/ Gone(e) = 0 \/ raw[Gone(e)] \notin {"s1", "s2"}
         /\ \A p \in At(raw, Stop) : p - Gone(e) \in At(window, Stop)
         /\ \A x \in At(window, Stop) : Gone(e) + x \in At(raw, Stop)
    BY <1>3, <1>5, <1>7, <1>9, <1>10, <1>11, <1>12
  <1> QED BY <1>13 DEF raw, window

\* What was in front of the stop sequence when it came was in front of it.
LEMMA HaltedAhead ==
    ASSUME Asked(req), NEW e \in Em, Watching(e), Len(e.window) <= Len(e.raw), NEW text \in Text,
           NEW t \in Em, t.raw = e.raw \o text, t.window = e.window \o text,
           KeptLength(t) = KeptLength(e), StopHits(t.window) # {},
           NEW f, Halted(f, t)
    PROVE  Ahead(f) /\ text # <<>>
  <1>1. /\ Gone(e) \in Nat
        /\ \A p \in At(t.raw, Stop) : p - Gone(e) \in At(t.window, Stop)
        /\ \A x \in At(t.window, Stop) : Gone(e) + x \in At(t.raw, Stop)
    BY StopSeen
  <1>2. StopHits(t.window) = At(t.window, Stop) /\ t.raw \in Text /\ t.window \in Text /\ e.raw \in Text
    BY EmTexts DEF StopHits
  <1>3. /\ At(t.window, Stop) \in SUBSET Nat /\ At(t.raw, Stop) \in SUBSET Nat
    BY <1>2, StopAt
  <1>4. PICK m \in At(t.window, Stop) : m = Min(StopHits(t.window)) /\ m \in Nat
                                        /\ \A x \in At(t.window, Stop) : m <= x
    BY <1>2, <1>3, MinIs
  <1>5. At(t.raw, Stop) # {} BY <1>1, <1>4
  <1>6. PICK p \in At(t.raw, Stop) : p = Min(At(t.raw, Stop)) /\ p \in Nat BY <1>3, <1>5, MinIs
  <1>7. PICK g \in Nat : g = Gone(e) BY <1>1
  <1>8. p - g \in At(t.window, Stop) /\ m <= p - g BY <1>1, <1>4, <1>7
  <1>9. PICK k \in Nat : k = KeptLength(e) BY KeptIs
  <1>10. k <= g BY <1>7, <1>9 DEF Watching
  <1>11. KeptLength(f) = k + (m - 1) /\ f.raw = t.raw BY <1>4, <1>9 DEF Halted
  <1>12. k + (m - 1) < p BY <1>4, <1>6, <1>8, <1>10
  <1>13. Ahead(f) BY <1>5, <1>6, <1>11, <1>12 DEF Ahead
  <1>14. text # <<>>
    <2>1. ASSUME text = <<>> PROVE FALSE
      <3>1. e.raw \o <<>> = e.raw BY <1>2, CatIs
      <3>2. At(e.raw, Stop) # {} BY <1>5, <2>1, <3>1
      <3> QED BY <3>2 DEF Watching
    <2> QED BY <2>1
  <1> QED BY <1>13, <1>14

\* t is e with a token's text in its window and its raw text, before anything is
\* done about it.
Received(t, e, piece, text) ==
    /\ Typed(t) /\ Plainly(t) /\ Told(req.format, t) /\ t.stopHit = FALSE
    /\ t.raw = e.raw \o text /\ t.window = e.window \o text /\ t.mode = e.mode
    /\ t.toolBuffer = e.toolBuffer /\ t.content = e.content /\ t.reasoning = e.reasoning
    /\ t.sent = e.sent
    /\ t.tail \in {<<>>, <<"u1">>}
    /\ TailOf(piece) = <<>> => t.tail = <<>> \/ text = <<>>
    /\ t.pieces # <<>> /\ Last(t.pieces) = piece /\ Len(t.pieces) = Len(e.pieces) + 1
    /\ t.mode = "TOOL_BUFFER" \/ StopHits(t.window) = {} => Going(req, t)

\* A token's text is taken, its half characters replaced.
LEMMA TokenTaken ==
    ASSUME Asked(req), NEW e, Running(req, e), ~e.stopHit, NEW piece \in Text, Unwrapped(piece)
    PROVE  \E t \in Em, text \in Text, x \in Text :
              EmitToken(e, piece) = Advanced(t) /\ text = Sanitized(x) /\ Received(t, e, piece, text)
  <1>1. Typed(e) /\ e \in Em /\ Plainly(e) /\ Told(req.format, e) /\ Watched(req, e)
    BY DEF Running, Typed
  <1>2. /\ e.window \in Text /\ e.raw \in Text /\ Len(e.window) \in Nat /\ Len(e.raw) \in Nat
        /\ e.stopHit = FALSE /\ e.mode \in Modes
    BY <1>1, EmTexts
  <1>3. e.pieces \in Seq(Text) /\ e.count \in Nat /\ e.firstContent \in -1 .. e.count
        /\ e.count = Len(e.pieces) /\ Len(e.pieces) \in Nat /\ e.firstContent \in Int
    BY <1>1 DEF Typed, Em
  <1>4. \E rest \in {<<>>, <<"u1">>}, x \in Text, text \in Text, first \in -1 .. e.count + 1 :
           /\ rest \in Text /\ Unwrapped(rest) /\ Len(rest) <= 1 /\ Unwrapped(text)
           /\ text = Sanitized(x)
           /\ TailOf(piece) = <<>> => rest = <<>> \/ text = <<>>
           /\ EmitToken(e, piece) =
                 Advanced([e EXCEPT !.firstContent = first, !.count = @ + 1, !.tail = rest,
                                    !.raw = @ \o text, !.window = @ \o text,
                                    !.pieces = Append(@, piece)])
    <2> DEFINE joined == e.tail \o piece
               rest   == TailOf(joined)
               front  == SubSeq(joined, 1, Len(joined) - Len(rest))
               text   == Sanitized(front)
               first  == IF CountsAsContent(e, piece) THEN e.count ELSE e.firstContent
    <2>1. e.tail \in {<<>>, <<"u1">>} BY <1>1 DEF Plainly
    <2>2. /\ rest \in {<<>>, <<"u1">>} /\ rest \in Text /\ Unwrapped(rest) /\ Len(rest) <= 1
          /\ text \in Text /\ Unwrapped(text) /\ front \in Text
          /\ TailOf(piece) = <<>> => rest = <<>> \/ text = <<>>
      <3>1. PICK tail \in {<<>>, <<"u1">>} : tail = e.tail BY <2>1
      <3> QED BY ZenonT(40), <3>1, PieceIs
    <2>3. first \in -1 .. e.count + 1 BY <1>3
    <2>4. EmitToken(e, piece) =
             Advanced([e EXCEPT !.firstContent = first, !.count = @ + 1, !.tail = rest,
                                !.raw = @ \o text, !.window = @ \o text,
                                !.pieces = Append(@, piece)])
      BY DEF EmitToken
    <2>5. text = Sanitized(front) OBVIOUS
    <2> HIDE DEF joined, rest, front, text, first
    <2> QED BY <2>2, <2>3, <2>4, <2>5
  <1>5. PICK rest \in {<<>>, <<"u1">>}, x \in Text, text \in Text, first \in -1 .. e.count + 1 :
           /\ rest \in Text /\ Unwrapped(rest) /\ Len(rest) <= 1 /\ Unwrapped(text)
           /\ text = Sanitized(x)
           /\ TailOf(piece) = <<>> => rest = <<>> \/ text = <<>>
           /\ EmitToken(e, piece) =
                 Advanced([e EXCEPT !.firstContent = first, !.count = @ + 1, !.tail = rest,
                                    !.raw = @ \o text, !.window = @ \o text,
                                    !.pieces = Append(@, piece)])
    BY <1>4
  <1>6. PICK raw \in Text : raw = e.raw \o text BY <1>2, CatIs
  <1>7. PICK window \in Text : window = e.window \o text BY <1>2, CatIs
  <1>8. PICK pieces \in Seq(Text) : pieces = Append(e.pieces, piece)
                                    /\ Len(pieces) = Len(e.pieces) + 1 /\ Last(pieces) = piece
                                    /\ pieces # <<>>
    <2>1. Append(e.pieces, piece) \in Seq(Text) /\ Len(Append(e.pieces, piece)) = Len(e.pieces) + 1
          /\ Append(e.pieces, piece)[Len(e.pieces) + 1] = piece
      BY <1>3, AppendProperties
    <2>2. Append(e.pieces, piece) # <<>>
      <3>1. PICK n \in Nat : n = Len(e.pieces) BY <1>3
      <3>2. Len(Append(e.pieces, piece)) = n + 1 BY <2>1, <3>1
      <3>3. n + 1 # 0 /\ Len(<<>>) = 0 OBVIOUS
      <3> QED BY <3>2, <3>3
    <2> QED BY <2>1, <2>2 DEF Last
  <1>9. PICK count \in Nat : count = e.count + 1 BY <1>3
  <1>10. first \in Int /\ first \in -1 .. count BY <1>3, <1>9
  <1> DEFINE t == [e EXCEPT !.firstContent = first, !.count = count, !.tail = rest, !.raw = raw,
                            !.window = window, !.pieces = pieces]
  <1>11. EmitToken(e, piece) = Advanced(t) BY <1>1, <1>5, <1>6, <1>7, <1>8, <1>9
  <1>12. t \in Em BY <1>1, <1>5, <1>10 DEF Em
  <1>13. /\ t.firstContent = first /\ t.count = count /\ t.tail = rest /\ t.raw = raw
         /\ t.window = window /\ t.pieces = pieces /\ t.mode = e.mode /\ t.stopHit = e.stopHit
         /\ t.toolBuffer = e.toolBuffer /\ t.calls = e.calls
    BY <1>1 DEF Em
  <1>14. /\ t.sent = e.sent /\ t.content = e.content /\ t.reasoning = e.reasoning
         /\ t.kind = e.kind /\ t.block = e.block /\ t.outputIndex = e.outputIndex
         /\ t.reasoningOpen = e.reasoningOpen /\ t.messageOpen = e.messageOpen
    BY <1>1 DEF Em
  <1> HIDE DEF t
  <1>15. Told(req.format, t) BY <1>1, <1>13, <1>14 DEF Told, Turned
  <1>16. Typed(t)
    <2>1. /\ Len(raw) = Len(e.raw) + Len(text) /\ Len(window) = Len(e.window) + Len(text)
          /\ Len(text) \in Nat
      BY <1>2, <1>6, <1>7, CatIs, TextIs
    <2>2. Len(e.window) <= Len(e.raw) BY <1>1 DEF Typed
    <2>3. Len(window) <= Len(raw) BY <1>2, <2>1, <2>2
    <2>4. t.mode # "TOOL_BUFFER" => t.toolBuffer = <<>> BY <1>1, <1>13 DEF Typed
    <2>5. t.count = Len(t.pieces) BY <1>3, <1>8, <1>9, <1>13
    <2> QED BY <1>5, <1>10, <1>12, <1>13, <2>3, <2>4, <2>5 DEF Typed
  <1>17. Plainly(t)
    <2>1. Unwrapped(e.window) BY <1>1 DEF Plainly
    <2>2. Unwrapped(window) BY <1>2, <1>5, <1>7, <2>1, UnwrappedCat
    <2> QED BY <1>1, <1>5, <1>13, <2>2 DEF Plainly
  <1>18. ASSUME t.mode = "TOOL_BUFFER" \/ StopHits(t.window) = {} PROVE Going(req, t)
    <2>1. ASSUME req.vocabulary.stop, t.mode # "TOOL_BUFFER" PROVE Watching(t)
      <3>1. Watching(e) BY <1>1, <1>2, <1>13, <2>1 DEF Watched
      <3>2. Len(e.window) <= Len(e.raw) BY <1>1 DEF Typed
      <3>3. /\ Len(raw) - Len(window) = Gone(e)
            /\ \A i \in 1 .. Len(window) : raw[Gone(e) + i] = window[i]
            /\ Len(window) >= 2 \/ Gone(e) = 0 \/ raw[Gone(e)] \notin {"s1", "s2"}
            /\ \A p \in At(raw, Stop) : p - Gone(e) \in At(window, Stop)
        BY ZenonT(40), <1>1, <1>6, <1>7, <3>1, <3>2, StopSeen
      <3>4. Gone(t) = Gone(e) /\ KeptLength(t) = KeptLength(e)
        BY <1>13, <1>14, <3>3 DEF Gone, KeptLength
      <3>5. At(window, Stop) = {} BY <1>13, <1>18, <2>1 DEF StopHits
      <3>6. At(t.raw, Stop) = {} BY <1>13, <3>3, <3>5
      <3>7. KeptLength(t) <= Gone(t) BY <3>1, <3>4 DEF Watching
      <3>8. \A i \in 1 .. Len(t.window) : t.raw[Gone(t) + i] = t.window[i]
        BY <1>13, <3>3, <3>4
      <3>9. Len(t.window) >= 2 \/ Gone(t) = 0 \/ t.raw[Gone(t)] \notin {"s1", "s2"}
        BY <1>13, <3>3, <3>4
      <3> QED BY <3>6, <3>7, <3>8, <3>9 DEF Watching
    <2>2. Watched(req, t) BY <1>2, <1>13, <2>1 DEF Watched
    <2> QED BY <1>2, <1>13, <1>15, <1>16, <1>17, <2>2 DEF Going, Running
  <1>19. Received(t, e, piece, text)
    BY <1>2, <1>5, <1>6, <1>7, <1>8, <1>13, <1>14, <1>15, <1>16, <1>17, <1>18 DEF Received
  <1> QED BY <1>5, <1>11, <1>12, <1>19

\* A token leaves the emitter running, and is the only one it was given.
LEMMA EmitTokenIs ==
    ASSUME Asked(req), NEW e, Running(req, e), NEW piece \in Text, Unwrapped(piece)
    PROVE  LET f == EmitToken(e, piece)
           IN  Running(req, f) /\ Len(f.pieces) <= Len(e.pieces) + 1
  <1>1. Typed(e) /\ e \in Em /\ Plainly(e) /\ Told(req.format, e) /\ Watched(req, e)
    BY DEF Running, Typed
  <1>2. e.stopHit \in BOOLEAN /\ Len(e.pieces) \in Nat
    <2>1. e.pieces \in Seq(Text) BY <1>1 DEF Em
    <2> QED BY <1>1, <2>1, EmTexts
  <1>3. CASE e.stopHit
    <2>1. EmitToken(e, piece) = e BY <1>3 DEF EmitToken
    <2> QED BY <1>2, <2>1
  <1>4. CASE ~e.stopHit
    <2>1. PICK t \in Em, text \in Text, x \in Text :
             EmitToken(e, piece) = Advanced(t) /\ text = Sanitized(x) /\ Received(t, e, piece, text)
      BY <1>4, TokenTaken
    <2>2. /\ Typed(t) /\ t \in Em /\ Plainly(t) /\ Told(req.format, t) /\ ~t.stopHit
          /\ Len(t.pieces) <= Len(e.pieces) + 1
      BY <1>2, <2>1 DEF Received, Typed
    <2>3. CASE t.mode # "TOOL_BUFFER" /\ StopHits(t.window) # {}
      <3>1. EmitToken(e, piece) = Stopped(t) BY <2>1, <2>3 DEF Advanced
      <3> DEFINE f == Stopped(t)
      <3>2. Halted(f, t) /\ Told(req.format, f) BY <2>2, <2>3, StoppedIs
      <3> HIDE DEF f
      <3>3. req.vocabulary.stop BY <2>3 DEF StopHits
      <3>4. Watching(e) BY <1>1, <1>4, <2>1, <2>3, <3>3 DEF Watched, Received
      <3>5. Ahead(f) /\ text # <<>>
        <4>1. Len(e.window) <= Len(e.raw) /\ t.raw = e.raw \o text /\ t.window = e.window \o text
          BY <1>1, <2>1 DEF Typed, Received
        <4>2. KeptLength(t) = KeptLength(e) BY <2>1 DEF KeptLength, Received
        <4> QED BY <1>1, <2>2, <2>3, <3>2, <3>4, <4>1, <4>2, HaltedAhead
      <3>6. /\ f \in Em /\ f.stopHit = TRUE /\ f.window = <<>> /\ f.mode = t.mode /\ f.tail = t.tail
            /\ f.toolBuffer = t.toolBuffer /\ f.raw = t.raw /\ f.calls = t.calls
            /\ f.firstContent = t.firstContent /\ f.count = t.count /\ f.pieces = t.pieces
        BY <3>2 DEF Halted
      <3>7. Len(<<>>) = 0 /\ Unwrapped(<<>>)
        <4>1. Len(<<>>) = 0 /\ 1 .. 0 = {} OBVIOUS
        <4> QED BY <4>1 DEF Unwrapped
      <3>8. Typed(f)
        <4>1. Len(f.raw) \in Nat BY <3>6, EmTexts
        <4>2. Len(f.window) <= Len(f.raw) BY <3>6, <3>7, <4>1
        <4> QED BY <2>2, <3>6, <4>2 DEF Typed
      <3>9. Plainly(f) BY <2>2, <3>6, <3>7 DEF Plainly
      <3>10. Watched(req, f)
        <4>1. TailOf(Last(f.pieces)) = <<>> => f.tail = <<>> BY <2>1, <3>5, <3>6 DEF Received
        <4>2. f.mode # "TOOL_BUFFER" /\ f.pieces # <<>> BY <2>1, <2>3, <3>6 DEF Received
        <4> QED BY <3>3, <3>5, <3>6, <4>1, <4>2 DEF Watched
      <3>11. Running(req, f) BY <3>2, <3>8, <3>9, <3>10 DEF Running
      <3> QED BY <2>2, <3>1, <3>6, <3>11 DEF f
    <2>4. CASE ~(t.mode # "TOOL_BUFFER" /\ StopHits(t.window) # {})
      <3>1. EmitToken(e, piece) = Process(t) BY <2>1, <2>4 DEF Advanced
      <3>2. Going(req, t) BY <2>1, <2>4 DEF Received
      <3>3. Onward(req, Process(t), t) BY <3>2, ProcessIs
      <3> QED BY <2>2, <3>1, <3>3 DEF Onward
    <2> QED BY <2>3, <2>4
  <1> QED BY <1>2, <1>3, <1>4

-----------------------------------------------------------------------------
(* The answer's tokens *)

\* The text of a token the vocabulary has.
LEMMA TokenTexts ==
    ASSUME req \in Requests, NEW token \in req.vocabulary.tokens
    PROVE  TokenText[token] \in Text /\ Unwrapped(TokenText[token])
  <1>1. req.vocabulary \in Vocabularies BY DEF Requests
  <1>2. TokenText[token] \in Seq(Symbol \ {"z"}) BY <1>1, EmitterAssumption
  <1>3. PICK text \in Seq(Symbol \ {"z"}) : text = TokenText[token] BY <1>2
  <1>4. \A i \in 1 .. Len(text) : text[i] \in Symbol \ {"z"} BY ElementOfSeq
  <1>5. Unwrapped(text) BY <1>4 DEF Unwrapped
  <1>6. text \in Seq(Symbol)
    <2>1. Len(text) \in Nat /\ text \in [1 .. Len(text) -> Symbol \ {"z"}] BY LenProperties
    <2>2. text \in [1 .. Len(text) -> Symbol] BY <2>1
    <2> QED BY <2>1, <2>2, SeqDef
  <1> QED BY <1>3, <1>5, <1>6 DEF Text

\* Classifying a token only sets a flag.
LEMMA ClassifiedIs ==
    ASSUME Asked(req), NEW e, Running(req, e), NEW token
    PROVE  Running(req, Classified(e, token)) /\ Classified(e, token).pieces = e.pieces
  <1>1. Typed(e) /\ e \in Em /\ Plainly(e) /\ Told(req.format, e) /\ Watched(req, e)
    BY DEF Running, Typed
  <1>2. HasTools \in BOOLEAN /\ e.suppress \in BOOLEAN BY <1>1 DEF HasTools, Asked, Em
  <1>3. PICK g \in BOOLEAN : g = (~HasTools /\ IF e.suppress THEN token # "E" ELSE token = "T")
    BY <1>2
  <1> DEFINE c == [e EXCEPT !.suppress = g]
  <1>4. Classified(e, token) = c BY <1>3 DEF Classified
  <1>5. c \in Em BY <1>1 DEF Em
  <1>6. /\ c.mode = e.mode /\ c.window = e.window /\ c.tail = e.tail
        /\ c.toolBuffer = e.toolBuffer /\ c.raw = e.raw /\ c.calls = e.calls
        /\ c.firstContent = e.firstContent /\ c.count = e.count /\ c.pieces = e.pieces
        /\ c.stopHit = e.stopHit
    BY <1>1 DEF Em
  <1>7. /\ c.sent = e.sent /\ c.content = e.content /\ c.reasoning = e.reasoning /\ c.kind = e.kind
        /\ c.block = e.block /\ c.outputIndex = e.outputIndex
        /\ c.reasoningOpen = e.reasoningOpen /\ c.messageOpen = e.messageOpen
    BY <1>1 DEF Em
  <1> HIDE DEF c
  <1>8. Typed(c) BY <1>1, <1>5, <1>6 DEF Typed
  <1>9. Plainly(c) BY <1>1, <1>6 DEF Plainly
  <1>10. Told(req.format, c) BY <1>1, <1>6, <1>7 DEF Told, Turned
  <1>11. Gone(c) = Gone(e) /\ KeptLength(c) = KeptLength(e) BY <1>6, <1>7 DEF Gone, KeptLength
  <1>12. Watching(e) => Watching(c) BY <1>6, <1>11 DEF Watching
  <1>13. Ahead(e) => Ahead(c) BY <1>6, <1>11 DEF Ahead
  <1>14. Watched(req, c) BY <1>1, <1>6, <1>12, <1>13 DEF Watched
  <1> QED BY <1>4, <1>6, <1>8, <1>9, <1>10, <1>14 DEF Running

\* A streamed token.
LEMMA StreamedIs ==
    ASSUME req \in Requests, NEW e, Running(req, e), NEW token \in req.vocabulary.tokens
    PROVE  LET f == Streamed(e, token)
           IN  Running(req, f) /\ Len(f.pieces) <= Len(e.pieces) + 1
  <1>1. Asked(req) BY ReqIs
  <1>2. PICK c : c = Classified(e, token) OBVIOUS
  <1>3. Running(req, c) /\ c.pieces = e.pieces BY <1>1, <1>2, ClassifiedIs
  <1>4. Len(e.pieces) \in Nat BY DEF Running, Typed, Em
  <1>5. PICK piece \in Text : piece = TokenText[token] /\ Unwrapped(piece) BY TokenTexts
  <1>6. Running(req, EmitToken(c, piece)) /\ Len(EmitToken(c, piece).pieces) <= Len(c.pieces) + 1
    BY <1>1, <1>3, <1>5, EmitTokenIs
  <1>7. Streamed(e, token) = c \/ Streamed(e, token) = EmitToken(c, piece)
    BY <1>2, <1>5 DEF Streamed
  <1>8. CASE Streamed(e, token) = c BY <1>3, <1>4, <1>8
  <1>9. CASE Streamed(e, token) = EmitToken(c, piece) BY <1>3, <1>6, <1>9
  <1> QED BY <1>7, <1>8, <1>9

\* A token that is fed later.
LEMMA FedIs ==
    ASSUME req \in Requests, NEW l, Running(req, l.em), NEW n \in Nat, Len(l.em.pieces) <= n,
           NEW token \in req.vocabulary.tokens
    PROVE  Running(req, Fed(l, token).em) /\ Len(Fed(l, token).em.pieces) <= n + 1
  <1>1. Asked(req) BY ReqIs
  <1>2. PICK e : e = l.em /\ Running(req, e) /\ Len(e.pieces) <= n OBVIOUS
  <1>3. PICK c : c = Classified(e, token) OBVIOUS
  <1>4. Running(req, c) /\ c.pieces = e.pieces BY <1>1, <1>2, <1>3, ClassifiedIs
  <1>5. Len(e.pieces) \in Nat BY <1>2 DEF Running, Typed, Em
  <1>6. PICK piece \in Text : piece = TokenText[token] /\ Unwrapped(piece) BY TokenTexts
  <1>7. PICK f : f = EmitToken(c, piece) OBVIOUS
  <1>8. Running(req, f) /\ Len(f.pieces) <= Len(c.pieces) + 1
    BY <1>1, <1>4, <1>6, <1>7, EmitTokenIs
  <1>9. Len(f.pieces) \in Nat BY <1>8 DEF Running, Typed, Em
  <1>10. Len(f.pieces) <= n + 1 /\ Len(c.pieces) <= n + 1 /\ Len(e.pieces) <= n + 1
    BY <1>2, <1>4, <1>5, <1>8, <1>9
  <1>11. Fed(l, token) = l \/ Fed(l, token).em = c \/ Fed(l, token).em = f
    BY <1>2, <1>3, <1>6, <1>7 DEF Fed, Again, Waits
  <1>12. Fed(l, token).em \in {e, c, f} BY <1>2, <1>11
  <1> QED BY <1>2, <1>4, <1>8, <1>10, <1>12

\* f[n] is what the first n tokens have made of e.
Feeds(f, e, fed, n) ==
    f = [m \in 0 .. n |-> IF m = 0 THEN Again(e) ELSE Fed(f[m - 1], fed[m])]

\* The loop exists, by the least number of tokens for which it would not.
LEMMA FeedsExist ==
    ASSUME NEW e, NEW fed, NEW count \in Nat
    PROVE  \E f : Feeds(f, e, fed, count)
  <1> DEFINE Has(n) == \E f : Feeds(f, e, fed, n)
             A == {n \in 0 .. count : ~Has(n)}
  <1>1. Has(0)
    <2> DEFINE f == [m \in 0 .. 0 |-> Again(e)]
    <2>1. \A m \in 0 .. 0 : m = 0 OBVIOUS
    <2>2. f = [m \in 0 .. 0 |-> IF m = 0 THEN Again(e) ELSE Fed(f[m - 1], fed[m])] BY <2>1
    <2> QED BY <2>2 DEF Feeds
  <1> HIDE DEF Has
  <1>2. ASSUME A # {} PROVE FALSE
    <2>1. A \in SUBSET Nat OBVIOUS
    <2>2. PICK n \in A : \A j \in A : n <= j BY <1>2, <2>1, LeastNumber
    <2>3. n \in 1 .. count /\ n \in Nat /\ ~Has(n) BY <1>1, <2>2
    <2>4. n - 1 \in 0 .. count /\ ~(n <= n - 1) BY <2>3
    <2>5. Has(n - 1) BY <2>2, <2>4
    <2>6. PICK f : Feeds(f, e, fed, n - 1) BY <2>5 DEF Has
    <2> DEFINE last == Fed(f[n - 1], fed[n])
               g == [m \in 0 .. n |-> IF m = n THEN last ELSE f[m]]
    <2>7. ASSUME NEW m \in 0 .. n
          PROVE  g[m] = IF m = 0 THEN Again(e) ELSE Fed(g[m - 1], fed[m])
      <3>1. m # 0 => m - 1 \in 0 .. n - 1 /\ m - 1 \in 0 .. n /\ m - 1 # n BY <2>3
      <3>2. m # 0 => g[m - 1] = f[m - 1] BY <3>1
      <3>3. CASE m = n
        <4>1. g[m] = last /\ m # 0 BY <2>3, <3>3
        <4> QED BY <4>1, <3>2, <3>3
      <3>4. CASE m # n
        <4>1. g[m] = f[m] /\ m \in 0 .. n - 1 BY <2>3, <3>4
        <4>2. f[m] = IF m = 0 THEN Again(e) ELSE Fed(f[m - 1], fed[m])
          BY <2>6, <4>1 DEF Feeds
        <4> QED BY <3>2, <4>1, <4>2
      <3> QED BY <3>3, <3>4
    <2>8. g = [m \in 0 .. n |-> g[m]] OBVIOUS
    <2> HIDE DEF g, last
    <2>9. g = [m \in 0 .. n |-> IF m = 0 THEN Again(e) ELSE Fed(g[m - 1], fed[m])]
      BY <2>7, <2>8
    <2> QED BY <2>3, <2>9 DEF Feeds, Has
  <1>3. Has(count) BY <1>2
  <1> QED BY <1>3 DEF Has

\* Tokens fed later leave the emitter running.
LEMMA ReplayedIs ==
    ASSUME req \in Requests, NEW e, Running(req, e), e.pieces = <<>>,
           NEW fed \in Seq(req.vocabulary.tokens)
    PROVE  Running(req, Replayed(e, fed)) /\ Len(Replayed(e, fed).pieces) <= Len(fed)
  <1>1. PICK count \in Nat : count = Len(fed) BY LenProperties
  <1> DEFINE f == CHOOSE f : Feeds(f, e, fed, count)
  <1>2. Feeds(f, e, fed, count) BY FeedsExist
  <1>3. Replayed(e, fed) = f[count].em BY <1>1 DEF Replayed, Feeds
  <1> HIDE DEF f
  <1>4. \A i \in 1 .. count : fed[i] \in req.vocabulary.tokens BY <1>1, ElementOfSeq
  <1> DEFINE Good(m) == Running(req, f[m].em) /\ Len(f[m].em.pieces) <= m
             A == {m \in 0 .. count : ~Good(m)}
  <1>5. ASSUME A # {} PROVE FALSE
    <2> HIDE DEF Good
    <2>1. A \in SUBSET Nat OBVIOUS
    <2>2. PICK m \in A : \A j \in A : m <= j BY <1>5, <2>1, LeastNumber
    <2>3. m \in 0 .. count /\ m \in Nat /\ ~Good(m) BY <2>2
    <2>4. f[m] = IF m = 0 THEN Again(e) ELSE Fed(f[m - 1], fed[m]) BY <1>2, <2>3 DEF Feeds
    <2>5. CASE m = 0
      <3>1. f[m].em = e BY <2>4, <2>5 DEF Again
      <3>2. Len(<<>>) <= 0 OBVIOUS
      <3> QED BY <2>3, <2>5, <3>1, <3>2 DEF Good
    <2>6. CASE m # 0
      <3>1. m - 1 \in 0 .. count /\ ~(m <= m - 1) /\ m \in 1 .. count BY <2>3, <2>6
      <3>2. Good(m - 1) BY <2>2, <3>1
      <3>3. PICK k \in Nat : k = m - 1 /\ k + 1 = m BY <2>3, <3>1
      <3> DEFINE l == f[k]
      <3>4. Running(req, l.em) /\ Len(l.em.pieces) <= k BY <3>2, <3>3 DEF Good
      <3>5. Running(req, Fed(l, fed[m]).em) /\ Len(Fed(l, fed[m]).em.pieces) <= k + 1
        BY <1>4, <3>1, <3>4, FedIs
      <3> QED BY <2>3, <2>4, <2>6, <3>3, <3>5 DEF Good
    <2> QED BY <2>5, <2>6
  <1> HIDE DEF Good
  <1>6. Good(count) BY <1>5
  <1> QED BY <1>1, <1>3, <1>6 DEF Good

\* No events are in turn.
LEMMA NothingTurned ==
    /\ <<>> \in Seq(Events) /\ Len(<<>>) = 0
    /\ \A type : Named(<<>>, type, 0) = Below(0)
    /\ BlockTurns(<<>>, FALSE) /\ ItemsTo(<<>>, 0, FALSE, FALSE)
  <1>1. <<>> \in Seq(Events) /\ Len(<<>>) = 0 /\ 1 .. 0 = {} OBVIOUS
  <1>2. Below(0) = {} BY BelowIs
  <1>3. ASSUME NEW type PROVE Named(<<>>, type, 0) = Below(0) BY <1>1, <1>2 DEF Named
  <1>4. BlockTurns(<<>>, FALSE) /\ ItemTurns(<<>>) BY <1>1 DEF BlockTurns, ItemTurns
  <1>5. ItemsTo(<<>>, 0, FALSE, FALSE) BY <1>1, <1>3, <1>4 DEF ItemsTo
  <1> QED BY <1>1, <1>3, <1>4, <1>5

\* A new emitter.
LEMMA EmitterIs ==
    ASSUME NEW thinking \in BOOLEAN
    PROVE  LET e == Emitter(thinking)
           IN  /\ e \in Em /\ e.window = <<>> /\ e.raw = <<>> /\ e.tail = <<>>
               /\ e.toolBuffer = <<>> /\ e.content = <<>> /\ e.reasoning = <<>> /\ e.calls = {}
               /\ e.firstContent = -1 /\ e.count = 0 /\ e.stopHit = FALSE /\ e.block = 0
               /\ e.reasoningOpen = FALSE /\ e.messageOpen = FALSE /\ e.outputIndex = 0
               /\ e.sent = <<>> /\ e.pieces = <<>> /\ e.kind \in {"text", "thinking"}
               /\ e.mode # "TOOL_BUFFER"
  <1>1. <<>> \in Text /\ <<>> \in Seq(Events) /\ <<>> \in Seq(Text) BY DEF Text
  <1>2. {} \in SUBSET Call /\ -1 \in Int /\ 0 \in Nat /\ "stop" \in {"stop", "length", "tool_calls"}
        /\ FALSE \in BOOLEAN
    OBVIOUS
  <1>3. (IF thinking THEN "REASONING" ELSE "CONTENT") \in Modes BY DEF Modes
  <1>4. (IF thinking THEN "thinking" ELSE "text") \in {"text", "thinking", ""} OBVIOUS
  <1>5. PICK mode \in Modes : mode = (IF thinking THEN "REASONING" ELSE "CONTENT") BY <1>3
  <1>6. PICK kind \in {"text", "thinking", ""} : kind = (IF thinking THEN "thinking" ELSE "text")
    BY <1>4
  <1>7. Emitter(thinking) \in Em BY <1>1, <1>2, <1>5, <1>6 DEF Emitter, Em
  <1> QED BY <1>7 DEF Emitter

\* The first event opens the first block, or the message of an answer that does
\* not begin by thinking.
LEMMA StartedIs ==
    ASSUME req \in Requests
    PROVE  /\ Running(req, Started(Emitter(req.thinking)))
           /\ Started(Emitter(req.thinking)).pieces = <<>>
           /\ req.format = "openai" => Running(req, Emitter(req.thinking))
           /\ Emitter(req.thinking).pieces = <<>>
  <1> DEFINE e == Emitter(req.thinking)
  <1>1. Asked(req) /\ req.thinking \in BOOLEAN BY ReqIs DEF Requests
  <1>2. /\ e \in Em /\ e.window = <<>> /\ e.raw = <<>> /\ e.tail = <<>>
        /\ e.toolBuffer = <<>> /\ e.content = <<>> /\ e.reasoning = <<>> /\ e.calls = {}
        /\ e.firstContent = -1 /\ e.count = 0 /\ e.stopHit = FALSE /\ e.block = 0
        /\ e.reasoningOpen = FALSE /\ e.messageOpen = FALSE /\ e.outputIndex = 0
        /\ e.sent = <<>> /\ e.pieces = <<>> /\ e.kind \in {"text", "thinking"}
        /\ e.mode # "TOOL_BUFFER"
    BY <1>1, EmitterIs
  <1> HIDE DEF e
  <1>3. /\ <<>> \in Text /\ Len(<<>>) = 0 /\ Unwrapped(<<>>) /\ At(<<>>, Stop) = {}
        /\ <<>> \in Seq(Events)
    <2>1. <<>> \in Text /\ Len(<<>>) = 0 /\ 1 .. 0 = {} /\ <<>> \in Seq(Events) BY DEF Text
    <2>2. \A i : i \notin At(<<>>, Stop)
      <3>1. \A i : i \in At(<<>>, Stop) => i \in 1 .. Len(<<>>) - 2 BY <2>1, StopAt
      <3>2. 1 .. Len(<<>>) - 2 = {} BY <2>1
      <3> QED BY <3>1, <3>2
    <2>3. At(<<>>, Stop) = {} BY <2>2
    <2> QED BY <2>1, <2>3 DEF Unwrapped
  <1>4. ASSUME NEW f \in Em, Alike(f, e), Quiet(f, e), Turned(req.format, f)
        PROVE  Running(req, f)
    <2>1. /\ f.mode = e.mode /\ f.window = <<>> /\ f.raw = <<>> /\ f.tail = <<>>
          /\ f.toolBuffer = <<>> /\ f.content = <<>> /\ f.reasoning = <<>> /\ f.calls = {}
          /\ f.firstContent = -1 /\ f.count = 0 /\ f.stopHit = FALSE /\ f.pieces = <<>>
      BY <1>2, <1>4 DEF Alike, Same
    <2>2. -1 \in -1 .. 0 /\ 0 <= 0 /\ 0 <= 1 OBVIOUS
    <2>3. Typed(f) BY <1>3, <2>1, <2>2 DEF Typed
    <2>4. Plainly(f) BY <1>3, <2>1 DEF Plainly
    <2>5. Told(req.format, f)
      <3>1. Added(e.sent, "text") = <<>> /\ Added(e.sent, "thinking") = <<>> BY <1>2, AddedNone
      <3> QED BY <1>4, <2>1, <3>1 DEF Told, Quiet
    <2>6. Watching(f)
      <3>1. Gone(f) = 0 BY <1>3, <2>1 DEF Gone
      <3>2. KeptLength(f) = 0 BY <1>3, <2>1 DEF KeptLength
      <3>3. 1 .. Len(f.window) = {} BY <1>3, <2>1
      <3>4. At(f.raw, Stop) = {} BY <1>3, <2>1
      <3>5. KeptLength(f) <= Gone(f) BY <3>1, <3>2
      <3> QED BY <3>1, <3>3, <3>4, <3>5 DEF Watching
    <2>7. Watched(req, f) BY <2>1, <2>6 DEF Watched
    <2> QED BY <2>3, <2>4, <2>5, <2>7 DEF Running
  <1>5. Alike(e, e) /\ Quiet(e, e) BY DEF Alike, Same, Quiet
  <1>6. ASSUME req.format \notin {"anthropic", "responses"} \/ (req.format = "responses")
        PROVE  Turned(req.format, e)
    BY <1>2, <1>6, NothingTurned DEF Turned
  <1>7. /\ Running(req, Started(e)) /\ Started(e).pieces = <<>>
    <2>1. CASE req.format = "anthropic"
      <3>1. PICK v \in Events : v.type = "open" /\ v.kind = e.kind /\ v.index = 0 /\ v.text = <<>>
                                /\ v = Event("open", e.kind, 0, <<>>)
        <4>1. e.kind \in {"text", "thinking", "tool", "", "stop", "length", "tool_calls"}
              /\ "open" \in {"open", "close", "delta", "call", "done"} /\ 0 \in Nat
          BY <1>2
        <4> DEFINE w == Event("open", e.kind, 0, <<>>)
        <4>2. w \in Events /\ w.type = "open" /\ w.kind = e.kind /\ w.index = 0 /\ w.text = <<>>
          BY <1>2, <1>3, <4>1 DEF Event, Events
        <4> HIDE DEF w
        <4> QED BY <4>2 DEF w
      <3>2. PICK sent \in Seq(Events) : sent = Append(<<>>, v) BY <1>3, AppendEvent
      <3>3. Started(e) = [e EXCEPT !.sent = sent]
        <4>1. Send(e, <<v>>) = [e EXCEPT !.sent = Append(e.sent, v)] BY <1>2, SendIs
        <4> QED BY <1>2, <2>1, <3>1, <3>2, <4>1 DEF Started
      <3>4. BlocksTo(sent, FALSE, e.kind, 0)
        <4>1. PICK kind \in {"text", "thinking", "tool"} : kind = e.kind /\ kind # "tool" BY <1>2
        <4>2. PICK s \in Seq(Events) : s = <<>> /\ Len(s) = 0 BY <1>3
        <4>3. /\ BlockTurns(s, FALSE) /\ Named(s, "open", Len(s)) = Below(0)
              /\ Named(s, "close", Len(s)) = Below(0) /\ 0 \in Nat /\ FALSE \in BOOLEAN
          BY <4>2, NothingTurned
        <4>4. v.kind = kind BY <3>1, <4>1
        <4>5. BlocksTo(Append(s, v), FALSE, kind, 0) BY <3>1, <4>1, <4>3, <4>4, BlockOpened
        <4> QED BY <3>2, <4>1, <4>2, <4>5
      <3> DEFINE f == [e EXCEPT !.sent = sent]
      <3>5. f \in Em BY <1>2 DEF Em
      <3>6. /\ Alike(f, e) /\ f.sent = sent /\ f.kind = e.kind /\ f.block = 0
            /\ f.reasoningOpen = FALSE /\ f.stopHit = FALSE /\ f.pieces = <<>>
        BY <1>2 DEF Em, Alike, Same
      <3> HIDE DEF f
      <3>7. Quiet(f, e)
        <4>1. \A kind : Added(Append(<<>>, v), kind) = Added(<<>>, kind)
          BY <1>3, <3>1, QuietEvent
        <4> QED BY <1>2, <3>2, <3>6, <4>1 DEF Quiet
      <3>8. Turned(req.format, f) BY <2>1, <3>4, <3>6 DEF Turned
      <3>9. Running(req, f) BY <1>4, <3>5, <3>6, <3>7, <3>8
      <3> QED BY <3>3, <3>6, <3>9 DEF f
    <2>2. CASE req.format = "responses" /\ ~req.thinking
      <3>1. PICK v \in Events : v.type = "open" /\ v.kind = "text" /\ v.index = 0 /\ v.text = <<>>
                                /\ v = Event("open", "text", 0, <<>>)
        <4>1. "text" \in {"text", "thinking", "tool", "", "stop", "length", "tool_calls"}
              /\ "open" \in {"open", "close", "delta", "call", "done"} /\ 0 \in Nat
          OBVIOUS
        <4> DEFINE w == Event("open", "text", 0, <<>>)
        <4>2. w \in Events /\ w.type = "open" /\ w.kind = "text" /\ w.index = 0 /\ w.text = <<>>
          BY <1>2, <1>3, <4>1 DEF Event, Events
        <4> HIDE DEF w
        <4> QED BY <4>2 DEF w
      <3>2. PICK sent \in Seq(Events) : sent = Append(<<>>, v) BY <1>3, AppendEvent
      <3>3. Started(e) = [e EXCEPT !.sent = sent, !.messageOpen = TRUE]
        <4>1. Send(e, <<v>>) = [e EXCEPT !.sent = Append(e.sent, v)] BY <1>2, SendIs
        <4>2. Started(e) = [Send(e, <<v>>) EXCEPT !.messageOpen = TRUE] BY <2>2, <3>1 DEF Started
        <4> QED BY <1>2, <3>2, <4>1, <4>2
      <3>4. ItemsTo(sent, 0, FALSE, TRUE)
        <4>1. 0 \in Nat /\ FALSE \in BOOLEAN OBVIOUS
        <4>2. ItemsTo(<<>>, 0, FALSE, FALSE) BY NothingTurned
        <4> QED BY <1>3, <3>1, <3>2, <4>1, <4>2, ItemOpened
      <3> DEFINE f == [e EXCEPT !.sent = sent, !.messageOpen = TRUE]
      <3>5. f \in Em BY <1>2 DEF Em
      <3>6. /\ Alike(f, e) /\ f.sent = sent /\ f.outputIndex = 0
            /\ f.reasoningOpen = FALSE /\ f.messageOpen = TRUE /\ f.pieces = <<>>
        BY <1>2 DEF Em, Alike, Same
      <3> HIDE DEF f
      <3>7. Quiet(f, e)
        <4>1. \A kind : Added(Append(<<>>, v), kind) = Added(<<>>, kind)
          BY <1>3, <3>1, QuietEvent
        <4> QED BY <1>2, <3>2, <3>6, <4>1 DEF Quiet
      <3>8. Turned(req.format, f) BY <2>2, <3>4, <3>6 DEF Turned
      <3>9. Running(req, f) BY <1>4, <3>5, <3>6, <3>7, <3>8
      <3> QED BY <3>3, <3>6, <3>9 DEF f
    <2>3. CASE req.format = "openai" \/ (req.format = "responses" /\ req.thinking)
      <3>1. Started(e) = e BY <2>3 DEF Started
      <3>2. Turned(req.format, e) BY <1>6, <2>3
      <3> QED BY <1>2, <1>4, <1>5, <3>1, <3>2
    <2> QED BY <1>1, <2>1, <2>2, <2>3 DEF Asked, ThreeFormats
  <1>8. req.format = "openai" => Running(req, e) BY <1>2, <1>4, <1>5, <1>6
  <1> QED BY <1>2, <1>7, <1>8 DEF e

-----------------------------------------------------------------------------
(* The end of the answer *)

\* What holds of the stop sequence once nothing more is waited for.
StopKept(r, e) ==
    /\ e.stopHit =>
          /\ r.vocabulary.stop /\ e.mode # "TOOL_BUFFER" /\ e.pieces # <<>>
          /\ TailOf(Last(e.pieces)) = <<>> => Ahead(e)
    /\ r.vocabulary.stop /\ e.mode # "TOOL_BUFFER" /\ ~e.stopHit => At(e.raw, Stop) = {}

\* What holds of the emitter once nothing is held back any more.
Settled(r, e) ==
    /\ e \in Em /\ e.window = <<>> /\ e.tail = <<>>
    /\ e.mode # "TOOL_BUFFER" => e.toolBuffer = <<>>
    /\ e.firstContent \in -1 .. e.count /\ e.count = Len(e.pieces)
    /\ WrappedAlone(e.toolBuffer) /\ e.calls \in {{}, Calls(e.toolBuffer)}
    /\ StopKept(r, e)

\* What the client has been sent is what the emitter keeps.
Adds(f, e) ==
    /\ Added(e.sent, "text") = e.content
    /\ (e.stopHit /\ f = "responses") \/ Added(e.sent, "thinking") = e.reasoning

\* The blocks or items are in turn, and the last block may have been closed.
Shut(f, e) ==
    /\ f = "anthropic" =>
          \/ e.kind = "" /\ BlockTurns(e.sent, e.stopHit) /\ Open(e.sent, Len(e.sent)) = {}
          \/ e.kind # "" /\ BlocksTo(e.sent, e.stopHit, e.kind, e.block)
    /\ f = "responses" => (FirstThought(e.sent) => ItemTurns(e.sent))

\* The blocks or items have been in turn.
InTurn(f, e) ==
    /\ f = "anthropic" => BlockTurns(e.sent, e.stopHit)
    /\ f = "responses" => (FirstThought(e.sent) => ItemTurns(e.sent))

\* A text that is nothing but a name has the name's symbol.
LEMMA TrimmedName ==
    ASSUME NEW text \in Text, Trimmed(text) = <<"n">>
    PROVE  \E i \in 1 .. Len(text) : text[i] = "n"
  <1> DEFINE B == {i \in 1 .. Len(text) : text[i] # "w"}
  <1>1. Len(text) \in Nat BY TextIs
  <1>2. Len(<<>>) = 0 /\ Len(<<"n">>) = 1 /\ <<"n">>[1] = "n" OBVIOUS
  <1>3. ~Blank(text) /\ Trimmed(text) = SubSeq(text, FirstBlack(text), Max(B))
    BY <1>2 DEF Trimmed
  <1>4. B # {} /\ B \in SUBSET Nat /\ \A j \in B : j <= Len(text) BY <1>1, <1>3 DEF Blank
  <1>5. PICK b \in Nat : b = Max(B) /\ b <= Len(text)
    <2>1. Max(B) \in B /\ Max(B) \in Nat BY <1>1, <1>4, MaxIs
    <2> QED BY <1>4, <2>1
  <1>6. PICK a \in Nat : a = FirstBlack(text) /\ a >= 1
    <2>1. FirstBlack(text) \in 1 .. Len(text) + 1 BY FirstBlackIs
    <2> QED BY <1>1, <2>1
  <1> HIDE DEF B
  <1>7. /\ Len(SubSeq(text, a, b)) = IF a <= b THEN b - a + 1 ELSE 0
        /\ \A i \in 1 .. b - a + 1 : SubSeq(text, a, b)[i] = text[a + i - 1]
    <2>1. b \in Int /\ a \in Nat /\ a >= 1 /\ b <= Len(text) BY <1>5, <1>6
    <2>2. Len(SubSeq(text, a, b)) = IF a <= b THEN b - a + 1 ELSE 0 BY <2>1, SubIs
    <2>3. \A i \in 1 .. b - a + 1 : SubSeq(text, a, b)[i] = text[a + i - 1] BY <2>1, SubIs
    <2> QED BY <2>2, <2>3
  <1>8. SubSeq(text, a, b) = <<"n">> BY <1>3, <1>5, <1>6
  <1>9. a <= b /\ b - a + 1 = 1
    <2>1. (IF a <= b THEN b - a + 1 ELSE 0) = 1 BY <1>2, <1>7, <1>8
    <2>2. a <= b BY <1>5, <1>6, <2>1
    <2> QED BY <2>1, <2>2
  <1>10. 1 \in 1 .. b - a + 1 /\ a + 1 - 1 = a /\ a \in 1 .. Len(text)
    <2>1. 1 \in 1 .. b - a + 1 BY <1>9
    <2>2. a + 1 - 1 = a BY <1>6
    <2>3. a \in 1 .. Len(text) BY <1>1, <1>5, <1>6, <1>9
    <2> QED BY <2>1, <2>2, <2>3
  <1>11. text[a] = "n"
    <2>1. SubSeq(text, a, b)[1] = text[a + 1 - 1] BY <1>7, <1>10
    <2> QED BY <1>2, <1>8, <1>10, <2>1
  <1> QED BY <1>10, <1>11

\* Half a character is no part of a stop sequence.
LEMMA NoStopAdded ==
    ASSUME NEW raw \in Text, At(raw, Stop) = {}, NEW rest \in Text,
           \A i \in 1 .. Len(rest) : rest[i] \in {"?", "u1"}
    PROVE  At(raw \o rest, Stop) = {}
  <1>1. PICK r \in Nat, n \in Nat : r = Len(raw) /\ n = Len(rest) BY TextIs
  <1>2. /\ raw \o rest \in Text /\ Len(raw \o rest) = r + n
        /\ (\A i \in 1 .. r : (raw \o rest)[i] = raw[i])
        /\ \A i \in 1 .. n : (raw \o rest)[r + i] = rest[i]
    BY <1>1, CatIs
  <1>3. PICK more \in Text : more = raw \o rest BY <1>2
  <1>4. ASSUME NEW p \in At(more, Stop) PROVE FALSE
    <2>1. /\ p \in 1 .. Len(more) - 2
          /\ more[p] = "s1" /\ more[p + 1] = "s2" /\ more[p + 2] = "s3"
      BY StopAt
    <2>2. p \in Nat /\ p >= 1 /\ p + 2 <= r + n BY <1>1, <1>2, <1>3, <2>1
    <2>3. CASE p + 2 <= r
      <3>1. /\ p \in 1 .. Len(raw) - 2 /\ p \in 1 .. r /\ p + 1 \in 1 .. r /\ p + 2 \in 1 .. r
        BY <1>1, <2>2, <2>3
      <3>2. raw[p] = "s1" /\ raw[p + 1] = "s2" /\ raw[p + 2] = "s3" BY <1>2, <1>3, <2>1, <3>1
      <3>3. p \in At(raw, Stop) BY <3>1, <3>2, StopAt
      <3> QED BY <3>3
    <2>4. CASE ~(p + 2 <= r)
      <3>1. PICK y \in 1 .. n : r + y = p + 2
        <4>1. p + 2 - r \in 1 .. n /\ r + (p + 2 - r) = p + 2 BY <1>1, <2>2, <2>4
        <4> QED BY <4>1
      <3>2. more[p + 2] = rest[y] BY <1>2, <1>3, <3>1
      <3>3. rest[y] \in {"?", "u1"} BY <1>1
      <3> QED BY <2>1, <3>2, <3>3
    <2> QED BY <2>3, <2>4
  <1> QED BY <1>3, <1>4

\* What follows keeps what has been settled, when it says nothing or is not behind
\* a stop sequence.
LEMMA SettledSame ==
    ASSUME NEW r, NEW e, Settled(r, e), NEW s \in Em, Same(s, e),
           KeptLength(s) = KeptLength(e) \/ ~e.stopHit
    PROVE  Settled(r, s)
  <1>1. Ahead(e) /\ KeptLength(s) = KeptLength(e) => Ahead(s) BY DEF Ahead, Same
  <1>2. StopKept(r, s) BY <1>1 DEF Settled, StopKept, Same
  <1> QED BY <1>2 DEF Settled, Same

\* What the window still holds goes out, or to the tool buffer.
LEMMA FlushedIs ==
    ASSUME Asked(req), NEW e, Running(req, e)
    PROVE  LET f == Flushed(e)
           IN  Settled(req, f) /\ Told(req.format, f) /\ f.pieces = e.pieces
  <1>1. Typed(e) /\ e \in Em /\ Plainly(e) /\ Told(req.format, e) /\ Watched(req, e)
    BY DEF Running, Typed
  <1>2. /\ e.window \in Text /\ e.raw \in Text /\ e.toolBuffer \in Text /\ e.tail \in Text
        /\ e.stopHit \in BOOLEAN /\ e.mode \in Modes
    BY <1>1, EmTexts
  <1>3. Unwrapped(e.window) /\ Unwrapped(e.tail) /\ Unwrapped(e.toolBuffer) /\ e.calls = {}
    BY <1>1 DEF Plainly
  <1>4. PICK rest \in Text : /\ rest = Sanitized(e.tail) /\ Unwrapped(rest)
                             /\ \A i \in 1 .. Len(rest) : rest[i] \in {"?", "u1"}
                             /\ e.tail = <<>> => rest = <<>>
    <2>1. PICK tail \in Text : tail = e.tail /\ Unwrapped(tail) BY <1>2, <1>3
    <2>2. /\ Sanitized(tail) \in Text /\ Len(Sanitized(tail)) = Len(tail)
          /\ Unwrapped(Sanitized(tail)) /\ Sanitized(<<>>) = <<>>
          /\ \A i \in 1 .. Len(tail) : Sanitized(tail)[i] \in {"?", tail[i]}
      BY <2>1, SanitizedIs
    <2>3. \A i \in 1 .. Len(tail) : tail[i] = "u1"
      <3>1. tail = <<>> \/ tail = <<"u1">> BY <1>1, <2>1 DEF Plainly
      <3>2. CASE tail = <<>>
        <4>1. Len(tail) = 0 /\ 1 .. 0 = {} BY <3>2
        <4> QED BY <4>1
      <3>3. CASE tail = <<"u1">>
        <4>1. Len(tail) = 1 /\ 1 .. 1 = {1} /\ tail[1] = "u1" BY <3>3
        <4> QED BY <4>1
      <3> QED BY <3>1, <3>2, <3>3
    <2>4. \A i \in 1 .. Len(Sanitized(tail)) : Sanitized(tail)[i] \in {"?", "u1"} BY <2>2, <2>3
    <2> QED BY <2>1, <2>2, <2>4
  <1>5. PICK raw \in Text : raw = e.raw \o rest BY <1>2, CatIs
  <1>6. PICK text \in Text : text = e.window \o rest /\ Unwrapped(text)
    <2>1. e.window \o rest \in Text BY <1>2, CatIs
    <2>2. Unwrapped(e.window \o rest) BY <1>2, <1>3, <1>4, UnwrappedCat
    <2> QED BY <2>1, <2>2
  <1> DEFINE all == [e EXCEPT !.tail = <<>>, !.raw = raw, !.window = <<>>]
  <1>7. <<>> \in Text /\ Len(<<>>) = 0 /\ <<"z">> \in Text
    <2>1. "z" \in Symbol BY DEF Symbol
    <2> QED BY <2>1, CatIs, <1>2 DEF Text
  <1>8. Flushed(e) = CASE e.mode = "REASONING" -> Think(all, text)
                       [] e.mode = "CONTENT" ->
                             IF ZeroArgCall([e EXCEPT !.window = text])
                             THEN [all EXCEPT !.toolBuffer = <<"z">>, !.mode = "TOOL_BUFFER"]
                             ELSE Say(all, text)
                       [] e.mode = "TOOL_BUFFER" -> [all EXCEPT !.toolBuffer = @ \o text]
    BY <1>4, <1>5, <1>6 DEF Flushed
  <1>9. all \in Em BY <1>1, <1>7 DEF Em
  <1>10. /\ all.mode = e.mode /\ all.window = <<>> /\ all.tail = <<>>
         /\ all.toolBuffer = e.toolBuffer /\ all.raw = raw /\ all.calls = e.calls
         /\ all.firstContent = e.firstContent /\ all.count = e.count /\ all.pieces = e.pieces
         /\ all.stopHit = e.stopHit
    BY <1>1 DEF Em
  <1>11. /\ all.sent = e.sent /\ all.content = e.content /\ all.reasoning = e.reasoning
         /\ all.kind = e.kind /\ all.block = e.block /\ all.outputIndex = e.outputIndex
         /\ all.reasoningOpen = e.reasoningOpen /\ all.messageOpen = e.messageOpen
    BY <1>1 DEF Em
  <1> HIDE DEF all
  <1>12. Told(req.format, all) BY <1>1, <1>10, <1>11 DEF Told, Turned
  <1>13. WrappedAlone(e.toolBuffer) BY <1>3 DEF WrappedAlone, Unwrapped
  <1>14. StopKept(req, all)
    <2>1. ASSUME e.stopHit, TailOf(Last(e.pieces)) = <<>> PROVE Ahead(all)
      <3>1. Ahead(e) /\ e.tail = <<>> BY <1>1, <2>1 DEF Watched
      <3>2. raw = e.raw
        <4>1. e.raw \o <<>> = e.raw BY <1>2, CatIs
        <4> QED BY <1>4, <1>5, <3>1, <4>1
      <3>3. KeptLength(all) = KeptLength(e) BY <1>11 DEF KeptLength
      <3> QED BY <1>10, <3>1, <3>2, <3>3 DEF Ahead
    <2>2. ASSUME req.vocabulary.stop, e.mode # "TOOL_BUFFER", ~e.stopHit PROVE At(raw, Stop) = {}
      <3>1. At(e.raw, Stop) = {} BY <1>1, <2>2 DEF Watched, Watching
      <3> QED BY <1>2, <1>4, <1>5, <3>1, NoStopAdded
    <2>3. e.stopHit => req.vocabulary.stop /\ e.mode # "TOOL_BUFFER" /\ e.pieces # <<>>
      BY <1>1 DEF Watched
    <2> QED BY <1>10, <2>1, <2>2, <2>3 DEF StopKept
  <1>15. Settled(req, all)
    <2>1. /\ all.mode # "TOOL_BUFFER" => all.toolBuffer = <<>>
          /\ all.firstContent \in -1 .. all.count /\ all.count = Len(all.pieces)
      BY <1>1, <1>10 DEF Typed
    <2>2. all.calls = {} /\ WrappedAlone(all.toolBuffer) BY <1>3, <1>10, <1>13
    <2> QED BY <1>9, <1>10, <1>14, <2>1, <2>2 DEF Settled
  <1>16. ASSUME e.stopHit PROVE text = rest
    <2>1. e.window = <<>> BY <1>1, <1>16 DEF Watched
    <2>2. <<>> \o rest = rest BY CatIs
    <2> QED BY <1>6, <2>1, <2>2
  <1>17. ASSUME NEW s, Voiced(req, s, all, text)
         PROVE  Settled(req, s) /\ Told(req.format, s) /\ s.pieces = e.pieces
    <2>1. s \in Em /\ Same(s, all) /\ Told(req.format, s)
          /\ KeptLength(s) = KeptLength(all) + Len(text)
      BY <1>17 DEF Voiced
    <2>2. ASSUME e.stopHit, TailOf(Last(e.pieces)) = <<>>
          PROVE  KeptLength(s) = KeptLength(all)
      <3>1. e.tail = <<>> BY <1>1, <2>2 DEF Watched
      <3>2. Len(text) = 0 BY <1>4, <1>7, <1>16, <2>2, <3>1
      <3>3. PICK k \in Nat : k = KeptLength(all) BY <1>9, KeptIs
      <3> QED BY <2>1, <3>2, <3>3
    <2>3. StopKept(req, s)
      <3>1. ASSUME s.stopHit, TailOf(Last(s.pieces)) = <<>> PROVE Ahead(s)
        <4>1. e.stopHit /\ TailOf(Last(e.pieces)) = <<>> BY <1>10, <2>1, <3>1 DEF Same
        <4>2. Ahead(all) BY <1>10, <1>14, <4>1 DEF StopKept
        <4> QED BY <2>1, <2>2, <4>1, <4>2 DEF Ahead, Same
      <3> QED BY <1>14, <2>1, <3>1 DEF StopKept, Same
    <2>4. Settled(req, s) BY <1>15, <2>1, <2>3 DEF Settled, Same
    <2> QED BY <1>10, <2>1, <2>4 DEF Same
  <1>18. CASE e.mode = "REASONING"
    <2>1. Voiced(req, Think(all, text), all, text) BY <1>9, <1>12, SpeakIs
    <2>2. PICK s : s = Think(all, text) OBVIOUS
    <2>3. Flushed(e) = s BY <1>8, <1>18, <2>2
    <2> QED BY <1>17, <2>1, <2>2, <2>3
  <1>19. CASE e.mode = "CONTENT" /\ ~ZeroArgCall([e EXCEPT !.window = text])
    <2>1. Voiced(req, Say(all, text), all, text) BY <1>9, <1>12, SpeakIs
    <2>2. PICK s : s = Say(all, text) OBVIOUS
    <2>3. Flushed(e) = s BY <1>8, <1>19, <2>2
    <2> QED BY <1>17, <2>1, <2>2, <2>3
  <1>20. ASSUME NEW buffer \in Text, WrappedAlone(buffer), ~e.stopHit,
                Flushed(e) = [all EXCEPT !.toolBuffer = buffer, !.mode = "TOOL_BUFFER"]
         PROVE  Settled(req, Flushed(e)) /\ Told(req.format, Flushed(e))
                /\ Flushed(e).pieces = e.pieces
    <2> DEFINE f == [all EXCEPT !.toolBuffer = buffer, !.mode = "TOOL_BUFFER"]
    <2>1. "TOOL_BUFFER" \in Modes BY DEF Modes
    <2>2. f \in Em BY <1>9, <2>1 DEF Em
    <2>3. /\ f.mode = "TOOL_BUFFER" /\ f.window = <<>> /\ f.tail = <<>>
          /\ f.toolBuffer = buffer /\ f.raw = raw /\ f.calls = all.calls
          /\ f.firstContent = all.firstContent /\ f.count = all.count /\ f.pieces = e.pieces
          /\ f.stopHit = e.stopHit
      BY <1>9, <1>10 DEF Em
    <2>4. /\ f.sent = all.sent /\ f.content = all.content /\ f.reasoning = all.reasoning
          /\ f.kind = all.kind /\ f.block = all.block /\ f.outputIndex = all.outputIndex
          /\ f.reasoningOpen = all.reasoningOpen /\ f.messageOpen = all.messageOpen
      BY <1>9 DEF Em
    <2> HIDE DEF f
    <2>5. Told(req.format, f) BY <1>10, <1>12, <2>3, <2>4 DEF Told, Turned
    <2>6. StopKept(req, f) BY <1>20, <2>3 DEF StopKept
    <2>7. f.calls = {} BY <1>3, <1>10, <2>3
    <2>8. f.firstContent \in -1 .. f.count /\ f.count = Len(f.pieces)
      BY <1>10, <1>15, <2>3 DEF Settled
    <2>9. Settled(req, f) BY <1>20, <2>2, <2>3, <2>6, <2>7, <2>8 DEF Settled
    <2> QED BY <1>20, <2>3, <2>5, <2>9 DEF f
  <1>21. CASE e.mode = "CONTENT" /\ ZeroArgCall([e EXCEPT !.window = text])
    <2>1. ~e.stopHit
      <3>1. ASSUME e.stopHit PROVE FALSE
        <4>1. PICK d \in Em : d = [e EXCEPT !.window = text] BY <1>1 DEF Em
        <4>2. d.window = text BY <1>1, <4>1 DEF Em
        <4>3. Trimmed(text) = <<"n">> BY <1>21, <4>1, <4>2 DEF ZeroArgCall
        <4>4. \E i \in 1 .. Len(text) : text[i] = "n" BY <4>3, TrimmedName
        <4> QED BY <1>4, <1>16, <3>1, <4>4
      <3> QED BY <3>1
    <2>2. WrappedAlone(<<"z">>)
      <3>1. Len(<<"z">>) = 1 OBVIOUS
      <3> QED BY <3>1 DEF WrappedAlone
    <2>3. Flushed(e) = [all EXCEPT !.toolBuffer = <<"z">>, !.mode = "TOOL_BUFFER"] BY <1>8, <1>21
    <2> QED BY <1>7, <1>20, <2>1, <2>2, <2>3
  <1>22. CASE e.mode = "TOOL_BUFFER"
    <2>1. PICK buffer \in Text : buffer = e.toolBuffer \o text /\ Unwrapped(buffer)
      <3>1. e.toolBuffer \o text \in Text BY <1>2, CatIs
      <3>2. Unwrapped(e.toolBuffer \o text) BY <1>2, <1>3, <1>6, UnwrappedCat
      <3> QED BY <3>1, <3>2
    <2>2. ~e.stopHit BY <1>1, <1>22 DEF Watched
    <2>3. WrappedAlone(buffer) BY <2>1 DEF WrappedAlone, Unwrapped
    <2>4. Flushed(e) = [all EXCEPT !.toolBuffer = buffer] BY <1>8, <1>10, <1>22, <2>1
    <2>5. [all EXCEPT !.toolBuffer = buffer]
             = [all EXCEPT !.toolBuffer = buffer, !.mode = "TOOL_BUFFER"]
      BY <1>9, <1>10, <1>22 DEF Em
    <2> QED BY <1>20, <2>2, <2>3, <2>4, <2>5
  <1> QED BY <1>2, <1>18, <1>19, <1>21, <1>22 DEF Modes

-----------------------------------------------------------------------------
(* The events of calls *)

\* Every event comes behind those in front of it.
LEMMA PrefixIs ==
    ASSUME NEW ev \in Seq(Events)
    PROVE  /\ SubSeq(ev, 1, 0) = <<>> /\ SubSeq(ev, 1, Len(ev)) = ev /\ Len(ev) \in Nat
           /\ \A n \in 1 .. Len(ev) :
                 /\ SubSeq(ev, 1, n - 1) \in Seq(Events) /\ ev[n] \in Events
                 /\ SubSeq(ev, 1, n) = Append(SubSeq(ev, 1, n - 1), ev[n])
  <1>1. Len(ev) \in Nat /\ \A n \in 1 .. Len(ev) : ev[n] \in Events OBVIOUS
  <1>2. SubSeq(ev, 1, 0) = <<>> OBVIOUS
  <1>3. SubSeq(ev, 1, Len(ev)) = ev OBVIOUS
  <1>4. ASSUME NEW n \in 1 .. Len(ev)
        PROVE  /\ SubSeq(ev, 1, n - 1) \in Seq(Events)
               /\ SubSeq(ev, 1, n) = Append(SubSeq(ev, 1, n - 1), ev[n])
    OBVIOUS
  <1> QED BY <1>1, <1>2, <1>3, <1>4

\* An item of Responses is in turn when it is announced and said; no other event is
\* asked anything, and nothing of another kind is said.
LEMMA EndingAppend ==
    ASSUME NEW s \in Seq(Events), NEW v \in Events, v.type \notin {"open", "delta"}
    PROVE  /\ Append(s, v) \in Seq(Events)
           /\ \A kind : Added(Append(s, v), kind) = Added(s, kind)
           /\ (FirstThought(s) => ItemTurns(s)) =>
                 (FirstThought(Append(s, v)) => ItemTurns(Append(s, v)))
  <1>1. Append(s, v) \in Seq(Events) BY AppendEvent
  <1>2. \A kind : Added(Append(s, v), kind) = Added(s, kind) BY QuietEvent
  <1>3. FirstThought(Append(s, v)) => FirstThought(s) BY FirstThoughtBefore
  <1>4. ItemTurns(s) => ItemTurns(Append(s, v)) BY TurnsAppend
  <1> QED BY <1>1, <1>2, <1>3, <1>4

\* So do the last events of an answer.
LEMMA EndingCat ==
    ASSUME NEW s \in Seq(Events), NEW ev \in Seq(Events),
           \A i \in 1 .. Len(ev) : ev[i].type \notin {"open", "delta"}
    PROVE  /\ s \o ev \in Seq(Events)
           /\ \A kind : Added(s \o ev, kind) = Added(s, kind)
           /\ (FirstThought(s) => ItemTurns(s)) =>
                 (FirstThought(s \o ev) => ItemTurns(s \o ev))
  <1> DEFINE P(n) == LET a == s \o SubSeq(ev, 1, n)
                     IN  /\ a \in Seq(Events)
                         /\ \A kind : Added(a, kind) = Added(s, kind)
                         /\ (FirstThought(s) => ItemTurns(s)) => (FirstThought(a) => ItemTurns(a))
             bad == {n \in 0 .. Len(ev) : ~P(n)}
  <1>1. Len(ev) \in Nat /\ SubSeq(ev, 1, 0) = <<>> /\ SubSeq(ev, 1, Len(ev)) = ev BY PrefixIs
  <1>2. s \o <<>> = s BY CatEvents
  <1>3. P(0) BY <1>1, <1>2
  <1>4. ASSUME NEW n \in 1 .. Len(ev), P(n - 1) PROVE P(n)
    <2>1. PICK p \in Seq(Events) : p = SubSeq(ev, 1, n - 1) /\ SubSeq(ev, 1, n) = Append(p, ev[n])
      BY PrefixIs
    <2>2. ev[n] \in Events /\ ev[n].type \notin {"open", "delta"} BY PrefixIs
    <2>3. s \o Append(p, ev[n]) = Append(s \o p, ev[n]) BY <2>1, <2>2, CatEvents
    <2>4. PICK a \in Seq(Events) : a = s \o p BY <2>1, CatEvents
    <2>5. /\ \A kind : Added(a, kind) = Added(s, kind)
          /\ (FirstThought(s) => ItemTurns(s)) => (FirstThought(a) => ItemTurns(a))
      BY <1>4, <2>1, <2>4
    <2>6. /\ Append(a, ev[n]) \in Seq(Events)
          /\ \A kind : Added(Append(a, ev[n]), kind) = Added(a, kind)
          /\ (FirstThought(a) => ItemTurns(a)) =>
                (FirstThought(Append(a, ev[n])) => ItemTurns(Append(a, ev[n])))
      BY <2>2, EndingAppend
    <2>7. s \o SubSeq(ev, 1, n) = Append(a, ev[n]) BY <2>1, <2>3, <2>4
    <2> QED BY <2>5, <2>6, <2>7
  <1> HIDE DEF P
  <1>5. bad = {}
    <2>1. SUFFICES ASSUME bad # {} PROVE FALSE OBVIOUS
    <2>2. bad \in SUBSET Nat BY <1>1
    <2>3. PICK k \in bad : \A j \in bad : k <= j BY <2>1, <2>2, LeastNumber
    <2>4. k # 0 BY <1>3
    <2>5. k \in 1 .. Len(ev) /\ k - 1 \in 0 .. Len(ev) /\ ~(k <= k - 1) BY <1>1, <2>3, <2>4
    <2>6. P(k - 1) BY <2>3, <2>5
    <2>7. P(k) BY <1>4, <2>5, <2>6
    <2> QED BY <2>3, <2>7
  <1>6. P(Len(ev))
    <2>1. Len(ev) \in 0 .. Len(ev) BY <1>1
    <2> QED BY <1>5, <2>1
  <1> QED BY <1>1, <1>6 DEF P

\* Every block below this number has been opened and closed.
ClosedTo(s, hit, block) ==
    /\ BlockTurns(s, hit)
    /\ Named(s, "open", Len(s)) = Below(block) /\ Named(s, "close", Len(s)) = Below(block)

\* A call is a block of its own.
LEMMA CallAppend ==
    ASSUME NEW s \in Seq(Events), NEW hit \in BOOLEAN, NEW block \in Nat,
           ClosedTo(s, hit, block),
           NEW u \in Events, u.type = "open", u.kind = "tool", u.index = block, u.text = <<>>,
           NEW v \in Events, v.type = "delta", v.kind = "tool", v.index = block,
           NEW w \in Events, w.type = "close", w.kind = "tool", w.index = block
    PROVE  LET a == Append(Append(Append(s, u), v), w)
           IN  /\ a \in Seq(Events) /\ ClosedTo(a, hit, block + 1)
               /\ \A kind \in {"text", "thinking"} : Added(a, kind) = Added(s, kind)
  <1> DEFINE b == Append(s, u)
             c == Append(b, v)
             a == Append(c, w)
  <1>1. b \in Seq(Events) BY AppendEvent
  <1>2. BlocksTo(b, hit, "tool", block) BY BlockOpened DEF ClosedTo
  <1>3. ASSUME NEW kind \in {"text", "thinking"} PROVE Added(b, kind) = Added(s, kind) BY QuietEvent
  <1> HIDE DEF b
  <1>4. c \in Seq(Events) BY <1>1, AppendEvent
  <1>5. BlocksTo(c, hit, "tool", block) BY <1>1, <1>2, BlockDelta
  <1>6. ASSUME NEW kind \in {"text", "thinking"} PROVE Added(c, kind) = Added(b, kind)
    BY <1>1, AddedAppend
  <1> HIDE DEF c
  <1>7. a \in Seq(Events) BY <1>4, AppendEvent
  <1>8. ClosedTo(a, hit, block + 1) BY <1>4, <1>5, BlockClosed DEF ClosedTo
  <1>9. ASSUME NEW kind \in {"text", "thinking"} PROVE Added(a, kind) = Added(c, kind)
    BY <1>4, QuietEvent
  <1>10. \A kind \in {"text", "thinking"} : Added(a, kind) = Added(s, kind) BY <1>3, <1>6, <1>9
  <1> QED BY <1>7, <1>8, <1>10 DEF a, b, c

\* The events of n calls, each a block.
CallBlocks(block, n) ==
    [i \in 1 .. 3 * n |-> Event(CallEvents[((i - 1) % 3) + 1], "tool", block + ((i - 1) \div 3), <<>>)]

\* Three at a time.
LEMMA Thirds ==
    ASSUME NEW n \in Nat
    PROVE  /\ (3 * n) % 3 = 0 /\ (3 * n + 1) % 3 = 1 /\ (3 * n + 2) % 3 = 2
           /\ (3 * n) \div 3 = n /\ (3 * n + 1) \div 3 = n /\ (3 * n + 2) \div 3 = n
  OBVIOUS

\* They are three events for each call.
LEMMA CallBlocksType ==
    ASSUME NEW block \in Nat, NEW n \in Nat
    PROVE  CallBlocks(block, n) \in Seq(Events) /\ Len(CallBlocks(block, n)) = 3 * n
  <1> DEFINE ev == CallBlocks(block, n)
  <1>1. PICK k \in Nat : k = 3 * n OBVIOUS
  <1>2. ASSUME NEW i \in 1 .. k
        PROVE  Event(CallEvents[((i - 1) % 3) + 1], "tool", block + ((i - 1) \div 3), <<>>) \in Events
    <2>1. (i - 1) % 3 \in {0, 1, 2} /\ (i - 1) \div 3 \in Nat BY <1>1
    <2>2. CallEvents[((i - 1) % 3) + 1] \in {"open", "delta", "close"}
      <3>1. PICK x \in {1, 2, 3} : x = ((i - 1) % 3) + 1 BY <2>1
      <3> QED BY <3>1 DEF CallEvents
    <2>3. block + ((i - 1) \div 3) \in Nat BY <2>1
    <2>4. <<>> \in Text BY EmptySeq DEF Text
    <2> QED BY <2>2, <2>3, <2>4 DEF Event, Events
  <1>3. ev = [i \in 1 .. k |-> Event(CallEvents[((i - 1) % 3) + 1], "tool", block + ((i - 1) \div 3), <<>>)]
    BY <1>1 DEF CallBlocks
  <1> HIDE DEF ev
  <1>4. ev \in Seq(Events) /\ Len(ev) = k BY <1>1, <1>2, <1>3
  <1> QED BY <1>1, <1>4 DEF ev

\* One call more.
LEMMA CallBlocksMore ==
    ASSUME NEW block \in Nat, NEW n \in Nat
    PROVE  CallBlocks(block, n + 1) =
              Append(Append(Append(CallBlocks(block, n), Event("open", "tool", block + n, <<>>)),
                            Event("delta", "tool", block + n, <<>>)),
                     Event("close", "tool", block + n, <<>>))
  <1> DEFINE u == Event("open", "tool", block + n, <<>>)
             v == Event("delta", "tool", block + n, <<>>)
             w == Event("close", "tool", block + n, <<>>)
  <1>1. PICK k \in Nat : k = 3 * n OBVIOUS
  <1>2. PICK m \in Nat : m = n + 1 /\ 3 * m = k + 3 BY <1>1
  <1> DEFINE E(i) == Event(CallEvents[((i - 1) % 3) + 1], "tool", block + ((i - 1) \div 3), <<>>)
  <1>3. CallBlocks(block, m) = [i \in 1 .. k + 3 |-> E(i)] BY <1>2 DEF CallBlocks
  <1>4. CallBlocks(block, n) = [i \in 1 .. k |-> E(i)] BY <1>1 DEF CallBlocks
  <1>5. E(k + 1) = u /\ E(k + 2) = v /\ E(k + 3) = w
    <2>1. (k + 1) - 1 = k /\ (k + 2) - 1 = k + 1 /\ (k + 3) - 1 = k + 2 OBVIOUS
    <2>2. /\ k % 3 = 0 /\ (k + 1) % 3 = 1 /\ (k + 2) % 3 = 2
          /\ k \div 3 = n /\ (k + 1) \div 3 = n /\ (k + 2) \div 3 = n
      BY <1>1, Thirds
    <2>3. CallEvents[0 + 1] = "open" /\ CallEvents[1 + 1] = "delta" /\ CallEvents[2 + 1] = "close"
      BY DEF CallEvents
    <2> QED BY <2>1, <2>2, <2>3
  <1> HIDE DEF E, u, v, w
  <1>6. PICK f : f = [i \in 1 .. k |-> E(i)] OBVIOUS
  <1>7. [i \in 1 .. k + 3 |-> E(i)] = Append(Append(Append(f, u), v), w)
    BY <1>5, <1>6
  <1>8. CallBlocks(block, n + 1) = Append(Append(Append(CallBlocks(block, n), u), v), w)
    BY <1>2, <1>3, <1>4, <1>6, <1>7
  <1> QED BY <1>8 DEF u, v, w

\* However many calls there are, their blocks are in turn and say nothing.
LEMMA CallsCat ==
    ASSUME NEW s \in Seq(Events), NEW hit \in BOOLEAN, NEW block \in Nat, NEW count \in Nat,
           ClosedTo(s, hit, block)
    PROVE  LET a == s \o CallBlocks(block, count)
           IN  /\ a \in Seq(Events) /\ ClosedTo(a, hit, block + count)
               /\ \A kind \in {"text", "thinking"} : Added(a, kind) = Added(s, kind)
  <1> DEFINE P(n) == LET a == s \o CallBlocks(block, n)
                     IN  /\ a \in Seq(Events) /\ ClosedTo(a, hit, block + n)
                         /\ \A kind \in {"text", "thinking"} : Added(a, kind) = Added(s, kind)
             bad == {n \in 0 .. count : ~P(n)}
  <1>1. P(0)
    <2>1. CallBlocks(block, 0) \in Seq(Events) /\ Len(CallBlocks(block, 0)) = 0
      <3>1. PICK z \in Nat : z = 0 OBVIOUS
      <3>2. CallBlocks(block, z) \in Seq(Events) /\ Len(CallBlocks(block, z)) = 3 * z
        BY CallBlocksType
      <3>3. 3 * z = 0 BY <3>1
      <3> QED BY <3>1, <3>2, <3>3
    <2>2. CallBlocks(block, 0) = <<>> BY <2>1
    <2>3. s \o <<>> = s BY CatEvents, <2>1
    <2>4. block + 0 = block OBVIOUS
    <2> QED BY <2>2, <2>3, <2>4
  <1>2. ASSUME NEW n \in 0 .. count - 1, P(n) PROVE P(n + 1)
    <2>1. PICK b \in Nat : b = block + n /\ b + 1 = block + (n + 1) OBVIOUS
    <2>2. PICK p \in Seq(Events) : p = CallBlocks(block, n) BY CallBlocksType
    <2>3. PICK a \in Seq(Events) : a = s \o p BY <2>2, CatEvents
    <2>4. ClosedTo(a, hit, b) /\ \A kind \in {"text", "thinking"} : Added(a, kind) = Added(s, kind)
      BY <1>2, <2>1, <2>2, <2>3
    <2>5. <<>> \in Text BY EmptySeq DEF Text
    <2>6. PICK u : u = Event("open", "tool", b, <<>>) OBVIOUS
    <2>7. PICK v : v = Event("delta", "tool", b, <<>>) OBVIOUS
    <2>8. PICK w : w = Event("close", "tool", b, <<>>) OBVIOUS
    <2>6a. u \in Events /\ u.type = "open" /\ u.kind = "tool" /\ u.index = b /\ u.text = <<>>
      BY <2>5, <2>6 DEF Event, Events
    <2>7a. v \in Events /\ v.type = "delta" /\ v.kind = "tool" /\ v.index = b
      BY <2>5, <2>7 DEF Event, Events
    <2>8a. w \in Events /\ w.type = "close" /\ w.kind = "tool" /\ w.index = b
      BY <2>5, <2>8 DEF Event, Events
    <2>9. CallBlocks(block, n + 1) = Append(Append(Append(p, u), v), w)
      <3>1. n \in Nat OBVIOUS
      <3>2. CallBlocks(block, n + 1) =
               Append(Append(Append(CallBlocks(block, n), Event("open", "tool", block + n, <<>>)),
                             Event("delta", "tool", block + n, <<>>)),
                      Event("close", "tool", block + n, <<>>))
        BY <3>1, CallBlocksMore
      <3> QED BY <2>1, <2>2, <2>6, <2>7, <2>8, <3>2
    <2>10. s \o Append(Append(Append(p, u), v), w) = Append(Append(Append(a, u), v), w)
      <3>1. s \o Append(p, u) = Append(a, u) /\ Append(p, u) \in Seq(Events)
        BY <2>2, <2>3, <2>6a, CatEvents
      <3>2. PICK q \in Seq(Events) : q = Append(p, u) BY <3>1
      <3>3. s \o Append(q, v) = Append(s \o q, v) /\ Append(q, v) \in Seq(Events)
        BY <2>7a, CatEvents
      <3>4. PICK x \in Seq(Events) : x = Append(q, v) BY <3>3
      <3>5. s \o Append(x, w) = Append(s \o x, w) BY <2>8a, CatEvents
      <3> QED BY <3>1, <3>2, <3>3, <3>4, <3>5
    <2>11. /\ Append(Append(Append(a, u), v), w) \in Seq(Events)
           /\ ClosedTo(Append(Append(Append(a, u), v), w), hit, b + 1)
           /\ \A kind \in {"text", "thinking"} :
                 Added(Append(Append(Append(a, u), v), w), kind) = Added(a, kind)
      BY <2>4, <2>6a, <2>7a, <2>8a, CallAppend
    <2> QED BY <2>1, <2>4, <2>9, <2>10, <2>11
  <1> HIDE DEF P
  <1>3. bad = {}
    <2>1. SUFFICES ASSUME bad # {} PROVE FALSE OBVIOUS
    <2>2. bad \in SUBSET Nat OBVIOUS
    <2>3. PICK k \in bad : \A j \in bad : k <= j BY <2>1, <2>2, LeastNumber
    <2>4. k # 0 BY <1>1, <2>3
    <2>5. k - 1 \in 0 .. count - 1 /\ k - 1 \in 0 .. count /\ ~(k <= k - 1) /\ (k - 1) + 1 = k
      BY <2>3, <2>4
    <2>6. P(k - 1) BY <2>3, <2>5
    <2>7. P((k - 1) + 1) BY <1>2, <2>5, <2>6
    <2> QED BY <2>3, <2>5, <2>7
  <1>4. P(count) BY <1>3
  <1> QED BY <1>4 DEF P

\* Any events are sent behind those before.
LEMMA SendAll ==
    ASSUME NEW e \in Em, NEW ev \in Seq(Events)
    PROVE  LET s == Send(e, ev)
           IN  /\ s \in Em /\ Alike(s, e) /\ s.sent = e.sent \o ev
               /\ s.kind = e.kind /\ s.block = e.block /\ e.sent \in Seq(Events)
  <1> DEFINE s == Send(e, ev)
  <1>1. e.sent \in Seq(Events) BY DEF Em
  <1>2. e.sent \o ev \in Seq(Events) BY <1>1, CatEvents
  <1>3. s \in Em BY <1>2 DEF Send, Em
  <1>4. /\ s.sent = e.sent \o ev /\ s.kind = e.kind /\ s.block = e.block
        /\ s.content = e.content /\ s.reasoning = e.reasoning
    BY DEF Send, Em
  <1>5. Same(s, e) BY DEF Send, Em, Same
  <1> HIDE DEF s
  <1> QED BY <1>1, <1>3, <1>4, <1>5 DEF Alike, s

\* Events are sent one behind the other.
LEMMA SentInTurn ==
    ASSUME NEW s \in Seq(Events), NEW t \in Seq(Events), NEW u \in Seq(Events)
    PROVE  s \o (t \o u) = (s \o t) \o u
  BY SMTT(60), ConcatAssociative

\* The open block is closed, and every call has one of its own; or the calls are
\* named by an event each.
LEMMA ToolEventsIs ==
    ASSUME Asked(req), NEW e \in Em, Told(req.format, e), IsFiniteSet(e.calls)
    PROVE  LET s == ToolEvents(e)
           IN  s \in Em /\ Alike(s, e) /\ Adds(req.format, s) /\ Shut(req.format, s)
  <1> DEFINE s == ToolEvents(e)
  <1>1. PICK n \in Nat : n = Cardinality(e.calls) BY FS_CardinalityType
  <1>2. /\ e.sent \in Seq(Events) /\ e.stopHit \in BOOLEAN /\ e.block \in Nat
        /\ e.outputIndex \in Nat /\ e.kind \in {"text", "thinking", ""}
    BY DEF Em
  <1>3. <<>> \in Text BY EmptySeq DEF Text
  <1>4. CASE req.format = "anthropic"
    <2>1. BlocksTo(e.sent, e.stopHit, e.kind, e.block) BY <1>4 DEF Told, Turned
    <2>2. PICK c : c = Event("close", e.kind, e.block, <<>>) OBVIOUS
    <2>3. c \in Events /\ c.type = "close" /\ c.kind = e.kind /\ c.index = e.block
      BY <1>2, <1>3, <2>2 DEF Event, Events
    <2>4a. PICK old \in Nat : old = e.block BY <1>2
    <2>4. PICK b \in Nat : b = e.block + 1
      <3>1. old + 1 \in Nat OBVIOUS
      <3> QED BY <2>4a, <3>1
    <2>4b. PICK hit \in BOOLEAN : hit = e.stopHit BY <1>2
    <2>5. PICK closed \in Seq(Events) : closed = Append(e.sent, c) BY <1>2, <2>3, AppendEvent
    <2>6. ClosedTo(closed, hit, b)
      <3>1. PICK s0 \in Seq(Events) : s0 = e.sent BY <1>2
      <3>2. BlocksTo(s0, hit, e.kind, old) BY <2>1, <2>4a, <2>4b, <3>1
      <3>3. /\ BlockTurns(Append(s0, c), hit)
            /\ Named(Append(s0, c), "open", Len(Append(s0, c))) = Below(old + 1)
            /\ Named(Append(s0, c), "close", Len(Append(s0, c))) = Below(old + 1)
        BY <2>3, <2>4a, <3>2, BlockClosed
      <3>4. Append(s0, c) = closed /\ old + 1 = b BY <2>4, <2>4a, <2>5, <3>1
      <3> QED BY <3>3, <3>4 DEF ClosedTo
    <2>7. PICK ev \in Seq(Events) : ev = CallBlocks(b, n) BY <1>1, CallBlocksType
    <2>8. PICK a \in Seq(Events) : a = closed \o ev BY CatEvents
    <2>9. /\ ClosedTo(a, hit, b + n)
          /\ \A kind \in {"text", "thinking"} : Added(a, kind) = Added(closed, kind)
      BY <2>6, <2>7, <2>8, CallsCat
    <2>10. \A kind \in {"text", "thinking"} : Added(closed, kind) = Added(e.sent, kind)
      BY <1>2, <2>3, <2>5, QuietEvent
    <2>11. e.sent \o (<<c>> \o ev) = a
      <3>1. PICK one \in Seq(Events) : one = <<c>>
        <4>1. <<c>> \in Seq(Events) BY <2>3, Short
        <4> QED BY <4>1
      <3>0. PICK s0 \in Seq(Events) : s0 = e.sent BY <1>2
      <3>2. s0 \o (one \o ev) = (s0 \o one) \o ev
        <4>1. ev \in Seq(Events) BY <2>7
        <4> QED BY ZenonT(40), <3>0, <3>1, <4>1, SentInTurn
      <3>3. e.sent \o <<c>> = closed
        <4>1. c \in Events BY <2>3
        <4>2. s0 \o <<c>> = Append(s0, c) BY ZenonT(40), <3>0, <4>1, AppendEvent
        <4> QED BY ZenonT(40), <2>5, <3>0, <4>2
      <3> QED BY <2>8, <3>0, <3>1, <3>2, <3>3
    <2>12. s = [Send(e, <<c>> \o ev) EXCEPT !.kind = "", !.block = @ + n]
      BY <1>1, <1>4, <2>2, <2>4, <2>7 DEF ToolEvents, CallBlocks
    <2>13. s = [e EXCEPT !.sent = a, !.kind = "", !.block = e.block + n]
      BY <2>11, <2>12 DEF Send, Em
    <2>14. PICK k \in Nat : k = e.block + n
      <3>1. old + n \in Nat OBVIOUS
      <3> QED BY <2>4a, <3>1
    <2>15. s \in Em BY ZenonT(40), <2>8, <2>13, <2>14 DEF Em
    <2>16. /\ s.sent = a /\ s.kind = "" /\ s.content = e.content /\ s.reasoning = e.reasoning
           /\ s.stopHit = e.stopHit
      BY <2>13 DEF Em
    <2>17. Same(s, e) BY ZenonT(40), <2>13 DEF Em, Same
    <2> HIDE DEF s
    <2>18. Alike(s, e) BY <2>16, <2>17 DEF Alike
    <2>19. Adds(req.format, s)
      <3>1. "text" \in {"text", "thinking"} /\ "thinking" \in {"text", "thinking"} OBVIOUS
      <3>2. Added(a, "text") = Added(e.sent, "text") /\ Added(a, "thinking") = Added(e.sent, "thinking")
        BY <2>9, <2>10, <3>1
      <3> QED BY <2>16, <3>2 DEF Adds, Told
    <2>20. Shut(req.format, s)
      <3>1. BlockTurns(a, e.stopHit) /\ Open(a, Len(a)) = {} BY <2>4b, <2>9 DEF ClosedTo, Open
      <3> QED BY <1>4, <2>16, <3>1 DEF Shut
    <2> QED BY <2>15, <2>18, <2>19, <2>20 DEF s
  <1>5. CASE req.format # "anthropic"
    <2> DEFINE ev == [i \in 1 .. n |-> Event("call", "tool", IF req.format = "responses" THEN e.outputIndex ELSE i, <<>>)]
    <2>1. ASSUME NEW i \in 1 .. n PROVE ev[i] \in Events /\ ev[i].type = "call"
      <3>1. PICK x \in Nat : x = IF req.format = "responses" THEN e.outputIndex ELSE i
        <4>1. i \in Nat OBVIOUS
        <4> QED BY <1>2, <4>1
      <3>2. ev[i] = Event("call", "tool", x, <<>>) BY <3>1
      <3> QED BY <1>3, <3>2 DEF Event, Events
    <2>2. ev \in Seq(Events) /\ Len(ev) = n BY <1>1, <2>1
    <2>3. s = Send(e, ev) BY <1>1, <1>5 DEF ToolEvents
    <2> HIDE DEF ev, s
    <2>4. \A i \in 1 .. Len(ev) : ev[i].type \notin {"open", "delta"} BY <2>1, <2>2
    <2>5. /\ s \in Em /\ Alike(s, e) /\ s.sent = e.sent \o ev BY <2>2, <2>3, SendAll
    <2>6. /\ \A kind : Added(e.sent \o ev, kind) = Added(e.sent, kind)
          /\ (FirstThought(e.sent) => ItemTurns(e.sent)) =>
                 (FirstThought(e.sent \o ev) => ItemTurns(e.sent \o ev))
      BY <1>2, <2>2, <2>4, EndingCat
    <2>7. Adds(req.format, s) BY <2>5, <2>6 DEF Adds, Told, Alike, Same
    <2>8. Shut(req.format, s)
      <3>1. req.format = "responses" => (FirstThought(e.sent) => ItemTurns(e.sent))
        BY DEF Told, Turned, ItemsTo
      <3> QED BY <1>5, <2>5, <2>6, <3>1 DEF Shut
    <2> QED BY <2>5, <2>7, <2>8 DEF s
  <1> QED BY <1>4, <1>5

\* The items of a Responses answer that its end closes.
LEMMA ItemsDoneIs ==
    ASSUME NEW e \in Em, IsFiniteSet(e.calls)
    PROVE  /\ ItemsDone(e) \in Seq(Events)
           /\ \A i \in 1 .. Len(ItemsDone(e)) : ItemsDone(e)[i].type = "close"
  <1>1. PICK n \in Nat : n = Cardinality(e.calls) BY FS_CardinalityType
  <1>2. e.content \in Text /\ e.messageOpen \in BOOLEAN BY DEF Em
  <1>3. <<>> \in Text BY EmptySeq DEF Text
  <1>4. PICK base \in Nat : base = IF e.reasoning = <<>> THEN 0 ELSE 1 OBVIOUS
  <1>5. PICK v : v = Event("close", "text", base, e.content) OBVIOUS
  <1>6. v \in Events /\ v.type = "close" BY <1>2, <1>5 DEF Event, Events
  <1> DEFINE ev == [i \in 1 .. n |-> Event("close", "tool", base + i - 1, <<>>)]
  <1>7. ASSUME NEW i \in 1 .. n PROVE ev[i] \in Events /\ ev[i].type = "close"
    <2>1. base + i - 1 \in Nat OBVIOUS
    <2> QED BY <1>3, <2>1 DEF Event, Events
  <1>8. ev \in Seq(Events) /\ Len(ev) = n BY <1>1, <1>7
  <1>9. ItemsDone(e) = IF n > 0 THEN ev ELSE IF e.messageOpen THEN <<v>> ELSE <<>>
    BY <1>1, <1>4, <1>5 DEF ItemsDone
  <1> HIDE DEF ev
  <1>10. CASE n > 0 BY <1>7, <1>8, <1>9, <1>10
  <1>11. CASE ~(n > 0) /\ e.messageOpen
    <2>1. <<v>> \in Seq(Events) /\ Len(<<v>>) = 1 /\ <<v>>[1] = v /\ 1 .. 1 = {1} BY <1>6
    <2> QED BY <1>6, <1>9, <1>11, <2>1
  <1>12. CASE ~(n > 0) /\ ~e.messageOpen
    <2>1. <<>> \in Seq(Events) /\ Len(<<>>) = 0 /\ 1 .. 0 = {} OBVIOUS
    <2> QED BY <1>9, <1>12, <2>1
  <1> QED BY <1>10, <1>11, <1>12

\* An end that closes or concludes, of any format but Anthropic.
LEMMA EndingSent ==
    ASSUME NEW e \in Em, NEW f, f # "anthropic", Adds(f, e), Shut(f, e), NEW ev \in Seq(Events),
           \A i \in 1 .. Len(ev) : ev[i].type \notin {"open", "delta"}
    PROVE  LET s == Send(e, ev)
           IN  s \in Em /\ Alike(s, e) /\ Adds(f, s) /\ InTurn(f, s)
  <1> DEFINE s == Send(e, ev)
  <1>1. s \in Em /\ Alike(s, e) /\ s.sent = e.sent \o ev /\ e.sent \in Seq(Events) BY SendAll
  <1> HIDE DEF s
  <1>2. PICK before \in Seq(Events) : before = e.sent BY <1>1
  <1>3. /\ \A kind : Added(before \o ev, kind) = Added(before, kind)
        /\ (FirstThought(before) => ItemTurns(before)) =>
               (FirstThought(before \o ev) => ItemTurns(before \o ev))
    BY EndingCat
  <1>4. Adds(f, s) BY <1>1, <1>2, <1>3 DEF Adds, Alike, Same
  <1>5. InTurn(f, s) BY <1>1, <1>2, <1>3 DEF InTurn, Shut
  <1> QED BY <1>1, <1>4, <1>5 DEF s

\* Nothing is left open.
LEMMA DoneSent ==
    ASSUME NEW s \in Seq(Events), NEW hit \in BOOLEAN, BlockTurns(s, hit), Open(s, Len(s)) = {},
           NEW v \in Events, v.type = "done"
    PROVE  BlockTurns(Append(s, v), hit)
  BY TurnsAppend

\* The last events.
LEMMA FinalIs ==
    ASSUME Asked(req), NEW e \in Em, Adds(req.format, e), Shut(req.format, e), IsFiniteSet(e.calls)
    PROVE  LET s == Final(e)
           IN  s \in Em /\ Alike(s, e) /\ Adds(req.format, s) /\ InTurn(req.format, s)
  <1> DEFINE s == Final(e)
  <1>1. /\ e.sent \in Seq(Events) /\ e.stopHit \in BOOLEAN /\ e.block \in Nat /\ e.content \in Text
        /\ e.kind \in {"text", "thinking", ""} /\ e.reason \in {"stop", "length", "tool_calls"}
    BY DEF Em
  <1>2. <<>> \in Text BY EmptySeq DEF Text
  <1>3. PICK v : v = Event("done", e.reason, 0, <<>>) OBVIOUS
  <1>4. v \in Events /\ v.type = "done" BY <1>1, <1>2, <1>3 DEF Event, Events
  <1>5. CASE req.format = "anthropic"
    <2>1. PICK before \in Seq(Events) : before = e.sent BY <1>1
    <2>2. PICK hit \in BOOLEAN : hit = e.stopHit BY <1>1
    <2>3. PICK ev \in Seq(Events) :
             /\ ev = IF e.kind = "" THEN <<>> ELSE <<Event("close", e.kind, e.block, <<>>)>>
             /\ BlockTurns(before \o ev, hit) /\ Open(before \o ev, Len(before \o ev)) = {}
             /\ \A kind \in {"text", "thinking"} : Added(before \o ev, kind) = Added(before, kind)
      <3>1. CASE e.kind = ""
        <4>1. BlockTurns(before, hit) /\ Open(before, Len(before)) = {}
          BY <1>5, <2>1, <2>2, <3>1 DEF Shut
        <4>2. <<>> \in Seq(Events) BY EmptySeq
        <4>3. before \o <<>> = before BY <4>2, CatEvents
        <4> QED BY <3>1, <4>1, <4>2, <4>3
      <3>2. CASE e.kind # ""
        <4>1. PICK old \in Nat : old = e.block BY <1>1
        <4>2. BlocksTo(before, hit, e.kind, old) BY <1>5, <2>1, <2>2, <3>2, <4>1 DEF Shut
        <4>3. PICK c : c = Event("close", e.kind, old, <<>>) OBVIOUS
        <4>4. c \in Events /\ c.type = "close" /\ c.kind = e.kind /\ c.index = old
          BY <1>1, <1>2, <4>1, <4>3 DEF Event, Events
        <4>5. BlockTurns(Append(before, c), hit) /\ Open(Append(before, c), Len(Append(before, c))) = {}
          BY <4>2, <4>4, BlockClosed
        <4>6. before \o <<c>> = Append(before, c) BY <4>4, AppendEvent
        <4>7. \A kind \in {"text", "thinking"} : Added(Append(before, c), kind) = Added(before, kind)
          BY <4>4, QuietEvent
        <4>8. <<c>> \in Seq(Events) BY <4>4, Short
        <4>9. <<c>> = IF e.kind = "" THEN <<>> ELSE <<Event("close", e.kind, e.block, <<>>)>>
          BY <3>2, <4>1, <4>3
        <4> QED BY <4>5, <4>6, <4>7, <4>8, <4>9
      <3> QED BY <3>1, <3>2
    <2>4. PICK closed \in Seq(Events) : closed = before \o ev BY CatEvents
    <2>5. ev \o <<v>> \in Seq(Events) /\ before \o (ev \o <<v>>) = Append(closed, v)
      <3>1. PICK one \in Seq(Events) : one = <<v>>
        <4>1. <<v>> \in Seq(Events) BY <1>4, Short
        <4> QED BY <4>1
      <3>2. before \o (ev \o one) = (before \o ev) \o one BY SentInTurn
      <3>3. ev \o one \in Seq(Events) BY CatEvents
      <3>4. closed \o <<v>> = Append(closed, v) BY <1>4, AppendEvent
      <3> QED BY <2>4, <3>1, <3>2, <3>3, <3>4
    <2>6. s = Send(e, ev \o <<v>>) BY <1>3, <1>5, <2>3 DEF Final
    <2>7. PICK more \in Seq(Events) : more = ev \o <<v>> BY <2>5
    <2> HIDE DEF s
    <2>8. s \in Em /\ Alike(s, e) /\ s.sent = e.sent \o more BY <2>6, <2>7, SendAll
    <2>9. s.sent = Append(closed, v) BY <2>1, <2>5, <2>7, <2>8
    <2>10. BlockTurns(Append(closed, v), hit) BY <1>4, <2>3, <2>4, DoneSent
    <2>11. \A kind \in {"text", "thinking"} : Added(Append(closed, v), kind) = Added(before, kind)
      <3>1. \A kind : Added(Append(closed, v), kind) = Added(closed, kind) BY <1>4, QuietEvent
      <3> QED BY <2>3, <2>4, <3>1
    <2>12. Adds(req.format, s)
      <3>1. "text" \in {"text", "thinking"} /\ "thinking" \in {"text", "thinking"} OBVIOUS
      <3>2. Added(s.sent, "text") = Added(e.sent, "text")
            /\ Added(s.sent, "thinking") = Added(e.sent, "thinking")
        BY <2>1, <2>9, <2>11, <3>1
      <3> QED BY <2>8, <3>2 DEF Adds, Alike, Same
    <2>13. InTurn(req.format, s) BY <1>5, <2>2, <2>8, <2>9, <2>10 DEF InTurn, Alike, Same
    <2> QED BY <2>8, <2>12, <2>13 DEF s
  <1>6. CASE req.format = "responses"
    <2>1. PICK ev \in Seq(Events) : /\ ev = ItemsDone(e)
                                    /\ \A i \in 1 .. Len(ev) : ev[i].type = "close"
      BY ItemsDoneIs
    <2>2. PICK w : w = Event("done", e.reason, 0, e.content) OBVIOUS
    <2>3. w \in Events /\ w.type = "done" BY <1>1, <2>2 DEF Event, Events
    <2>4. PICK more \in Seq(Events) : more = Append(ev, w) BY <2>3, AppendEvent
    <2>5. ev \o <<w>> = more BY <2>3, <2>4, AppendEvent
    <2>6. \A i \in 1 .. Len(more) : more[i].type \notin {"open", "delta"}
      <3>1. /\ Len(ev) \in Nat /\ Len(more) = Len(ev) + 1
            /\ (\A i \in 1 .. Len(ev) : more[i] = ev[i]) /\ more[Len(ev) + 1] = w
        BY <2>3, <2>4, AppendEvent
      <3>2. \A i \in 1 .. Len(more) : i \in 1 .. Len(ev) \/ i = Len(ev) + 1 BY <3>1
      <3> QED BY <2>1, <2>3, <3>1, <3>2
    <2>7. s = Send(e, more) BY <1>6, <2>1, <2>2, <2>5 DEF Final
    <2> HIDE DEF s
    <2>8. s \in Em /\ Alike(s, e) /\ Adds(req.format, s) /\ InTurn(req.format, s)
      BY <1>6, <2>6, <2>7, EndingSent
    <2> QED BY <2>8 DEF s
  <1>7. CASE req.format = "openai"
    <2>1. PICK more \in Seq(Events) : more = <<v>>
      <3>1. <<v>> \in Seq(Events) BY <1>4, Short
      <3> QED BY <3>1
    <2>2. \A i \in 1 .. Len(more) : more[i].type \notin {"open", "delta"}
      <3>1. Len(more) = 1 /\ more[1] = v /\ 1 .. 1 = {1} BY <2>1
      <3> QED BY <1>4, <3>1
    <2>3. s = Send(e, more) BY <1>3, <1>7, <2>1 DEF Final
    <2> HIDE DEF s
    <2>4. s \in Em /\ Alike(s, e) /\ Adds(req.format, s) /\ InTurn(req.format, s)
      BY <1>7, <2>2, <2>3, EndingSent
    <2> QED BY <2>4 DEF s
  <1> QED BY <1>5, <1>6, <1>7 DEF Asked, ThreeFormats

-----------------------------------------------------------------------------
(* The tool buffer, at the end *)

\* d goes on from e: settled, and the client was sent what is kept.
Still(r, d, e) ==
    /\ Settled(r, d) /\ Told(r.format, d) /\ d.pieces = e.pieces /\ d.stopHit = e.stopHit
    /\ d.calls = e.calls /\ d.mode = e.mode /\ d.toolBuffer = e.toolBuffer

\* The same, and the last block may have been closed.
Done(r, d, e) ==
    Settled(r, d) /\ Adds(r.format, d) /\ Shut(r.format, d) /\ d.pieces = e.pieces

\* The greatest of two numbers.
LEMMA MaxPair == ASSUME NEW n \in Nat PROVE Max({0, n - 1}) \in 0 .. n
  <1>1. \E x \in {0, n - 1} : \A y \in {0, n - 1} : y <= x
    <2>1. CASE n = 0 BY <2>1
    <2>2. CASE n > 0 BY <2>2
    <2> QED BY <2>1, <2>2
  <1>2. Max({0, n - 1}) \in {0, n - 1} /\ \A y \in {0, n - 1} : y <= Max({0, n - 1})
    BY <1>1 DEF Max
  <1> QED BY <1>2

\* More is said, when no stop sequence has ended the answer.
LEMMA SaidMore ==
    ASSUME Asked(req), NEW e, Settled(req, e), Told(req.format, e), ~e.stopHit, NEW text \in Text
    PROVE  Still(req, Say(e, text), e) /\ Still(req, Think(e, text), e)
  <1>1. e \in Em BY DEF Settled
  <1>2. Voiced(req, Say(e, text), e, text) /\ Voiced(req, Think(e, text), e, text)
    BY <1>1, SpeakIs
  <1>3. ASSUME NEW s, Voiced(req, s, e, text) PROVE Still(req, s, e)
    <2>1. s \in Em /\ Same(s, e) /\ Told(req.format, s) BY <1>3 DEF Voiced
    <2>2. Settled(req, s) BY <2>1, SettledSame
    <2> QED BY <2>1, <2>2 DEF Still, Same
  <1> QED BY <1>2, <1>3

\* The first token of the visible answer is counted.
LEMMA MarkedIs ==
    ASSUME NEW e, Settled(req, e), Told(req.format, e), NEW first \in -1 .. e.count
    PROVE  Still(req, [e EXCEPT !.firstContent = first], e)
  <1> DEFINE d == [e EXCEPT !.firstContent = first]
  <1>1. e \in Em /\ e.count \in Nat BY DEF Settled, Em
  <1>2. first \in Int BY <1>1
  <1>3. d \in Em BY <1>1, <1>2 DEF Em
  <1>4. /\ d.firstContent = first /\ d.mode = e.mode /\ d.window = e.window /\ d.tail = e.tail
        /\ d.toolBuffer = e.toolBuffer /\ d.raw = e.raw /\ d.calls = e.calls
        /\ d.count = e.count /\ d.pieces = e.pieces /\ d.stopHit = e.stopHit
    BY <1>1 DEF Em
  <1>5. /\ d.sent = e.sent /\ d.content = e.content /\ d.reasoning = e.reasoning
        /\ d.kind = e.kind /\ d.block = e.block /\ d.outputIndex = e.outputIndex
        /\ d.reasoningOpen = e.reasoningOpen /\ d.messageOpen = e.messageOpen
    BY <1>1 DEF Em
  <1> HIDE DEF d
  <1>6. Told(req.format, d) BY <1>4, <1>5 DEF Told, Turned
  <1>7. KeptLength(d) = KeptLength(e) BY <1>5 DEF KeptLength
  <1>8. StopKept(req, d) BY <1>4, <1>7 DEF Settled, StopKept, Ahead
  <1>9. Settled(req, d) BY <1>3, <1>4, <1>8 DEF Settled
  <1> QED BY <1>4, <1>6, <1>9 DEF Still, d

\* Text the parser left over becomes part of the answer.
LEMMA RecoveredIs ==
    ASSUME Asked(req), NEW e, Settled(req, e), Told(req.format, e), ~e.stopHit,
           NEW cleaned \in Text
    PROVE  Still(req, Recovered(e, cleaned), e)
  <1> DEFINE close == Min(At(cleaned, ThinkClose))
             content == From(cleaned, close + Len(ThinkClose))
             first == IF e.firstContent # -1 THEN e.firstContent
                      ELSE IF content = <<>> THEN e.count ELSE Max({0, e.count - 1})
             marked == [e EXCEPT !.firstContent = first]
  <1>1. Recovered(e, cleaned) =
           IF At(cleaned, ThinkClose) # {} THEN Say(Think(marked, Before(cleaned, close)), content)
           ELSE IF e.fromReasoning THEN Think(e, cleaned) ELSE Say(e, cleaned)
    BY DEF Recovered
  <1>2. first \in -1 .. e.count
    <2>1. PICK n \in Nat : n = e.count BY DEF Settled, Em
    <2>2. Max({0, n - 1}) \in 0 .. n BY MaxPair
    <2>3. PICK m \in 0 .. n : m = Max({0, e.count - 1}) BY <2>1, <2>2
    <2>4. m \in -1 .. n /\ n \in -1 .. n OBVIOUS
    <2>5. e.firstContent \in -1 .. n BY <2>1 DEF Settled
    <2>6. first \in {e.firstContent, e.count, m} BY <2>3
    <2> HIDE DEF first
    <2> QED BY <2>1, <2>4, <2>5, <2>6
  <1>3. CASE At(cleaned, ThinkClose) # {}
    <2> HIDE DEF first
    <2>1. PICK d : d = marked OBVIOUS
    <2>2. Still(req, d, e) BY <1>2, <2>1, MarkedIs
    <2> HIDE DEF marked
    <2>3. PICK i \in 1 .. Len(cleaned) - 1 : i = close
      <3>1. At(cleaned, ThinkClose) \in SUBSET Nat
            /\ \A i \in At(cleaned, ThinkClose) : i \in 1 .. Len(cleaned) - 1
        <4>1. "c1" \in Symbol /\ "c2" \in Symbol BY DEF Symbol
        <4> QED BY <4>1, AtIs DEF ThinkClose
      <3>2. Min(At(cleaned, ThinkClose)) \in At(cleaned, ThinkClose) BY <1>3, <3>1, MinIs
      <3> QED BY <3>1, <3>2
    <2>4. Len(cleaned) \in Nat BY TextIs
    <2>5. PICK front \in Text : front = Before(cleaned, close)
      <3>1. i \in 1 .. Len(cleaned) + 1 BY <2>4
      <3> QED BY <2>3, <3>1, BeforeIs
    <2>6. PICK rest \in Text : rest = content
      <3>1. Len(ThinkClose) = 2 BY DEF ThinkClose
      <3>2. i + 2 \in Nat /\ i + 2 >= 1 BY <2>4
      <3>3. From(cleaned, i + 2) \in Text BY <3>2, FromIs
      <3> QED BY <2>3, <3>1, <3>3
    <2> HIDE DEF close, content
    <2>7. PICK thought : thought = Think(d, front) OBVIOUS
    <2>8. Still(req, thought, d) BY <2>2, <2>7, SaidMore DEF Still
    <2>9. Still(req, Say(thought, rest), thought)
      <3>1. Settled(req, thought) /\ Told(req.format, thought) /\ ~thought.stopHit
        BY <2>2, <2>8 DEF Still
      <3> QED BY <3>1, SaidMore
    <2>10. Recovered(e, cleaned) = Say(thought, rest) BY <1>1, <1>3, <2>1, <2>5, <2>6, <2>7
    <2> QED BY <2>2, <2>8, <2>9, <2>10 DEF Still
  <1>4. CASE At(cleaned, ThinkClose) = {}
    <2>1. Still(req, Say(e, cleaned), e) /\ Still(req, Think(e, cleaned), e) BY SaidMore
    <2>2. Recovered(e, cleaned) \in {Say(e, cleaned), Think(e, cleaned)} BY <1>1, <1>4
    <2> QED BY <2>1, <2>2
  <1> QED BY <1>3, <1>4

\* So does text behind a call that never became one.
LEMMA SalvagedIs ==
    ASSUME Asked(req), NEW e, Settled(req, e), Told(req.format, e), ~e.stopHit
    PROVE  Still(req, Salvaged(e), e)
  <1>1. Still(req, e, e) BY DEF Still
  <1>2. PICK buffer \in Text : buffer = e.toolBuffer BY DEF Settled, Em
  <1>3. CASE ~e.fromReasoning \/ TopLevelClose(e.toolBuffer) = {} BY <1>1, <1>3 DEF Salvaged
  <1>4. CASE e.fromReasoning /\ TopLevelClose(e.toolBuffer) # {}
    <2>1. PICK text \in Text : Salvaged(e) = SaidBehind(e, text)
      <3>1. At(buffer, ThinkClose) \in SUBSET Nat
            /\ \A i \in At(buffer, ThinkClose) : i \in 1 .. Len(buffer) - 1
        <4>1. "c1" \in Symbol /\ "c2" \in Symbol BY DEF Symbol
        <4> QED BY <4>1, AtIs DEF ThinkClose
      <3>2. TopLevelClose(buffer) \subseteq At(buffer, ThinkClose) BY DEF TopLevelClose
      <3>3. PICK A \in SUBSET Nat : A = TopLevelClose(buffer) BY <3>1, <3>2
      <3>4. Min(A) \in A /\ Min(A) \in Nat BY <1>2, <1>4, <3>3, MinIs
      <3>5. PICK i \in Nat : i = Min(A) BY <3>4
      <3>6. i + 2 \in Nat /\ i + 2 >= 1 OBVIOUS
      <3>7. From(buffer, i + 2) \in Text BY <3>6, FromIs
      <3>8. Len(ThinkClose) = 2 BY DEF ThinkClose
      <3>9. Salvaged(e) = SaidBehind(e, From(buffer, i + 2))
        BY <1>2, <1>4, <3>3, <3>5, <3>8 DEF Salvaged
      <3> QED BY <3>7, <3>9
    <2>2. CASE text = <<>> BY <1>1, <2>1, <2>2 DEF SaidBehind
    <2>3. CASE text # <<>>
      <3>1. PICK n \in Nat : n = e.count BY DEF Settled, Em
      <3>2. Max({0, n - 1}) \in 0 .. n BY MaxPair
      <3>3. PICK m \in 0 .. n : m = Max({0, e.count - 1}) BY <3>1, <3>2
      <3>4. PICK first \in -1 .. n : first = IF e.firstContent # -1 THEN e.firstContent ELSE m
        <4>1. m \in -1 .. n OBVIOUS
        <4>2. e.firstContent \in -1 .. n BY <3>1 DEF Settled
        <4> QED BY <4>1, <4>2
      <3>5. SaidBehind(e, text) = Say([e EXCEPT !.firstContent = first], text)
        BY <2>3, <3>3, <3>4 DEF SaidBehind
      <3>6. PICK d : d = [e EXCEPT !.firstContent = first] OBVIOUS
      <3>7. Still(req, d, e) BY <3>1, <3>6, MarkedIs
      <3>8. Still(req, Say(d, text), d)
        <4>1. Settled(req, d) /\ Told(req.format, d) /\ ~d.stopHit BY <3>7 DEF Still
        <4> QED BY <4>1, SaidMore
      <3> QED BY <2>1, <3>5, <3>6, <3>7, <3>8 DEF Still
    <2> QED BY <2>2, <2>3
  <1> QED BY <1>3, <1>4

\* An answer whose last block is open is as good as one whose last block is closed.
LEMMA StillDone ==
    ASSUME NEW r, NEW d, NEW e, Still(r, d, e) PROVE Done(r, d, e)
  <1>1. d \in Em /\ Told(r.format, d) BY DEF Still, Settled
  <1>2. Adds(r.format, d) BY <1>1 DEF Told, Adds
  <1>3. Shut(r.format, d)
    <2>1. r.format = "anthropic" => BlocksTo(d.sent, d.stopHit, d.kind, d.block) BY <1>1 DEF Told, Turned
    <2>2. BlocksTo(d.sent, d.stopHit, d.kind, d.block) => d.kind # "" BY DEF BlocksTo
    <2>3. r.format = "responses" => (FirstThought(d.sent) => ItemTurns(d.sent))
      BY <1>1 DEF Told, Turned, ItemsTo
    <2> QED BY <2>1, <2>2, <2>3 DEF Shut
  <1> QED BY <1>2, <1>3 DEF Still, Done

\* The calls that were read from the buffer are kept.
LEMMA CalledIs ==
    ASSUME NEW e, Settled(req, e), Told(req.format, e)
    PROVE  LET d == [e EXCEPT !.calls = Calls(e.toolBuffer), !.remembered = e.raw, !.reason = "tool_calls"]
           IN  /\ Settled(req, d) /\ Told(req.format, d) /\ d.pieces = e.pieces
               /\ d.stopHit = e.stopHit /\ IsFiniteSet(d.calls)
  <1> DEFINE d == [e EXCEPT !.calls = Calls(e.toolBuffer), !.remembered = e.raw, !.reason = "tool_calls"]
  <1>1. e \in Em BY DEF Settled
  <1>2. PICK buffer \in Text : buffer = e.toolBuffer BY <1>1 DEF Em
  <1>3. Calls(buffer) \subseteq Call /\ IsFiniteSet(Calls(buffer)) BY CallsFinite
  <1>4. PICK calls \in SUBSET Call : calls = Calls(e.toolBuffer) /\ IsFiniteSet(calls)
    BY <1>2, <1>3
  <1>5. d = [e EXCEPT !.calls = calls, !.remembered = e.raw, !.reason = "tool_calls"] BY <1>4
  <1>6. d \in Em BY <1>1, <1>5 DEF Em
  <1>7. /\ d.firstContent = e.firstContent /\ d.mode = e.mode /\ d.window = e.window
        /\ d.tail = e.tail /\ d.toolBuffer = e.toolBuffer /\ d.raw = e.raw /\ d.calls = calls
        /\ d.count = e.count /\ d.pieces = e.pieces /\ d.stopHit = e.stopHit
    BY <1>1, <1>5 DEF Em
  <1>8. /\ d.sent = e.sent /\ d.content = e.content /\ d.reasoning = e.reasoning
        /\ d.kind = e.kind /\ d.block = e.block /\ d.outputIndex = e.outputIndex
        /\ d.reasoningOpen = e.reasoningOpen /\ d.messageOpen = e.messageOpen
    BY <1>1, <1>5 DEF Em
  <1> HIDE DEF d
  <1>9. Told(req.format, d) BY <1>7, <1>8 DEF Told, Turned
  <1>10. KeptLength(d) = KeptLength(e) BY <1>8 DEF KeptLength
  <1>11. StopKept(req, d) BY <1>7, <1>10 DEF Settled, StopKept, Ahead
  <1>12. d.calls \in {{}, Calls(d.toolBuffer)} BY <1>4, <1>7
  <1>13. Settled(req, d) BY <1>6, <1>7, <1>11, <1>12 DEF Settled
  <1> QED BY <1>4, <1>7, <1>9, <1>13 DEF d

\* What the tool buffer was: calls, or text after all.
LEMMA ReadIs ==
    ASSUME Asked(req), NEW e, Settled(req, e), Told(req.format, e), ~e.stopHit
    PROVE  Done(req, Read(e, ParseToolCalls(e.toolBuffer)), e)
  <1>1. PICK buffer \in Text : buffer = e.toolBuffer BY DEF Settled, Em
  <1>2. PICK parsed : parsed = ParseToolCalls(e.toolBuffer) OBVIOUS
  <1>3. parsed.calls = Calls(e.toolBuffer) /\ parsed.cleaned \in Text BY <1>1, <1>2, ParsedIs
  <1>4. CASE parsed.calls # {}
    <2>1. PICK d : d = [e EXCEPT !.calls = Calls(e.toolBuffer), !.remembered = e.raw, !.reason = "tool_calls"]
      OBVIOUS
    <2>2. /\ Settled(req, d) /\ Told(req.format, d) /\ d.pieces = e.pieces
          /\ d.stopHit = e.stopHit /\ IsFiniteSet(d.calls)
      BY <2>1, CalledIs
    <2>3. PICK text \in Text : text = parsed.cleaned BY <1>3
    <2>4. PICK s : s = Recovered(d, text) OBVIOUS
    <2>5. Still(req, s, d) BY <2>2, <2>4, RecoveredIs
    <2>6. /\ s \in Em /\ Told(req.format, s) /\ IsFiniteSet(s.calls) /\ Settled(req, s)
          /\ s.pieces = e.pieces
      BY <2>2, <2>5 DEF Still, Settled
    <2>7. PICK f : f = ToolEvents(s) OBVIOUS
    <2>8. f \in Em /\ Alike(f, s) /\ Adds(req.format, f) /\ Shut(req.format, f)
      BY <2>6, <2>7, ToolEventsIs
    <2>9. KeptLength(f) = KeptLength(s) BY <2>8 DEF KeptLength, Alike
    <2>10. Settled(req, f) BY <2>6, <2>8, <2>9, SettledSame DEF Alike
    <2>11. f.pieces = e.pieces BY <2>6, <2>8 DEF Alike, Same
    <2>12. Read(e, parsed) = f BY <1>3, <1>4, <2>1, <2>3, <2>4, <2>7 DEF Read
    <2> QED BY <1>2, <2>8, <2>10, <2>11, <2>12 DEF Done
  <1>5. CASE parsed.calls = {} /\ e.fallback
    <2>1. Still(req, Say(e, buffer), e) BY SaidMore
    <2>2. Read(e, parsed) = Say(e, buffer) BY <1>1, <1>5 DEF Read
    <2> QED BY <1>2, <2>1, <2>2, StillDone
  <1>6. CASE parsed.calls = {} /\ ~e.fallback
    <2>1. Still(req, Salvaged(e), e) BY SalvagedIs
    <2>2. Read(e, parsed) = Salvaged(e) BY <1>6 DEF Read
    <2> QED BY <1>2, <2>1, <2>2, StillDone
  <1> QED BY <1>4, <1>5, <1>6

\* With a tool buffer or without.
LEMMA ResolvedIs ==
    ASSUME Asked(req), NEW e, Settled(req, e), Told(req.format, e)
    PROVE  Done(req, Resolved(e), e)
  <1>1. CASE e.mode # "TOOL_BUFFER" \/ e.toolBuffer = <<>>
    <2>1. Resolved(e) = e BY <1>1 DEF Resolved
    <2>2. Still(req, e, e) BY DEF Still
    <2> QED BY <2>1, <2>2, StillDone
  <1>2. CASE ~(e.mode # "TOOL_BUFFER" \/ e.toolBuffer = <<>>)
    <2>1. ~e.stopHit BY <1>2 DEF Settled, StopKept
    <2>2. Resolved(e) = Read(e, ParseToolCalls(e.toolBuffer)) BY <1>2 DEF Resolved
    <2> QED BY <2>1, <2>2, ReadIs
  <1> QED BY <1>1, <1>2

\* The reason is found out last.
LEMMA ReasonIs ==
    ASSUME NEW e, Settled(req, e), Adds(req.format, e), Shut(req.format, e), NEW capped \in BOOLEAN
    PROVE  LET d == [e EXCEPT !.reason = Reason(e, capped)]
           IN  Done(req, d, e) /\ IsFiniteSet(d.calls)
  <1>1. e \in Em BY DEF Settled
  <1>2. PICK why \in {"stop", "length", "tool_calls"} : why = Reason(e, capped)
    BY <1>1 DEF Reason, Em
  <1> DEFINE d == [e EXCEPT !.reason = why]
  <1>3. d \in Em BY <1>1, <1>2 DEF Em
  <1>4. /\ d.firstContent = e.firstContent /\ d.mode = e.mode /\ d.window = e.window
        /\ d.tail = e.tail /\ d.toolBuffer = e.toolBuffer /\ d.raw = e.raw /\ d.calls = e.calls
        /\ d.count = e.count /\ d.pieces = e.pieces /\ d.stopHit = e.stopHit
    BY <1>1 DEF Em
  <1>5. /\ d.sent = e.sent /\ d.content = e.content /\ d.reasoning = e.reasoning
        /\ d.kind = e.kind /\ d.block = e.block
    BY <1>1 DEF Em
  <1> HIDE DEF d
  <1>6. Adds(req.format, d) /\ Shut(req.format, d) BY <1>4, <1>5 DEF Adds, Shut
  <1>7. KeptLength(d) = KeptLength(e) BY <1>5 DEF KeptLength
  <1>8. StopKept(req, d) BY <1>4, <1>7 DEF Settled, StopKept, Ahead
  <1>9. Settled(req, d) BY <1>3, <1>4, <1>8 DEF Settled
  <1>10. IsFiniteSet(d.calls)
    <2>1. PICK buffer \in Text : buffer = e.toolBuffer BY <1>1 DEF Em
    <2>2. IsFiniteSet(Calls(buffer)) BY CallsFinite
    <2>3. IsFiniteSet({}) BY FS_EmptySet
    <2> QED BY <1>4, <2>1, <2>2, <2>3 DEF Settled
  <1> QED BY <1>2, <1>4, <1>6, <1>9, <1>10 DEF Done, d

\* What holds of the emitter once the answer has ended.
Over(r, e) == Settled(r, e) /\ Adds(r.format, e) /\ InTurn(r.format, e)

\* The answer's end.
LEMMA EmitFinishIs ==
    ASSUME Asked(req), NEW e, Running(req, e), NEW capped \in BOOLEAN
    PROVE  Over(req, EmitFinish(e, capped)) /\ EmitFinish(e, capped).pieces = e.pieces
  <1>1. PICK a : a = Flushed(e) OBVIOUS
  <1>2. Settled(req, a) /\ Told(req.format, a) /\ a.pieces = e.pieces BY <1>1, FlushedIs
  <1>3. PICK b : b = ReasoningClosed(a) OBVIOUS
  <1>4. b \in Em /\ Alike(b, a) /\ Told(req.format, b) /\ KeptLength(b) = KeptLength(a)
    <2>1. a \in Em BY <1>2 DEF Settled
    <2> QED BY <1>2, <1>3, <2>1, ReasoningEnds
  <1>5. Settled(req, b) /\ b.pieces = e.pieces
    <2>1. Same(b, a) BY <1>4 DEF Alike
    <2>2. Settled(req, b) BY <1>2, <1>4, <2>1, SettledSame
    <2> QED BY <1>2, <2>1, <2>2 DEF Same
  <1>6. PICK c : c = Resolved(b) OBVIOUS
  <1>7. Done(req, c, b) BY <1>4, <1>5, <1>6, ResolvedIs
  <1>8. PICK d : d = [c EXCEPT !.reason = Reason(c, capped)] OBVIOUS
  <1>9. Done(req, d, c) /\ IsFiniteSet(d.calls) BY <1>7, <1>8, ReasonIs DEF Done
  <1>10. PICK f : f = Final(d) OBVIOUS
  <1>11. f \in Em /\ Alike(f, d) /\ Adds(req.format, f) /\ InTurn(req.format, f)
    <2>1. d \in Em /\ Adds(req.format, d) /\ Shut(req.format, d) BY <1>9 DEF Done, Settled
    <2> QED BY <1>9, <1>10, <2>1, FinalIs
  <1>12. Settled(req, f) /\ f.pieces = d.pieces
    <2>1. KeptLength(f) = KeptLength(d) BY <1>11 DEF Alike, KeptLength
    <2>2. Same(f, d) BY <1>11 DEF Alike
    <2>3. Settled(req, d) BY <1>9 DEF Done
    <2>4. Settled(req, f) BY <1>11, <2>1, <2>2, <2>3, SettledSame
    <2> QED BY <2>2, <2>4 DEF Same
  <1>13. EmitFinish(e, capped) = f BY <1>1, <1>3, <1>6, <1>8, <1>10 DEF EmitFinish, Finished
  <1> QED BY <1>5, <1>7, <1>9, <1>11, <1>12, <1>13 DEF Over, Done

-----------------------------------------------------------------------------
(* The invariant *)

\* The emitter runs until the answer is over, and was given no more texts than the
\* model has drawn tokens; none, before it is fed an answer that is not streamed.
IInv ==
    /\ req \in Requests /\ tokens \in Seq(req.vocabulary.tokens)
    /\ pc \in {"generate", "finish", "done"}
    /\ ~req.stream => req.format = "openai"
    /\ pc # "done" => Running(req, em)
    /\ pc = "done" => Over(req, em)
    /\ Len(em.pieces) \in Nat /\ Len(em.pieces) <= Len(tokens)
    /\ ~req.stream /\ pc # "done" => em.pieces = <<>>

\* A running emitter was given finitely many texts.
LEMMA RunningPieces ==
    ASSUME NEW r, NEW e, Running(r, e) PROVE Len(e.pieces) \in Nat
  BY DEF Running, Typed, Em

\* So was one that is done.
LEMMA OverPieces ==
    ASSUME NEW r, NEW e, Over(r, e) PROVE Len(e.pieces) \in Nat
  BY DEF Over, Settled, Em

\* At the beginning nothing has been said but the first event.
LEMMA InvInit == Init => IInv
  <1> SUFFICES ASSUME Init PROVE IInv OBVIOUS
  <1>1. req \in Requests /\ (~req.stream => req.format = "openai") BY DEF Init
  <1>2. tokens = <<>> /\ pc = "generate" BY DEF Init
  <1>3. Running(req, em) /\ em.pieces = <<>>
    <2>1. em \in {Started(Emitter(req.thinking)), Emitter(req.thinking)} BY DEF Init
    <2>2. ~req.stream \/ em = Started(Emitter(req.thinking)) BY DEF Init
    <2> QED BY <1>1, <2>1, <2>2, StartedIs
  <1>4. Len(<<>>) = 0 /\ 0 \in Nat /\ 0 <= 0 /\ <<>> \in Seq(req.vocabulary.tokens) BY EmptySeq
  <1> QED BY <1>1, <1>2, <1>3, <1>4 DEF IInv

\* A token.
LEMMA InvToken ==
    ASSUME IInv, OnToken PROVE IInv'
  <1>1. /\ req \in Requests /\ tokens \in Seq(req.vocabulary.tokens)
        /\ (~req.stream => req.format = "openai") /\ Len(em.pieces) <= Len(tokens)
    BY DEF IInv
  <1>2. pc = "generate" /\ req' = req BY DEF OnToken
  <1>3. Running(req, em) /\ (~req.stream => em.pieces = <<>>) BY <1>2 DEF IInv
  <1>4. PICK token \in req.vocabulary.tokens :
           /\ tokens' = Append(tokens, token)
           /\ em' = IF req.stream THEN Streamed(em, token) ELSE Classified(em, token)
           /\ pc' \in {"finish", "generate"}
    BY DEF OnToken
  <1>5. PICK n \in Nat : n = Len(tokens) BY <1>1
  <1>6. tokens' \in Seq(req.vocabulary.tokens) /\ Len(tokens') = n + 1 BY <1>1, <1>4, <1>5
  <1>7. PICK k \in Nat : k = Len(em.pieces) BY <1>3, RunningPieces
  <1>8. /\ Running(req, em') /\ Len(em'.pieces) \in Nat /\ Len(em'.pieces) <= k + 1
        /\ ~req.stream => em'.pieces = <<>>
    <2>1. CASE req.stream
      <3>1. PICK f : f = Streamed(em, token) OBVIOUS
      <3>2. Running(req, f) /\ Len(f.pieces) <= Len(em.pieces) + 1
        BY <1>1, <1>3, <3>1, StreamedIs
      <3>3. Len(f.pieces) \in Nat BY <3>2, RunningPieces
      <3> QED BY <1>4, <1>7, <2>1, <3>1, <3>2, <3>3
    <2>2. CASE ~req.stream
      <3>1. PICK f : f = Classified(em, token) OBVIOUS
      <3>2. Asked(req) BY <1>1, ReqIs
      <3>3. Running(req, f) /\ f.pieces = em.pieces BY <1>3, <3>1, <3>2, ClassifiedIs
      <3>4. k <= k + 1 OBVIOUS
      <3> QED BY <1>3, <1>4, <1>7, <2>2, <3>1, <3>3, <3>4
    <2> QED BY <2>1, <2>2
  <1>9. Len(em'.pieces) <= Len(tokens')
    <2>1. k <= n BY <1>1, <1>5, <1>7
    <2>2. PICK m \in Nat : m = Len(em'.pieces) /\ m <= k + 1 BY <1>8
    <2>3. m <= n + 1 BY <2>1, <2>2
    <2> QED BY <1>6, <2>2, <2>3
  <1>10. Running(req', em') /\ (~req'.stream => em'.pieces = <<>>) BY <1>2, <1>8
  <1>11. pc' # "done" /\ pc' \in {"generate", "finish", "done"} BY <1>4
  <1>12. req' \in Requests /\ tokens' \in Seq(req'.vocabulary.tokens) /\ (~req'.stream => req'.format = "openai")
    BY <1>1, <1>2, <1>6
  <1> QED BY <1>8, <1>9, <1>10, <1>11, <1>12 DEF IInv

\* The end of an answer, streamed or not.
LEMMA InvEnd ==
    ASSUME IInv, NEW e, Running(req, e), Len(e.pieces) <= Len(tokens), NEW capped \in BOOLEAN,
           em' = EmitFinish(e, capped), pc' = "done", req' = req, tokens' = tokens
    PROVE  IInv'
  <1>1. req \in Requests /\ tokens \in Seq(req.vocabulary.tokens) /\ (~req.stream => req.format = "openai")
    BY DEF IInv
  <1>2. Asked(req) BY <1>1, ReqIs
  <1>3. PICK f : f = EmitFinish(e, capped) OBVIOUS
  <1>4. Over(req, f) /\ f.pieces = e.pieces BY <1>2, <1>3, EmitFinishIs
  <1>5. Len(f.pieces) \in Nat /\ Len(f.pieces) <= Len(tokens) BY <1>4, OverPieces
  <1>6. Over(req', em') /\ Len(em'.pieces) \in Nat /\ Len(em'.pieces) <= Len(tokens')
    BY <1>3, <1>4, <1>5
  <1>7. req' \in Requests /\ tokens' \in Seq(req'.vocabulary.tokens)
        /\ (~req'.stream => req'.format = "openai") /\ pc' = "done"
    BY <1>1
  <1> QED BY <1>6, <1>7 DEF IInv

\* No step breaks it.
LEMMA InvStep == IInv /\ [Next]_vars => IInv'
  <1> SUFFICES ASSUME IInv, [Next]_vars PROVE IInv' OBVIOUS
  <1>1. CASE OnToken BY <1>1, InvToken
  <1>2. CASE EndStream
    <2>1. pc # "done" BY <1>2 DEF EndStream
    <2>2. Running(req, em) /\ Len(em.pieces) <= Len(tokens) BY <2>1 DEF IInv
    <2>3. PICK capped \in BOOLEAN : capped = (Len(tokens) = MaxTokens /\ ~Ended) OBVIOUS
    <2>4. em' = EmitFinish(em, capped) /\ pc' = "done" /\ req' = req /\ tokens' = tokens
      BY <1>2, <2>3 DEF EndStream
    <2> QED BY <2>2, <2>4, InvEnd
  <1>3. CASE EndWhole
    <2>1. pc # "done" /\ ~req.stream BY <1>3 DEF EndWhole
    <2>2. Running(req, em) /\ em.pieces = <<>> /\ req \in Requests /\ tokens \in Seq(req.vocabulary.tokens)
      BY <2>1 DEF IInv
    <2>3. PICK e : e = Replayed(em, tokens) OBVIOUS
    <2>4. Running(req, e) /\ Len(e.pieces) <= Len(tokens) BY <2>2, <2>3, ReplayedIs
    <2>5. em' = EmitFinish(e, FALSE) /\ pc' = "done" /\ req' = req /\ tokens' = tokens
      BY <1>3, <2>3 DEF EndWhole
    <2> QED BY <2>4, <2>5, InvEnd
  <1>4. CASE UNCHANGED vars BY <1>4 DEF vars, IInv
  <1> QED BY <1>1, <1>2, <1>3, <1>4 DEF Next

\* The emitter runs until the answer is over.
THEOREM Invariance == Spec => []IInv
  BY InvInit, InvStep, PTL DEF Spec

-----------------------------------------------------------------------------
(* Whole characters *)

\* No event cuts a character in two.
Clean(s) == \A i \in 1 .. Len(s) : Uncut(s[i].text)

\* No text that will be sent, or has been, cuts a character in two.
Intact(e) ==
    /\ Uncut(e.window) /\ Uncut(e.toolBuffer) /\ Uncut(e.content) /\ Uncut(e.reasoning)
    /\ Clean(e.sent)

\* A place that does not cut a character.
Edge(text, j) == j \in 1 .. Len(text) + 1 /\ (j <= Len(text) => text[j] # "u2")

\* Half a character that is alone is replaced, so none is cut.
LEMMA SanitizedUncut ==
    ASSUME NEW text \in Text PROVE Uncut(Sanitized(text))
  <1>1. Len(text) \in Nat BY TextIs
  <1>2. PICK s : s = Sanitized(text) OBVIOUS
  <1>3. Len(s) = Len(text) BY <1>1, <1>2 DEF Sanitized
  <1>4. \A i \in 1 .. Len(text) :
           s[i] = IF \/ text[i] = "u1" /\ (i = Len(text) \/ text[i + 1] # "u2")
                     \/ text[i] = "u2" /\ (i = 1 \/ text[i - 1] # "u1")
                  THEN "?" ELSE text[i]
    BY <1>2 DEF Sanitized
  <1>5. ASSUME NEW i \in 1 .. Len(s), s[i] = "u1"
        PROVE  i < Len(s) /\ s[i + 1] = "u2"
    <2>1. text[i] = "u1" /\ i # Len(text) /\ text[i + 1] = "u2" BY <1>3, <1>4, <1>5
    <2>2. i + 1 \in 1 .. Len(text) /\ (i + 1) - 1 = i /\ i + 1 # 1 /\ i < Len(text) BY <1>1, <1>3, <2>1
    <2>3. s[i + 1] = text[i + 1] BY <1>4, <2>1, <2>2
    <2> QED BY <1>3, <2>1, <2>2, <2>3
  <1>6. ASSUME NEW i \in 1 .. Len(s), s[i] = "u2"
        PROVE  i > 1 /\ s[i - 1] = "u1"
    <2>1. text[i] = "u2" /\ i # 1 /\ text[i - 1] = "u1" BY <1>3, <1>4, <1>6
    <2>2. i - 1 \in 1 .. Len(text) /\ (i - 1) + 1 = i /\ i - 1 # Len(text) /\ i > 1 BY <1>1, <1>3, <2>1
    <2>3. s[i - 1] = text[i - 1] BY <1>4, <2>1, <2>2
    <2> QED BY <2>1, <2>2, <2>3
  <1> QED BY <1>2, <1>5, <1>6 DEF Uncut

\* Nothing is replaced in a text that cuts none.
LEMMA UncutSanitized ==
    ASSUME NEW text \in Text, Uncut(text) PROVE Sanitized(text) = text
  <1>1. Len(text) \in Nat BY TextIs
  <1>2. Sanitized(text) = [i \in 1 .. Len(text) |-> text[i]]
    <2>1. ASSUME NEW i \in 1 .. Len(text)
          PROVE  ~(\/ text[i] = "u1" /\ (i = Len(text) \/ text[i + 1] # "u2")
                   \/ text[i] = "u2" /\ (i = 1 \/ text[i - 1] # "u1"))
      BY <1>1 DEF Uncut
    <2> QED BY <2>1 DEF Sanitized
  <1>3. text = [i \in 1 .. Len(text) |-> text[i]] BY DEF Text
  <1> QED BY <1>2, <1>3

\* Nothing is cut behind what is no first half.
LEMMA EdgeBehind ==
    ASSUME NEW text \in Text, Uncut(text), NEW j \in 1 .. Len(text) + 1,
           j = 1 \/ text[j - 1] # "u1"
    PROVE  Edge(text, j)
  <1>1. Len(text) \in Nat BY TextIs
  <1>2. ASSUME j <= Len(text), text[j] = "u2" PROVE FALSE
    <2>1. j \in 1 .. Len(text) BY <1>1, <1>2
    <2>2. j > 1 /\ text[j - 1] = "u1" BY <1>2, <2>1 DEF Uncut
    <2> QED BY <2>2
  <1> QED BY <1>2 DEF Edge

\* Nor are the parts on both sides of such a place.
LEMMA EdgeParts ==
    ASSUME NEW text \in Text, Uncut(text), NEW j, Edge(text, j)
    PROVE  Uncut(Before(text, j)) /\ Uncut(From(text, j))
  BY UncutParts DEF Edge

\* Where a window is cut, no character is.
LEMMA ReleasableEdge ==
    ASSUME NEW text \in Text, Uncut(text), req.vocabulary.stop \in BOOLEAN
    PROVE  Edge(text, Releasable(text) + 1) /\ Edge(text, NameHeld(text, Releasable(text)) + 1)
  <1>1. Len(text) \in Nat BY TextIs
  <1>2. PICK r \in Nat : r = Releasable(text) /\ r <= Len(text) BY <1>1, ReleasableIs
  <1>3. r + 1 \in 1 .. Len(text) + 1 /\ (r + 1) - 1 = r BY <1>1, <1>2
  <1>4. Edge(text, r + 1)
    <2>1. CASE r = 0
      <3>1. r + 1 = 1 BY <2>1
      <3> QED BY <1>3, <3>1, EdgeBehind
    <2>2. CASE r # 0
      <3>1. PICK n : n = Len(text) - Holdback OBVIOUS
      <3>2. r = SafeLen(text, n) BY <1>2, <2>2, <3>1 DEF Releasable
      <3>3. CASE n > 0 /\ n < Len(text) /\ text[n] = "u1"
        <4>1. r = n - 1 BY <3>2, <3>3 DEF SafeLen
        <4>2. r + 1 \in 1 .. Len(text) + 1 BY <1>3
        <4>3. n = r + 1 \/ ~(n \in Int) BY <4>1
        <4>4. Holdback \in Int
          <5>1. SyntaxHoldback = 1
            <6>1. Len(ToolOpen) = 2 BY DEF ToolOpen
            <6> QED BY <6>1 DEF SyntaxHoldback
          <5>2. StopHoldback \in Nat BY StopAt DEF StopHoldback
          <5> DEFINE A == {SyntaxHoldback, StopHoldback}
          <5>3. PICK k \in Nat : k = StopHoldback BY <5>2
          <5>4. A \in SUBSET Nat /\ A # {} /\ k + 1 \in Nat /\ (\A j \in A : j <= k + 1)
            BY <5>1, <5>3
          <5> HIDE DEF A
          <5>5. Max(A) \in Nat BY <5>4, MaxIs
          <5> QED BY <5>5 DEF Holdback, A
        <4>5. n = r + 1 BY <1>1, <3>1, <4>3, <4>4
        <4> QED BY <3>3, <4>2, <4>5 DEF Edge
      <3>4. CASE ~(n > 0 /\ n < Len(text) /\ text[n] = "u1")
        <4>1. r = n BY <3>2, <3>4 DEF SafeLen
        <4>2. text[r] # "u1"
          <5>1. r \in 1 .. Len(text) /\ n > 0 BY <1>1, <1>2, <2>2, <4>1
          <5>2. CASE r < Len(text) BY <3>4, <4>1, <5>1, <5>2
          <5>3. CASE ~(r < Len(text)) BY <5>1, <5>3 DEF Uncut
          <5> QED BY <5>2, <5>3
        <4> QED BY <1>3, <4>2, EdgeBehind
      <3> QED BY <3>3, <3>4
    <2> QED BY <2>1, <2>2
  <1>5. Edge(text, NameHeld(text, r) + 1)
    <2>1. PICK m : m = NameStart(text, r + 1) OBVIOUS
    <2>2. r + 1 \in Nat /\ r + 1 >= 1 BY <1>2
    <2>3. m \in 1 .. r + 1 /\ \A x \in m .. (r + 1) - 1 : text[x] = "n" BY <2>1, <2>2, NameStartIs
    <2>4. NameHeld(text, r) = IF HasTools /\ r + 1 - m < NameLimit THEN r - (r + 1 - m) ELSE r
      BY <2>1 DEF NameHeld
    <2>5. (r - (r + 1 - m)) + 1 = m BY <1>2, <2>3
    <2>6. Edge(text, m)
      <3>1. CASE m = r + 1 BY <1>4, <3>1
      <3>2. CASE m # r + 1
        <4>1. m \in m .. (r + 1) - 1 /\ m \in 1 .. Len(text) + 1 BY <1>1, <1>2, <2>3, <3>2
        <4>2. text[m] = "n" BY <2>3, <4>1
        <4> QED BY <4>1, <4>2 DEF Edge
      <3> QED BY <3>1, <3>2
    <2>7. CASE HasTools /\ r + 1 - m < NameLimit
      <3>1. NameHeld(text, r) + 1 = m BY <2>4, <2>5, <2>7
      <3> QED BY <2>6, <3>1
    <2>8. CASE ~(HasTools /\ r + 1 - m < NameLimit) BY <1>4, <2>4, <2>8
    <2> QED BY <2>7, <2>8
  <1> QED BY <1>2, <1>4, <1>5

\* Events that cut no character, behind others that cut none.
LEMMA CleanCat ==
    ASSUME NEW s \in Seq(Events), NEW ev \in Seq(Events), Clean(s), Clean(ev)
    PROVE  Clean(s \o ev)
  <1>1. PICK a : a = s \o ev OBVIOUS
  <1>2. /\ Len(s) \in Nat /\ Len(ev) \in Nat /\ Len(a) = Len(s) + Len(ev)
        /\ (\A i \in 1 .. Len(s) : a[i] = s[i]) /\ (\A i \in 1 .. Len(ev) : a[Len(s) + i] = ev[i])
    BY <1>1, CatEvents
  <1>3. ASSUME NEW i \in 1 .. Len(a) PROVE Uncut(a[i].text)
    <2>1. CASE i <= Len(s)
      <3>1. i \in 1 .. Len(s) BY <1>2, <2>1
      <3> QED BY <1>2, <3>1 DEF Clean
    <2>2. CASE ~(i <= Len(s))
      <3>1. PICK x \in 1 .. Len(ev) : i = Len(s) + x
        <4>1. i - Len(s) \in 1 .. Len(ev) /\ i = Len(s) + (i - Len(s)) BY <1>2, <2>2
        <4> QED BY <4>1
      <3> QED BY <1>2, <3>1 DEF Clean
    <2> QED BY <2>1, <2>2
  <1> QED BY <1>1, <1>3 DEF Clean

\* d is what e became, and has cut no character on the way.
Cleanly(d, e) == d \in Em /\ Alike(d, e) /\ Clean(d.sent)

\* Sending events that cut none, and what one and two of them are.
LEMMA SendClean ==
    ASSUME NEW e \in Em, Clean(e.sent)
    PROVE  /\ \A ev \in Seq(Events) : Clean(ev) => Cleanly(Send(e, ev), e)
           /\ \A v \in Events : Uncut(v.text) => Cleanly(Send(e, <<v>>), e)
           /\ \A v, w \in Events :
                 Uncut(v.text) /\ Uncut(w.text) => Cleanly(Send(e, <<v, w>>), e)
  <1>1. ASSUME NEW ev \in Seq(Events), Clean(ev) PROVE Cleanly(Send(e, ev), e)
    <2>1. PICK s : s = Send(e, ev) OBVIOUS
    <2>2. s \in Em /\ Alike(s, e) /\ s.sent = e.sent \o ev /\ e.sent \in Seq(Events)
      BY <2>1, SendAll
    <2>3. Clean(s.sent) BY <1>1, <2>2, CleanCat
    <2> QED BY <2>1, <2>2, <2>3 DEF Cleanly
  <1>2. ASSUME NEW v \in Events, Uncut(v.text) PROVE Cleanly(Send(e, <<v>>), e)
    <2>1. PICK ev \in Seq(Events) : ev = <<v>> BY Short
    <2>2. Len(ev) = 1 /\ ev[1] = v BY <2>1
    <2>3. Clean(ev) BY <1>2, <2>2 DEF Clean
    <2> QED BY <1>1, <2>1, <2>3
  <1>3. ASSUME NEW v \in Events, NEW w \in Events, Uncut(v.text), Uncut(w.text)
        PROVE  Cleanly(Send(e, <<v, w>>), e)
    <2>1. PICK ev \in Seq(Events) : ev = <<v, w>> BY Short
    <2>2. Len(ev) = 2 /\ ev[1] = v /\ ev[2] = w BY <2>1
    <2>3. ASSUME NEW i \in 1 .. Len(ev) PROVE Uncut(ev[i].text)
      <3>1. i = 1 \/ i = 2 BY <2>2
      <3> QED BY <1>3, <2>2, <3>1
    <2>4. Clean(ev) BY <2>3 DEF Clean
    <2> QED BY <1>1, <2>1, <2>4
  <1> QED BY <1>1, <1>2, <1>3

\* Neither opening nor closing a block cuts a character.
LEMMA SwitchedClean ==
    ASSUME NEW e \in Em, Clean(e.sent), NEW kind \in {"text", "thinking"}
    PROVE  Cleanly(Switched(e, kind), e)
  <1>1. CASE e.kind = kind BY <1>1 DEF Switched, Cleanly, Alike, Same
  <1>2. CASE e.kind # kind
    <2>1. <<>> \in Text /\ Uncut(<<>>) BY EmptySeq, UncutShort DEF Text
    <2>2. e.block \in Nat /\ e.kind \in {"text", "thinking", ""} BY DEF Em
    <2>3. PICK k \in Nat : k = e.block + 1
      <3>1. e.block \in Nat BY <2>2
      <3> QED BY <3>1
    <2>4. PICK v : v = Event("close", e.kind, e.block, <<>>) OBVIOUS
    <2>5. v \in Events /\ Uncut(v.text) BY <2>1, <2>2, <2>4 DEF Event, Events
    <2>6. PICK w : w = Event("open", kind, k, <<>>) OBVIOUS
    <2>7. w \in Events /\ Uncut(w.text) BY <2>1, <2>2, <2>6 DEF Event, Events
    <2>8. PICK d : d = Send(e, <<v, w>>) OBVIOUS
    <2>9. Cleanly(d, e) BY <2>5, <2>7, <2>8, SendClean
    <2>10. PICK s : s = Switched(e, kind) OBVIOUS
    <2>11. s = [d EXCEPT !.kind = kind, !.block = d.block + 1] BY <1>2, <2>3, <2>4, <2>6, <2>8, <2>10 DEF Switched
    <2>12. d \in Em BY <2>9 DEF Cleanly
    <2>13. PICK m \in Nat : m = d.block + 1
      <3>1. d.block \in Nat BY <2>12 DEF Em
      <3> QED BY <3>1
    <2>14. s = [d EXCEPT !.kind = kind, !.block = m] BY <2>11, <2>13
    <2>15. s \in Em BY <2>12, <2>14 DEF Em
    <2>16. s.sent = d.sent BY <2>12, <2>14 DEF Em
    <2>17. Alike(s, d) BY <2>12, <2>14 DEF Em, Alike, Same
    <2>18. Alike(s, e) BY <2>9, <2>17 DEF Cleanly, Alike, Same
    <2> QED BY <2>9, <2>10, <2>15, <2>16, <2>18 DEF Cleanly
  <1> QED BY <1>1, <1>2

\* Nor does opening or closing an item; the reasoning is sent again with its close.
LEMMA ItemsClean ==
    ASSUME NEW e \in Em, Clean(e.sent), Uncut(e.reasoning)
    PROVE  /\ Cleanly(ReasoningClosed(e), e) /\ Cleanly(MessageOpened(e), e)
           /\ Cleanly(ReasoningOpened(e), e)
  <1>0. <<>> \in Text /\ Uncut(<<>>) /\ e.outputIndex \in Nat /\ e.reasoning \in Text
    BY EmptySeq, UncutShort DEF Text, Em
  <1>1. Cleanly(e, e) BY DEF Cleanly, Alike, Same
  <1>2. Cleanly(ReasoningClosed(e), e)
    <2>1. CASE ~e.reasoningOpen BY <1>1, <2>1 DEF ReasoningClosed
    <2>2. CASE e.reasoningOpen
      <3>1. PICK v : v = Event("close", "thinking", e.outputIndex, e.reasoning) OBVIOUS
      <3>2. v \in Events /\ Uncut(v.text) BY <1>0, <3>1 DEF Event, Events
      <3>3. PICK d : d = Send(e, <<v>>) OBVIOUS
      <3>4. Cleanly(d, e) BY <3>2, <3>3, SendClean
      <3>5. PICK s : s = ReasoningClosed(e) OBVIOUS
      <3>6. s = [d EXCEPT !.reasoningOpen = FALSE, !.outputIndex = d.outputIndex + 1]
        BY <2>2, <3>1, <3>3, <3>5 DEF ReasoningClosed
      <3>7. d \in Em BY <3>4 DEF Cleanly
      <3>8. PICK m \in Nat : m = d.outputIndex + 1
        <4>1. d.outputIndex \in Nat BY <3>7 DEF Em
        <4> QED BY <4>1
      <3>9. s = [d EXCEPT !.reasoningOpen = FALSE, !.outputIndex = m] BY <3>6, <3>8
      <3>10. s \in Em BY <3>7, <3>9 DEF Em
      <3>11. s.sent = d.sent BY <3>7, <3>9 DEF Em
      <3>12. Alike(s, d) BY <3>7, <3>9 DEF Em, Alike, Same
      <3>13. Alike(s, e) BY <3>4, <3>12 DEF Cleanly, Alike, Same
      <3> QED BY <3>4, <3>5, <3>10, <3>11, <3>13 DEF Cleanly
    <2> QED BY <2>1, <2>2
  <1>3. ASSUME NEW kind \in {"text", "thinking"}
        PROVE  \E d \in Em : d = Send(e, <<Event("open", kind, e.outputIndex, <<>>)>>) /\ Cleanly(d, e)
    <2>1. PICK v : v = Event("open", kind, e.outputIndex, <<>>) OBVIOUS
    <2>2. v \in Events /\ Uncut(v.text) BY <1>0, <2>1 DEF Event, Events
    <2>3. PICK d : d = Send(e, <<v>>) OBVIOUS
    <2>4. Cleanly(d, e) BY <2>2, <2>3, SendClean
    <2> QED BY <2>1, <2>3, <2>4 DEF Cleanly
  <1>4. Cleanly(MessageOpened(e), e)
    <2>1. CASE e.messageOpen BY <1>1, <2>1 DEF MessageOpened
    <2>2. CASE ~e.messageOpen
      <3>1. PICK d \in Em : d = Send(e, <<Event("open", "text", e.outputIndex, <<>>)>>) /\ Cleanly(d, e)
        BY <1>3
      <3>2. PICK s : s = MessageOpened(e) OBVIOUS
      <3>3. s = [d EXCEPT !.messageOpen = TRUE] BY <2>2, <3>1, <3>2 DEF MessageOpened
      <3>4. s \in Em /\ s.sent = d.sent BY <3>3 DEF Em
      <3>5. Alike(s, d) BY <3>3 DEF Em, Alike, Same
      <3>6. Alike(s, e) BY <3>1, <3>5 DEF Cleanly, Alike, Same
      <3> QED BY <3>1, <3>2, <3>4, <3>6 DEF Cleanly
    <2> QED BY <2>1, <2>2
  <1>5. Cleanly(ReasoningOpened(e), e)
    <2>1. CASE e.reasoningOpen BY <1>1, <2>1 DEF ReasoningOpened
    <2>2. CASE ~e.reasoningOpen
      <3>1. PICK d \in Em : d = Send(e, <<Event("open", "thinking", e.outputIndex, <<>>)>>) /\ Cleanly(d, e)
        BY <1>3
      <3>2. PICK s : s = ReasoningOpened(e) OBVIOUS
      <3>3. s = [d EXCEPT !.reasoningOpen = TRUE] BY <2>2, <3>1, <3>2 DEF ReasoningOpened
      <3>4. s \in Em /\ s.sent = d.sent BY <3>3 DEF Em
      <3>5. Alike(s, d) BY <3>3 DEF Em, Alike, Same
      <3>6. Alike(s, e) BY <3>1, <3>5 DEF Cleanly, Alike, Same
      <3> QED BY <3>1, <3>2, <3>4, <3>6 DEF Cleanly
    <2> QED BY <2>1, <2>2
  <1> QED BY <1>2, <1>4, <1>5

\* One goes on where the other ended.
LEMMA CleanlyOn ==
    ASSUME NEW c, NEW d, NEW e, Cleanly(d, e), Cleanly(c, d) PROVE Cleanly(c, e)
  BY DEF Cleanly, Alike, Same

\* A delta of a text that cuts no character.
LEMMA DeltaClean ==
    ASSUME NEW e \in Em, Clean(e.sent), NEW kind \in {"text", "thinking"}, NEW index \in Nat,
           NEW text \in Text, Uncut(text)
    PROVE  Cleanly(Delta(e, kind, index, text), e)
  <1>1. PICK v : v = Event("delta", kind, index, text) OBVIOUS
  <1>2. v \in Events /\ Uncut(v.text) BY <1>1 DEF Event, Events
  <1>3. Cleanly(Send(e, <<v>>), e) BY <1>2, SendClean
  <1> QED BY <1>1, <1>3 DEF Delta

\* Neither kind of delta cuts a character, whatever it opens and closes.
LEMMA DeltasClean ==
    ASSUME NEW e \in Em, Clean(e.sent), Uncut(e.reasoning), NEW text \in Text, Uncut(text),
           req.format \in ThreeFormats
    PROVE  Cleanly(ContentDelta(e, text), e) /\ Cleanly(ReasoningDelta(e, text), e)
  <1>0. Cleanly(e, e) BY DEF Cleanly, Alike, Same
  <1>1. CASE text = <<>> BY <1>0, <1>1 DEF ContentDelta, ReasoningDelta
  <1>2. CASE text # <<>> /\ req.format = "anthropic"
    <2>1. ASSUME NEW kind \in {"text", "thinking"}, NEW s, s = Switched(e, kind)
          PROVE  Cleanly(Delta(s, kind, s.block, text), e)
      <3>1. Cleanly(s, e) BY <2>1, SwitchedClean
      <3>2. s \in Em /\ Clean(s.sent) BY <3>1 DEF Cleanly
      <3>3. s.block \in Nat BY <3>2 DEF Em
      <3>4. Cleanly(Delta(s, kind, s.block, text), s) BY <3>2, <3>3, DeltaClean
      <3> QED BY <3>1, <3>4, CleanlyOn
    <2>2. PICK s : s = Switched(e, "text") OBVIOUS
    <2>3. PICK t : t = Switched(e, "thinking") OBVIOUS
    <2>4. ContentDelta(e, text) = Delta(s, "text", s.block, text) BY <1>2, <2>2 DEF ContentDelta
    <2>5. ReasoningDelta(e, text) = Delta(t, "thinking", t.block, text) BY <1>2, <2>3 DEF ReasoningDelta
    <2>6. Cleanly(Delta(s, "text", s.block, text), e) BY <2>1, <2>2
    <2>7. Cleanly(Delta(t, "thinking", t.block, text), e) BY <2>1, <2>3
    <2> QED BY <2>4, <2>5, <2>6, <2>7
  <1>3. CASE text # <<>> /\ req.format = "responses"
    <2>1. ASSUME NEW kind \in {"text", "thinking"}, NEW m, Cleanly(m, e)
          PROVE  Cleanly(Delta(m, kind, m.outputIndex, text), e)
      <3>1. m \in Em /\ Clean(m.sent) BY <2>1 DEF Cleanly
      <3>2. m.outputIndex \in Nat BY <3>1 DEF Em
      <3>3. Cleanly(Delta(m, kind, m.outputIndex, text), m) BY <3>1, <3>2, DeltaClean
      <3> QED BY <2>1, <3>3, CleanlyOn
    <2>2. PICK c : c = ReasoningClosed(e) OBVIOUS
    <2>3. Cleanly(c, e) BY <2>2, ItemsClean
    <2>4. c \in Em /\ Clean(c.sent) /\ Uncut(c.reasoning) BY <2>3 DEF Cleanly, Alike
    <2>5. PICK m : m = MessageOpened(c) OBVIOUS
    <2>6. Cleanly(m, e)
      <3>1. Cleanly(m, c) BY <2>4, <2>5, ItemsClean
      <3> QED BY <2>3, <3>1, CleanlyOn
    <2>7. PICK r : r = ReasoningOpened(e) OBVIOUS
    <2>8. Cleanly(r, e) BY <2>7, ItemsClean
    <2>9. ContentDelta(e, text) = Delta(m, "text", m.outputIndex, text)
      BY <1>3, <2>2, <2>5 DEF ContentDelta
    <2>10. ReasoningDelta(e, text) = Delta(r, "thinking", r.outputIndex, text)
      BY <1>3, <2>7 DEF ReasoningDelta
    <2>11. Cleanly(Delta(m, "text", m.outputIndex, text), e) BY <2>1, <2>6
    <2>12. Cleanly(Delta(r, "thinking", r.outputIndex, text), e) BY <2>1, <2>8
    <2> QED BY <2>9, <2>10, <2>11, <2>12
  <1>4. CASE text # <<>> /\ req.format = "openai"
    <2>1. ContentDelta(e, text) = Delta(e, "text", 0, text) BY <1>4 DEF ContentDelta
    <2>2. ReasoningDelta(e, text) = Delta(e, "thinking", 0, text) BY <1>4 DEF ReasoningDelta
    <2>3. Cleanly(Delta(e, "text", 0, text), e) /\ Cleanly(Delta(e, "thinking", 0, text), e)
      BY DeltaClean
    <2> QED BY <2>1, <2>2, <2>3
  <1> QED BY <1>1, <1>2, <1>3, <1>4 DEF ThreeFormats

\* d is e with more said, and cuts no character.
Kindly(d, e) == d \in Em /\ Same(d, e) /\ Intact(d)

\* Saying and thinking a text that cuts no character.
LEMMA SpeakIntact ==
    ASSUME NEW e \in Em, Intact(e), NEW text \in Text, Uncut(text), req.format \in ThreeFormats
    PROVE  Kindly(Say(e, text), e) /\ Kindly(Think(e, text), e)
  <1>1. e.content \in Text /\ e.reasoning \in Text BY DEF Em
  <1>2. PICK t \in Text : t = e.content \o text /\ Uncut(t)
    <2>1. e.content \o text \in Text BY <1>1, CatIs
    <2>2. Uncut(e.content \o text) BY <1>1, UncutCat DEF Intact
    <2> QED BY <2>1, <2>2
  <1>3. PICK u \in Text : u = e.reasoning \o text /\ Uncut(u)
    <2>1. e.reasoning \o text \in Text BY <1>1, CatIs
    <2>2. Uncut(e.reasoning \o text) BY <1>1, UncutCat DEF Intact
    <2> QED BY <2>1, <2>2
  <1>4. Kindly(Say(e, text), e)
    <2>1. PICK f : f = [e EXCEPT !.content = t] OBVIOUS
    <2>2. f \in Em BY <2>1 DEF Em
    <2>3. f.content = t /\ f.reasoning = e.reasoning /\ f.sent = e.sent BY <2>1 DEF Em
    <2>4. Same(f, e) BY <2>1 DEF Em, Same
    <2>5. PICK s : s = ContentDelta(f, text) OBVIOUS
    <2>6. Cleanly(s, f) BY <2>2, <2>3, <2>5, DeltasClean DEF Intact
    <2>7. Say(e, text) = s BY <1>2, <2>1, <2>5 DEF Say
    <2>8. s \in Em /\ Same(s, e) /\ s.content = t /\ s.reasoning = e.reasoning /\ Clean(s.sent)
      BY <2>3, <2>4, <2>6 DEF Cleanly, Alike, Same
    <2>9. Intact(s) BY <1>2, <2>8 DEF Intact, Same
    <2> QED BY <2>7, <2>8, <2>9 DEF Kindly
  <1>5. Kindly(Think(e, text), e)
    <2>1. PICK f : f = [e EXCEPT !.reasoning = u] OBVIOUS
    <2>2. f \in Em BY <2>1 DEF Em
    <2>3. f.content = e.content /\ f.reasoning = u /\ f.sent = e.sent BY <2>1 DEF Em
    <2>4. Same(f, e) BY <2>1 DEF Em, Same
    <2>5. PICK s : s = ReasoningDelta(f, text) OBVIOUS
    <2>6. Cleanly(s, f) BY <1>3, <2>2, <2>3, <2>5, DeltasClean DEF Intact
    <2>7. Think(e, text) = s BY <1>3, <2>1, <2>5 DEF Think
    <2>8. s \in Em /\ Same(s, e) /\ s.content = e.content /\ s.reasoning = u /\ Clean(s.sent)
      BY <2>3, <2>4, <2>6 DEF Cleanly, Alike, Same
    <2>9. Intact(s) BY <1>3, <2>8 DEF Intact, Same
    <2> QED BY <2>7, <2>8, <2>9 DEF Kindly
  <1> QED BY <1>4, <1>5

\* Whatever else an emitter changes, only its texts matter.
LEMMA IntactSame ==
    ASSUME NEW s, Intact(s), NEW f,
           f.content = s.content, f.reasoning = s.reasoning, f.sent = s.sent,
           Uncut(f.window), Uncut(f.toolBuffer)
    PROVE  Intact(f)
  BY DEF Intact

\* The rest of a window, behind what was said of it.
LEMMA RestIntact ==
    ASSUME NEW e \in Em, Intact(e), NEW s, Kindly(s, e), NEW j, Edge(e.window, j)
    PROVE  /\ Intact([s EXCEPT !.window = From(@, j)])
           /\ \A mode : Intact([s EXCEPT !.window = From(@, j), !.mode = mode])
           /\ \A before, fallback : Intact(ToBuffer(s, j, before, fallback))
  <1>1. e.window \in Text /\ Uncut(e.window) BY EmTexts DEF Intact
  <1>2. s \in Em /\ s.window = e.window /\ Intact(s) BY DEF Kindly, Same
  <1>3. PICK w : w = From(s.window, j) /\ Uncut(w) BY <1>1, <1>2, EdgeParts
  <1>4. Uncut(s.toolBuffer) /\ Uncut(<<>>) BY <1>2, UncutShort DEF Intact
  <1>5. Intact([s EXCEPT !.window = From(@, j)])
    <2>1. PICK f : f = [s EXCEPT !.window = w] OBVIOUS
    <2>2. /\ f.content = s.content /\ f.reasoning = s.reasoning /\ f.sent = s.sent
          /\ f.window = w /\ f.toolBuffer = s.toolBuffer
      BY <1>2, <2>1 DEF Em
    <2>3. Intact(f) BY <1>2, <1>3, <1>4, <2>2, IntactSame
    <2> QED BY <1>3, <2>1, <2>3
  <1>6. ASSUME NEW mode PROVE Intact([s EXCEPT !.window = From(@, j), !.mode = mode])
    <2>1. PICK f : f = [s EXCEPT !.window = w, !.mode = mode] OBVIOUS
    <2>2. /\ f.content = s.content /\ f.reasoning = s.reasoning /\ f.sent = s.sent
          /\ f.window = w /\ f.toolBuffer = s.toolBuffer
      BY <1>2, <2>1 DEF Em
    <2>3. Intact(f) BY <1>2, <1>3, <1>4, <2>2, IntactSame
    <2> QED BY <1>3, <2>1, <2>3
  <1>7. ASSUME NEW before, NEW fallback PROVE Intact(ToBuffer(s, j, before, fallback))
    <2>1. PICK f : f = ToBuffer(s, j, before, fallback) OBVIOUS
    <2>2. /\ f.content = s.content /\ f.reasoning = s.reasoning /\ f.sent = s.sent
          /\ f.window = <<>> /\ f.toolBuffer = w
      BY <1>2, <1>3, <2>1 DEF Em, ToBuffer
    <2>3. Intact(f) BY <1>2, <1>3, <1>4, <2>2, IntactSame
    <2> QED BY <2>1, <2>3
  <1> QED BY <1>5, <1>6, <1>7

\* What is in front of a place is said or thought, whole.
LEMMA FrontIntact ==
    ASSUME Asked(req), NEW e \in Em, Intact(e), NEW j, Edge(e.window, j)
    PROVE  Kindly(Say(e, Before(e.window, j)), e) /\ Kindly(Think(e, Before(e.window, j)), e)
  <1>1. e.window \in Text /\ Uncut(e.window) BY EmTexts DEF Intact
  <1>2. Before(e.window, j) \in Text BY <1>1, BeforeIs DEF Edge
  <1>3. Uncut(Before(e.window, j)) BY <1>1, EdgeParts
  <1>4. req.format \in ThreeFormats BY DEF Asked
  <1> QED BY <1>2, <1>3, <1>4, SpeakIntact

\* No delimiter and no tool call begins or ends within a character.
LEMMA HitsEdge ==
    ASSUME NEW e \in Em, Intact(e)
    PROVE  /\ \A i \in CloseHits(e) \union ThinkHits(e) : Edge(e.window, i) /\ Edge(e.window, i + 2)
           /\ \A i \in ToolHits(e) : Edge(e.window, i)
  <1>1. PICK w \in Text : w = e.window /\ Len(w) \in Nat /\ Uncut(w) BY EmTexts DEF Intact
  <1>2. {"c1", "c2", "o1", "o2"} \subseteq Symbol BY DEF Symbol
  <1>3. ASSUME NEW i \in 1 .. Len(w) - 1, w[i] # "u2", w[i + 1] # "u1"
        PROVE  Edge(w, i) /\ Edge(w, i + 2)
    <2>1. /\ i \in 1 .. Len(w) + 1 /\ i + 2 \in 1 .. Len(w) + 1 /\ (i + 2) - 1 = i + 1 BY <1>1
    <2>2. Edge(w, i + 2) BY <1>1, <1>3, <2>1, EdgeBehind
    <2> QED BY <1>3, <2>1, <2>2 DEF Edge
  <1>4. ASSUME NEW i \in CloseHits(e) PROVE Edge(w, i) /\ Edge(w, i + 2)
    <2>1. i \in 1 .. Len(w) - 1 /\ w[i] = "c1" /\ w[i + 1] = "c2"
      BY <1>1, <1>2, AtIs DEF CloseHits, ThinkClose
    <2> QED BY <1>3, <2>1
  <1>5. ASSUME NEW i \in ThinkHits(e) PROVE Edge(w, i) /\ Edge(w, i + 2)
    <2>1. i \in 1 .. Len(w) - 1 /\ w[i] = "o1" /\ w[i + 1] = "o2"
      BY <1>1, <1>2, AtIs DEF ThinkHits, ThinkOpen
    <2> QED BY <1>3, <2>1
  <1>6. ASSUME NEW i \in ToolHits(e) PROVE Edge(w, i)
    <2>1. i \in ToolStarts(w) /\ i \in 1 .. Len(w) BY <1>1, HitsIn DEF ToolHits
    <2>2. w[i] \in {"t1", "i1", "n"} BY <1>1, <2>1, ToolsAt, WhereIs DEF ToolStarts
    <2>3. i \in 1 .. Len(w) + 1 BY <1>1, <2>1
    <2> QED BY <2>2, <2>3 DEF Edge
  <1> QED BY <1>1, <1>4, <1>5, <1>6

\* Behind an open tool buffer.
LEMMA BufferedIntact ==
    ASSUME NEW e \in Em, Intact(e) PROVE Intact(Buffered(e))
  <1>1. e.window \in Text /\ e.toolBuffer \in Text BY EmTexts
  <1>2. Uncut(e.toolBuffer \o e.window) /\ Uncut(<<>>) BY <1>1, UncutCat, UncutShort DEF Intact
  <1>3. PICK f : f = Buffered(e) OBVIOUS
  <1>4. PICK full, first :
           full = e.toolBuffer \o e.window
           /\ f = [e EXCEPT !.toolBuffer = full, !.window = <<>>, !.firstContent = first]
    BY <1>3 DEF Buffered
  <1>5. /\ f.content = e.content /\ f.reasoning = e.reasoning /\ f.sent = e.sent
        /\ f.window = <<>> /\ f.toolBuffer = full
    BY <1>4 DEF Em
  <1> QED BY <1>2, <1>3, <1>4, <1>5, IntactSame

\* A leading <think> is dropped whole.
LEMMA PrefixIntact ==
    ASSUME NEW e \in Em, Intact(e) PROVE Intact(PrefixDropped(e))
  <1>1. PICK w \in Text : w = e.window /\ Len(w) \in Nat /\ Uncut(w) BY EmTexts DEF Intact
  <1>2. PICK i : i = FirstBlack(w) OBVIOUS
  <1>3. PICK rest : rest = IF i \in At(w, ThinkOpen) THEN From(w, i + Len(ThinkOpen)) ELSE w OBVIOUS
  <1>4. Uncut(rest)
    <2>1. CASE i \in At(w, ThinkOpen)
      <3>1. i \in ThinkHits(e) BY <1>1, <2>1 DEF ThinkHits
      <3>2. Edge(w, i + 2) BY <1>1, <3>1, HitsEdge
      <3>3. Len(ThinkOpen) = 2 BY DEF ThinkOpen
      <3>4. Uncut(From(w, i + 2)) BY <1>1, <3>2, EdgeParts
      <3> QED BY <1>3, <2>1, <3>3, <3>4
    <2>2. CASE i \notin At(w, ThinkOpen) BY <1>1, <1>3, <2>2
    <2> QED BY <2>1, <2>2
  <1>5. PICK f : f = [e EXCEPT !.checkedPrefix = TRUE, !.window = rest] OBVIOUS
  <1>6. PrefixDropped(e) = f BY <1>1, <1>2, <1>3, <1>5 DEF PrefixDropped
  <1>7. /\ f.content = e.content /\ f.reasoning = e.reasoning /\ f.sent = e.sent
        /\ f.window = rest /\ f.toolBuffer = e.toolBuffer
    BY <1>5 DEF Em
  <1>8. Uncut(e.toolBuffer) BY DEF Intact
  <1> QED BY <1>4, <1>6, <1>7, <1>8, IntactSame

\* While it reasons.
LEMMA ReasoningIntact ==
    ASSUME Asked(req), NEW e \in Em, Intact(e)
    PROVE  Intact(Reasoning(e, CloseHits(e), ToolHits(e)).em)
  <1>1. e.window \in Text /\ Len(e.window) \in Nat /\ Uncut(e.window) BY EmTexts DEF Intact
  <1>2. CloseHits(e) \in SUBSET Nat /\ ToolHits(e) \in SUBSET Nat BY HitsIn
  <1> DEFINE closes == CloseHits(e)
             tools  == ToolHits(e)
  <1>3. CASE ~e.checkedPrefix
    <2>1. Reasoning(e, closes, tools) \in {Waits(e), Again(PrefixDropped(e))} BY <1>3 DEF Reasoning
    <2> HIDE DEF closes, tools
    <2>2. Reasoning(e, closes, tools).em \in {e, PrefixDropped(e)} BY <2>1 DEF Waits, Again
    <2>3. Intact(Reasoning(e, closes, tools).em) BY <2>2, PrefixIntact
    <2> QED BY <2>3 DEF closes, tools
  <1>4. CASE e.checkedPrefix /\ closes # {} /\ \A t \in tools : Min(closes) < t
    <2>1. PICK i \in CloseHits(e) : i = Min(closes) BY <1>2, <1>4, MinIs
    <2>2. Edge(e.window, i) /\ Edge(e.window, i + 2) BY HitsEdge
    <2>3. PICK s : s = Think(e, Before(e.window, i)) OBVIOUS
    <2>4. Kindly(s, e) BY <2>2, <2>3, FrontIntact
    <2>5. Intact([s EXCEPT !.window = From(@, i + 2), !.mode = "CONTENT"]) BY <2>2, <2>4, RestIntact
    <2>6. Thought(e, i) = [s EXCEPT !.window = From(@, i + 2), !.mode = "CONTENT"]
      <3>1. Len(ThinkClose) = 2 BY DEF ThinkClose
      <3>2. s.window = e.window BY <2>4 DEF Kindly, Same
      <3> QED BY <2>3, <3>1, <3>2 DEF Thought
    <2>7. Intact(Thought(e, i)) BY <2>5, <2>6
    <2> HIDE DEF closes, tools
    <2>8. Reasoning(e, closes, tools) = Again(Thought(e, i)) BY <1>4, <2>1 DEF Reasoning
    <2>9. Intact(Reasoning(e, closes, tools).em) BY <2>7, <2>8 DEF Again
    <2> QED BY <2>9 DEF closes, tools
  <1>5. CASE e.checkedPrefix /\ ~(closes # {} /\ \A t \in tools : Min(closes) < t) /\ tools # {}
    <2>1. PICK j \in ToolHits(e) : j = Min(tools) BY <1>2, <1>5, MinIs
    <2>2. Edge(e.window, j) BY HitsEdge
    <2>3. PICK s : s = Think(e, Before(e.window, j)) OBVIOUS
    <2>4. Kindly(s, e) BY <2>2, <2>3, FrontIntact
    <2>5. PICK d : d = ReasoningClosed(s) OBVIOUS
    <2>6. Kindly(d, e)
      <3>1. s \in Em /\ Clean(s.sent) /\ Uncut(s.reasoning) BY <2>4 DEF Kindly, Intact
      <3>2. Cleanly(d, s) BY <2>5, <3>1, ItemsClean
      <3>3. Intact(d) BY <2>4, <3>2 DEF Cleanly, Kindly, Intact, Alike, Same
      <3>4. d \in Em /\ Same(d, e) BY <2>4, <3>2 DEF Cleanly, Kindly, Alike, Same
      <3> QED BY <3>3, <3>4 DEF Kindly
    <2>10. PICK b : b = ToBuffer(d, j, TRUE, FALSE) OBVIOUS
    <2>7. Intact(b) BY <2>2, <2>6, <2>10, RestIntact
    <2> HIDE DEF closes, tools
    <2>8. Reasoning(e, closes, tools) = Again(b)
      BY <1>5, <2>1, <2>3, <2>5, <2>10 DEF Reasoning
    <2>9. Intact(Reasoning(e, closes, tools).em) BY <2>7, <2>8 DEF Again
    <2> QED BY <2>9 DEF closes, tools
  <1>6. CASE e.checkedPrefix /\ ~(closes # {} /\ \A t \in tools : Min(closes) < t) /\ tools = {}
    <2>1. PICK cut \in Nat : cut = Releasable(e.window) /\ (cut + 1) - 1 = cut
      <3>1. req.vocabulary.stop \in BOOLEAN BY DEF Asked
      <3>2. Releasable(e.window) \in 0 .. Len(e.window) BY <1>1, <3>1, ReleasableIs
      <3> QED BY <1>1, <3>2
    <2>2. Edge(e.window, cut + 1) BY <1>1, <2>1, ReleasableEdge DEF Asked
    <2>3. PICK s : s = Think(e, Before(e.window, cut + 1)) OBVIOUS
    <2>4. Kindly(s, e) BY <2>2, <2>3, FrontIntact
    <2>5. Intact([s EXCEPT !.window = From(@, cut + 1)]) BY <2>2, <2>4, RestIntact
    <2>6. Thinking(e, cut) = [s EXCEPT !.window = From(@, cut + 1)]
      BY <2>1, <2>3 DEF Thinking, Before
    <2>7. Intact(Thinking(e, cut)) BY <2>5, <2>6
    <2> HIDE DEF closes, tools
    <2>8. Reasoning(e, closes, tools) = Waits(Thinking(e, cut)) BY <1>6, <2>1 DEF Reasoning
    <2>9. Intact(Reasoning(e, closes, tools).em) BY <2>7, <2>8 DEF Waits
    <2> QED BY <2>9 DEF closes, tools
  <1> HIDE DEF closes, tools
  <1>7. e.checkedPrefix \in BOOLEAN BY DEF Em
  <1>8. Intact(Reasoning(e, closes, tools).em)
    BY <1>3, <1>4, <1>5, <1>6, <1>7 DEF closes, tools
  <1> QED BY <1>8 DEF closes, tools

\* At a delimiter in the answer's text.
LEMMA DividedIntact ==
    ASSUME Asked(req), NEW e \in Em, Intact(e),
           NEW first \in ThinkHits(e) \union CloseHits(e) \union ToolHits(e)
    PROVE  Intact(Divided(Say(e, Before(e.window, first)), first, ThinkHits(e), CloseHits(e)).em)
  <1>1. Edge(e.window, first) BY HitsEdge
  <1>2. PICK s : s = Say(e, Before(e.window, first)) OBVIOUS
  <1>3. Kindly(s, e) BY <1>1, <1>2, FrontIntact
  <1>4. Len(ThinkOpen) = 2 /\ Len(ThinkClose) = 2 BY DEF ThinkOpen, ThinkClose
  <1>5. PICK l : l = Divided(s, first, ThinkHits(e), CloseHits(e)) OBVIOUS
  <1>6. CASE first \in ThinkHits(e)
    <2>1. Intact([s EXCEPT !.window = From(@, first + 2), !.mode = "REASONING"])
      BY <1>3, <1>6, HitsEdge, RestIntact
    <2>2. l.em = [s EXCEPT !.window = From(@, first + 2), !.mode = "REASONING"]
      BY <1>4, <1>5, <1>6 DEF Divided, Again
    <2> QED BY <1>2, <1>5, <2>1, <2>2
  <1>7. CASE first \notin ThinkHits(e) /\ first \in CloseHits(e)
    <2>1. Intact([s EXCEPT !.window = From(@, first + 2)]) BY <1>3, <1>7, HitsEdge, RestIntact
    <2>2. l.em = [s EXCEPT !.window = From(@, first + 2)] BY <1>4, <1>5, <1>7 DEF Divided, Again
    <2> QED BY <1>2, <1>5, <2>1, <2>2
  <1>8. CASE first \notin ThinkHits(e) /\ first \notin CloseHits(e)
    <2>1. Intact(ToBuffer(s, first, FALSE, FALSE)) BY <1>1, <1>3, RestIntact
    <2>2. l.em = ToBuffer(s, first, FALSE, FALSE) BY <1>5, <1>8 DEF Divided, Again
    <2> QED BY <1>2, <1>5, <2>1, <2>2
  <1> QED BY <1>6, <1>7, <1>8

\* In any mode.
LEMMA RoundIntact ==
    ASSUME Asked(req), NEW e \in Em, Intact(e) PROVE Intact(Round(e).em)
  <1>1. e.window \in Text /\ Len(e.window) \in Nat /\ Uncut(e.window) /\ e.mode \in Modes
    BY EmTexts DEF Intact
  <1>2. CASE e.mode = "TOOL_BUFFER" BY <1>2, BufferedIntact DEF Round, Waits
  <1>3. CASE e.mode = "REASONING" BY <1>3, ReasoningIntact DEF Round
  <1>4. CASE e.mode = "CONTENT"
    <2> DEFINE hits  == ThinkHits(e) \union CloseHits(e) \union ToolHits(e)
               first == FirstOf(hits)
    <2>1. hits \in SUBSET Nat BY HitsIn
    <2>2. Round(e) = Answering(e, first, ThinkHits(e), CloseHits(e)) BY <1>4 DEF Round
    <2>3. CASE hits # {} /\ first > 0
      <3>1. PICK i \in hits : i = first BY <2>1, <2>3, MinIs DEF FirstOf
      <3>2. Intact(Divided(Say(e, Before(e.window, i)), i, ThinkHits(e), CloseHits(e)).em)
        BY DividedIntact
      <3> HIDE DEF first
      <3>3. Answering(e, first, ThinkHits(e), CloseHits(e))
               = Divided(Say(e, Before(e.window, i)), i, ThinkHits(e), CloseHits(e))
        BY <2>3, <3>1 DEF Answering
      <3> QED BY <2>2, <3>2, <3>3
    <2>4. CASE ~(first > 0) /\ BareJson(e)
      <3>1. Kindly(e, e) BY DEF Kindly, Same
      <3>2. 1 \in 1 .. Len(e.window) + 1 BY <1>1
      <3>3. Edge(e.window, 1) BY <1>1, <3>2, EdgeBehind
      <3>6. PICK b : b = ToBuffer(e, 1, FALSE, TRUE) OBVIOUS
      <3>4. Intact(b) BY <3>1, <3>3, <3>6, RestIntact
      <3> HIDE DEF first
      <3>5. Answering(e, first, ThinkHits(e), CloseHits(e)) = Again(b)
        BY <2>4, <3>6 DEF Answering
      <3> QED BY <2>2, <3>4, <3>5 DEF Again
    <2>5. CASE ~(first > 0) /\ ~BareJson(e)
      <3>1. PICK cut \in Nat : cut = NameHeld(e.window, Releasable(e.window)) /\ (cut + 1) - 1 = cut
        <4>1. req.vocabulary.stop \in BOOLEAN BY DEF Asked
        <4>2. PICK r \in Nat : r = Releasable(e.window) BY <1>1, <4>1, ReleasableIs
        <4>3. NameHeld(e.window, r) \in 0 .. r BY <1>1, <4>1, <4>2, ReleasableIs
        <4> QED BY <4>2, <4>3
      <3>2. Edge(e.window, cut + 1) BY <1>1, <3>1, ReleasableEdge DEF Asked
      <3>3. PICK s : s = Say(e, Before(e.window, cut + 1)) OBVIOUS
      <3>4. Kindly(s, e) BY <3>2, <3>3, FrontIntact
      <3>5. Intact([s EXCEPT !.window = From(@, cut + 1)]) BY <3>2, <3>4, RestIntact
      <3>6. Saying(e, cut) = [s EXCEPT !.window = From(@, cut + 1)] BY <3>1, <3>3 DEF Saying, Before
      <3> HIDE DEF first
      <3>7. Answering(e, first, ThinkHits(e), CloseHits(e)) = Waits(Saying(e, cut))
        BY <2>5, <3>1 DEF Answering
      <3> QED BY <2>2, <3>5, <3>6, <3>7 DEF Waits
    <2>6. hits = {} => ~(first > 0) BY DEF FirstOf
    <2> HIDE DEF hits, first
    <2> QED BY <2>3, <2>4, <2>5, <2>6
  <1> QED BY <1>1, <1>2, <1>3, <1>4 DEF Modes

\* So does the loop, of which no round is the first to cut one.
LEMMA ProcessIntact ==
    ASSUME Asked(req), NEW e, Going(req, e), Intact(e) PROVE Intact(Process(e))
  <1>1. Len(e.window) \in Nat BY EmTexts DEF Going, Running, Typed
  <1>2. PICK rounds \in Nat : rounds = Len(e.window) + 3 BY <1>1
  <1> DEFINE f == CHOOSE f : Rounds(f, e, rounds)
  <1>3. Rounds(f, e, rounds) BY RoundsExist
  <1>4. Process(e) = f[rounds].em BY <1>2 DEF Process, Rounds
  <1> HIDE DEF f
  <1> DEFINE A == {m \in 0 .. rounds : ~Intact(f[m].em)}
  <1>5. ASSUME A # {} PROVE FALSE
    <2>1. A \in SUBSET Nat OBVIOUS
    <2>2. PICK m \in A : \A j \in A : m <= j BY <1>5, <2>1, LeastNumber
    <2>3. m \in 0 .. rounds /\ m \in Nat /\ ~Intact(f[m].em) BY <2>2
    <2>4. f[m] = IF m = 0 THEN Again(e)
                 ELSE IF f[m - 1].again THEN Round(f[m - 1].em) ELSE f[m - 1]
      BY <1>3, <2>3 DEF Rounds
    <2>5. CASE m = 0 BY <2>3, <2>4, <2>5 DEF Again
    <2>6. CASE m # 0
      <3>1. m - 1 \in 0 .. rounds /\ ~(m <= m - 1) BY <2>3, <2>6
      <3>2. PICK l : l = f[m - 1] OBVIOUS
      <3>3. Intact(l.em) BY <2>2, <3>1, <3>2
      <3>4. Goes(req, l, e) BY <1>3, <3>1, <3>2, RoundsGo
      <3>5. l.em \in Em BY <3>4 DEF Goes, Onward, Running, Typed
      <3>6. Intact(Round(l.em).em) BY <3>3, <3>5, RoundIntact
      <3> QED BY <2>3, <2>4, <2>6, <3>2, <3>3, <3>6
    <2> QED BY <2>5, <2>6
  <1> HIDE DEF A
  <1>6. rounds \in 0 .. rounds OBVIOUS
  <1>7. Intact(f[rounds].em) BY <1>5, <1>6 DEF A
  <1> QED BY <1>4, <1>7

\* At a stop sequence, what is in front of it goes out whole.
LEMMA StoppedIntact ==
    ASSUME Asked(req), NEW t \in Em, Intact(t), StopHits(t.window) # {}
    PROVE  Intact(Stopped(t))
  <1>1. PICK w \in Text : w = t.window /\ Uncut(w) /\ Len(w) \in Nat BY EmTexts DEF Intact
  <1>2. PICK m \in Nat : m = Min(StopHits(t.window)) /\ Edge(w, m)
    <2>1. StopHits(w) = At(w, Stop) BY <1>1 DEF StopHits
    <2>2. At(w, Stop) \in SUBSET Nat
          /\ \A i \in At(w, Stop) : i \in 1 .. Len(w) - 2 /\ w[i] = "s1"
      BY <1>1, StopAt
    <2>3. Min(At(w, Stop)) \in At(w, Stop) /\ Min(At(w, Stop)) \in Nat BY <1>1, <2>1, <2>2, MinIs
    <2>4. PICK m \in Nat : m = Min(At(w, Stop)) /\ m \in 1 .. Len(w) - 2 /\ w[m] = "s1"
      BY <2>2, <2>3
    <2>5. m \in 1 .. Len(w) + 1 BY <1>1, <2>4
    <2> QED BY <1>1, <2>1, <2>4, <2>5 DEF Edge
  <1>3. PICK pre \in Text : pre = InFront(t) /\ Uncut(pre)
    <2>1. Before(w, m) \in Text BY <1>1, <1>2, BeforeIs DEF Edge
    <2>2. Uncut(Before(w, m)) BY <1>1, <1>2, EdgeParts
    <2> QED BY <1>1, <1>2, <2>1, <2>2 DEF InFront
  <1>4. <<>> \in Text /\ t.reasoning \in Text /\ Uncut(<<>>) BY <1>1, EmTexts, CatIs, UncutShort
  <1> DEFINE ended == [t EXCEPT !.window = <<>>, !.stopHit = TRUE]
  <1>5. ended \in Em BY <1>4 DEF Em
  <1>6. /\ ended.sent = t.sent /\ ended.content = t.content /\ ended.reasoning = t.reasoning
        /\ ended.window = <<>> /\ ended.toolBuffer = t.toolBuffer /\ ended.block = t.block
    BY DEF Em
  <1>7. Stopped(t) =
           IF t.mode # "REASONING" THEN Say(ended, pre)
           ELSE IF pre = <<>> \/ req.format = "responses" THEN [ended EXCEPT !.reasoning = @ \o pre]
           ELSE Delta([ended EXCEPT !.reasoning = @ \o pre], "thinking",
                      IF req.format = "anthropic" THEN ended.block ELSE 0, pre)
    BY <1>3, <1>6 DEF Stopped
  <1> HIDE DEF ended
  <1>8. Uncut(t.toolBuffer) BY DEF Intact
  <1>9. Intact(ended) BY <1>4, <1>6, <1>8, IntactSame
  <1>10. CASE t.mode # "REASONING"
    <2>1. Kindly(Say(ended, pre), ended) BY <1>3, <1>5, <1>9, SpeakIntact DEF Asked
    <2>2. Stopped(t) = Say(ended, pre) BY <1>7, <1>10
    <2> QED BY <2>1, <2>2 DEF Kindly
  <1>11. CASE t.mode = "REASONING"
    <2>1. PICK more \in Text : more = ended.reasoning \o pre /\ Uncut(more)
      <3>1. Uncut(t.reasoning) BY DEF Intact
      <3>2. t.reasoning \o pre \in Text BY <1>4, CatIs
      <3>3. Uncut(t.reasoning \o pre) BY <1>3, <1>4, <3>1, UncutCat
      <3> QED BY <1>6, <3>2, <3>3
    <2>2. PICK d : d = [ended EXCEPT !.reasoning = more] OBVIOUS
    <2>3. d \in Em BY <1>5, <2>2 DEF Em
    <2>4. /\ d.sent = ended.sent /\ d.content = ended.content /\ d.reasoning = more
          /\ d.window = ended.window /\ d.toolBuffer = ended.toolBuffer
      BY <1>5, <2>2 DEF Em
    <2>5. Intact(d) BY <1>9, <2>1, <2>4 DEF Intact
    <2>6. PICK index \in Nat : index = IF req.format = "anthropic" THEN ended.block ELSE 0
      <3>1. ended.block \in Nat BY <1>5 DEF Em
      <3> QED BY <3>1
    <2>7. Stopped(t) = IF pre = <<>> \/ req.format = "responses" THEN d
                       ELSE Delta(d, "thinking", index, pre)
      BY <1>7, <1>11, <2>1, <2>2, <2>6
    <2>8. Intact(Delta(d, "thinking", index, pre))
      <3>1. Clean(d.sent) BY <2>5 DEF Intact
      <3>2. PICK f : f = Delta(d, "thinking", index, pre) OBVIOUS
      <3>3. Cleanly(f, d) BY <1>3, <2>3, <2>6, <3>1, <3>2, DeltaClean
      <3>4. Intact(f) BY <2>5, <3>3 DEF Cleanly, Alike, Same, Intact
      <3> QED BY <3>2, <3>4
    <2> QED BY <2>5, <2>7, <2>8
  <1> QED BY <1>10, <1>11

\* A token cuts no character, whatever halves of one it brings.
LEMMA EmitTokenIntact ==
    ASSUME Asked(req), NEW e, Running(req, e), Intact(e), NEW piece \in Text, Unwrapped(piece)
    PROVE  Intact(EmitToken(e, piece))
  <1>1. e \in Em /\ e.stopHit \in BOOLEAN BY EmTexts DEF Running, Typed
  <1>2. CASE e.stopHit
    <2>1. EmitToken(e, piece) = e BY <1>2 DEF EmitToken
    <2> QED BY <2>1
  <1>3. CASE ~e.stopHit
    <2>1. PICK t \in Em, text \in Text, x \in Text :
             EmitToken(e, piece) = Advanced(t) /\ text = Sanitized(x) /\ Received(t, e, piece, text)
      BY <1>3, TokenTaken
    <2>2. t \in Em BY <2>1 DEF Received, Typed
    <2>3. /\ t.sent = e.sent /\ t.content = e.content /\ t.reasoning = e.reasoning
          /\ t.window = e.window \o text /\ t.toolBuffer = e.toolBuffer
      BY <2>1 DEF Received
    <2>4. Uncut(t.window)
      <3>1. e.window \in Text /\ Uncut(e.window) BY <1>1, EmTexts DEF Intact
      <3>2. Uncut(text) BY <2>1, SanitizedUncut
      <3> QED BY <2>3, <3>1, <3>2, UncutCat
    <2>5. Uncut(t.toolBuffer) BY <2>3 DEF Intact
    <2>6. Intact(t) BY <2>3, <2>4, <2>5, IntactSame
    <2>7. CASE t.mode # "TOOL_BUFFER" /\ StopHits(t.window) # {}
      <3>1. EmitToken(e, piece) = Stopped(t) BY <2>1, <2>7 DEF Advanced
      <3> QED BY <2>2, <2>6, <2>7, <3>1, StoppedIntact
    <2>8. CASE ~(t.mode # "TOOL_BUFFER" /\ StopHits(t.window) # {})
      <3>1. EmitToken(e, piece) = Process(t) BY <2>1, <2>8 DEF Advanced
      <3>2. Going(req, t) BY <2>1, <2>8 DEF Received
      <3> QED BY <2>6, <3>1, <3>2, ProcessIntact
    <2> QED BY <2>7, <2>8
  <1> QED BY <1>1, <1>2, <1>3

\* Nor does telling what a token is.
LEMMA ClassifiedIntact ==
    ASSUME NEW e \in Em, Intact(e), NEW token PROVE Intact(Classified(e, token))
  <1>1. PICK g : g = (~HasTools /\ IF e.suppress THEN token # "E" ELSE token = "T") OBVIOUS
  <1>2. PICK c : c = [e EXCEPT !.suppress = g] OBVIOUS
  <1>3. Classified(e, token) = c BY <1>1, <1>2 DEF Classified
  <1>4. /\ c.sent = e.sent /\ c.content = e.content /\ c.reasoning = e.reasoning
        /\ c.window = e.window /\ c.toolBuffer = e.toolBuffer
    BY <1>2 DEF Em
  <1> QED BY <1>3, <1>4 DEF Intact

\* A token of a streamed answer.
LEMMA StreamedIntact ==
    ASSUME req \in Requests, NEW e, Running(req, e), Intact(e), NEW token \in req.vocabulary.tokens
    PROVE  Intact(Streamed(e, token))
  <1>1. Asked(req) /\ e \in Em BY ReqIs DEF Running, Typed
  <1>2. PICK c : c = Classified(e, token) OBVIOUS
  <1>3. Running(req, c) /\ Intact(c) BY <1>1, <1>2, ClassifiedIs, ClassifiedIntact
  <1>4. PICK piece \in Text : piece = TokenText[token] /\ Unwrapped(piece) BY TokenTexts
  <1>5. Intact(EmitToken(c, piece)) BY <1>1, <1>3, <1>4, EmitTokenIntact
  <1>6. Streamed(e, token) = c \/ Streamed(e, token) = EmitToken(c, piece)
    BY <1>2, <1>4 DEF Streamed
  <1> QED BY <1>3, <1>5, <1>6

\* A token fed once more.
LEMMA FedIntact ==
    ASSUME req \in Requests, NEW l, Running(req, l.em), Intact(l.em),
           NEW token \in req.vocabulary.tokens
    PROVE  Intact(Fed(l, token).em)
  <1>1. PICK e : e = l.em /\ Running(req, e) /\ Intact(e) OBVIOUS
  <1>2. Asked(req) /\ e \in Em BY <1>1, ReqIs DEF Running, Typed
  <1>3. PICK c : c = Classified(e, token) OBVIOUS
  <1>4. Running(req, c) /\ Intact(c) BY <1>1, <1>2, <1>3, ClassifiedIs, ClassifiedIntact
  <1>5. PICK piece \in Text : piece = TokenText[token] /\ Unwrapped(piece) BY TokenTexts
  <1>6. PICK f : f = EmitToken(c, piece) OBVIOUS
  <1>7. Intact(f) BY <1>2, <1>4, <1>5, <1>6, EmitTokenIntact
  <1>8. Fed(l, token) = l \/ Fed(l, token).em = c \/ Fed(l, token).em = f
    BY <1>1, <1>3, <1>5, <1>6 DEF Fed, Again, Waits
  <1>9. Fed(l, token).em \in {e, c, f} BY <1>1, <1>8
  <1> QED BY <1>1, <1>4, <1>7, <1>9

\* What cuts nothing leaves all whole.
LEMMA CleanlyIntact ==
    ASSUME NEW e, Intact(e), NEW d, Cleanly(d, e) PROVE Intact(d)
  BY DEF Cleanly, Alike, Same, Intact

\* All tokens, fed at once.
LEMMA ReplayedIntact ==
    ASSUME req \in Requests, NEW e, Running(req, e), e.pieces = <<>>, Intact(e),
           NEW fed \in Seq(req.vocabulary.tokens)
    PROVE  Intact(Replayed(e, fed))
  <1>1. PICK count \in Nat : count = Len(fed) BY LenProperties
  <1> DEFINE f == CHOOSE f : Feeds(f, e, fed, count)
  <1>2. Feeds(f, e, fed, count) BY FeedsExist
  <1>3. Replayed(e, fed) = f[count].em BY <1>1 DEF Replayed, Feeds
  <1> HIDE DEF f
  <1>4. \A i \in 1 .. count : fed[i] \in req.vocabulary.tokens BY <1>1, ElementOfSeq
  <1> DEFINE Good(m) == Running(req, f[m].em) /\ Len(f[m].em.pieces) <= m /\ Intact(f[m].em)
             A == {m \in 0 .. count : ~Good(m)}
  <1>5. ASSUME A # {} PROVE FALSE
    <2> HIDE DEF Good
    <2>1. A \in SUBSET Nat OBVIOUS
    <2>2. PICK m \in A : \A j \in A : m <= j BY <1>5, <2>1, LeastNumber
    <2>3. m \in 0 .. count /\ m \in Nat /\ ~Good(m) BY <2>2
    <2>4. f[m] = IF m = 0 THEN Again(e) ELSE Fed(f[m - 1], fed[m]) BY <1>2, <2>3 DEF Feeds
    <2>5. CASE m = 0
      <3>1. f[m].em = e BY <2>4, <2>5 DEF Again
      <3>2. Len(<<>>) <= 0 OBVIOUS
      <3> QED BY <2>3, <2>5, <3>1, <3>2 DEF Good
    <2>6. CASE m # 0
      <3>1. m - 1 \in 0 .. count /\ ~(m <= m - 1) /\ m \in 1 .. count BY <2>3, <2>6
      <3>2. Good(m - 1) BY <2>2, <3>1
      <3>3. PICK k \in Nat : k = m - 1 /\ k + 1 = m BY <2>3, <3>1
      <3> DEFINE l == f[k]
      <3>4. Running(req, l.em) /\ Len(l.em.pieces) <= k /\ Intact(l.em) BY <3>2, <3>3 DEF Good
      <3>5. Running(req, Fed(l, fed[m]).em) /\ Len(Fed(l, fed[m]).em.pieces) <= k + 1
        BY <1>4, <3>1, <3>4, FedIs
      <3>6. Intact(Fed(l, fed[m]).em) BY <1>4, <3>1, <3>4, FedIntact
      <3> QED BY <2>3, <2>4, <2>6, <3>3, <3>5, <3>6 DEF Good
    <2> QED BY <2>5, <2>6
  <1> HIDE DEF Good
  <1>6. Good(count) BY <1>5
  <1> QED BY <1>3, <1>6 DEF Good

\* A new emitter has no texts, and its first event none either.
LEMMA StartedIntact ==
    ASSUME req \in Requests
    PROVE  Intact(Emitter(req.thinking)) /\ Intact(Started(Emitter(req.thinking)))
  <1> DEFINE e == Emitter(req.thinking)
  <1>1. req.thinking \in BOOLEAN BY DEF Requests
  <1>2. /\ e \in Em /\ e.window = <<>> /\ e.toolBuffer = <<>> /\ e.content = <<>>
        /\ e.reasoning = <<>> /\ e.sent = <<>> /\ e.kind \in {"text", "thinking"}
    BY <1>1, EmitterIs
  <1> HIDE DEF e
  <1>3. <<>> \in Text /\ Uncut(<<>>) BY UncutShort, EmptySeq DEF Text
  <1>4. Clean(<<>>)
    <2>1. Len(<<>>) = 0 /\ 1 .. 0 = {} OBVIOUS
    <2> QED BY <2>1 DEF Clean
  <1>5. Intact(e) BY <1>2, <1>3, <1>4 DEF Intact
  <1>6. \A kind \in {"text", "thinking"} : Intact(Send(e, <<Event("open", kind, 0, <<>>)>>))
    <2>1. TAKE kind \in {"text", "thinking"}
    <2>2. PICK v : v = Event("open", kind, 0, <<>>) OBVIOUS
    <2>3. v \in Events /\ v.text = <<>> BY <1>3, <2>2 DEF Event, Events
    <2>4. Cleanly(Send(e, <<v>>), e) BY <1>2, <1>3, <1>4, <2>3, SendClean
    <2> QED BY <1>5, <2>2, <2>4, CleanlyIntact
  <1>7. Intact(Started(e))
    <2>1. CASE req.format = "anthropic" BY <1>2, <1>6, <2>1 DEF Started
    <2>2. CASE req.format = "responses" /\ ~req.thinking
      <3>1. PICK d : d = Send(e, <<Event("open", "text", 0, <<>>)>>) OBVIOUS
      <3>2. Intact(d) BY <1>6, <3>1
      <3>3. d \in Em
        <4>1. PICK v : v = Event("open", "text", 0, <<>>) OBVIOUS
        <4>2. v \in Events BY <1>3, <4>1 DEF Event, Events
        <4> QED BY <1>2, <3>1, <4>1, <4>2, SendIs
      <3>4. PICK f : f = [d EXCEPT !.messageOpen = TRUE] OBVIOUS
      <3>5. /\ f.sent = d.sent /\ f.content = d.content /\ f.reasoning = d.reasoning
            /\ f.window = d.window /\ f.toolBuffer = d.toolBuffer
        BY <3>3, <3>4 DEF Em
      <3>6. Started(e) = f BY <2>2, <3>1, <3>4 DEF Started
      <3> QED BY <3>2, <3>5, <3>6 DEF Intact
    <2>3. CASE ~(req.format = "anthropic" \/ (req.format = "responses" /\ ~req.thinking))
      BY <1>5, <2>3 DEF Started
    <2> QED BY <2>1, <2>2, <2>3
  <1> QED BY <1>5, <1>7 DEF e

\* Half a character that was held back is replaced at the end.
LEMMA FlushedIntact ==
    ASSUME Asked(req), NEW e, Running(req, e), Intact(e) PROVE Intact(Flushed(e))
  <1>1. e \in Em /\ Unwrapped(e.tail) BY DEF Running, Typed, Plainly
  <1>2. /\ e.window \in Text /\ e.raw \in Text /\ e.toolBuffer \in Text /\ e.tail \in Text
        /\ e.mode \in Modes
    BY <1>1, EmTexts
  <1>3. PICK rest \in Text : rest = Sanitized(e.tail) /\ Uncut(rest)
    <2>1. PICK tail \in Text : tail = e.tail /\ Unwrapped(tail) BY <1>1, <1>2
    <2> QED BY <2>1, SanitizedIs, SanitizedUncut
  <1>4. PICK raw \in Text : raw = e.raw \o rest BY <1>2, CatIs
  <1>5. PICK text \in Text : text = e.window \o rest /\ Uncut(text)
    <2>1. e.window \o rest \in Text BY <1>2, CatIs
    <2>2. Uncut(e.window) BY DEF Intact
    <2> QED BY <1>2, <1>3, <2>1, <2>2, UncutCat
  <1> DEFINE all == [e EXCEPT !.tail = <<>>, !.raw = raw, !.window = <<>>]
  <1>6. <<>> \in Text /\ Uncut(<<>>) BY UncutShort, EmptySeq DEF Text
  <1>7. Flushed(e) = CASE e.mode = "REASONING" -> Think(all, text)
                       [] e.mode = "CONTENT" ->
                             IF ZeroArgCall([e EXCEPT !.window = text])
                             THEN [all EXCEPT !.toolBuffer = <<"z">>, !.mode = "TOOL_BUFFER"]
                             ELSE Say(all, text)
                       [] e.mode = "TOOL_BUFFER" -> [all EXCEPT !.toolBuffer = @ \o text]
    BY <1>3, <1>4, <1>5 DEF Flushed
  <1>8. all \in Em BY <1>1, <1>6 DEF Em
  <1>9. /\ all.sent = e.sent /\ all.content = e.content /\ all.reasoning = e.reasoning
        /\ all.window = <<>> /\ all.toolBuffer = e.toolBuffer
    BY <1>1 DEF Em
  <1> HIDE DEF all
  <1>10. Uncut(e.toolBuffer) BY DEF Intact
  <1>11. Intact(all) BY <1>6, <1>9, <1>10, IntactSame
  <1>12. Intact(Say(all, text)) /\ Intact(Think(all, text))
    BY <1>5, <1>8, <1>11, SpeakIntact DEF Asked, Kindly
  <1>13. Intact([all EXCEPT !.toolBuffer = <<"z">>, !.mode = "TOOL_BUFFER"])
    <2>1. PICK f : f = [all EXCEPT !.toolBuffer = <<"z">>, !.mode = "TOOL_BUFFER"] OBVIOUS
    <2>2. /\ f.sent = all.sent /\ f.content = all.content /\ f.reasoning = all.reasoning
          /\ f.window = <<>> /\ f.toolBuffer = <<"z">>
      BY <1>8, <1>9, <2>1 DEF Em
    <2>3. Uncut(<<"z">>)
      <3>1. "z" \notin {"u1", "u2"} OBVIOUS
      <3> QED BY <3>1, UncutShort
    <2> QED BY <1>6, <1>11, <2>1, <2>2, <2>3, IntactSame
  <1>14. Intact([all EXCEPT !.toolBuffer = @ \o text])
    <2>1. PICK f : f = [all EXCEPT !.toolBuffer = @ \o text] OBVIOUS
    <2>2. /\ f.sent = all.sent /\ f.content = all.content /\ f.reasoning = all.reasoning
          /\ f.window = <<>> /\ f.toolBuffer = e.toolBuffer \o text
      BY <1>8, <1>9, <2>1 DEF Em
    <2>3. Uncut(e.toolBuffer \o text) BY <1>2, <1>5, <1>10, UncutCat
    <2> QED BY <1>6, <1>11, <2>1, <2>2, <2>3, IntactSame
  <1>15. CASE e.mode = "REASONING" BY <1>7, <1>12, <1>15
  <1>16. CASE e.mode = "CONTENT"
    <2>1. Flushed(e) = IF ZeroArgCall([e EXCEPT !.window = text])
                       THEN [all EXCEPT !.toolBuffer = <<"z">>, !.mode = "TOOL_BUFFER"]
                       ELSE Say(all, text)
      BY <1>7, <1>16
    <2> QED BY <1>12, <1>13, <2>1
  <1>17. CASE e.mode = "TOOL_BUFFER" BY <1>7, <1>14, <1>17
  <1> QED BY <1>2, <1>15, <1>16, <1>17 DEF Modes

\* Counting the first token of the visible answer changes no text.
LEMMA MarkedIntact ==
    ASSUME NEW e \in Em, Intact(e), NEW first \in Int
    PROVE  [e EXCEPT !.firstContent = first] \in Em /\ Intact([e EXCEPT !.firstContent = first])
  <1>1. PICK d : d = [e EXCEPT !.firstContent = first] OBVIOUS
  <1>2. d \in Em BY <1>1 DEF Em
  <1>3. /\ d.sent = e.sent /\ d.content = e.content /\ d.reasoning = e.reasoning
        /\ d.window = e.window /\ d.toolBuffer = e.toolBuffer
    BY <1>1 DEF Em
  <1> QED BY <1>1, <1>2, <1>3 DEF Intact

\* A </think> neither begins nor ends within a character.
LEMMA CloseEdge ==
    ASSUME NEW text \in Text, Uncut(text), NEW i \in At(text, ThinkClose)
    PROVE  i \in Nat /\ Edge(text, i) /\ Edge(text, i + 2)
  <1>1. Len(text) \in Nat BY TextIs
  <1>2. i \in 1 .. Len(text) - 1 /\ text[i] = "c1" /\ text[i + 1] = "c2"
    <2>1. "c1" \in Symbol /\ "c2" \in Symbol BY DEF Symbol
    <2> QED BY <2>1, AtIs DEF ThinkClose
  <1>3. /\ i \in Nat /\ i \in 1 .. Len(text) + 1 /\ i + 2 \in 1 .. Len(text) + 1
        /\ (i + 2) - 1 = i + 1
    BY <1>1, <1>2
  <1>4. Edge(text, i) BY <1>2, <1>3 DEF Edge
  <1>5. Edge(text, i + 2) BY <1>2, <1>3, EdgeBehind
  <1> QED BY <1>3, <1>4, <1>5

\* Nor is one cut in text the parser left over, at a </think> or elsewhere.
LEMMA RecoveredIntact ==
    ASSUME Asked(req), NEW e \in Em, Intact(e), NEW cleaned \in Text, Uncut(cleaned)
    PROVE  Kindly(Recovered(e, cleaned), Recovered(e, cleaned))
  <1> DEFINE close == Min(At(cleaned, ThinkClose))
             content == From(cleaned, close + Len(ThinkClose))
             first == IF e.firstContent # -1 THEN e.firstContent
                      ELSE IF content = <<>> THEN e.count ELSE Max({0, e.count - 1})
             marked == [e EXCEPT !.firstContent = first]
  <1>1. Recovered(e, cleaned) =
           IF At(cleaned, ThinkClose) # {} THEN Say(Think(marked, Before(cleaned, close)), content)
           ELSE IF e.fromReasoning THEN Think(e, cleaned) ELSE Say(e, cleaned)
    BY DEF Recovered
  <1>2. first \in Int
    <2>1. PICK n \in Nat : n = e.count BY DEF Em
    <2>2. Max({0, n - 1}) \in 0 .. n BY MaxPair
    <2>3. PICK m \in 0 .. n : m = Max({0, e.count - 1}) BY <2>1, <2>2
    <2>4. e.firstContent \in Int BY DEF Em
    <2>5. first \in {e.firstContent, e.count, m} BY <2>3
    <2> HIDE DEF first
    <2> QED BY <2>1, <2>4, <2>5
  <1>3. req.format \in ThreeFormats BY DEF Asked
  <1>4. CASE At(cleaned, ThinkClose) # {}
    <2> HIDE DEF first
    <2>1. PICK d : d = marked OBVIOUS
    <2>2. d \in Em /\ Intact(d) BY <1>2, <2>1, MarkedIntact
    <2> HIDE DEF marked
    <2>3. PICK i \in At(cleaned, ThinkClose) : i = close
      <3>1. At(cleaned, ThinkClose) \in SUBSET Nat
        <4>1. "c1" \in Symbol /\ "c2" \in Symbol BY DEF Symbol
        <4> QED BY <4>1, AtIs DEF ThinkClose
      <3> QED BY <1>4, <3>1, MinIs
    <2>4. i \in Nat /\ Edge(cleaned, i) /\ Edge(cleaned, i + 2) BY CloseEdge
    <2>5. PICK front \in Text : front = Before(cleaned, close) /\ Uncut(front)
      <3>1. Before(cleaned, i) \in Text BY <2>4, BeforeIs DEF Edge
      <3>2. Uncut(Before(cleaned, i)) BY <2>4, EdgeParts
      <3> QED BY <2>3, <3>1, <3>2
    <2>6. PICK rest \in Text : rest = content /\ Uncut(rest)
      <3>1. Len(ThinkClose) = 2 BY DEF ThinkClose
      <3>2. i + 2 \in Nat /\ i + 2 >= 1 BY <2>4
      <3>3. From(cleaned, i + 2) \in Text BY <3>2, FromIs
      <3>4. Uncut(From(cleaned, i + 2)) BY <2>4, EdgeParts
      <3> QED BY <2>3, <3>1, <3>3, <3>4
    <2> HIDE DEF close, content
    <2>7. PICK thought : thought = Think(d, front) OBVIOUS
    <2>8. thought \in Em /\ Intact(thought) BY <1>3, <2>2, <2>5, <2>7, SpeakIntact DEF Kindly
    <2>9. PICK said : said = Say(thought, rest) OBVIOUS
    <2>10. said \in Em /\ Intact(said) BY <1>3, <2>6, <2>8, <2>9, SpeakIntact DEF Kindly
    <2>11. Recovered(e, cleaned) = said BY <1>1, <1>4, <2>1, <2>5, <2>6, <2>7, <2>9
    <2> QED BY <2>10, <2>11 DEF Kindly, Same
  <1>5. CASE At(cleaned, ThinkClose) = {}
    <2>1. PICK s : s = Recovered(e, cleaned) OBVIOUS
    <2>2. s \in {Say(e, cleaned), Think(e, cleaned)} BY <1>1, <1>5, <2>1
    <2>3. Kindly(s, e) BY <1>3, <2>2, SpeakIntact
    <2> QED BY <2>1, <2>3 DEF Kindly, Same
  <1> QED BY <1>4, <1>5

\* Nor in text behind a call that never became one.
LEMMA SalvagedIntact ==
    ASSUME Asked(req), NEW e \in Em, Intact(e) PROVE Intact(Salvaged(e))
  <1>1. PICK buffer \in Text : buffer = e.toolBuffer /\ Uncut(buffer) BY EmTexts DEF Intact
  <1>2. CASE ~e.fromReasoning \/ TopLevelClose(e.toolBuffer) = {} BY <1>2 DEF Salvaged
  <1>3. CASE e.fromReasoning /\ TopLevelClose(e.toolBuffer) # {}
    <2>1. PICK text \in Text : Salvaged(e) = SaidBehind(e, text) /\ Uncut(text)
      <3>1. At(buffer, ThinkClose) \in SUBSET Nat
        <4>1. "c1" \in Symbol /\ "c2" \in Symbol BY DEF Symbol
        <4> QED BY <4>1, AtIs DEF ThinkClose
      <3>2. PICK A \in SUBSET Nat : A = TopLevelClose(buffer) /\ A \subseteq At(buffer, ThinkClose)
        <4>1. TopLevelClose(buffer) \subseteq At(buffer, ThinkClose) BY DEF TopLevelClose
        <4> QED BY <3>1, <4>1
      <3>3. PICK i \in At(buffer, ThinkClose) : i = Min(A) BY <1>1, <1>3, <3>2, MinIs
      <3>4. i \in Nat /\ Edge(buffer, i + 2) BY <1>1, <3>3, CloseEdge
      <3>5. i + 2 \in Nat /\ i + 2 >= 1 BY <3>4
      <3>6. From(buffer, i + 2) \in Text BY <3>5, FromIs
      <3>7. Uncut(From(buffer, i + 2)) BY <1>1, <3>4, EdgeParts
      <3>8. Len(ThinkClose) = 2 BY DEF ThinkClose
      <3>9. Salvaged(e) = SaidBehind(e, From(buffer, i + 2))
        BY <1>1, <1>3, <3>2, <3>3, <3>8 DEF Salvaged
      <3> QED BY <3>6, <3>7, <3>9
    <2>2. CASE text = <<>> BY <2>1, <2>2 DEF SaidBehind
    <2>3. CASE text # <<>>
      <3>1. PICK first \in Int : first = IF e.firstContent # -1 THEN e.firstContent
                                        ELSE Max({0, e.count - 1})
        <4>1. PICK n \in Nat : n = e.count BY DEF Em
        <4>2. Max({0, n - 1}) \in 0 .. n BY MaxPair
        <4>3. PICK m \in 0 .. n : m = Max({0, e.count - 1}) BY <4>1, <4>2
        <4>4. e.firstContent \in Int BY DEF Em
        <4>5. m \in Int OBVIOUS
        <4> QED BY <4>3, <4>4, <4>5
      <3>2. PICK d : d = [e EXCEPT !.firstContent = first] OBVIOUS
      <3>3. SaidBehind(e, text) = Say(d, text) BY <2>3, <3>1, <3>2 DEF SaidBehind
      <3>4. d \in Em /\ Intact(d) BY <3>2, MarkedIntact
      <3>5. Kindly(Say(d, text), d) BY <2>1, <3>4, SpeakIntact DEF Asked
      <3> QED BY <2>1, <3>3, <3>5 DEF Kindly
    <2> QED BY <2>2, <2>3
  <1> QED BY <1>2, <1>3

\* Events without a text cut none.
LEMMA CleanNone ==
    ASSUME NEW ev, \A i \in 1 .. Len(ev) : ev[i].text = <<>> PROVE Clean(ev)
  BY UncutShort DEF Clean

\* The events of calls are such.
LEMMA ToolEventsIntact ==
    ASSUME Asked(req), NEW e \in Em, Intact(e), IsFiniteSet(e.calls)
    PROVE  Intact(ToolEvents(e))
  <1>1. PICK n \in Nat : n = Cardinality(e.calls) BY FS_CardinalityType
  <1>2. e.block \in Nat /\ e.outputIndex \in Nat /\ e.kind \in {"text", "thinking", ""} BY DEF Em
  <1>3. <<>> \in Text /\ Uncut(<<>>) BY UncutShort, EmptySeq DEF Text
  <1>4. Clean(e.sent) BY DEF Intact
  <1>5. CASE req.format = "anthropic"
    <2>1. PICK c : c = Event("close", e.kind, e.block, <<>>) OBVIOUS
    <2>2. c \in Events /\ c.text = <<>> BY <1>2, <1>3, <2>1 DEF Event, Events
    <2>3. PICK one \in Seq(Events) : one = <<c>> /\ Clean(one)
      <3>1. <<c>> \in Seq(Events) BY <2>2, Short
      <3>2. Len(<<c>>) = 1 /\ 1 .. 1 = {1} /\ <<c>>[1] = c OBVIOUS
      <3>3. Clean(<<c>>) BY <2>2, <3>2, CleanNone
      <3> QED BY <3>1, <3>3
    <2>4. PICK b \in Nat : b = e.block + 1
      <3>1. PICK old \in Nat : old = e.block BY <1>2
      <3>2. old + 1 \in Nat OBVIOUS
      <3> QED BY <3>1, <3>2
    <2>5. PICK ev \in Seq(Events) : ev = CallBlocks(b, n) /\ Clean(ev)
      <3>1. CallBlocks(b, n) \in Seq(Events) /\ Len(CallBlocks(b, n)) = 3 * n BY CallBlocksType
      <3>2. PICK k : k = 3 * n OBVIOUS
      <3>3. \A i \in 1 .. k : CallBlocks(b, n)[i].text = <<>> BY <3>2 DEF CallBlocks, Event
      <3>4. Clean(CallBlocks(b, n)) BY <3>1, <3>2, <3>3, CleanNone
      <3> QED BY <3>1, <3>4
    <2>6. PICK all \in Seq(Events) : all = one \o ev /\ Clean(all) BY <2>3, <2>5, CatEvents, CleanCat
    <2>7. PICK d : d = Send(e, all) OBVIOUS
    <2>8. d \in Em /\ Intact(d) BY <1>4, <2>6, <2>7, SendClean, CleanlyIntact DEF Cleanly
    <2>9. PICK f : f = [d EXCEPT !.kind = "", !.block = @ + n] OBVIOUS
    <2>10. /\ f.sent = d.sent /\ f.content = d.content /\ f.reasoning = d.reasoning
           /\ f.window = d.window /\ f.toolBuffer = d.toolBuffer
      BY <2>8, <2>9 DEF Em
    <2>11. ToolEvents(e) = f
      BY <1>1, <1>5, <2>1, <2>3, <2>4, <2>5, <2>6, <2>7, <2>9 DEF ToolEvents, CallBlocks
    <2> QED BY <2>8, <2>10, <2>11 DEF Intact
  <1>6. CASE req.format # "anthropic"
    <2> DEFINE ev == [i \in 1 .. n |-> Event("call", "tool", IF req.format = "responses" THEN e.outputIndex ELSE i, <<>>)]
    <2>1. ASSUME NEW i \in 1 .. n PROVE ev[i] \in Events /\ ev[i].text = <<>>
      <3>1. PICK x \in Nat : x = IF req.format = "responses" THEN e.outputIndex ELSE i
        <4>1. i \in Nat OBVIOUS
        <4> QED BY <1>2, <4>1
      <3>2. ev[i] = Event("call", "tool", x, <<>>) BY <3>1
      <3> QED BY <1>3, <3>2 DEF Event, Events
    <2>2. ev \in Seq(Events) /\ Len(ev) = n BY <1>1, <2>1
    <2>3. ToolEvents(e) = Send(e, ev) BY <1>1, <1>6 DEF ToolEvents
    <2> HIDE DEF ev
    <2>4. Clean(ev) BY <2>1, <2>2, CleanNone
    <2> QED BY <1>4, <2>2, <2>3, <2>4, SendClean, CleanlyIntact
  <1> QED BY <1>5, <1>6

\* What the tool buffer was, calls or text after all, is told whole.
LEMMA ReadIntact ==
    ASSUME Asked(req), NEW e, Settled(req, e), Told(req.format, e), ~e.stopHit, Intact(e)
    PROVE  Intact(Read(e, ParseToolCalls(e.toolBuffer)))
  <1>1. e \in Em BY DEF Settled
  <1>2. PICK buffer \in Text : buffer = e.toolBuffer /\ Uncut(buffer) BY <1>1, EmTexts DEF Intact
  <1>3. PICK parsed : parsed = ParseToolCalls(e.toolBuffer) OBVIOUS
  <1>4. parsed.calls = Calls(e.toolBuffer) /\ parsed.cleaned \in Text BY <1>2, <1>3, ParsedIs
  <1>5. Uncut(parsed.cleaned) BY <1>2, <1>3, UncutParsed
  <1>6. CASE parsed.calls # {}
    <2>1. PICK d : d = [e EXCEPT !.calls = Calls(e.toolBuffer), !.remembered = e.raw, !.reason = "tool_calls"]
      OBVIOUS
    <2>2. /\ Settled(req, d) /\ Told(req.format, d) /\ d \in Em /\ d.stopHit = e.stopHit
          /\ IsFiniteSet(d.calls)
      BY <2>1, CalledIs DEF Settled
    <2>3. Intact(d)
      <3>1. /\ d.sent = e.sent /\ d.content = e.content /\ d.reasoning = e.reasoning
            /\ d.window = e.window /\ d.toolBuffer = e.toolBuffer
        BY <1>1, <2>1 DEF Em
      <3> QED BY <3>1 DEF Intact
    <2>4. PICK text \in Text : text = parsed.cleaned /\ Uncut(text) BY <1>4, <1>5
    <2>5. PICK s : s = Recovered(d, text) OBVIOUS
    <2>6. Still(req, s, d) BY <2>2, <2>5, RecoveredIs
    <2>7. s \in Em /\ Intact(s) BY <2>2, <2>3, <2>4, <2>5, RecoveredIntact DEF Kindly
    <2>8. IsFiniteSet(s.calls) BY <2>2, <2>6 DEF Still
    <2>9. Intact(ToolEvents(s)) BY <2>7, <2>8, ToolEventsIntact
    <2>10. Read(e, parsed) = ToolEvents(s) BY <1>4, <1>6, <2>1, <2>4, <2>5 DEF Read
    <2> QED BY <1>3, <2>9, <2>10
  <1>7. CASE parsed.calls = {} /\ e.fallback
    <2>1. Kindly(Say(e, buffer), e) BY <1>1, <1>2, SpeakIntact DEF Asked
    <2>2. Read(e, parsed) = Say(e, buffer) BY <1>2, <1>7 DEF Read
    <2> QED BY <1>3, <2>1, <2>2 DEF Kindly
  <1>8. CASE parsed.calls = {} /\ ~e.fallback
    <2>1. Intact(Salvaged(e)) BY <1>1, SalvagedIntact
    <2>2. Read(e, parsed) = Salvaged(e) BY <1>8 DEF Read
    <2> QED BY <1>3, <2>1, <2>2
  <1> QED BY <1>6, <1>7, <1>8

\* The items that the end of a Responses answer closes carry its content or nothing.
LEMMA ItemsDoneClean ==
    ASSUME NEW e \in Em, IsFiniteSet(e.calls), Uncut(e.content)
    PROVE  Clean(ItemsDone(e))
  <1>1. PICK n \in Nat : n = Cardinality(e.calls) BY FS_CardinalityType
  <1>2. PICK base \in Nat : base = IF e.reasoning = <<>> THEN 0 ELSE 1 OBVIOUS
  <1>3. PICK v : v = Event("close", "text", base, e.content) OBVIOUS
  <1>3a. v.text = e.content BY <1>3 DEF Event
  <1> DEFINE ev == [i \in 1 .. n |-> Event("close", "tool", base + i - 1, <<>>)]
  <1>4. Len(ev) = n /\ \A i \in 1 .. n : ev[i].text = <<>> BY DEF Event
  <1>5. ItemsDone(e) = IF n > 0 THEN ev ELSE IF e.messageOpen THEN <<v>> ELSE <<>>
    BY <1>1, <1>2, <1>3 DEF ItemsDone
  <1> HIDE DEF ev
  <1>6. Clean(ev) BY <1>4, CleanNone
  <1>7. Clean(<<v>>)
    <2>1. Len(<<v>>) = 1 /\ <<v>>[1] = v /\ 1 .. 1 = {1} OBVIOUS
    <2> QED BY <1>3a, <2>1 DEF Clean
  <1>8. Clean(<<>>)
    <2>1. Len(<<>>) = 0 /\ 1 .. 0 = {} OBVIOUS
    <2> QED BY <2>1 DEF Clean
  <1> QED BY <1>5, <1>6, <1>7, <1>8

\* The last events carry nothing else.
LEMMA FinalIntact ==
    ASSUME Asked(req), NEW e \in Em, Intact(e), IsFiniteSet(e.calls) PROVE Intact(Final(e))
  <1>1. /\ e.block \in Nat /\ e.content \in Text /\ Uncut(e.content) /\ Clean(e.sent)
        /\ e.kind \in {"text", "thinking", ""} /\ e.reason \in {"stop", "length", "tool_calls"}
    BY DEF Em, Intact
  <1>2. <<>> \in Text /\ Uncut(<<>>) BY UncutShort, EmptySeq DEF Text
  <1>3. ASSUME NEW text \in Text, Uncut(text), NEW ev \in Seq(Events), Clean(ev)
        PROVE  Intact(Send(e, ev \o <<Event("done", e.reason, 0, text)>>))
    <2>1. PICK v : v = Event("done", e.reason, 0, text) OBVIOUS
    <2>2. v \in Events /\ v.text = text BY <1>1, <2>1 DEF Event, Events
    <2>3. PICK one \in Seq(Events) : one = <<v>> /\ Clean(one)
      <3>1. <<v>> \in Seq(Events) BY <2>2, Short
      <3>2. Len(<<v>>) = 1 /\ <<v>>[1] = v /\ 1 .. 1 = {1} OBVIOUS
      <3>3. Clean(<<v>>) BY <1>3, <2>2, <3>2 DEF Clean
      <3> QED BY <3>1, <3>3
    <2>4. PICK all \in Seq(Events) : all = ev \o one /\ Clean(all) BY <1>3, <2>3, CatEvents, CleanCat
    <2>5. Intact(Send(e, all)) BY <1>1, <2>4, SendClean, CleanlyIntact
    <2> QED BY <2>1, <2>3, <2>4, <2>5
  <1>4. <<>> \in Seq(Events) /\ Clean(<<>>)
    <2>1. <<>> \in Seq(Events) /\ Len(<<>>) = 0 /\ 1 .. 0 = {} OBVIOUS
    <2> QED BY <2>1 DEF Clean
  <1>5. CASE req.format = "anthropic"
    <2>1. PICK c : c = Event("close", e.kind, e.block, <<>>) OBVIOUS
    <2>2. c \in Events /\ c.text = <<>> BY <1>1, <1>2, <2>1 DEF Event, Events
    <2>3. <<c>> \in Seq(Events) /\ Clean(<<c>>)
      <3>1. <<c>> \in Seq(Events) BY <2>2, Short
      <3>2. Len(<<c>>) = 1 /\ 1 .. 1 = {1} /\ <<c>>[1] = c OBVIOUS
      <3> QED BY <2>2, <3>1, <3>2, CleanNone
    <2>4. PICK ev \in Seq(Events) : ev = (IF e.kind = "" THEN <<>> ELSE <<c>>) /\ Clean(ev)
      BY <1>4, <2>3
    <2>5. Final(e) = Send(e, ev \o <<Event("done", e.reason, 0, <<>>)>>)
      BY <1>5, <2>1, <2>4 DEF Final
    <2> QED BY <1>2, <1>3, <2>4, <2>5
  <1>6. CASE req.format = "responses"
    <2>1. PICK ev \in Seq(Events) : ev = ItemsDone(e) /\ Clean(ev)
      BY <1>1, ItemsDoneIs, ItemsDoneClean
    <2>2. Final(e) = Send(e, ev \o <<Event("done", e.reason, 0, e.content)>>)
      BY <1>6, <2>1 DEF Final
    <2> QED BY <1>1, <1>3, <2>1, <2>2
  <1>7. CASE req.format = "openai"
    <2>1. PICK v : v = Event("done", e.reason, 0, <<>>) OBVIOUS
    <2>2. v \in Events /\ v.text = <<>> BY <1>1, <1>2, <2>1 DEF Event, Events
    <2>3. Cleanly(Send(e, <<v>>), e) BY <1>1, <1>2, <2>2, SendClean
    <2>4. Final(e) = Send(e, <<v>>) BY <1>7, <2>1 DEF Final
    <2> QED BY <2>3, <2>4, CleanlyIntact
  <1> QED BY <1>5, <1>6, <1>7 DEF Asked, ThreeFormats

\* The answer's end cuts no character.
LEMMA EmitFinishIntact ==
    ASSUME Asked(req), NEW e, Running(req, e), Intact(e), NEW capped \in BOOLEAN
    PROVE  Intact(EmitFinish(e, capped))
  <1>1. PICK a : a = Flushed(e) OBVIOUS
  <1>2. Settled(req, a) /\ Told(req.format, a) /\ a \in Em /\ Intact(a)
    BY <1>1, FlushedIs, FlushedIntact DEF Settled
  <1>3. PICK b : b = ReasoningClosed(a) OBVIOUS
  <1>4. b \in Em /\ Alike(b, a) /\ Told(req.format, b) /\ KeptLength(b) = KeptLength(a)
    BY <1>2, <1>3, ReasoningEnds
  <1>5. Settled(req, b) BY <1>2, <1>4, SettledSame DEF Alike
  <1>6. Intact(b) BY <1>2, <1>3, ItemsClean, CleanlyIntact DEF Intact
  <1>7. PICK c : c = Resolved(b) OBVIOUS
  <1>8. Done(req, c, b) BY <1>4, <1>5, <1>7, ResolvedIs
  <1>9. Intact(c)
    <2>1. CASE b.mode # "TOOL_BUFFER" \/ b.toolBuffer = <<>> BY <1>6, <1>7, <2>1 DEF Resolved
    <2>2. CASE ~(b.mode # "TOOL_BUFFER" \/ b.toolBuffer = <<>>)
      <3>1. ~b.stopHit BY <1>5, <2>2 DEF Settled, StopKept
      <3>2. c = Read(b, ParseToolCalls(b.toolBuffer)) BY <1>7, <2>2 DEF Resolved
      <3> QED BY <1>4, <1>5, <1>6, <3>1, <3>2, ReadIntact
    <2> QED BY <2>1, <2>2
  <1>10. PICK d : d = [c EXCEPT !.reason = Reason(c, capped)] OBVIOUS
  <1>11. Done(req, d, c) /\ IsFiniteSet(d.calls) BY <1>8, <1>10, ReasonIs DEF Done
  <1>12. d \in Em BY <1>11 DEF Done, Settled
  <1>13. Intact(d)
    <2>1. c \in Em BY <1>8 DEF Done, Settled
    <2>2. /\ d.sent = c.sent /\ d.content = c.content /\ d.reasoning = c.reasoning
          /\ d.window = c.window /\ d.toolBuffer = c.toolBuffer
      BY <1>10, <2>1 DEF Em
    <2> QED BY <1>9, <2>2 DEF Intact
  <1>14. Intact(Final(d)) BY <1>11, <1>12, <1>13, FinalIntact
  <1>15. EmitFinish(e, capped) = Final(d) BY <1>1, <1>3, <1>7, <1>10 DEF EmitFinish, Finished
  <1> QED BY <1>14, <1>15

\* At the beginning nothing is cut.
LEMMA IntactInit == Init => Intact(em)
  BY StartedIntact DEF Init

\* And no step cuts anything.
LEMMA IntactStep == IInv /\ Intact(em) /\ [Next]_vars => Intact(em)'
  <1> SUFFICES ASSUME IInv, Intact(em), [Next]_vars PROVE Intact(em') BY DEF Intact, Clean
  <1>1. req \in Requests /\ Asked(req) /\ (pc # "done" => Running(req, em)) BY ReqIs DEF IInv
  <1>2. CASE OnToken
    <2>1. Running(req, em) /\ em \in Em BY <1>1, <1>2 DEF OnToken, Running, Typed
    <2>2. PICK token \in req.vocabulary.tokens :
             em' = IF req.stream THEN Streamed(em, token) ELSE Classified(em, token)
      BY <1>2 DEF OnToken
    <2>3. Intact(Streamed(em, token)) /\ Intact(Classified(em, token))
      BY <1>1, <2>1, StreamedIntact, ClassifiedIntact
    <2> QED BY <2>2, <2>3
  <1>3. CASE EndStream
    <2>1. Running(req, em) BY <1>1, <1>3 DEF EndStream
    <2>2. PICK capped \in BOOLEAN : em' = EmitFinish(em, capped) BY <1>3 DEF EndStream
    <2>3. Intact(EmitFinish(em, capped)) BY <1>1, <2>1, EmitFinishIntact
    <2> QED BY <2>2, <2>3
  <1>4. CASE EndWhole
    <2>1. /\ Running(req, em) /\ em.pieces = <<>> /\ tokens \in Seq(req.vocabulary.tokens)
          /\ em' = EmitFinish(Replayed(em, tokens), FALSE)
      BY <1>1, <1>4 DEF EndWhole, IInv
    <2>2. PICK e : e = Replayed(em, tokens) OBVIOUS
    <2>3. Running(req, e) /\ Intact(e) BY <1>1, <2>1, <2>2, ReplayedIs, ReplayedIntact
    <2>4. Intact(EmitFinish(e, FALSE)) BY <1>1, <2>3, EmitFinishIntact
    <2> QED BY <2>1, <2>2, <2>4
  <1>5. CASE UNCHANGED vars BY <1>5 DEF vars
  <1> QED BY <1>2, <1>3, <1>4, <1>5 DEF Next

\* Nothing is ever cut.
LEMMA StaysIntact == Spec => [](IInv /\ Intact(em))
  BY IntactInit, IntactStep, InvInit, InvStep, PTL DEF Spec

-----------------------------------------------------------------------------
(* What a client sees *)

\* At every moment the emitter is running or the answer is over.
LEMMA RunningOrOver == IInv => Running(req, em) \/ Over(req, em)
  BY DEF IInv

\* The emitter's fields are what the code takes them to be: among them, the first
\* content token is one the emitter was given.
THEOREM TypeCorrect == Spec => []TypeOK
  <1>1. IInv => TypeOK
    <2> SUFFICES ASSUME IInv PROVE TypeOK OBVIOUS
    <2>1. Len(em.pieces) <= Len(tokens) BY DEF IInv
    <2>2. CASE Running(req, em)
      <3>1. Typed(em) BY <2>2 DEF Running
      <3>2. em.mode \in Modes /\ em.kind \in {"text", "thinking", ""} BY <3>1 DEF Typed, Em
      <3> QED BY <2>1, <3>1, <3>2 DEF Typed, TypeOK
    <2>3. CASE Over(req, em)
      <3>1. Settled(req, em) /\ em \in Em BY <2>3 DEF Over, Settled
      <3>2. em.mode \in Modes /\ em.kind \in {"text", "thinking", ""} BY <3>1 DEF Em
      <3>3. em.raw \in Text BY <3>1 DEF Em
      <3>4. PICK k \in Nat : k = Len(em.raw) BY <3>3, TextIs
      <3>5. Len(em.window) <= Len(em.raw) /\ Len(em.tail) <= 1
        <4>1. Len(em.window) = 0 /\ Len(em.tail) = 0 BY <3>1 DEF Settled
        <4>2. 0 <= k /\ 0 <= 1 OBVIOUS
        <4> QED BY <3>4, <4>1, <4>2
      <3> QED BY <2>1, <3>1, <3>2, <3>5 DEF Settled, TypeOK
    <2> QED BY <2>2, <2>3, RunningOrOver
  <1> QED BY <1>1, Invariance, PTL

\* A client of either format never sees a block or an item out of turn: blocks are
\* numbered in the order they are opened, at most one is open, and deltas go to it.
THEOREM OpensInTurn == Spec => []OpenedInTurn
  <1>1. IInv => OpenedInTurn
    <2> SUFFICES ASSUME IInv PROVE OpenedInTurn OBVIOUS
    <2>1. InTurn(req.format, em)
      <3>1. CASE Running(req, em)
        <4>1. Turned(req.format, em) BY <3>1 DEF Running, Told
        <4> QED BY <4>1 DEF Turned, InTurn, BlocksTo, ItemsTo
      <3>2. CASE Over(req, em) BY <3>2 DEF Over
      <3> QED BY <3>1, <3>2, RunningOrOver
    <2>2. \A type, n : Indices(type, n) = Named(em.sent, type, n) BY DEF Indices, Named, Sent
    <2>3. BlocksInTurn
      <3>1. SUFFICES ASSUME req.format = "anthropic", NEW i \in 1 .. Len(em.sent)
                     PROVE  LET open == Indices("open", i - 1) \ Indices("close", i - 1)
                            IN  CASE Sent(i).type = "open" -> open = {} /\ Sent(i).index = Cardinality(Indices("open", i - 1))
                                  [] Sent(i).type \in {"delta", "close"} -> open = {Sent(i).index} /\ OfItsKind(i)
                                  [] OTHER -> open = {}
        BY DEF BlocksInTurn
      <3>2. BlockTurn(em.sent, em.stopHit, i) BY <2>1, <3>1 DEF InTurn, BlockTurns
      <3>3. OfItsKind(i) <=> Known(em.sent, em.stopHit, i) BY DEF OfItsKind, Known, Sent
      <3> QED BY <2>2, <3>2, <3>3 DEF BlockTurn, Open, Sent
    <2>4. ItemsInTurn
      <3>1. SUFFICES ASSUME req.format = "responses", ThoughtFirst, NEW i \in 1 .. Len(em.sent)
                     PROVE  LET open == Indices("open", i - 1) \ Indices("close", i - 1)
                            IN  CASE Sent(i).type = "open" -> open = {} /\ Sent(i).index = Cardinality(Indices("open", i - 1))
                                  [] Sent(i).type = "delta" -> Sent(i).index \in open
                                  [] OTHER -> TRUE
        BY DEF ItemsInTurn
      <3>2. FirstThought(em.sent) BY <3>1 DEF FirstThought, ThoughtFirst, Sent
      <3>3. ItemTurn(em.sent, i) BY <2>1, <3>1, <3>2 DEF InTurn, ItemTurns
      <3> QED BY <2>2, <3>3 DEF ItemTurn, Open, Sent
    <2> QED BY <2>3, <2>4 DEF OpenedInTurn
  <1> QED BY <1>1, Invariance, PTL

\* What the client has been sent adds up to what the server keeps of the answer, and
\* no event cuts a character in two.
THEOREM WhatIsSentIsKept == Spec => []DeltasAddUp
  <1>1. IInv /\ Intact(em) => DeltasAddUp
    <2> SUFFICES ASSUME IInv, Intact(em) PROVE DeltasAddUp OBVIOUS
    <2>1. Adds(req.format, em)
      <3>1. CASE Running(req, em) BY <3>1 DEF Running, Told, Adds
      <3>2. CASE Over(req, em) BY <3>2 DEF Over
      <3> QED BY <3>1, <3>2, RunningOrOver
    <2>2. \A kind : TextOf(kind) = Added(em.sent, kind) BY DEF TextOf, Added, Part, Sent
    <2>3. ASSUME NEW i \in 1 .. Len(em.sent) PROVE Sanitized(Sent(i).text) = Sent(i).text
      <3>1. em \in Em BY RunningOrOver DEF Running, Typed, Over, Settled
      <3>2. PICK s \in Seq(Events) : s = em.sent BY <3>1 DEF Em
      <3>3. s[i] \in Events BY <3>2, ElementOfSeq
      <3>4. PICK text \in Text : text = Sent(i).text BY <3>2, <3>3 DEF Events, Sent
      <3>5. Uncut(text) BY <3>2, <3>4 DEF Intact, Clean, Sent
      <3> QED BY <3>4, <3>5, UncutSanitized
    <2> QED BY <2>1, <2>2, <2>3 DEF DeltasAddUp, Adds
  <1> QED BY <1>1, StaysIntact, PTL

\* No part of the text is read as two calls, unless a bare name's arguments begin
\* within a block.
THEOREM CallsReadOnce == Spec => []CallsApart
  <1>1. IInv => CallsApart
    <2> SUFFICES ASSUME IInv, ~ArgsInBlock(em.toolBuffer) PROVE Apart(em.toolBuffer, em.calls)
      BY DEF CallsApart
    <2>1. Apart(em.toolBuffer, {}) BY DEF Apart
    <2>2. CASE Running(req, em)
      <3>1. em.calls = {} BY <2>2 DEF Running, Plainly
      <3> QED BY <2>1, <3>1
    <2>3. CASE Over(req, em)
      <3>1. em \in Em /\ WrappedAlone(em.toolBuffer) /\ em.calls \in {{}, Calls(em.toolBuffer)}
        BY <2>3 DEF Over, Settled
      <3>2. PICK buffer \in Text : buffer = em.toolBuffer BY <3>1 DEF Em
      <3>3. Apart(buffer, Calls(buffer)) BY <3>1, <3>2, CallsAreApart
      <3> QED BY <2>1, <3>1, <3>2, <3>3
    <2> QED BY <2>2, <2>3, RunningOrOver
  <1> QED BY <1>1, Invariance, PTL

\* However the tokens cut it, a stop sequence outside a tool call ends the answer,
\* and nothing behind it is sent, unless the token it ends in goes on with half a
\* character.
THEOREM StopsAreHonoured == Spec => []StopHonoured
  <1>1. IInv => StopHonoured
    <2> SUFFICES ASSUME IInv PROVE StopHonoured OBVIOUS
    <2>1. StopKept(req, em)
      <3>1. CASE Running(req, em)
        <4>1. Watched(req, em) BY <3>1 DEF Running
        <4> QED BY <4>1 DEF Watched, Watching, StopKept
      <3>2. CASE Over(req, em) BY <3>2 DEF Over, Settled
      <3> QED BY <3>1, <3>2, RunningOrOver
    <2>2. StopHits(em.raw) = IF req.vocabulary.stop THEN At(em.raw, Stop) ELSE {} BY DEF StopHits
    <2>3. StopHits(em.raw) # {} /\ em.mode # "TOOL_BUFFER" => em.stopHit
      BY <2>1, <2>2 DEF StopKept
    <2>4. ASSUME em.stopHit, TailOf(Last(em.pieces)) = <<>>
          PROVE  Len(em.content) + Len(em.reasoning) < StopsAt
      BY <2>1, <2>2, <2>4 DEF StopKept, Ahead, KeptLength, StopsAt
    <2> QED BY <2>3, <2>4 DEF StopHonoured
  <1> QED BY <1>1, Invariance, PTL

-----------------------------------------------------------------------------
(* What becomes of the text, whatever is sent *)

\* d is e with other blocks or items open.
Kin(d, e) == d \in Em /\ Alike(d, e)

\* One goes on where the other ended.
LEMMA KinOn == ASSUME NEW c, NEW d, NEW e, Kin(d, e), Kin(c, d) PROVE Kin(c, e)
  BY DEF Kin, Alike, Same

\* One event is sent, or two.
LEMMA SendKin ==
    ASSUME NEW e \in Em
    PROVE  /\ Kin(e, e)
           /\ \A v \in Events : Kin(Send(e, <<v>>), e)
           /\ \A v, w \in Events : Kin(Send(e, <<v, w>>), e)
  <1>1. Kin(e, e) BY DEF Kin, Alike, Same
  <1>2. ASSUME NEW v \in Events PROVE Kin(Send(e, <<v>>), e)
    <2>1. <<v>> \in Seq(Events) BY Short
    <2> QED BY <2>1, SendAll DEF Kin
  <1>3. ASSUME NEW v \in Events, NEW w \in Events PROVE Kin(Send(e, <<v, w>>), e)
    <2>1. <<v, w>> \in Seq(Events) BY Short
    <2> QED BY <2>1, SendAll DEF Kin
  <1> QED BY <1>1, <1>2, <1>3

\* Opening and closing blocks and items.
LEMMA TurnsKin ==
    ASSUME NEW e \in Em
    PROVE  /\ \A kind \in {"text", "thinking"} : Kin(Switched(e, kind), e)
           /\ Kin(ReasoningClosed(e), e) /\ Kin(MessageOpened(e), e)
           /\ Kin(ReasoningOpened(e), e)
  <1>0. /\ <<>> \in Text /\ e.outputIndex \in Nat /\ e.reasoning \in Text /\ e.block \in Nat
        /\ e.kind \in {"text", "thinking", ""}
    BY EmptySeq DEF Text, Em
  <1>1. ASSUME NEW kind \in {"text", "thinking"} PROVE Kin(Switched(e, kind), e)
    <2>1. CASE e.kind = kind BY <2>1, SendKin DEF Switched
    <2>2. CASE e.kind # kind
      <3>1. PICK k \in Nat : k = e.block + 1
        <4>1. e.block \in Nat BY <1>0
        <4> QED BY <4>1
      <3>2. PICK v \in Events : v = Event("close", e.kind, e.block, <<>>) BY <1>0 DEF Event, Events
      <3>3. PICK w \in Events : w = Event("open", kind, k, <<>>) BY <1>0 DEF Event, Events
      <3>4. PICK d : d = Send(e, <<v, w>>) OBVIOUS
      <3>5. Kin(d, e) /\ d \in Em BY <3>4, SendKin DEF Kin
      <3>6. d.block = e.block BY <3>4 DEF Send, Em
      <3>7. PICK s : s = Switched(e, kind) OBVIOUS
      <3>8. s = [d EXCEPT !.kind = kind, !.block = k]
        BY <2>2, <3>1, <3>2, <3>3, <3>4, <3>5, <3>6, <3>7 DEF Switched
      <3>9. s \in Em BY <3>5, <3>8 DEF Em
      <3>10. Alike(s, d) BY <3>5, <3>8 DEF Em, Alike, Same
      <3> QED BY <3>5, <3>7, <3>9, <3>10, KinOn DEF Kin
    <2> QED BY <2>1, <2>2
  <1>2. Kin(ReasoningClosed(e), e)
    <2>1. CASE ~e.reasoningOpen BY <2>1, SendKin DEF ReasoningClosed
    <2>2. CASE e.reasoningOpen
      <3>1. PICK v \in Events : v = Event("close", "thinking", e.outputIndex, e.reasoning)
        BY <1>0 DEF Event, Events
      <3>2. PICK d : d = Send(e, <<v>>) OBVIOUS
      <3>3. Kin(d, e) /\ d \in Em BY <3>2, SendKin DEF Kin
      <3>4. d.outputIndex = e.outputIndex BY <3>2 DEF Send, Em
      <3>5. PICK k \in Nat : k = e.outputIndex + 1
        <4>1. e.outputIndex \in Nat BY <1>0
        <4> QED BY <4>1
      <3>6. PICK s : s = ReasoningClosed(e) OBVIOUS
      <3>7. s = [d EXCEPT !.reasoningOpen = FALSE, !.outputIndex = k]
        BY <2>2, <3>1, <3>2, <3>3, <3>4, <3>5, <3>6 DEF ReasoningClosed
      <3>8. s \in Em BY <3>3, <3>7 DEF Em
      <3>9. Alike(s, d) BY <3>3, <3>7 DEF Em, Alike, Same
      <3> QED BY <3>3, <3>6, <3>8, <3>9, KinOn DEF Kin
    <2> QED BY <2>1, <2>2
  <1>3. ASSUME NEW kind \in {"text", "thinking"}
        PROVE  \E d \in Em : d = Send(e, <<Event("open", kind, e.outputIndex, <<>>)>>) /\ Kin(d, e)
    <2>1. PICK v \in Events : v = Event("open", kind, e.outputIndex, <<>>) BY <1>0 DEF Event, Events
    <2> QED BY <2>1, SendKin DEF Kin
  <1>4. Kin(MessageOpened(e), e)
    <2>1. CASE e.messageOpen BY <2>1, SendKin DEF MessageOpened
    <2>2. CASE ~e.messageOpen
      <3>1. PICK d \in Em : d = Send(e, <<Event("open", "text", e.outputIndex, <<>>)>>) /\ Kin(d, e)
        BY <1>3
      <3>2. PICK s : s = [d EXCEPT !.messageOpen = TRUE] OBVIOUS
      <3>3. s \in Em BY <3>2 DEF Em
      <3>4. Alike(s, d) BY <3>2 DEF Em, Alike, Same
      <3>5. s = MessageOpened(e) BY <2>2, <3>1, <3>2 DEF MessageOpened
      <3> QED BY <3>1, <3>3, <3>4, <3>5, KinOn DEF Kin
    <2> QED BY <2>1, <2>2
  <1>5. Kin(ReasoningOpened(e), e)
    <2>1. CASE e.reasoningOpen BY <2>1, SendKin DEF ReasoningOpened
    <2>2. CASE ~e.reasoningOpen
      <3>1. PICK d \in Em : d = Send(e, <<Event("open", "thinking", e.outputIndex, <<>>)>>) /\ Kin(d, e)
        BY <1>3
      <3>2. PICK s : s = [d EXCEPT !.reasoningOpen = TRUE] OBVIOUS
      <3>3. s \in Em BY <3>2 DEF Em
      <3>4. Alike(s, d) BY <3>2 DEF Em, Alike, Same
      <3>5. s = ReasoningOpened(e) BY <2>2, <3>1, <3>2 DEF ReasoningOpened
      <3> QED BY <3>1, <3>3, <3>4, <3>5, KinOn DEF Kin
    <2> QED BY <2>1, <2>2
  <1> QED BY <1>1, <1>2, <1>4, <1>5

\* A delta of either kind.
LEMMA DeltasKin ==
    ASSUME NEW e \in Em, NEW text \in Text, req.format \in ThreeFormats
    PROVE  Kin(ContentDelta(e, text), e) /\ Kin(ReasoningDelta(e, text), e)
  <1>0. Kin(e, e) BY SendKin
  <1>1. ASSUME NEW d, Kin(d, e), NEW kind \in {"text", "thinking"}, NEW index \in Nat
        PROVE  Kin(Delta(d, kind, index, text), e)
    <2>1. PICK v \in Events : v = Event("delta", kind, index, text) BY DEF Event, Events
    <2>2. Kin(Send(d, <<v>>), d) BY <1>1, SendKin DEF Kin
    <2> QED BY <1>1, <2>1, <2>2, KinOn DEF Delta
  <1>2. \A d : Kin(d, e) => d.block \in Nat /\ d.outputIndex \in Nat BY DEF Kin, Em
  <1>3. CASE text = <<>> BY <1>0, <1>3 DEF ContentDelta, ReasoningDelta
  <1>4. CASE text # <<>> /\ req.format = "anthropic"
    <2>1. PICK s : s = Switched(e, "text") OBVIOUS
    <2>2. PICK t : t = Switched(e, "thinking") OBVIOUS
    <2>3. Kin(s, e) /\ Kin(t, e) BY <2>1, <2>2, TurnsKin
    <2>4. ContentDelta(e, text) = Delta(s, "text", s.block, text) BY <1>4, <2>1 DEF ContentDelta
    <2>5. ReasoningDelta(e, text) = Delta(t, "thinking", t.block, text)
      BY <1>4, <2>2 DEF ReasoningDelta
    <2> QED BY <1>1, <1>2, <2>3, <2>4, <2>5
  <1>5. CASE text # <<>> /\ req.format = "responses"
    <2>1. PICK c : c = ReasoningClosed(e) OBVIOUS
    <2>2. PICK m : m = MessageOpened(c) OBVIOUS
    <2>3. PICK r : r = ReasoningOpened(e) OBVIOUS
    <2>4. Kin(c, e) /\ Kin(r, e) BY <2>1, <2>3, TurnsKin
    <2>5. Kin(m, c) BY <2>2, <2>4, TurnsKin DEF Kin
    <2>6. Kin(m, e) BY <2>4, <2>5, KinOn
    <2>7. ContentDelta(e, text) = Delta(m, "text", m.outputIndex, text)
      BY <1>5, <2>1, <2>2 DEF ContentDelta
    <2>8. ReasoningDelta(e, text) = Delta(r, "thinking", r.outputIndex, text)
      BY <1>5, <2>3 DEF ReasoningDelta
    <2> QED BY <1>1, <1>2, <2>4, <2>6, <2>7, <2>8
  <1>6. CASE text # <<>> /\ req.format = "openai"
    <2>1. ContentDelta(e, text) = Delta(e, "text", 0, text) BY <1>6 DEF ContentDelta
    <2>2. ReasoningDelta(e, text) = Delta(e, "thinking", 0, text) BY <1>6 DEF ReasoningDelta
    <2> QED BY <1>0, <1>1, <2>1, <2>2
  <1> QED BY <1>3, <1>4, <1>5, <1>6 DEF ThreeFormats

\* Saying adds to the content, thinking to the reasoning, and to nothing else.
LEMMA SpeakAny ==
    ASSUME NEW e \in Em, NEW text \in Text, req.format \in ThreeFormats
    PROVE  /\ LET s == Say(e, text)
              IN  s \in Em /\ Same(s, e) /\ s.content = e.content \o text /\ s.reasoning = e.reasoning
           /\ LET s == Think(e, text)
              IN  s \in Em /\ Same(s, e) /\ s.reasoning = e.reasoning \o text /\ s.content = e.content
  <1>1. e.content \in Text /\ e.reasoning \in Text BY DEF Em
  <1>2. PICK t \in Text : t = e.content \o text BY <1>1, CatIs
  <1>3. PICK u \in Text : u = e.reasoning \o text BY <1>1, CatIs
  <1>4. PICK f : f = [e EXCEPT !.content = t] OBVIOUS
  <1>5. f \in Em BY <1>4 DEF Em
  <1>6. f.content = t /\ f.reasoning = e.reasoning /\ Same(f, e) BY <1>4 DEF Em, Same
  <1>7. PICK g : g = [e EXCEPT !.reasoning = u] OBVIOUS
  <1>8. g \in Em BY <1>7 DEF Em
  <1>9. g.content = e.content /\ g.reasoning = u /\ Same(g, e) BY <1>7 DEF Em, Same
  <1>10. PICK s : s = Say(e, text) OBVIOUS
  <1>11. s = ContentDelta(f, text) BY <1>2, <1>4, <1>10 DEF Say
  <1>12. Kin(s, f) BY <1>5, <1>11, DeltasKin
  <1>13. s \in Em /\ Same(s, e) /\ s.content = t /\ s.reasoning = e.reasoning
    BY <1>6, <1>12 DEF Kin, Alike, Same
  <1>14. PICK h : h = Think(e, text) OBVIOUS
  <1>15. h = ReasoningDelta(g, text) BY <1>3, <1>7, <1>14 DEF Think
  <1>16. Kin(h, g) BY <1>8, <1>15, DeltasKin
  <1>17. h \in Em /\ Same(h, e) /\ h.reasoning = u /\ h.content = e.content
    BY <1>9, <1>16 DEF Kin, Alike, Same
  <1> QED BY <1>2, <1>3, <1>10, <1>13, <1>14, <1>17

\* The part of an emitter that the loop over its window reads and that the answer
\* is made from.
Core(e) ==
    [mode |-> e.mode, window |-> e.window, toolBuffer |-> e.toolBuffer,
     content |-> e.content, reasoning |-> e.reasoning, fromReasoning |-> e.fromReasoning,
     fallback |-> e.fallback, checkedPrefix |-> e.checkedPrefix]

Cores == [mode : Modes, window : Text, toolBuffer : Text, content : Text, reasoning : Text,
          fromReasoning : BOOLEAN, fallback : BOOLEAN, checkedPrefix : BOOLEAN]

\* The same window, mode and flags.
LEMMA CoreIs ==
    ASSUME NEW e \in Em
    PROVE  /\ Core(e) \in Cores
           /\ Core(e).window = e.window /\ Core(e).mode = e.mode
           /\ Core(e).toolBuffer = e.toolBuffer /\ Core(e).content = e.content
           /\ Core(e).reasoning = e.reasoning /\ Core(e).fromReasoning = e.fromReasoning
           /\ Core(e).fallback = e.fallback /\ Core(e).checkedPrefix = e.checkedPrefix
  BY DEF Core, Cores, Em

\* Of a core: the front of its window is thought or said up to a place, and its
\* rest goes on in a mode.
Thinks(c, i, j, mode) ==
    [c EXCEPT !.reasoning = @ \o Before(c.window, i), !.window = From(@, j), !.mode = mode]
Says(c, i, j, mode) ==
    [c EXCEPT !.content = @ \o Before(c.window, i), !.window = From(@, j), !.mode = mode]

\* A round, of the core alone.
CoreReasoning(c, closes, tools, out) ==
    IF ~c.checkedPrefix THEN IF PrefixOpen(c) THEN Waits(c) ELSE Again(PrefixDropped(c))
    ELSE IF closes # {} /\ \A t \in tools : Min(closes) < t
         THEN Again(Thinks(c, Min(closes), Min(closes) + 2, "CONTENT"))
    ELSE IF tools # {}
         THEN Again(ToBuffer([c EXCEPT !.reasoning = @ \o Before(c.window, Min(tools))],
                             Min(tools), TRUE, FALSE))
    ELSE Waits(Thinks(c, out + 1, out + 1, "REASONING"))

CoreDivided(c, first, opens, closes) ==
    IF first \in opens THEN Again(Says(c, first, first + 2, "REASONING"))
    ELSE IF first \in closes THEN Again(Says(c, first, first + 2, "CONTENT"))
    ELSE Again(ToBuffer([c EXCEPT !.content = @ \o Before(c.window, first)], first, FALSE, FALSE))

\* How much of the window of an answer goes out.
Cut(window) == NameHeld(window, Releasable(window))

CoreAnswering(c, first, opens, closes, bare, cut) ==
    IF first > 0 THEN CoreDivided(c, first, opens, closes)
    ELSE IF bare THEN Again(ToBuffer(c, 1, FALSE, TRUE))
    ELSE Waits(Says(c, cut + 1, cut + 1, "CONTENT"))

\* What of the request a round depends on.
ToolsIn(r, c) == IF r.vocabulary.tools THEN ToolStarts(c.window) ELSE {}
BareIn(r, c) ==
    r.vocabulary.tools /\ Blank(c.content) /\ ~Blank(c.window)
        /\ c.window[FirstBlack(c.window)] \in {"b", "j"}
HeldIn(r) == Max({SyntaxHoldback, IF r.vocabulary.stop THEN Len(Stop) ELSE 0})
OutIn(r, window) ==
    IF Len(window) > HeldIn(r) THEN SafeLen(window, Len(window) - HeldIn(r)) ELSE 0
CutIn(r, window) ==
    LET cut == OutIn(r, window)
        run == cut + 1 - NameStart(window, cut + 1)
    IN  IF r.vocabulary.tools /\ run < NameLimit THEN cut - run ELSE cut

CoreRound(r, c) ==
    CASE c.mode = "TOOL_BUFFER" ->
            Waits([c EXCEPT !.toolBuffer = @ \o c.window, !.window = <<>>])
      [] c.mode = "REASONING" -> CoreReasoning(c, CloseHits(c), ToolsIn(r, c), OutIn(r, c.window))
      [] c.mode = "CONTENT" ->
            CoreAnswering(c, FirstOf(ThinkHits(c) \union CloseHits(c) \union ToolsIn(r, c)),
                          ThinkHits(c), CloseHits(c), BareIn(r, c), CutIn(r, c.window))

\* It is the request of the answer.
LEMMA RequestIs ==
    /\ \A c : ToolsIn(req, c) = ToolHits(c) /\ BareIn(req, c) = BareJson(c)
    /\ \A w : OutIn(req, w) = Releasable(w) /\ CutIn(req, w) = Cut(w)
  <1>1. HeldIn(req) = Holdback BY DEF HeldIn, Holdback, StopHoldback
  <1>2. \A w : OutIn(req, w) = Releasable(w) BY <1>1 DEF OutIn, Releasable
  <1>3. \A w : CutIn(req, w) = Cut(w) BY <1>2 DEF CutIn, Cut, NameHeld, HasTools
  <1>4. \A c : ToolsIn(req, c) = ToolHits(c) BY DEF ToolsIn, ToolHits, HasTools
  <1>5. \A c : BareIn(req, c) = BareJson(c) BY DEF BareIn, BareJson, HasTools
  <1> QED BY <1>2, <1>3, <1>4, <1>5

\* All else a round leaves alone, but for the count of thinking tokens once the
\* tool buffer is open.
Beside(f, e) ==
    /\ f.tail = e.tail /\ f.suppress = e.suppress /\ f.raw = e.raw /\ f.calls = e.calls
    /\ f.count = e.count /\ f.stopHit = e.stopHit /\ f.pieces = e.pieces
    /\ f.mode # "TOOL_BUFFER" => e.mode # "TOOL_BUFFER" /\ f.firstContent = e.firstContent

\* What a round makes of an emitter it makes of its core.
Follows(l, m, e) ==
    l.em \in Em /\ Beside(l.em, e) /\ m = [em |-> Core(l.em), again |-> l.again]

\* The rest of the window, behind what was said or thought in front of it.
LEMMA FrontFollows ==
    ASSUME NEW e \in Em, req.format \in ThreeFormats,
           NEW i \in 1 .. Len(e.window) + 1, NEW j \in 1 .. Len(e.window) + 1,
           NEW mode \in Modes
    PROVE  /\ LET f == [Think(e, Before(e.window, i)) EXCEPT !.window = From(@, j), !.mode = mode]
              IN  /\ f \in Em /\ Core(f) = Thinks(Core(e), i, j, mode)
                  /\ e.mode # "TOOL_BUFFER" => Beside(f, e)
           /\ LET f == [Say(e, Before(e.window, i)) EXCEPT !.window = From(@, j), !.mode = mode]
              IN  /\ f \in Em /\ Core(f) = Says(Core(e), i, j, mode)
                  /\ e.mode # "TOOL_BUFFER" => Beside(f, e)
  <1>1. e.window \in Text /\ Len(e.window) \in Nat BY EmTexts
  <1>2. j \in Nat /\ j >= 1 BY <1>1
  <1>3. PICK front \in Text : front = Before(e.window, i) BY <1>1, BeforeIs
  <1>4. PICK rest \in Text : rest = From(e.window, j) BY <1>1, <1>2, FromIs
  <1>5. PICK s : s = Think(e, front) OBVIOUS
  <1>6. s \in Em /\ Same(s, e) /\ s.reasoning = e.reasoning \o front /\ s.content = e.content
    BY <1>5, SpeakAny
  <1>7. PICK t : t = Say(e, front) OBVIOUS
  <1>8. t \in Em /\ Same(t, e) /\ t.content = e.content \o front /\ t.reasoning = e.reasoning
    BY <1>7, SpeakAny
  <1>9. PICK c : c = Core(e) OBVIOUS
  <1>10. /\ c.window = e.window /\ c.reasoning = e.reasoning /\ c.content = e.content
    BY <1>9, CoreIs
  <1>11. PICK f : f = [s EXCEPT !.window = rest, !.mode = mode] OBVIOUS
  <1>12. f \in Em BY <1>6, <1>11 DEF Em
  <1>13. Core(f) = Thinks(c, i, j, mode)
    <2>1. /\ f.window = rest /\ f.mode = mode /\ f.toolBuffer = s.toolBuffer
          /\ f.content = s.content /\ f.reasoning = s.reasoning
          /\ f.fromReasoning = s.fromReasoning /\ f.fallback = s.fallback
          /\ f.checkedPrefix = s.checkedPrefix
      BY <1>6, <1>11 DEF Em
    <2>2. Thinks(c, i, j, mode) =
             [mode |-> mode, window |-> rest, toolBuffer |-> e.toolBuffer, content |-> e.content,
              reasoning |-> e.reasoning \o front, fromReasoning |-> e.fromReasoning,
              fallback |-> e.fallback, checkedPrefix |-> e.checkedPrefix]
      <3>1. PICK u : u = e.reasoning \o front OBVIOUS
      <3>2. Thinks(c, i, j, mode) = [c EXCEPT !.reasoning = u, !.window = rest, !.mode = mode]
        BY <1>3, <1>4, <1>10, <3>1 DEF Thinks
      <3>3. c = [mode |-> e.mode, window |-> e.window, toolBuffer |-> e.toolBuffer,
                 content |-> e.content, reasoning |-> e.reasoning,
                 fromReasoning |-> e.fromReasoning, fallback |-> e.fallback,
                 checkedPrefix |-> e.checkedPrefix]
        BY <1>9 DEF Core
      <3> QED BY <3>1, <3>2, <3>3
    <2> QED BY <1>6, <1>9, <2>1, <2>2 DEF Core, Same
  <1>14. PICK g : g = [t EXCEPT !.window = rest, !.mode = mode] OBVIOUS
  <1>15. g \in Em BY <1>8, <1>14 DEF Em
  <1>16. Core(g) = Says(c, i, j, mode)
    <2>1. /\ g.window = rest /\ g.mode = mode /\ g.toolBuffer = t.toolBuffer
          /\ g.content = t.content /\ g.reasoning = t.reasoning
          /\ g.fromReasoning = t.fromReasoning /\ g.fallback = t.fallback
          /\ g.checkedPrefix = t.checkedPrefix
      BY <1>8, <1>14 DEF Em
    <2>2. Says(c, i, j, mode) =
             [mode |-> mode, window |-> rest, toolBuffer |-> e.toolBuffer, content |-> e.content \o front,
              reasoning |-> e.reasoning, fromReasoning |-> e.fromReasoning,
              fallback |-> e.fallback, checkedPrefix |-> e.checkedPrefix]
      <3>1. PICK u : u = e.content \o front OBVIOUS
      <3>2. Says(c, i, j, mode) = [c EXCEPT !.content = u, !.window = rest, !.mode = mode]
        BY <1>3, <1>4, <1>10, <3>1 DEF Says
      <3>3. c = [mode |-> e.mode, window |-> e.window, toolBuffer |-> e.toolBuffer,
                 content |-> e.content, reasoning |-> e.reasoning,
                 fromReasoning |-> e.fromReasoning, fallback |-> e.fallback,
                 checkedPrefix |-> e.checkedPrefix]
        BY <1>9 DEF Core
      <3> QED BY <3>1, <3>2, <3>3
    <2> QED BY <1>8, <1>9, <2>1, <2>2 DEF Core, Same
  <1>17. s.window = e.window /\ t.window = e.window BY <1>6, <1>8 DEF Same
  <1>18. f = [Think(e, Before(e.window, i)) EXCEPT !.window = From(@, j), !.mode = mode]
    BY <1>3, <1>4, <1>5, <1>11, <1>17
  <1>19. g = [Say(e, Before(e.window, i)) EXCEPT !.window = From(@, j), !.mode = mode]
    BY <1>3, <1>4, <1>7, <1>14, <1>17
  <1>20. e.mode # "TOOL_BUFFER" => Beside(f, e)
    <2>1. f.tail = s.tail /\ f.suppress = s.suppress /\ f.raw = s.raw /\ f.calls = s.calls
          /\ f.count = s.count /\ f.stopHit = s.stopHit /\ f.pieces = s.pieces
          /\ f.firstContent = s.firstContent
      BY <1>6, <1>11 DEF Em
    <2> QED BY <1>6, <2>1 DEF Beside, Same
  <1>21. e.mode # "TOOL_BUFFER" => Beside(g, e)
    <2>1. g.tail = t.tail /\ g.suppress = t.suppress /\ g.raw = t.raw /\ g.calls = t.calls
          /\ g.count = t.count /\ g.stopHit = t.stopHit /\ g.pieces = t.pieces
          /\ g.firstContent = t.firstContent
      BY <1>8, <1>14 DEF Em
    <2> QED BY <1>8, <2>1 DEF Beside, Same
  <1> QED BY <1>9, <1>12, <1>13, <1>15, <1>16, <1>18, <1>19, <1>20, <1>21

\* The tool buffer is opened at a place of the window.
LEMMA BufferFollows ==
    ASSUME NEW s \in Em, NEW j \in 1 .. Len(s.window) + 1, NEW before \in BOOLEAN,
           NEW fallback \in BOOLEAN
    PROVE  LET f == ToBuffer(s, j, before, fallback)
           IN  f \in Em /\ Core(f) = ToBuffer(Core(s), j, before, fallback) /\ Beside(f, s)
  <1>1. s.window \in Text /\ Len(s.window) \in Nat /\ s.fallback \in BOOLEAN BY EmTexts DEF Em
  <1>2. j \in Nat /\ j >= 1 BY <1>1
  <1>3. PICK rest \in Text : rest = From(s.window, j) BY <1>1, <1>2, FromIs
  <1>4. PICK b \in BOOLEAN : b = (s.fallback \/ fallback) BY <1>1
  <1>5. <<>> \in Text /\ "TOOL_BUFFER" \in Modes BY EmptySeq DEF Text, Modes
  <1>6. PICK f : f = [s EXCEPT !.toolBuffer = rest, !.window = <<>>, !.mode = "TOOL_BUFFER",
                               !.fromReasoning = before, !.fallback = b]
    OBVIOUS
  <1>7. f = ToBuffer(s, j, before, fallback) BY <1>3, <1>4, <1>6 DEF ToBuffer
  <1>8. f \in Em BY ZenonT(40), <1>5, <1>6 DEF Em
  <1>9. /\ f.window = <<>> /\ f.mode = "TOOL_BUFFER" /\ f.toolBuffer = rest
        /\ f.content = s.content /\ f.reasoning = s.reasoning /\ f.fromReasoning = before
        /\ f.fallback = b /\ f.checkedPrefix = s.checkedPrefix
    BY <1>6 DEF Em
  <1>10. ToBuffer(Core(s), j, before, fallback) =
            [Core(s) EXCEPT !.toolBuffer = rest, !.window = <<>>, !.mode = "TOOL_BUFFER",
                            !.fromReasoning = before, !.fallback = b]
    BY <1>3, <1>4, CoreIs DEF ToBuffer
  <1>11. Core(f) = ToBuffer(Core(s), j, before, fallback) BY <1>9, <1>10 DEF Core
  <1>12. Beside(f, s) BY <1>6, <1>9 DEF Beside, Em
  <1> QED BY <1>7, <1>8, <1>11, <1>12

=============================================================================
