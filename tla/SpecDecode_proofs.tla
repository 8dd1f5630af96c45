------------------------- MODULE SpecDecode_proofs -------------------------
(***************************************************************************)
(* Proofs about SpecDecode, for any vocabulary, widths, hooks and budget.  *)
(***************************************************************************)
EXTENDS SpecDecode, SequenceTheorems, FiniteSetTheorems, TLAPS

Tokens == Seq(Token)

\* How much s holds from the first token on.
Upto(s, n) == SubSeq(s, 1, n)

-----------------------------------------------------------------------------
(* Least numbers *)

\* Nonempty sets of numbers have a least one; by the well-founded inclusion of
\* the intervals below them.
LEMMA Least ==
    ASSUME NEW A \in SUBSET Nat, A # {}
    PROVE  \E k \in A : \A j \in A : k <= j
  <1> DEFINE R == StrictSubsetOrdering(Nat)
             T == {0 .. k : k \in A}
  <1>1. IsWellFoundedOn(R, FiniteSubsetsOf(Nat)) BY FS_StrictSubsetOrderingWellFounded
  <1>2. T \subseteq FiniteSubsetsOf(Nat)
    <2> SUFFICES ASSUME NEW k \in A PROVE 0 .. k \in FiniteSubsetsOf(Nat) OBVIOUS
    <2>1. k \in Int /\ 0 \in Int /\ 0 .. k \subseteq Nat OBVIOUS
    <2>2. IsFiniteSet(0 .. k) BY <2>1, FS_Interval
    <2> QED BY <2>1, <2>2 DEF FiniteSubsetsOf
  <1>3. T # {} OBVIOUS
  <1> HIDE DEF R, T
  <1>4. PICK x \in T : \A y \in T : ~(<<y, x>> \in R) BY <1>1, <1>2, <1>3, WFMin
  <1> USE DEF R, T
  <1>5. PICK k \in A : x = 0 .. k OBVIOUS
  <1>6. ASSUME NEW j \in A PROVE k <= j
    <2> SUFFICES ASSUME j < k PROVE FALSE BY <1>5
    <2>1. 0 .. j \in T OBVIOUS
    <2>2. 0 .. j \in SUBSET Nat /\ 0 .. k \in SUBSET Nat /\ 0 .. j \subseteq 0 .. k OBVIOUS
    <2>3. k \in 0 .. k /\ k \notin 0 .. j OBVIOUS
    <2>4. <<0 .. j, 0 .. k>> \in R BY <2>2, <2>3 DEF StrictSubsetOrdering
    <2> QED BY <1>4, <1>5, <2>1, <2>4
  <1> QED BY <1>5, <1>6

-----------------------------------------------------------------------------
(* Sequences of tokens *)

\* A sequence has a length, its entries are tokens, and so is its last one.
LEMMA Lengths ==
    ASSUME NEW s \in Tokens
    PROVE  /\ Len(s) \in Nat /\ (s = <<>> <=> Len(s) = 0)
           /\ \A i \in 1 .. Len(s) : s[i] \in Token
           /\ s # <<>> => Last(s) \in Token
  <1>1. Len(s) \in Nat /\ (s = <<>> <=> Len(s) = 0) BY EmptySeq, LenProperties DEF Tokens
  <1>2. \A i \in 1 .. Len(s) : s[i] \in Token BY ElementOfSeq DEF Tokens
  <1>3. s # <<>> => Len(s) \in 1 .. Len(s) BY <1>1
  <1> QED BY <1>1, <1>2, <1>3 DEF Last

\* No tokens are a sequence of tokens.
LEMMA Nothing == <<>> \in Tokens /\ Len(<<>>) = 0
  BY EmptySeq DEF Tokens

\* A single token is one, too.
LEMMA One ==
    ASSUME NEW t \in Token
    PROVE  <<t>> \in Tokens /\ Len(<<t>>) = 1 /\ <<t>>[1] = t /\ Last(<<t>>) = t /\ <<t>> # <<>>
  BY DEF Tokens, Last

\* The first n entries of s.
LEMMA UptoIs ==
    ASSUME NEW s \in Tokens, NEW n \in 0 .. Len(s)
    PROVE  /\ Upto(s, n) \in Tokens /\ Len(Upto(s, n)) = n
           /\ \A i \in 1 .. n : Upto(s, n)[i] = s[i]
           /\ n = 0 <=> Upto(s, n) = <<>>
  <1> DEFINE u == Upto(s, n)
  <1>1. Len(s) \in Nat /\ n \in Nat /\ 1 \in Int /\ n \in Int BY Lengths
  <1>2. \A i \in 1 .. n : s[i] \in Token BY <1>1, Lengths
  <1>3. /\ u \in Tokens /\ Len(u) = IF 1 <= n THEN n - 1 + 1 ELSE 0
        /\ \A i \in 1 .. n - 1 + 1 : u[i] = s[1 + i - 1]
    BY <1>1, <1>2, SubSeqProperties DEF Tokens, Upto
  <1> HIDE DEF u
  <1>4. \A i \in 1 .. n : u[i] = s[i]
    <2> SUFFICES ASSUME NEW i \in 1 .. n PROVE u[i] = s[i] OBVIOUS
    <2>1. i \in 1 .. n - 1 + 1 /\ 1 + i - 1 = i BY <1>1
    <2> QED BY <2>1, <1>3
  <1>5. Len(u) = n BY <1>1, <1>3
  <1>6. n = 0 <=> u = <<>> BY <1>1, <1>3, <1>5, Lengths
  <1> QED BY <1>3, <1>4, <1>5, <1>6 DEF u

\* All of s is s.
LEMMA UptoAll ==
    ASSUME NEW s \in Tokens
    PROVE  Upto(s, Len(s)) = s
  BY SubSeqFull DEF Tokens, Upto

\* The entries of a concatenation, first those of s, then those of t.
LEMMA CatIs ==
    ASSUME NEW s \in Tokens, NEW t \in Tokens
    PROVE  /\ s \o t \in Tokens /\ Len(s \o t) = Len(s) + Len(t)
           /\ \A i \in 1 .. Len(s) : (s \o t)[i] = s[i]
           /\ \A i \in 1 .. Len(t) : (s \o t)[Len(s) + i] = t[i]
           /\ s \o <<>> = s /\ <<>> \o s = s
           /\ t # <<>> => s \o t # <<>> /\ Last(s \o t) = Last(t)
  <1>1. Len(s) \in Nat /\ Len(t) \in Nat BY Lengths
  <1>2. /\ s \o t \in Tokens /\ Len(s \o t) = Len(s) + Len(t)
        /\ \A i \in 1 .. Len(s) + Len(t) : (s \o t)[i] = IF i <= Len(s) THEN s[i] ELSE t[i - Len(s)]
    BY ConcatProperties DEF Tokens
  <1>3. s \o <<>> = s /\ <<>> \o s = s BY ConcatEmptySeq DEF Tokens
  <1>4. \A i \in 1 .. Len(s) : (s \o t)[i] = s[i] BY <1>1, <1>2
  <1>5. ASSUME NEW i \in 1 .. Len(t) PROVE (s \o t)[Len(s) + i] = t[i]
    <2>1. Len(s) + i \in 1 .. Len(s) + Len(t) /\ ~(Len(s) + i <= Len(s)) /\ Len(s) + i - Len(s) = i
      BY <1>1
    <2> QED BY <2>1, <1>2
  <1>6. ASSUME t # <<>> PROVE s \o t # <<>> /\ Last(s \o t) = Last(t)
    <2>1. Len(t) \in 1 .. Len(t) /\ Len(s \o t) # 0 BY <1>1, <1>2, <1>6, Lengths
    <2>2. s \o t # <<>> BY <1>2, <2>1, Nothing
    <2> QED BY <2>1, <2>2, <1>2, <1>5 DEF Last
  <1> QED BY <1>2, <1>3, <1>4, <1>5, <1>6

\* How long it is, where no more is needed.
LEMMA CatLen ==
    ASSUME NEW s \in Tokens, NEW t \in Tokens
    PROVE  s \o t \in Tokens /\ Len(s \o t) = Len(s) + Len(t)
  BY CatIs

\* How it is bracketed makes no difference.
LEMMA CatAssoc ==
    ASSUME NEW s \in Tokens, NEW t \in Tokens, NEW u \in Tokens
    PROVE  (s \o t) \o u = s \o (t \o u)
  BY ConcatAssociative DEF Tokens

\* Append is concatenation with a single token.
LEMMA AppendIs ==
    ASSUME NEW s \in Tokens, NEW t \in Token
    PROVE  /\ Append(s, t) = s \o <<t>> /\ Append(s, t) \in Tokens
           /\ Len(Append(s, t)) = Len(s) + 1 /\ Append(s, t) # <<>> /\ Last(Append(s, t)) = t
           /\ Append(s, t)[Len(s) + 1] = t
           /\ \A i \in 1 .. Len(s) : Append(s, t)[i] = s[i]
  <1>1. Append(s, t) = s \o <<t>> BY AppendIsConcat DEF Tokens
  <1>2. /\ Append(s, t) \in Tokens /\ Append(s, t) # <<>> /\ Len(Append(s, t)) = Len(s) + 1
        /\ Append(s, t)[Len(s) + 1] = t
        /\ \A i \in 1 .. Len(s) : Append(s, t)[i] = s[i]
    BY AppendProperties DEF Tokens
  <1> QED BY <1>1, <1>2 DEF Last

\* What is appended to a concatenation is appended to its second part.
LEMMA CatAppend ==
    ASSUME NEW s \in Tokens, NEW t \in Tokens, NEW x \in Token
    PROVE  Append(s \o t, x) = s \o Append(t, x)
  <1>1. PICK one \in Tokens : one = <<x>> BY One
  <1>2. (s \o t) \o one = s \o (t \o one) BY CatAssoc
  <1>3. PICK u \in Tokens : u = s \o t BY CatLen
  <1>4. Append(u, x) = u \o one /\ Append(t, x) = t \o one BY <1>1, AppendIs
  <1> QED BY <1>2, <1>3, <1>4

\* The beginning of a concatenation.
LEMMA UptoOfCat ==
    ASSUME NEW s \in Tokens, NEW t \in Tokens, NEW n \in 0 .. Len(t)
    PROVE  /\ Upto(s \o t, Len(s) + n) = s \o Upto(t, n)
           /\ Upto(s \o t, Len(s)) = s
  <1>1. Len(s) \in Nat /\ Len(t) \in Nat /\ n \in Nat BY Lengths
  <1>2. s \o t \in Tokens /\ Len(s \o t) = Len(s) + Len(t)
        /\ (\A i \in 1 .. Len(s) : (s \o t)[i] = s[i])
        /\ \A i \in 1 .. Len(t) : (s \o t)[Len(s) + i] = t[i]
    BY CatIs
  <1>3. Upto(t, n) \in Tokens /\ Len(Upto(t, n)) = n /\ \A i \in 1 .. n : Upto(t, n)[i] = t[i]
    BY UptoIs
  <1>4. Upto(s \o t, Len(s) + n) = s \o Upto(t, n)
    <2> DEFINE c == Upto(t, n)
               a == Upto(s \o t, Len(s) + n)
               b == s \o c
    <2>1. c \in Tokens /\ Len(c) = n BY <1>3
    <2> HIDE DEF c
    <2>2. Len(s) + n \in 0 .. Len(s \o t) BY <1>1, <1>2
    <2>3. a \in Tokens /\ Len(a) = Len(s) + n /\ \A i \in 1 .. Len(s) + n : a[i] = (s \o t)[i]
      BY <2>2, <1>2, UptoIs
    <2>4. b \in Tokens /\ Len(b) = Len(s) + n
          /\ (\A i \in 1 .. Len(s) : b[i] = s[i])
          /\ \A i \in 1 .. n : b[Len(s) + i] = c[i]
      BY <2>1, CatIs
    <2> HIDE DEF a, b
    <2>5. ASSUME NEW i \in 1 .. Len(a) PROVE a[i] = b[i]
      <3>1. i \in 1 .. Len(s) + n BY <2>3
      <3>2. CASE i <= Len(s)
        <4>1. i \in 1 .. Len(s) BY <1>1, <3>1, <3>2
        <4> QED BY <3>1, <4>1, <2>3, <2>4, <1>2
      <3>3. CASE ~(i <= Len(s))
        <4>1. PICK j \in 1 .. n : i = Len(s) + j
          <5>1. i - Len(s) \in 1 .. n /\ i = Len(s) + (i - Len(s)) BY <1>1, <3>1, <3>3
          <5> QED BY <5>1
        <4>2. j \in 1 .. Len(t) BY <1>1
        <4> QED BY <3>1, <4>1, <4>2, <2>3, <2>4, <1>2, <1>3 DEF c
      <3> QED BY <3>2, <3>3
    <2>6. a = b BY <2>3, <2>4, <2>5, SeqEqual DEF Tokens
    <2> QED BY <2>6 DEF a, b, c
  <1>5. Upto(s \o t, Len(s)) = s
    <2> DEFINE a == Upto(s \o t, Len(s))
    <2>1. Len(s) \in 0 .. Len(s \o t) BY <1>1, <1>2
    <2>2. a \in Tokens /\ Len(a) = Len(s) /\ \A i \in 1 .. Len(s) : a[i] = (s \o t)[i]
      BY <2>1, <1>2, UptoIs
    <2> HIDE DEF a
    <2>3. \A i \in 1 .. Len(a) : a[i] = s[i] BY <2>2, <1>2
    <2>4. a = s BY <2>2, <2>3, SeqEqual DEF Tokens
    <2> QED BY <2>4 DEF a
  <1> QED BY <1>4, <1>5

\* One token more.
LEMMA UptoNext ==
    ASSUME NEW s \in Tokens, NEW n \in 0 .. Len(s) - 1
    PROVE  Upto(s, n + 1) = Append(Upto(s, n), s[n + 1])
  <1>1. Len(s) \in Nat /\ n \in Nat /\ n \in 0 .. Len(s) /\ n + 1 \in 0 .. Len(s)
        /\ n + 1 \in 1 .. Len(s)
    BY Lengths
  <1>2. s[n + 1] \in Token BY <1>1, Lengths
  <1> DEFINE a == Upto(s, n + 1)
             u == Upto(s, n)
             b == Append(u, s[n + 1])
  <1>3. a \in Tokens /\ Len(a) = n + 1 /\ \A i \in 1 .. n + 1 : a[i] = s[i] BY <1>1, UptoIs
  <1>4. u \in Tokens /\ Len(u) = n /\ \A i \in 1 .. n : u[i] = s[i] BY <1>1, UptoIs
  <1> HIDE DEF a, u
  <1>5. b \in Tokens /\ Len(b) = n + 1 /\ b[n + 1] = s[n + 1] /\ \A i \in 1 .. n : b[i] = u[i]
    BY <1>2, <1>4, AppendIs
  <1> HIDE DEF b
  <1>6. ASSUME NEW i \in 1 .. Len(a) PROVE a[i] = b[i]
    <2>1. CASE i = n + 1 BY <2>1, <1>1, <1>3, <1>5
    <2>2. CASE i # n + 1
      <3>1. i \in 1 .. n BY <2>2, <1>1, <1>3
      <3> QED BY <3>1, <1>1, <1>3, <1>4, <1>5
    <2> QED BY <2>1, <2>2
  <1>7. a = b BY <1>3, <1>5, <1>6, SeqEqual DEF Tokens
  <1> QED BY <1>7 DEF a, b, u

\* The beginning of a beginning.
LEMMA UptoOfUpto ==
    ASSUME NEW s \in Tokens, NEW m \in 0 .. Len(s), NEW n \in 0 .. m
    PROVE  Upto(Upto(s, m), n) = Upto(s, n)
  <1>1. Len(s) \in Nat /\ m \in Nat /\ n \in Nat /\ n \in 0 .. Len(s) BY Lengths
  <1> DEFINE u == Upto(s, m)
             a == Upto(u, n)
             b == Upto(s, n)
  <1>2. u \in Tokens /\ Len(u) = m /\ \A i \in 1 .. m : u[i] = s[i] BY UptoIs
  <1>3. a \in Tokens /\ Len(a) = n /\ \A i \in 1 .. n : a[i] = u[i]
    <2> HIDE DEF u
    <2> QED BY <1>2, UptoIs
  <1>4. b \in Tokens /\ Len(b) = n /\ \A i \in 1 .. n : b[i] = s[i] BY <1>1, UptoIs
  <1> HIDE DEF a, b, u
  <1>5. \A i \in 1 .. Len(a) : a[i] = b[i] BY <1>1, <1>2, <1>3, <1>4
  <1>6. a = b BY <1>3, <1>4, <1>5, SeqEqual DEF Tokens
  <1> QED BY <1>6 DEF a, b, u

-----------------------------------------------------------------------------
(* The story *)

\* Is s how the story begins?
OfStory(s) == Len(s) <= NGen /\ \A i \in 1 .. Len(s) : s[i] = story[i]

\* The story is NGen tokens long.
LEMMA StoryIs ==
    ASSUME story \in Stories
    PROVE  /\ story \in Tokens /\ Len(story) = NGen /\ NGen \in Nat /\ NGen >= 1
           /\ \A i \in 1 .. NGen : story[i] \in Token
  <1>1. NGen \in Nat /\ NGen >= 1 BY SpecAssumption
  <1>2. story \in [1 .. NGen -> Token] BY DEF Stories
  <1>3. story \in Tokens /\ Len(story) = NGen BY <1>1, <1>2 DEF Tokens
  <1> QED BY <1>1, <1>2, <1>3

\* OfStory says entry by entry what IsPrefixOf says of the story.
LEMMA PrefixOfStory ==
    ASSUME story \in Stories, NEW s \in Tokens
    PROVE  IsPrefixOf(s, story) <=> OfStory(s)
  <1>1. story \in Tokens /\ Len(story) = NGen /\ NGen \in Nat /\ Len(s) \in Nat BY StoryIs, Lengths
  <1>2. CASE Len(s) <= NGen
    <2>1. PICK u \in Tokens : u = Upto(story, Len(s))
      <3>1. Len(s) \in 0 .. Len(story) BY <1>1, <1>2
      <3> QED BY <1>1, <3>1, UptoIs
    <2>2. Len(u) = Len(s) /\ \A i \in 1 .. Len(s) : u[i] = story[i]
      <3>1. Len(s) \in 0 .. Len(story) BY <1>1, <1>2
      <3> QED BY <1>1, <2>1, <3>1, UptoIs
    <2>3. s = u <=> \A i \in 1 .. Len(s) : s[i] = u[i] BY <2>2, SeqEqual DEF Tokens
    <2>4. IsPrefixOf(s, story) <=> s = u BY <1>1, <1>2, <2>1 DEF IsPrefixOf, Upto
    <2> QED BY <1>2, <2>2, <2>3, <2>4 DEF OfStory
  <1>3. CASE ~(Len(s) <= NGen) BY <1>1, <1>3 DEF IsPrefixOf, OfStory
  <1> QED BY <1>2, <1>3

\* A pass behind the story as it is goes on with it.
LEMMA AnswersAre ==
    ASSUME story \in Stories, NEW s \in Tokens, NEW r \in Tokens
    PROVE  /\ Answers(s, r) \subseteq Token
           /\ s = r /\ OfStory(s) /\ Len(s) < NGen => Answers(s, r) = {story[Len(s) + 1]}
  <1>1. NGen \in Nat /\ Len(s) \in Nat /\ \A i \in 1 .. NGen : story[i] \in Token BY StoryIs, Lengths
  <1>2. Len(s) < NGen => Len(s) + 1 \in 1 .. NGen BY <1>1
  <1> QED BY <1>1, <1>2, PrefixOfStory DEF Answers

\* A prefix of the story, and tokens that go on as it does, are a longer one.
LEMMA StoryOn ==
    ASSUME story \in Stories, NEW s \in Tokens, NEW t \in Tokens,
           OfStory(s), Len(s) + Len(t) <= NGen,
           \A i \in 1 .. Len(t) : t[i] = story[Len(s) + i]
    PROVE  OfStory(s \o t)
  <1>1. Len(s) \in Nat /\ Len(t) \in Nat /\ NGen \in Nat BY StoryIs, Lengths
  <1>2. PICK u \in Tokens : u = s \o t BY CatIs
  <1>3. /\ Len(u) = Len(s) + Len(t) /\ (\A i \in 1 .. Len(s) : u[i] = s[i])
        /\ \A i \in 1 .. Len(t) : u[Len(s) + i] = t[i]
    BY <1>2, CatIs
  <1>4. ASSUME NEW i \in 1 .. Len(u) PROVE u[i] = story[i]
    <2>1. CASE i <= Len(s)
      <3>1. i \in 1 .. Len(s) BY <1>1, <2>1
      <3> QED BY <3>1, <1>3 DEF OfStory
    <2>2. CASE ~(i <= Len(s))
      <3>1. i - Len(s) \in 1 .. Len(t) /\ i = Len(s) + (i - Len(s)) BY <1>1, <1>3, <2>2
      <3>2. PICK j \in 1 .. Len(t) : i = Len(s) + j BY <3>1
      <3> QED BY <3>2, <1>3
    <2> QED BY <2>1, <2>2
  <1> QED BY <1>2, <1>3, <1>4 DEF OfStory

\* Tokens that each are what the target says behind those before them, the
\* first as the story has it, are how the story goes on.
LEMMA Along ==
    ASSUME story \in Stories, NEW s \in Tokens, OfStory(s), Len(s) < NGen,
           NEW d \in Tokens, d # <<>>, d[1] = story[Len(s) + 1],
           NEW n \in 1 .. Len(d),
           \A i \in 2 .. n : d[i] \in Answers(s \o Upto(d, i - 1), s \o Upto(d, i - 1))
    PROVE  /\ \A i \in 1 .. n : Len(s) + i <= NGen => d[i] = story[Len(s) + i]
           /\ \A t \in Answers(s \o Upto(d, n), s \o Upto(d, n)) :
                 Len(s) + n < NGen => t = story[Len(s) + n + 1]
  <1>1. Len(s) \in Nat /\ Len(d) \in Nat /\ NGen \in Nat /\ n \in Nat /\ n \in 0 .. Len(d)
    BY StoryIs, Lengths
  <1>2. ASSUME NEW m \in 1 .. Len(d), Len(s) + m < NGen,
               \A i \in 1 .. m : d[i] = story[Len(s) + i]
        PROVE  Answers(s \o Upto(d, m), s \o Upto(d, m)) = {story[Len(s) + m + 1]}
    <2>1. m \in Nat /\ m \in 0 .. Len(d) BY <1>1
    <2>2. PICK u \in Tokens : u = Upto(d, m) BY <2>1, UptoIs
    <2>3. Len(u) = m /\ \A i \in 1 .. m : u[i] = d[i] BY <2>1, <2>2, UptoIs
    <2>4. PICK e \in Tokens : e = s \o u BY CatIs
    <2>5. Len(e) = Len(s) + m BY <2>3, <2>4, CatIs
    <2>6. OfStory(e)
      <3>1. Len(s) + Len(u) <= NGen BY <1>1, <1>2, <2>1, <2>3
      <3>2. \A i \in 1 .. Len(u) : u[i] = story[Len(s) + i] BY <1>2, <2>3
      <3>3. OfStory(s \o u) BY <3>1, <3>2, StoryOn
      <3> QED BY <3>3, <2>4
    <2> QED BY <1>2, <2>2, <2>4, <2>5, <2>6, AnswersAre
  <1> DEFINE Bad == {k \in 1 .. n : Len(s) + k <= NGen /\ d[k] # story[Len(s) + k]}
  <1>3. Bad = {}
    <2> SUFFICES ASSUME Bad # {} PROVE FALSE OBVIOUS
    <2>1. Bad \in SUBSET Nat BY <1>1
    <2>2. PICK m \in Bad : \A j \in Bad : m <= j
      <3> HIDE DEF Bad
      <3> QED BY <2>1, Least
    <2>3. m \in 1 .. n /\ Len(s) + m <= NGen /\ d[m] # story[Len(s) + m] /\ m # 1 OBVIOUS
    <2>4. m - 1 \in 1 .. Len(d) /\ m \in 2 .. n /\ Len(s) + (m - 1) < NGen
          /\ Len(s) + (m - 1) + 1 = Len(s) + m
      BY <1>1, <2>3
    <2>5. ASSUME NEW i \in 1 .. m - 1 PROVE d[i] = story[Len(s) + i]
      <3>1. i \in 1 .. n /\ ~(m <= i) /\ Len(s) + i <= NGen BY <1>1, <2>3
      <3> QED BY <3>1, <2>2
    <2>6. Answers(s \o Upto(d, m - 1), s \o Upto(d, m - 1)) = {story[Len(s) + m]}
      BY <1>2, <2>4, <2>5
    <2> QED BY <2>3, <2>4, <2>6
  <1>4. \A i \in 1 .. n : Len(s) + i <= NGen => d[i] = story[Len(s) + i] BY <1>3
  <1>5. ASSUME Len(s) + n < NGen
        PROVE  Answers(s \o Upto(d, n), s \o Upto(d, n)) = {story[Len(s) + n + 1]}
    <2>1. \A i \in 1 .. n : d[i] = story[Len(s) + i] BY <1>1, <1>4, <1>5
    <2> QED BY <1>2, <1>5, <2>1
  <1> QED BY <1>4, <1>5

-----------------------------------------------------------------------------
(* What verification accepts *)

\* There is a longest prefix of the draft that the target confirms.
LEMMA AcceptedIs ==
    ASSUME NEW draft \in Tokens, draft # <<>>, NEW answer, NEW n, n = Accepted(draft, answer)
    PROVE  /\ n \in 1 .. Len(draft)
           /\ \A i \in 2 .. n : draft[i] = answer[i - 1]
  <1>1. Len(draft) \in Nat /\ Len(draft) >= 1 BY Lengths
  <1> DEFINE P(m) == /\ \A i \in 2 .. m : draft[i] = answer[i - 1]
                     /\ m < Len(draft) => draft[m + 1] # answer[m]
             Wrong == {k \in 1 .. Len(draft) - 1 : draft[k + 1] # answer[k]}
  <1>2. \E m \in 1 .. Len(draft) : P(m)
    <2>1. CASE Wrong = {}
      <3>1. ASSUME NEW i \in 2 .. Len(draft) PROVE draft[i] = answer[i - 1]
        <4>1. i - 1 \in 1 .. Len(draft) - 1 /\ (i - 1) + 1 = i BY <1>1
        <4> QED BY <2>1, <4>1
      <3>2. Len(draft) \in 1 .. Len(draft) /\ ~(Len(draft) < Len(draft)) BY <1>1
      <3> QED BY <3>1, <3>2
    <2>2. CASE Wrong # {}
      <3>1. Wrong \in SUBSET Nat BY <1>1
      <3>2. PICK m \in Wrong : \A k \in Wrong : m <= k
        <4> HIDE DEF Wrong
        <4> QED BY <2>2, <3>1, Least
      <3>3. m \in 1 .. Len(draft) - 1 /\ draft[m + 1] # answer[m] OBVIOUS
      <3>4. ASSUME NEW i \in 2 .. m PROVE draft[i] = answer[i - 1]
        <4>1. i - 1 \in 1 .. Len(draft) - 1 /\ (i - 1) + 1 = i /\ ~(m <= i - 1) BY <1>1, <3>3
        <4>2. i - 1 \notin Wrong BY <3>2, <4>1
        <4> QED BY <4>1, <4>2
      <3>5. m \in 1 .. Len(draft) BY <1>1, <3>3
      <3> QED BY <3>3, <3>4, <3>5
    <2> QED BY <2>1, <2>2
  <1>3. n = CHOOSE m \in 1 .. Len(draft) : P(m) BY DEF Accepted
  <1> HIDE DEF P
  <1>4. n \in 1 .. Len(draft) /\ P(n) BY <1>2, <1>3
  <1> QED BY <1>4 DEF P

-----------------------------------------------------------------------------
(* The inductive invariant *)

Phase == {"loop", "fix", "emit", "commit", "close", "emitTree", "settle", "flush",
          "first", "ar", "done", "degenerate", "failed"}
TokenByToken == {"first", "ar", "done", "degenerate", "failed"}

StepType == [kind : {"none", "chain", "plain", "tree"}, draft : Tokens, accept : Nat,
             toks : Tokens, next : Token \union {NoToken}, n : Nat,
             over : {"no", "eos", "stall", "close"}]
ArType == [n : Nat, left : Nat, close : Tokens, injected : Nat, entry : Nat,
           by : {"nobody", "seed", "stall", "close"}]

\* The variables' types, and the bounds between them.
Shape ==
    /\ story \in Stories /\ use \in Uses
    /\ pc \in Phase /\ (~use.spec => pc \in TokenByToken)
    /\ rows \in Tokens /\ rec \in Tokens /\ snap \in Tokens /\ out \in Tokens
    /\ pos \in Nat /\ pos <= Len(rows) /\ curPos = pos
    /\ lastTok \in Token \union {NoToken}
    /\ generated \in Nat /\ burst \in 0 .. Burst
    /\ step \in StepType /\ step.n <= Len(step.toks)
    /\ ar \in ArType /\ ar.left <= ar.n /\ ar.injected <= Len(ar.close)
    /\ cancelled \in BOOLEAN /\ departed \in BOOLEAN

\* The answer goes on.
Running == out = <<>> \/ Last(out) # Eos

\* Between two steps: rows, recurrent state and answer are the story so far, and
\* the seed is how it goes on.
LoopOk ==
    /\ ~departed /\ Running /\ OfStory(out)
    /\ pos = Len(out) /\ generated = pos
    /\ Upto(rows, pos) = out /\ rec = out
    /\ out = <<>> => lastTok # NoToken
    /\ pos < NGen => lastTok \in {NoToken, story[pos + 1]}

\* Behind the verification of a chain: the accepted tokens are the story's.
FixOk ==
    /\ ~departed /\ Running /\ OfStory(out)
    /\ pos = Len(out) /\ generated = pos /\ pos < NGen
    /\ snap = out /\ rec = out \o step.draft /\ rows = out \o step.draft
    /\ step.kind = "chain" /\ step.n = 0 /\ step.over = "no" /\ step.next \in Token
    /\ step.accept \in 1 .. Len(step.draft)
    /\ \A i \in 1 .. step.accept : pos + i <= NGen => step.draft[i] = story[pos + i]
    /\ pos + step.accept < NGen => step.next = story[pos + step.accept + 1]

\* What the step commits behind b is how the story goes on, and so is the seed.
Committed(b) ==
    /\ OfStory(b) /\ pos + Len(step.toks) <= NGen
    /\ \A i \in 1 .. Len(step.toks) : step.toks[i] = story[pos + i]
    /\ pos + Len(step.toks) < NGen => step.next \in {NoToken, story[pos + Len(step.toks) + 1]}

\* b had been emitted when the step began; what the step has emitted since.
Emitted(b) ==
    /\ b \in Tokens /\ Len(b) = pos /\ generated = pos
    /\ out = b \o Upto(step.toks, step.n)

\* While a chain or plain step emits: rows and recurrent state hold all it will.
EmitFrom(b) ==
    /\ ~departed /\ Emitted(b) /\ Committed(b)
    /\ pos + Len(step.toks) <= Len(rows)
    /\ Upto(rows, pos + Len(step.toks)) = b \o step.toks
    /\ rec = b \o step.toks
    /\ step.kind = "chain" \/ ReplayHooksArmed => snap = b
EmitOk ==
    /\ step.n < Len(step.toks) /\ step.over = "no" /\ Running
    /\ \E b \in Tokens : EmitFrom(b)

\* The step has emitted what it may.
CommitOk ==
    /\ step.over # "eos" => Running
    /\ step.over = "stall" => StallArmed
    /\ step.over # "stall" =>
          step.n > 0 /\ (step.n = Len(step.toks) \/ cancelled \/ step.over = "eos")
    /\ \E b \in Tokens : EmitFrom(b)

\* A close token has taken the place of the token emitted last.
Replaced == Len(out) <= NGen /\ out # <<>> /\ Last(out) = Close[1] /\ (~departed => OfStory(out))
ReplacedOk ==
    /\ Replaced /\ step.n > 0 /\ pos + step.n <= Len(rows)
    /\ \E b \in Tokens : Emitted(b) /\ snap = b
CloseOk ==
    /\ Replaced /\ pos = Len(out) /\ generated = pos
    /\ snap \o Upto(step.toks, step.n) = out

\* While a tree step emits: the cache is still where the step began.
TreeFrom(b) ==
    /\ ~departed /\ Emitted(b) /\ Committed(b)
    /\ Upto(rows, pos) = b /\ rec = b /\ snap = b
    /\ step.next \in Token
TreeOk ==
    /\ step.over = "no" => Running
    /\ \E b \in Tokens : TreeFrom(b)

FirstOk ==
    /\ ~departed /\ out = <<>> /\ rows = <<>> /\ rec = <<>> /\ pos = 0
    /\ lastTok = story[1] /\ ar.by = "nobody" /\ ar.entry = 0 /\ ar.left < NGen

ArOk ==
    /\ out # <<>> /\ Running /\ Len(out) + ar.left <= NGen /\ ar.entry <= Len(out)
    /\ ~departed => ar.by = "nobody" /\ OfStory(out)
    /\ ar.by = "nobody" =>
          Append(Upto(rows, pos), Last(out)) = out /\ Append(rec, Last(out)) = out
    /\ ar.by # "nobody" /\ Len(out) = ar.entry =>
          rec = out /\ (ar.by # "close" => Upto(rows, pos) = out)

\* The close sequence of an answer decoded token by token: not begun while the
\* reserve is not reached, begun where it was, or all there.
Closing ==
    /\ ar.n = NGen /\ ar.entry = 0 /\ ar.close = ArmedClose
    /\ use.close =>
          /\ ar.injected = 0 /\ out # <<>> => NGen - (Len(out) - 1) > HardLimit
          /\ ar.injected > 0 /\ ar.injected < Len(Close) =>
                /\ ar.injected <= Len(out)
                /\ \A i \in 1 .. ar.injected : out[Len(out) - ar.injected + i] = Close[i]
                /\ Len(out) = ar.injected \/ NGen - (Len(out) - ar.injected) >= HardLimit
          /\ ar.injected = Len(Close) => Within(Close, out)

Phases ==
    /\ pc = "loop" => LoopOk
    /\ pc = "fix" => FixOk
    /\ pc = "emit" => EmitOk
    /\ pc = "commit" => IF step.over = "close" THEN ReplacedOk ELSE CommitOk
    /\ pc = "close" => CloseOk
    /\ pc = "emitTree" => TreeOk /\ step.n < Len(step.toks) /\ step.over = "no"
    /\ pc = "settle" =>
          TreeOk /\ step.n > 0 /\ step.over \in {"no", "eos"}
                 /\ (step.over = "no" => step.n = Len(step.toks))
    /\ pc = "first" => FirstOk
    /\ pc = "ar" => ArOk

IInv == Shape /\ Phases /\ (~use.spec => Closing)

\* The types that follow from Shape, where a step needs them.
LEMMA Shaped ==
    ASSUME Shape
    PROVE  /\ pos \in Nat /\ generated \in Nat /\ NGen \in Nat /\ NGen >= 1 /\ Burst \in Nat
           /\ step.n \in Nat /\ step.accept \in Nat /\ step.toks \in Tokens /\ step.draft \in Tokens
           /\ step.next \in Token \union {NoToken} /\ NoToken \notin Token
           /\ ar.n \in Nat /\ ar.left \in Nat /\ ar.close \in Tokens /\ ar.injected \in Nat
           /\ ar.entry \in Nat
           /\ Len(out) \in Nat /\ Len(rows) \in Nat /\ Len(rec) \in Nat /\ Len(snap) \in Nat
           /\ Len(step.toks) \in Nat /\ Len(step.draft) \in Nat /\ Len(ar.close) \in Nat
           /\ Eos \in Token
  <1>1. NGen \in Nat /\ NGen >= 1 /\ Burst \in Nat /\ NoToken \notin Token /\ Eos \in Token
    BY SpecAssumption
  <1>2. /\ pos \in Nat /\ generated \in Nat /\ rows \in Tokens /\ rec \in Tokens /\ snap \in Tokens
        /\ out \in Tokens /\ step \in StepType /\ ar \in ArType
    BY DEF Shape
  <1>3. /\ step.n \in Nat /\ step.accept \in Nat /\ step.toks \in Tokens /\ step.draft \in Tokens
        /\ step.next \in Token \union {NoToken}
    BY <1>2 DEF StepType
  <1>4. /\ ar.n \in Nat /\ ar.left \in Nat /\ ar.close \in Tokens /\ ar.injected \in Nat
        /\ ar.entry \in Nat
    BY <1>2 DEF ArType
  <1>5. /\ Len(out) \in Nat /\ Len(rows) \in Nat /\ Len(rec) \in Nat /\ Len(snap) \in Nat
        /\ Len(step.toks) \in Nat /\ Len(step.draft) \in Nat /\ Len(ar.close) \in Nat
    BY <1>2, <1>3, <1>4, Lengths
  <1> QED BY <1>1, <1>2, <1>3, <1>4, <1>5

\* The tokens the hooks inject; neither the first close token nor the last of the
\* tool prefix ends the sequence.
LEMMA HookTokens ==
    /\ Close \in Tokens /\ Close # <<>> /\ Len(Close) \in Nat /\ Len(Close) >= 1
    /\ Close[1] \in Token /\ Close[1] # Eos
    /\ ToolPrefix \in Tokens /\ ToolPrefix # <<>> /\ Last(ToolPrefix) \in Token
    /\ Last(ToolPrefix) # Eos
    /\ HardLimit \in Nat
  <1>1. /\ Close \in Tokens /\ Close # <<>> /\ ToolPrefix \in Tokens /\ ToolPrefix # <<>>
        /\ HardLimit \in Nat
    BY SpecAssumption DEF Tokens
  <1>2. Len(Close) \in Nat /\ Len(Close) >= 1 /\ Last(ToolPrefix) \in Token BY <1>1, Lengths
  <1>3. Close[1] \in Token
    <2>1. 1 \in 1 .. Len(Close) BY <1>2
    <2> QED BY <1>1, <2>1, Lengths
  <1> QED BY <1>1, <1>2, <1>3, HookAssumption DEF Last

\* The invariant holds when a decode begins, in the loop and token by token.
THEOREM InitInv == Init => IInv
  <1> SUFFICES ASSUME Init PROVE IInv OBVIOUS
  <1>1. story \in Stories /\ use \in Uses BY DEF Init
  <1>2. story \in Tokens /\ NGen \in Nat /\ NGen >= 1 /\ \A i \in 1 .. NGen : story[i] \in Token
    BY <1>1, StoryIs
  <1>3. story[1] \in Token BY <1>2
  <1>4. NoToken \notin Token /\ Burst \in Nat BY SpecAssumption
  <1>5. <<>> \in Tokens /\ Len(<<>>) = 0 BY Nothing
  <1>6. use.spec \in BOOLEAN /\ use.close \in BOOLEAN BY <1>1 DEF Uses
  <1>7. ar \in ArType /\ ar.left <= ar.n /\ ar.injected <= Len(ar.close)
    <2>1. Close \in Tokens /\ Len(Close) \in Nat BY HookTokens
    <2>2. CASE use.spec
      <3>1. ar = [n |-> 0, left |-> 0, close |-> <<>>, injected |-> 0, entry |-> 0, by |-> "nobody"]
        BY <2>2 DEF Init, NoAr, Ar
      <3> QED BY <3>1, <1>5 DEF ArType
    <2>3. CASE ~use.spec
      <3>1. PICK c \in Tokens : c = (IF use.close THEN Close ELSE <<>>) BY <2>1, <1>5
      <3>2. ar = [n |-> NGen, left |-> NGen - 1, close |-> c, injected |-> 0, entry |-> 0,
                  by |-> "nobody"]
        BY <2>3, <3>1 DEF Init, Ar
      <3>3. Len(c) \in Nat BY Lengths
      <3>4. NGen - 1 \in Nat /\ NGen - 1 <= NGen BY <1>2
      <3> QED BY <3>2, <3>3, <3>4, <1>2 DEF ArType
    <2> QED BY <2>2, <2>3
  <1>8. step \in StepType /\ step.n <= Len(step.toks)
    <2>1. step = [kind |-> "none", draft |-> <<>>, accept |-> 0, toks |-> <<>>,
                  next |-> NoToken, n |-> 0, over |-> "no"]
      BY DEF Init, NoStep
    <2> QED BY <2>1, <1>5 DEF StepType
  <1>9. Shape
    <2>1. pc \in Phase /\ (~use.spec => pc \in TokenByToken) BY <1>6 DEF Init, Phase, TokenByToken
    <2>2. /\ rows \in Tokens /\ rec \in Tokens /\ snap \in Tokens /\ out \in Tokens
          /\ Len(rows) = 0 /\ pos = 0 /\ curPos = 0 /\ generated = 0
      BY <1>5 DEF Init
    <2>3. lastTok \in Token \union {NoToken} BY <1>3 DEF Init
    <2>4. burst \in 0 .. Burst BY <1>4 DEF Init
    <2>5. cancelled \in BOOLEAN /\ departed \in BOOLEAN BY DEF Init
    <2> QED BY <1>1, <1>7, <1>8, <2>1, <2>2, <2>3, <2>4, <2>5 DEF Shape
  <1>10. CASE use.spec
    <2>1. pc = "loop" /\ LoopOk
      <3>1. Upto(<<>>, 0) = <<>> BY <1>5, UptoAll
      <3>2. OfStory(out) BY <1>2, <1>5 DEF Init, OfStory
      <3> QED BY <1>10, <1>3, <1>4, <1>5, <3>1, <3>2 DEF Init, LoopOk, Running
    <2> QED BY <1>9, <1>10, <2>1 DEF IInv, Phases
  <1>11. CASE ~use.spec
    <2>1. pc = "first" /\ FirstOk
      <3>1. ar.by = "nobody" /\ ar.entry = 0 /\ ar.left = NGen - 1 BY <1>11 DEF Init, Ar
      <3> QED BY <1>11, <1>2, <3>1 DEF Init, FirstOk
    <2>2. Closing
      <3>1. ar.n = NGen /\ ar.entry = 0 /\ ar.close = ArmedClose /\ ar.injected = 0
        BY <1>11 DEF Init, Ar, ArmedClose, CloseArmed
      <3> QED BY <3>1, HookTokens DEF Init, Closing
    <2> QED BY <1>9, <1>11, <2>1, <2>2 DEF IInv, Phases
  <1> QED BY <1>6, <1>10, <1>11

-----------------------------------------------------------------------------
(* Verifying, rolling back and replaying *)

\* In the loop the seed is a token, and how the story goes on.
LEMMA SeedIs ==
    ASSUME Shape, LoopOk, MoreToDo, ValidSeed
    PROVE  lastTok \in Token /\ pos < NGen /\ lastTok = story[pos + 1]
  BY Shaped DEF Shape, LoopOk, MoreToDo, ValidSeed

\* What verify_batch answers at each position of the batch, where rows and
\* recurrent state are s.
LEMMA PosteriorIs ==
    ASSUME NEW s \in Tokens, NEW at \in Nat, s = Upto(rows, at), NEW b \in Tokens,
           NEW a \in Posterior(at, s, b)
    PROVE  /\ a \in [1 .. Len(b) -> Token]
           /\ \A i \in 1 .. Len(b) : a[i] \in Answers(s \o Upto(b, i), s \o Upto(b, i))
  BY DEF Posterior, Written, Upto, Answers

\* A draft begins with the seed.
LEMMA DraftsAre ==
    ASSUME lastTok \in Token, NEW draft \in Drafts
    PROVE  draft \in Tokens /\ draft # <<>> /\ draft[1] = lastTok
  <1>1. Width \in Nat /\ Width >= 1 BY SpecAssumption
  <1>2. PICK block \in Proposals : \E d \in Trimmed(block) : draft = <<lastTok>> \o d BY DEF Drafts
  <1>3. PICK d \in Trimmed(block) : draft = <<lastTok>> \o d BY <1>2
  <1>4. block \in Tokens /\ Len(block) = Width - 1 BY <1>1 DEF Proposals, Tokens
  <1>5. PICK w \in Widths : d = SubSeq(block, 1, w - 1) BY DEF Trimmed
  <1>6. w - 1 \in 0 .. Len(block) BY <1>1, <1>4 DEF Widths
  <1>7. d \in Tokens BY <1>4, <1>5, <1>6, UptoIs DEF Upto
  <1>8. PICK seed \in Token : seed = lastTok OBVIOUS
  <1>9. PICK one \in Tokens : one = <<seed>> BY One
  <1>10. Len(one) = 1 /\ one[1] = seed /\ one # <<>> BY <1>9, One
  <1>11. PICK u \in Tokens : u = one \o d BY <1>7, CatIs
  <1>12. Len(u) = 1 + Len(d) /\ u[1] = one[1]
    <2>1. 1 \in 1 .. Len(one) BY <1>10
    <2>2. Len(one \o d) = Len(one) + Len(d) /\ \A i \in 1 .. Len(one) : (one \o d)[i] = one[i]
      BY <1>7, CatIs
    <2> QED BY <1>10, <1>11, <2>1, <2>2
  <1>13. Len(d) \in Nat BY <1>7, Lengths
  <1>14. Len(u) # 0 BY <1>12, <1>13
  <1>15. u # <<>> BY <1>14, Nothing
  <1> QED BY <1>3, <1>8, <1>9, <1>10, <1>11, <1>12, <1>15

\* Behind the verification of a chain the accepted tokens, and the bonus, are how
\* the story goes on.
LEMMA VerifyChainKeeps ==
    ASSUME IInv, VerifyChain
    PROVE  IInv'
  <1>1. Shape /\ LoopOk /\ pc = "loop" BY DEF IInv, Phases, VerifyChain
  <1>2. lastTok \in Token /\ pos < NGen /\ lastTok = story[pos + 1]
    BY <1>1, SeedIs DEF VerifyChain
  <1>3. PICK draft \in Drafts : \E answer \in Posterior(pos, rec, draft) :
          LET n == Accepted(draft, answer)
          IN  /\ step' = [NoStep EXCEPT !.kind = "chain", !.draft = draft, !.accept = n,
                                        !.next = answer[n]]
              /\ snap' = rec
              /\ rows' = Written(pos, draft)
              /\ rec' = rec \o draft
    BY DEF VerifyChain
  <1>4. PICK answer \in Posterior(pos, rec, draft) :
          LET n == Accepted(draft, answer)
          IN  /\ step' = [NoStep EXCEPT !.kind = "chain", !.draft = draft, !.accept = n,
                                        !.next = answer[n]]
              /\ snap' = rec
              /\ rows' = Written(pos, draft)
              /\ rec' = rec \o draft
    BY <1>3
  <1>5. draft \in Tokens /\ draft # <<>> /\ draft[1] = story[pos + 1] BY <1>2, DraftsAre
  <1>6. PICK n : n = Accepted(draft, answer) OBVIOUS
  <1>7. PICK s \in Tokens : s = out BY <1>1 DEF Shape
  <1>8. s = Upto(rows, pos) /\ s = rec /\ Len(s) = pos /\ pos \in Nat /\ OfStory(s)
    BY <1>1, <1>7 DEF LoopOk, Shape
  <1>9. answer \in Posterior(pos, s, draft) BY <1>4, <1>8
  <1>10. /\ answer \in [1 .. Len(draft) -> Token]
        /\ \A i \in 1 .. Len(draft) : answer[i] \in Answers(s \o Upto(draft, i), s \o Upto(draft, i))
    BY <1>5, <1>8, <1>9, PosteriorIs
  <1>11. n \in 1 .. Len(draft) /\ \A i \in 2 .. n : draft[i] = answer[i - 1]
    BY <1>5, <1>6, AcceptedIs
  <1>12. Len(draft) \in Nat BY <1>5, Lengths
  <1>13. \A i \in 2 .. n : draft[i] \in Answers(s \o Upto(draft, i - 1), s \o Upto(draft, i - 1))
    <2> SUFFICES ASSUME NEW i \in 2 .. n
                 PROVE  draft[i] \in Answers(s \o Upto(draft, i - 1), s \o Upto(draft, i - 1))
      OBVIOUS
    <2>1. i - 1 \in 1 .. Len(draft) BY <1>11, <1>12
    <2> QED BY <1>10, <1>11, <2>1
  <1>14. /\ \A i \in 1 .. n : pos + i <= NGen => draft[i] = story[pos + i]
         /\ pos + n < NGen => answer[n] = story[pos + n + 1]
    <2>1. story \in Stories BY <1>1 DEF Shape
    <2>2. Len(s) < NGen /\ draft[1] = story[Len(s) + 1] BY <1>2, <1>5, <1>8
    <2>3. /\ \A i \in 1 .. n : Len(s) + i <= NGen => draft[i] = story[Len(s) + i]
          /\ \A t \in Answers(s \o Upto(draft, n), s \o Upto(draft, n)) :
                Len(s) + n < NGen => t = story[Len(s) + n + 1]
      BY <2>1, <2>2, <1>5, <1>8, <1>11, <1>13, Along
    <2> QED BY <2>3, <1>8, <1>10, <1>11
  <1>15. /\ step' = [kind |-> "chain", draft |-> draft, accept |-> n, toks |-> <<>>,
                     next |-> answer[n], n |-> 0, over |-> "no"]
         /\ snap' = out /\ rows' = out \o draft /\ rec' = out \o draft
    <2>1. step' = [NoStep EXCEPT !.kind = "chain", !.draft = draft, !.accept = n,
                                 !.next = answer[n]]
      BY <1>4, <1>6
    <2>2. rows' = SubSeq(rows, 1, pos) \o draft BY <1>4 DEF Written
    <2> QED BY <1>4, <1>7, <1>8, <2>1, <2>2 DEF NoStep, Upto
  <1>16. answer[n] \in Token BY <1>10, <1>11
  <1>17. /\ pc' = "fix" /\ burst' = BurstLeft
         /\ UNCHANGED <<story, use, departed, pos, curPos, lastTok, out, generated, ar, cancelled>>
    BY DEF VerifyChain
  <1>18. Shape'
    <2>1. <<>> \in Tokens /\ Len(<<>>) = 0 BY Nothing
    <2>2. step' \in StepType /\ step'.n <= Len(step'.toks)
      BY <1>5, <1>11, <1>12, <1>15, <1>16, <2>1 DEF StepType
    <2>3. s \o draft \in Tokens /\ Len(s \o draft) = pos + Len(draft) BY <1>5, <1>8, CatIs
    <2>4. rows' \in Tokens /\ rec' \in Tokens /\ snap' \in Tokens /\ pos <= Len(rows')
      <3>1. rows' = s \o draft /\ rec' = s \o draft /\ snap' = s BY <1>7, <1>15
      <3> QED BY <3>1, <1>8, <1>12, <2>3
    <2>5. burst' \in 0 .. Burst
      BY <1>1, <1>17, Shaped DEF Shape, BurstLeft
    <2>6. pc' \in Phase /\ use.spec BY <1>1, <1>17 DEF Shape, Phase, TokenByToken
    <2> QED BY <1>1, <1>17, <2>2, <2>4, <2>5, <2>6 DEF Shape
  <1>19. FixOk'
    BY <1>1, <1>2, <1>11, <1>14, <1>15, <1>16, <1>17 DEF LoopOk, FixOk, Running, OfStory
  <1>20. use.spec BY <1>1 DEF Shape, TokenByToken
  <1> QED BY <1>17, <1>18, <1>19, <1>20 DEF IInv, Phases

\* A chain or plain step whose tokens rows and recurrent state hold begins to
\* emit them.
LEMMA EmitBegins ==
    ASSUME IInv, LoopOk \/ FixOk, NEW toks \in Tokens, NEW next, NEW kind,
           story' = story /\ out' = out /\ pos' = pos /\ generated' = generated /\ departed' = departed,
           toks # <<>>, pos + Len(toks) <= NGen,
           \A i \in 1 .. Len(toks) : toks[i] = story[pos + i],
           pos + Len(toks) < NGen => next \in {NoToken, story[pos + Len(toks) + 1]},
           step'.toks = toks, step'.next = next, step'.kind = kind, step'.n = 0, step'.over = "no",
           pos + Len(toks) <= Len(rows'), Upto(rows', pos + Len(toks)) = out \o toks,
           rec' = out \o toks,
           use' = use, (kind = "chain" \/ ReplayHooksArmed) => snap' = out
    PROVE  EmitOk'
  <1>1. /\ Shape /\ ~departed /\ Running /\ OfStory(out) /\ pos = Len(out) /\ generated = pos
    BY DEF IInv, LoopOk, FixOk
  <1>2. PICK s \in Tokens : s = out BY <1>1 DEF Shape
  <1>3. Len(toks) \in Nat /\ Len(toks) > 0 BY Lengths
  <1>4. Upto(toks, 0) = <<>> BY <1>3, UptoIs
  <1>5. s = s \o <<>> BY CatIs, Nothing
  <1>6. Emitted(s)' BY <1>1, <1>2, <1>4, <1>5 DEF Emitted
  <1>7. Committed(s)' BY <1>1, <1>2 DEF Committed, OfStory
  <1>8. ReplayHooksArmed' = ReplayHooksArmed BY DEF ReplayHooksArmed, CloseArmed, StallArmed
  <1>9. EmitFrom(s)' BY <1>1, <1>2, <1>6, <1>7, <1>8 DEF EmitFrom
  <1> QED BY <1>1, <1>3, <1>9 DEF EmitOk, Running

\* A plain step commits the seed, and what the target says behind it is next.
LEMMA PlainStepKeeps ==
    ASSUME IInv, PlainStep
    PROVE  IInv'
  <1>1. Shape /\ LoopOk /\ pc = "loop" BY DEF IInv, Phases, PlainStep
  <1>2. lastTok \in Token /\ pos < NGen /\ lastTok = story[pos + 1]
    BY <1>1, SeedIs DEF PlainStep
  <1>3. PICK tok \in Following(pos, rec, <<lastTok>>) :
          step' = [NoStep EXCEPT !.kind = "plain", !.draft = <<lastTok>>, !.accept = 1,
                                 !.toks = <<lastTok>>, !.next = tok]
    BY DEF PlainStep
  <1>4. /\ pc' = "emit" /\ burst' = burst - 1 /\ burst > 0
        /\ snap' = (IF ReplayHooksArmed THEN rec ELSE snap)
        /\ UNCHANGED <<story, use, departed, pos, curPos, lastTok, out, generated, ar, cancelled>>
    BY DEF PlainStep, ArStepDue
  <1>5. PICK s \in Tokens : s = out BY <1>1 DEF Shape
  <1>6. s = Upto(rows, pos) /\ s = rec /\ Len(s) = pos /\ pos \in Nat /\ OfStory(s)
    BY <1>1, <1>5 DEF LoopOk, Shape
  <1>7. PICK seed \in Token : seed = lastTok BY <1>2
  <1>8. PICK one \in Tokens : one = <<seed>> BY One
  <1>9. Len(one) = 1 /\ one[1] = seed /\ one # <<>> BY <1>8, One
  <1>10. /\ step' = [kind |-> "plain", draft |-> one, accept |-> 1, toks |-> one, next |-> tok,
                     n |-> 0, over |-> "no"]
         /\ rows' = s \o one /\ rec' = s \o one
    <2>1. rows' = SubSeq(rows, 1, pos) \o one BY <1>7, <1>8 DEF PlainStep, Written
    <2> QED BY <1>3, <1>6, <1>7, <1>8, <2>1 DEF PlainStep, NoStep, Upto
  <1>11. PICK u \in Tokens : u = s \o one BY CatIs
  <1>12. Len(u) = pos + 1
    <2>1. Len(s \o one) = Len(s) + Len(one) BY CatLen
    <2> QED BY <1>6, <1>9, <1>11, <2>1
  <1>13. tok \in Token /\ (pos + 1 < NGen => tok = story[pos + 2])
    <2>1. tok \in Answers(s \o one, s \o one)
      BY <1>3, <1>6, <1>7, <1>8 DEF Following, Written, Upto, Answers
    <2>2. story \in Stories /\ NGen \in Nat BY <1>1, StoryIs DEF Shape
    <2>3. one[1] = story[Len(s) + 1] /\ Len(s) < NGen BY <1>2, <1>6, <1>7, <1>9
    <2>4. OfStory(s \o one)
      <3>1. Len(s) + Len(one) <= NGen BY <1>6, <1>9, <2>2, <2>3
      <3>2. \A i \in 1 .. Len(one) : one[i] = story[Len(s) + i] BY <1>9, <2>3
      <3> QED BY <1>6, <2>2, <3>1, <3>2, StoryOn
    <2>5. OfStory(u) /\ tok \in Answers(u, u) BY <1>11, <2>1, <2>4
    <2>6. Len(u) + 1 = pos + 2 BY <1>6, <1>12
    <2> QED BY <1>12, <2>2, <2>5, <2>6, AnswersAre
  <1>14. Shape'
    <2>1. step' \in StepType /\ step'.n <= Len(step'.toks) BY <1>9, <1>10, <1>13 DEF StepType
    <2>2. rows' \in Tokens /\ rec' \in Tokens /\ pos <= Len(rows') BY <1>6, <1>10, <1>11, <1>12
    <2>3. snap' \in Tokens BY <1>1, <1>4 DEF Shape
    <2>4. burst' \in 0 .. Burst BY <1>1, <1>4, Shaped DEF Shape
    <2>5. pc' \in Phase /\ use.spec BY <1>1, <1>4 DEF Shape, Phase, TokenByToken
    <2> QED BY <1>1, <1>4, <2>1, <2>2, <2>3, <2>4, <2>5 DEF Shape
  <1>15. EmitOk'
    <2>1. pos + Len(one) <= NGen /\ pos + Len(one) = Len(u) BY <1>1, <1>2, <1>6, <1>9, <1>12, Shaped
    <2>2. \A i \in 1 .. Len(one) : one[i] = story[pos + i] BY <1>2, <1>7, <1>9
    <2>3. pos + Len(one) < NGen => tok \in {NoToken, story[pos + Len(one) + 1]}
      <3>1. pos + Len(one) + 1 = pos + 2 /\ pos + Len(one) = pos + 1 BY <1>6, <1>9
      <3> QED BY <1>13, <3>1
    <2>4. rows' = u /\ rec' = u /\ Upto(u, Len(u)) = u BY <1>10, <1>11, UptoAll
    <2>5. pos + Len(one) <= Len(rows') /\ Upto(rows', pos + Len(one)) = out \o one
          /\ rec' = out \o one
      BY <1>5, <1>6, <1>11, <1>12, <2>1, <2>4
    <2>6. ReplayHooksArmed => snap' = out BY <1>4, <1>5, <1>6
    <2>7. step'.toks = one /\ step'.next = tok /\ step'.kind = "plain" /\ step'.n = 0
          /\ step'.over = "no"
      BY <1>10
    <2> QED BY <1>1, <1>4, <1>9, <2>1, <2>2, <2>3, <2>5, <2>6, <2>7, EmitBegins
  <1>16. use.spec BY <1>1 DEF Shape, TokenByToken
  <1> QED BY <1>4, <1>14, <1>15, <1>16 DEF IInv, Phases

\* A fast rollback keeps the rows, and of the recurrent state what was captured
\* behind the last token it commits.
LEMMA RollBackKeeps ==
    ASSUME IInv, RollBack
    PROVE  IInv'
  <1>1. Shape /\ FixOk /\ pc = "fix" BY DEF IInv, Phases, RollBack
  <1>2. PICK s \in Tokens : s = out BY <1>1 DEF Shape
  <1>3. PICK d \in Tokens : d = step.draft BY <1>1, Shaped
  <1>4. PICK k : k = FastCount OBVIOUS
  <1>5. /\ pos \in Nat /\ pos < NGen /\ NGen \in Nat /\ Len(s) = pos /\ Len(d) \in Nat
        /\ rows = s \o d /\ rec = s \o d /\ snap = s /\ OfStory(s)
    BY <1>1, <1>2, <1>3, Shaped DEF FixOk
  <1>6. /\ step.accept \in 1 .. Len(d) /\ generated = pos /\ Need = NGen - pos
        /\ k \in 1 .. step.accept /\ k <= Len(d) /\ k <= NGen - pos
        /\ (k < step.accept => k = NGen - pos)
    BY <1>1, <1>3, <1>4, <1>5 DEF FixOk, FastCount, Min2, Need
  <1>7. PICK toks \in Tokens : toks = Upto(d, k)
    <2>1. k \in 0 .. Len(d) BY <1>5, <1>6
    <2> QED BY <2>1, UptoIs
  <1>8. Len(toks) = k /\ (\A i \in 1 .. k : toks[i] = d[i]) /\ toks # <<>>
    <2>1. k \in 0 .. Len(d) /\ k # 0 BY <1>5, <1>6
    <2> QED BY <1>7, <2>1, UptoIs
  <1>9. s \o d \in Tokens /\ Len(s \o d) = pos + Len(d) /\ s \o toks \in Tokens
    BY <1>5, CatLen
  <1>10. Upto(s \o d, pos + k) = s \o toks
    <2>1. k \in 0 .. Len(d) BY <1>5, <1>6
    <2> QED BY <1>5, <1>7, <2>1, UptoOfCat
  <1>11. /\ rec' = s \o toks
         /\ step' = [step EXCEPT !.toks = toks, !.next = FastNext]
         /\ pc' = "emit"
         /\ UNCHANGED <<story, use, departed, rows, snap, pos, curPos, lastTok, out, generated,
                        burst, ar, cancelled>>
    <2>1. Captured = SubSeq(s \o d, 1, pos + Len(d) - Len(d) + k)
      <3>1. rec = s \o d /\ Len(rec) = pos + Len(d) BY <1>5, <1>9
      <3>2. Captured = SubSeq(rec, 1, Len(rec) - Len(d) + k) BY <1>3, <1>4 DEF Captured
      <3>3. Len(rec) - Len(d) + k = pos + Len(d) - Len(d) + k BY <3>1, <1>5, <1>6
      <3> QED BY <3>1, <3>2, <3>3
    <2>2. pos + Len(d) - Len(d) + k = pos + k BY <1>5, <1>6
    <2>3. Captured = s \o toks BY <2>1, <2>2, <1>10 DEF Upto
    <2>4. SubSeq(step.draft, 1, FastCount) = toks BY <1>3, <1>4, <1>7 DEF Upto
    <2> QED BY <2>3, <2>4 DEF RollBack
  <1>12. PICK next : next = FastNext OBVIOUS
  <1>13. next \in Token /\ (pos + k < NGen => next = story[pos + k + 1])
    <2>1. CASE k < step.accept
      <3>1. next = d[k + 1] BY <2>1, <1>3, <1>4, <1>12 DEF FastNext
      <3>2. k + 1 \in 1 .. Len(d) BY <2>1, <1>5, <1>6
      <3>3. d[k + 1] \in Token BY <3>2, Lengths
      <3>4. ~(pos + k < NGen) BY <2>1, <1>5, <1>6
      <3> QED BY <3>1, <3>3, <3>4
    <2>2. CASE ~(k < step.accept)
      <3>1. k = step.accept BY <2>2, <1>5, <1>6
      <3>2. next = step.next BY <2>2, <1>4, <1>12 DEF FastNext
      <3> QED BY <3>1, <3>2, <1>1 DEF FixOk
    <2> QED BY <2>1, <2>2
  <1>14. /\ step' \in StepType /\ step'.toks = toks /\ step'.next = next
         /\ step'.kind = "chain" /\ step'.n = 0 /\ step'.over = "no"
    BY <1>1, <1>11, <1>12, <1>13 DEF Shape, StepType, FixOk
  <1>15. Shape'
    <2>1. step'.n <= Len(step'.toks) BY <1>14, <1>8, <1>6
    <2>2. rec' \in Tokens BY <1>9, <1>11
    <2>3. pc' \in Phase /\ use.spec BY <1>1, <1>11 DEF Shape, Phase, TokenByToken
    <2> QED BY <1>1, <1>11, <1>14, <2>1, <2>2, <2>3 DEF Shape
  <1>16. EmitOk'
    <2>1. pos + Len(toks) <= NGen BY <1>5, <1>6, <1>8
    <2>2. \A i \in 1 .. Len(toks) : toks[i] = story[pos + i]
      <3> SUFFICES ASSUME NEW i \in 1 .. Len(toks) PROVE toks[i] = story[pos + i] OBVIOUS
      <3>1. i \in 1 .. step.accept /\ pos + i <= NGen /\ toks[i] = d[i] BY <1>5, <1>6, <1>8
      <3> QED BY <3>1, <1>1, <1>3 DEF FixOk
    <2>3. pos + Len(toks) < NGen => next \in {NoToken, story[pos + Len(toks) + 1]} BY <1>8, <1>13
    <2>4. pos + Len(toks) <= Len(rows') /\ Upto(rows', pos + Len(toks)) = out \o toks
          /\ rec' = out \o toks /\ snap' = out
      BY <1>2, <1>5, <1>6, <1>8, <1>9, <1>10, <1>11
    <2>5. /\ story' = story /\ out' = out /\ pos' = pos /\ generated' = generated
          /\ departed' = departed /\ use' = use
      BY <1>11
    <2>6. toks # <<>> BY <1>8
    <2> QED BY <1>1, <1>14, <2>1, <2>2, <2>3, <2>4, <2>5, <2>6, EmitBegins
  <1>17. use.spec BY <1>1 DEF Shape, TokenByToken
  <1> QED BY <1>11, <1>15, <1>16, <1>17 DEF IInv, Phases

\* What a replay commits are the accepted tokens and the target's next one.
LEMMA ReplayTokensAre ==
    ASSUME Shape, FixOk, NEW toks, toks = ReplayTokens(Bonus)
    PROVE  /\ toks \in Tokens /\ toks # <<>> /\ pos + Len(toks) <= NGen
           /\ \A i \in 1 .. Len(toks) : toks[i] = story[pos + i]
  <1>1. PICK d \in Tokens : d = step.draft BY Shaped
  <1>2. PICK n : n = step.accept OBVIOUS
  <1>3. /\ pos \in Nat /\ pos < NGen /\ NGen \in Nat /\ Len(d) \in Nat /\ n \in 1 .. Len(d)
        /\ Need = NGen - pos /\ step.next \in Token
        /\ \A i \in 1 .. n : pos + i <= NGen => d[i] = story[pos + i]
        /\ pos + n < NGen => step.next = story[pos + n + 1]
    BY <1>1, <1>2, Shaped DEF FixOk, Need
  <1>4. PICK acc \in Tokens : acc = Upto(d, n)
    <2>1. n \in 0 .. Len(d) BY <1>3
    <2> QED BY <2>1, UptoIs
  <1>5. Len(acc) = n /\ \A i \in 1 .. n : acc[i] = d[i]
    <2>1. n \in 0 .. Len(d) BY <1>3
    <2> QED BY <1>4, <2>1, UptoIs
  <1>6. PICK bonus : bonus = Bonus OBVIOUS
  <1>7. bonus \in Tokens /\ Len(bonus) \in {0, 1} /\ (Len(bonus) = 1 => bonus[1] = step.next)
    <2>1. bonus = <<>> \/ bonus = <<step.next>> BY <1>6 DEF Bonus
    <2>2. PICK t \in Token : t = step.next BY <1>3
    <2> QED BY <2>1, <2>2, Nothing, One
  <1>8. PICK all \in Tokens : all = acc \o bonus BY <1>7, CatIs
  <1>9. Len(all) = n + Len(bonus) BY <1>5, <1>7, <1>8, CatLen
  <1>10. \A i \in 1 .. Len(all) : pos + i <= NGen => all[i] = story[pos + i]
    <2> SUFFICES ASSUME NEW i \in 1 .. Len(all), pos + i <= NGen PROVE all[i] = story[pos + i]
      OBVIOUS
    <2>1. /\ \A j \in 1 .. Len(acc) : (acc \o bonus)[j] = acc[j]
          /\ \A j \in 1 .. Len(bonus) : (acc \o bonus)[Len(acc) + j] = bonus[j]
      BY <1>7, CatIs
    <2>2. CASE i <= n
      <3>1. i \in 1 .. n BY <2>2, <1>3, <1>9
      <3> QED BY <3>1, <2>1, <1>3, <1>5, <1>8
    <2>3. CASE ~(i <= n)
      <3>1. n \in Nat /\ i \in 1 .. n + Len(bonus) BY <1>3, <1>9
      <3>2. Len(bonus) = 1 /\ i = n + 1 /\ 1 \in 1 .. Len(bonus) /\ pos + n < NGen
            /\ pos + n + 1 = pos + i
        <4>1. Len(bonus) = 1 BY <2>3, <3>1, <1>7
        <4>2. i = n + 1 BY <2>3, <3>1, <4>1
        <4> QED BY <4>1, <4>2, <3>1, <1>3
      <3>3. all[i] = bonus[1] BY <3>2, <2>1, <1>5, <1>8
      <3> QED BY <3>2, <3>3, <1>3, <1>7
    <2> QED BY <2>2, <2>3
  <1>11. PICK k : k = Min2(Len(all), Need) OBVIOUS
  <1>12. k \in 1 .. Len(all) /\ k \in 0 .. Len(all) /\ pos + k <= NGen /\ k # 0
    BY <1>3, <1>7, <1>9, <1>11 DEF Min2
  <1>13. toks = Upto(all, k) BY <1>1, <1>2, <1>4, <1>6, <1>8, <1>11 DEF ReplayTokens, Upto
  <1>14. toks \in Tokens /\ Len(toks) = k /\ toks # <<>> /\ \A i \in 1 .. k : toks[i] = all[i]
    BY <1>12, <1>13, UptoIs
  <1>15. ASSUME NEW i \in 1 .. k PROVE toks[i] = story[pos + i]
    <2>1. i \in 1 .. Len(all) /\ pos + i <= NGen BY <1>3, <1>12
    <2> QED BY <2>1, <1>10, <1>14
  <1> QED BY <1>12, <1>14, <1>15

\* Restore and replay write what is committed, and nothing else, behind the
\* tokens emitted.
LEMMA ReplayKeeps ==
    ASSUME IInv, Replay
    PROVE  IInv'
  <1>1. Shape /\ FixOk /\ pc = "fix" BY DEF IInv, Phases, Replay
  <1>2. PICK s \in Tokens : s = out BY <1>1 DEF Shape
  <1>3. /\ pos \in Nat /\ pos < NGen /\ NGen \in Nat /\ Len(s) = pos /\ snap = s /\ OfStory(s)
    BY <1>1, <1>2, Shaped DEF FixOk
  <1>4. PICK toks : toks = ReplayTokens(Bonus) OBVIOUS
  <1>5. /\ toks \in Tokens /\ toks # <<>> /\ pos + Len(toks) <= NGen
        /\ \A i \in 1 .. Len(toks) : toks[i] = story[pos + i]
    BY <1>1, <1>4, ReplayTokensAre
  <1>6. Len(toks) \in Nat BY <1>5, Lengths
  <1>7. PICK next \in Following(pos, snap, toks) \union {NoToken} :
          step' = [step EXCEPT !.toks = toks, !.next = next]
    BY <1>4 DEF Replay
  <1>8. /\ rows' = SubSeq(rows, 1, pos) \o toks /\ rec' = s \o toks /\ pc' = "emit"
        /\ UNCHANGED <<story, use, departed, snap, pos, curPos, lastTok, out, generated, burst, ar,
                       cancelled>>
    BY <1>3, <1>4 DEF Replay, Written
  <1>9. PICK d \in Tokens : d = step.draft /\ rows = s \o d BY <1>1, <1>2, Shaped DEF FixOk
  <1>10. SubSeq(rows, 1, pos) = s
    <2>1. Upto(s \o d, Len(s)) = s
      <3>1. Len(d) \in Nat BY Lengths
      <3>2. 0 \in 0 .. Len(d) BY <3>1
      <3> QED BY <3>2, UptoOfCat
    <2> QED BY <1>3, <1>9, <2>1 DEF Upto
  <1>11. PICK u \in Tokens : u = s \o toks BY <1>5, CatLen
  <1>12. Len(u) = pos + Len(toks)
    <2>1. Len(s \o toks) = Len(s) + Len(toks) BY <1>5, CatLen
    <2> QED BY <1>3, <1>11, <2>1
  <1>13. /\ next \in Token \union {NoToken}
         /\ pos + Len(toks) < NGen => next \in {NoToken, story[pos + Len(toks) + 1]}
    <2>1. next \in Answers(u, u) \union {NoToken}
      BY <1>3, <1>7, <1>10, <1>11 DEF Following, Written, Answers
    <2>2. story \in Stories BY <1>1 DEF Shape
    <2>3. OfStory(u) BY <1>3, <1>5, <1>11, <2>2, StoryOn
    <2> QED BY <1>12, <2>1, <2>2, <2>3, AnswersAre
  <1>14. /\ step' \in StepType /\ step'.toks = toks /\ step'.next = next
         /\ step'.kind = "chain" /\ step'.n = 0 /\ step'.over = "no"
    BY <1>1, <1>5, <1>7, <1>13 DEF Shape, StepType, FixOk
  <1>15. rows' = u /\ rec' = u /\ Upto(u, Len(u)) = u BY <1>8, <1>10, <1>11, UptoAll
  <1>16. Shape'
    <2>1. step'.n <= Len(step'.toks) BY <1>6, <1>14
    <2>2. pos <= Len(rows') BY <1>3, <1>6, <1>12, <1>15
    <2>3. pc' \in Phase /\ use.spec BY <1>1, <1>8 DEF Shape, Phase, TokenByToken
    <2> QED BY <1>1, <1>8, <1>14, <1>15, <2>1, <2>2, <2>3 DEF Shape
  <1>17. EmitOk'
    <2>1. pos + Len(toks) <= Len(rows') /\ Upto(rows', pos + Len(toks)) = out \o toks
          /\ rec' = out \o toks /\ snap' = out
      <3>1. rows' = u /\ rec' = u /\ u = out \o toks /\ Len(rows') = pos + Len(toks)
        BY <1>2, <1>11, <1>12, <1>15
      <3>2. Upto(rows', pos + Len(toks)) = u BY <3>1, <1>12, <1>15
      <3> QED BY <3>1, <3>2, <1>2, <1>3, <1>6, <1>8
    <2> QED BY <1>1, <1>5, <1>8, <1>13, <1>14, <2>1, EmitBegins
  <1>18. use.spec BY <1>1 DEF Shape, TokenByToken
  <1> QED BY <1>8, <1>16, <1>17, <1>18 DEF IInv, Phases

-----------------------------------------------------------------------------
(* Emitting *)

\* No step is a step of its type.
LEMMA NoStepIs == NoStep \in StepType /\ NoStep.n = 0 /\ NoStep.n <= Len(NoStep.toks)
  <1>1. <<>> \in Tokens /\ Len(<<>>) = 0 BY Nothing
  <1>2. NoStep = [kind |-> "none", draft |-> <<>>, accept |-> 0, toks |-> <<>>,
                  next |-> NoToken, n |-> 0, over |-> "no"]
    BY DEF NoStep
  <1> QED BY <1>1, <1>2 DEF StepType

\* The next committed token goes behind what is emitted as the story goes on.
LEMMA EmitGrows ==
    ASSUME Shape, NEW b \in Tokens, Emitted(b), Committed(b), step.n < Len(step.toks)
    PROVE  /\ Len(out) = pos + step.n /\ Len(out) < NGen /\ OfStory(out)
           /\ NextTok \in Token /\ NextTok = story[Len(out) + 1]
           /\ Append(out, NextTok) \in Tokens
           /\ Append(out, NextTok) = b \o Upto(step.toks, step.n + 1)
           /\ OfStory(Append(out, NextTok))
  <1>1. PICK toks \in Tokens : toks = step.toks BY Shaped
  <1>2. PICK n \in Nat : n = step.n BY Shaped
  <1>3. PICK x : x = NextTok OBVIOUS
  <1>4. PICK o \in Tokens : o = out BY DEF Shape
  <1>5. /\ story \in Stories /\ NGen \in Nat /\ pos \in Nat /\ Len(toks) \in Nat
        /\ n < Len(toks) /\ n \in 0 .. Len(toks) - 1 /\ n \in 0 .. Len(toks) /\ n + 1 \in 1 .. Len(toks)
        /\ n + 1 \in 0 .. Len(toks)
    <2>1. story \in Stories /\ NGen \in Nat /\ pos \in Nat /\ Len(toks) \in Nat /\ n < Len(toks)
      BY <1>1, <1>2, Shaped DEF Shape
    <2> QED BY <2>1
  <1>6. x = toks[n + 1] /\ x \in Token
    <2>1. x = toks[n + 1] BY <1>1, <1>2, <1>3 DEF NextTok
    <2> QED BY <2>1, <1>5, Lengths
  <1>7. PICK u \in Tokens : u = Upto(toks, n) BY <1>5, UptoIs
  <1>8. Len(u) = n /\ \A i \in 1 .. n : u[i] = toks[i] BY <1>5, <1>7, UptoIs
  <1>9. o = b \o u /\ Len(b) = pos BY <1>1, <1>2, <1>4, <1>7 DEF Emitted
  <1>10. Len(o) = pos + n
    <2>1. Len(b \o u) = Len(b) + Len(u) BY CatLen
    <2> QED BY <2>1, <1>8, <1>9
  <1>11. /\ OfStory(b) /\ pos + Len(toks) <= NGen
         /\ \A i \in 1 .. Len(toks) : toks[i] = story[pos + i]
    BY <1>1 DEF Committed
  <1>12. PICK v \in Tokens : v = Upto(toks, n + 1) BY <1>5, UptoIs
  <1>13. Len(v) = n + 1 /\ \A i \in 1 .. n + 1 : v[i] = toks[i] BY <1>5, <1>12, UptoIs
  <1>14. v = Append(u, x) BY <1>5, <1>6, <1>7, <1>12, UptoNext
  <1>15. Append(o, x) = b \o v
    <2>1. Append(b \o u, x) = b \o Append(u, x) BY <1>6, CatAppend
    <2> QED BY <2>1, <1>9, <1>14
  <1>16. OfStory(b \o v)
    <2>1. Len(b) + Len(v) <= NGen BY <1>5, <1>9, <1>11, <1>13
    <2>2. \A i \in 1 .. Len(v) : v[i] = story[Len(b) + i]
      <3> SUFFICES ASSUME NEW i \in 1 .. Len(v) PROVE v[i] = story[Len(b) + i] OBVIOUS
      <3>1. i \in 1 .. n + 1 /\ i \in 1 .. Len(toks) BY <1>5, <1>13
      <3> QED BY <3>1, <1>9, <1>11, <1>13
    <2> QED BY <1>5, <1>11, <2>1, <2>2, StoryOn
  <1>17. OfStory(b \o u)
    <2>1. Len(b) + Len(u) <= NGen BY <1>5, <1>8, <1>9, <1>11
    <2>2. \A i \in 1 .. Len(u) : u[i] = story[Len(b) + i]
      <3> SUFFICES ASSUME NEW i \in 1 .. Len(u) PROVE u[i] = story[Len(b) + i] OBVIOUS
      <3>1. i \in 1 .. n /\ i \in 1 .. Len(toks) BY <1>5, <1>8
      <3> QED BY <3>1, <1>8, <1>9, <1>11
    <2> QED BY <1>5, <1>11, <2>1, <2>2, StoryOn
  <1>18. Append(o, x) \in Tokens BY <1>6, AppendIs
  <1>19. x = story[Len(o) + 1]
    <2>1. x = story[pos + (n + 1)] BY <1>5, <1>6, <1>11
    <2>2. pos + (n + 1) = Len(o) + 1 BY <1>5, <1>10
    <2> QED BY <2>1, <2>2
  <1>20. Len(o) < NGen BY <1>5, <1>10, <1>11
  <1>21. PICK w \in Tokens : w = b \o v BY CatLen
  <1>22. OfStory(w) /\ Append(out, NextTok) = w BY <1>3, <1>4, <1>15, <1>16, <1>21
  <1>23. OfStory(o) BY <1>9, <1>17
  <1>24. OfStory(Append(out, NextTok)) BY <1>22 DEF OfStory
  <1>25. Append(out, NextTok) = b \o Upto(step.toks, step.n + 1) BY <1>22, <1>21, <1>12, <1>1, <1>2
  <1>26. OfStory(out) BY <1>4, <1>23 DEF OfStory
  <1> QED BY <1>2, <1>3, <1>4, <1>6, <1>10, <1>18, <1>19, <1>20, <1>24, <1>25, <1>26

\* The step's tokens, the cache and the answer of its beginning do not change.
LEMMA EmitFromKept ==
    ASSUME NEW b \in Tokens, EmitFrom(b), Emitted(b)',
           UNCHANGED <<story, use, departed, rows, rec, snap, pos>>,
           step'.toks = step.toks, step'.next = step.next, step'.kind = step.kind
    PROVE  EmitFrom(b)'
  BY DEF EmitFrom, Committed, OfStory, ReplayHooksArmed, CloseArmed, StallArmed

\* A stall is noticed before anything that ends the sequence is emitted.
LEMMA EmitStallKeeps ==
    ASSUME IInv, EmitStall
    PROVE  IInv'
  <1>1. Shape /\ EmitOk /\ pc = "emit" BY DEF IInv, Phases, EmitStall, Emitting
  <1>2. /\ step' = [step EXCEPT !.over = "stall"] /\ pc' = "commit" /\ StallArmed
        /\ UNCHANGED <<story, use, departed, rows, rec, snap, pos, curPos, lastTok, out, generated,
                       burst, ar, cancelled>>
    BY DEF EmitStall, StallDue, target
  <1>3. /\ step' \in StepType /\ step'.toks = step.toks /\ step'.next = step.next
        /\ step'.kind = step.kind /\ step'.n = step.n /\ step'.over = "stall"
    BY <1>1, <1>2 DEF Shape, StepType
  <1>4. Shape' BY <1>1, <1>2, <1>3 DEF Shape, Phase, TokenByToken
  <1>5. PICK b \in Tokens : EmitFrom(b) BY <1>1 DEF EmitOk
  <1>6. Emitted(b)' BY <1>2, <1>3, <1>5 DEF EmitFrom, Emitted
  <1>7. EmitFrom(b)' BY <1>2, <1>3, <1>5, <1>6, EmitFromKept
  <1>8. CommitOk' BY <1>1, <1>2, <1>3, <1>7 DEF EmitOk, CommitOk, Running, StallArmed
  <1>9. use.spec BY <1>1 DEF Shape, TokenByToken
  <1> QED BY <1>2, <1>3, <1>4, <1>8, <1>9 DEF IInv, Phases

\* Emitting keeps the answer within what the step has committed.
LEMMA EmitKeeps ==
    ASSUME IInv, Emit
    PROVE  IInv'
  <1>1. Shape /\ EmitOk /\ pc = "emit" BY DEF IInv, Phases, Emit, Emitting
  <1>2. PICK b \in Tokens : EmitFrom(b) BY <1>1 DEF EmitOk
  <1>3. /\ NextTok \in Token /\ Append(out, NextTok) \in Tokens
        /\ Append(out, NextTok) = b \o Upto(step.toks, step.n + 1)
        /\ Len(out) \in Nat
    BY <1>1, <1>2, EmitGrows, Shaped DEF EmitFrom, EmitOk
  <1>4. PICK x \in Token : x = NextTok BY <1>3
  <1>5. /\ out' = Append(out, x)
        /\ step' = [step EXCEPT !.n = @ + 1, !.over = IF x = Eos THEN "eos" ELSE @]
        /\ pc' = IF cancelled \/ x = Eos \/ step.n + 1 = Len(step.toks) THEN "commit" ELSE "emit"
        /\ UNCHANGED <<story, use, departed, rows, rec, snap, pos, curPos, lastTok, generated,
                       burst, ar, cancelled>>
    BY <1>4 DEF Emit, target
  <1>6. /\ step' \in StepType /\ step'.toks = step.toks /\ step'.next = step.next
        /\ step'.kind = step.kind /\ step'.n = step.n + 1
        /\ step'.over = (IF x = Eos THEN "eos" ELSE "no")
    <2>1. PICK s \in StepType : s = step BY <1>1 DEF Shape
    <2>2. PICK n \in Nat : n = step.n + 1
      <3>1. step.n \in Nat BY <1>1, Shaped
      <3>2. step.n + 1 \in Nat BY <3>1
      <3> QED BY <3>2
    <2>3. PICK over \in {"no", "eos", "stall", "close"} : over = IF x = Eos THEN "eos" ELSE "no"
      OBVIOUS
    <2>4. step' = [s EXCEPT !.n = n, !.over = over]
      BY <1>1, <1>5, <2>1, <2>2, <2>3 DEF EmitOk
    <2>5. PICK st : st = [s EXCEPT !.n = n, !.over = over] OBVIOUS
    <2>6. /\ st \in StepType /\ st.toks = s.toks /\ st.next = s.next /\ st.kind = s.kind
          /\ st.n = n /\ st.over = over
      BY <2>5 DEF StepType
    <2> QED BY <2>1, <2>2, <2>3, <2>4, <2>5, <2>6
  <1>7. step.n \in Nat /\ Len(step.toks) \in Nat /\ step.n < Len(step.toks) BY <1>1, Shaped DEF EmitOk
  <1>8. Last(out') = x /\ out' # <<>>
    <2>1. PICK o \in Tokens : o = out BY <1>1 DEF Shape
    <2> QED BY <2>1, <1>5, AppendIs
  <1>9. Shape'
    <2>1. step'.n <= Len(step'.toks) BY <1>6, <1>7
    <2>2. pc' \in Phase /\ use.spec BY <1>1, <1>5 DEF Shape, Phase, TokenByToken
    <2>3. out' \in Tokens BY <1>3, <1>4, <1>5
    <2> QED BY <1>1, <1>5, <1>6, <2>1, <2>2, <2>3 DEF Shape
  <1>10. EmitFrom(b)'
    <2>1. Emitted(b)' BY <1>2, <1>3, <1>4, <1>5, <1>6 DEF EmitFrom, Emitted
    <2> QED BY <2>1, <1>2, <1>5, <1>6, EmitFromKept
  <1>11. x # Eos => Running' BY <1>8 DEF Running
  <1>12. CASE cancelled \/ x = Eos \/ step.n + 1 = Len(step.toks)
    <2>1. pc' = "commit" BY <1>5, <1>12
    <2>2. CommitOk' BY <1>5, <1>6, <1>7, <1>10, <1>11, <1>12 DEF CommitOk
    <2> QED BY <1>6, <1>9, <2>1, <2>2 DEF IInv, Phases, Shape, TokenByToken
  <1>13. CASE ~(cancelled \/ x = Eos \/ step.n + 1 = Len(step.toks))
    <2>1. pc' = "emit" BY <1>5, <1>13
    <2>2. EmitOk' BY <1>6, <1>7, <1>10, <1>11, <1>13 DEF EmitOk
    <2> QED BY <1>9, <2>1, <2>2 DEF IInv, Phases, Shape, TokenByToken
  <1> QED BY <1>12, <1>13

\* The close token stands for the token emitted last, in the step and in the
\* answer alike.
LEMMA EmitCloseKeeps ==
    ASSUME IInv, EmitClose
    PROVE  IInv'
  <1>1. Shape /\ EmitOk /\ pc = "emit" BY DEF IInv, Phases, EmitClose, Emitting
  <1>2. PICK b \in Tokens : EmitFrom(b) BY <1>1 DEF EmitOk
  <1>3. /\ Len(out) = pos + step.n /\ Len(out) < NGen
        /\ OfStory(Append(out, NextTok))
    BY <1>1, <1>2, EmitGrows DEF EmitFrom, EmitOk
  <1>4. PICK c \in Token : c = Close[1] BY HookTokens
  <1>5. /\ out' = Append(out, c)
        /\ step' = [step EXCEPT !.toks[step.n + 1] = c, !.n = @ + 1, !.over = "close"]
        /\ pc' = "commit" /\ departed' = (departed \/ NextTok # c) /\ CloseArmed
        /\ UNCHANGED <<story, use, rows, rec, snap, pos, curPos, lastTok, generated, burst, ar,
                       cancelled>>
    BY <1>4 DEF EmitClose, CloseDue, target
  <1>6. PICK toks \in Tokens : toks = step.toks BY <1>1, Shaped
  <1>7. PICK n \in Nat : n = step.n BY <1>1, Shaped
  <1>8. Len(toks) \in Nat /\ n < Len(toks) /\ n + 1 \in 1 .. Len(toks) /\ pos \in Nat
    <2>1. Len(toks) \in Nat /\ n < Len(toks) /\ pos \in Nat BY <1>1, <1>6, <1>7, Shaped DEF EmitOk
    <2> QED BY <2>1
  <1>9. PICK new : new = [toks EXCEPT ![n + 1] = c] OBVIOUS
  <1>10. /\ new \in Tokens /\ Len(new) = Len(toks)
         /\ \A j \in 1 .. Len(toks) : new[j] = IF j = n + 1 THEN c ELSE toks[j]
    BY <1>8, <1>9, ExceptSeq DEF Tokens
  <1>11. step' = [step EXCEPT !.toks = new, !.n = n + 1, !.over = "close"]
    BY <1>5, <1>6, <1>7, <1>9
  <1>12. /\ step' \in StepType /\ step'.toks = new /\ step'.n = n + 1 /\ step'.over = "close"
    <2>1. PICK s \in StepType : s = step BY <1>1 DEF Shape
    <2>2. PICK m \in Nat : m = n + 1 OBVIOUS
    <2>3. PICK st : st = [s EXCEPT !.toks = new, !.n = m, !.over = "close"] OBVIOUS
    <2>4. st \in StepType /\ st.toks = new /\ st.n = m /\ st.over = "close"
      BY <1>10, <2>3 DEF StepType
    <2> QED BY <1>11, <2>1, <2>2, <2>3, <2>4
  <1>13. PICK o \in Tokens : o = out BY <1>1 DEF Shape
  <1>14. PICK w : w = Append(o, c) OBVIOUS
  <1>15. w \in Tokens /\ Len(w) = Len(o) + 1 /\ w # <<>> /\ Last(w) = c BY <1>14, AppendIs
  <1>16. w = b \o Upto(new, n + 1)
    <2>1. n \in 0 .. Len(toks) /\ n \in 0 .. Len(new) - 1 /\ n \in 0 .. Len(new)
      BY <1>8, <1>10
    <2>2. PICK u \in Tokens : u = Upto(toks, n) BY <2>1, UptoIs
    <2>3. Len(u) = n /\ \A i \in 1 .. n : u[i] = toks[i] BY <2>1, <2>2, UptoIs
    <2>4. PICK v \in Tokens : v = Upto(new, n) BY <1>10, <2>1, UptoIs
    <2>5. Len(v) = n /\ \A i \in 1 .. n : v[i] = new[i] BY <1>10, <2>1, <2>4, UptoIs
    <2>6. \A i \in 1 .. n : u[i] = v[i] BY <1>8, <1>10, <2>3, <2>5
    <2>7. u = v BY <2>3, <2>5, <2>6, SeqEqual DEF Tokens
    <2>8. Upto(new, n + 1) = Append(u, c)
      <3>1. Upto(new, n + 1) = Append(Upto(new, n), new[n + 1]) BY <1>10, <2>1, UptoNext
      <3> QED BY <3>1, <2>4, <2>7, <1>8, <1>10
    <2>9. o = b \o u BY <1>2, <1>6, <1>7, <1>13, <2>2 DEF EmitFrom, Emitted
    <2>10. Append(b \o u, c) = b \o Append(u, c) BY CatAppend
    <2> QED BY <1>14, <2>8, <2>9, <2>10
  <1>17. out' = w BY <1>5, <1>13, <1>14
  <1>18. Shape'
    <2>1. step'.n <= Len(step'.toks) BY <1>8, <1>10, <1>12
    <2>2. pc' \in Phase /\ use.spec BY <1>1, <1>5 DEF Shape, Phase, TokenByToken
    <2>3. departed' \in BOOLEAN BY <1>5
    <2> QED BY <1>1, <1>5, <1>12, <1>15, <1>17, <2>1, <2>2, <2>3 DEF Shape
  <1>19. Replaced'
    <2>1. Len(w) <= NGen BY <1>3, <1>7, <1>8, <1>13, <1>15, SpecAssumption
    <2>2. ASSUME ~departed' PROVE OfStory(out')
      <3>1. out' = Append(out, NextTok) BY <2>2, <1>5
      <3> QED BY <3>1, <1>3, <1>5 DEF OfStory
    <2>3. OfStory(out') => OfStory(out)' BY <1>5 DEF OfStory
    <2> QED BY <1>4, <1>15, <1>17, <2>1, <2>2, <2>3 DEF Replaced
  <1>20. Emitted(b)' /\ snap' = b
    <2>1. Emitted(b)' BY <1>2, <1>5, <1>12, <1>16, <1>17 DEF EmitFrom, Emitted
    <2>2. snap = b BY <1>2, <1>5 DEF EmitFrom, ReplayHooksArmed
    <2> QED BY <1>5, <2>1, <2>2
  <1>21. step'.n > 0 /\ (pos + step.n <= Len(rows))'
    <2>1. pos + Len(toks) <= Len(rows) /\ Len(rows) \in Nat BY <1>1, <1>2, <1>6, Shaped DEF EmitFrom
    <2> QED BY <2>1, <1>5, <1>8, <1>12
  <1>22. ReplacedOk' BY <1>19, <1>20, <1>21 DEF ReplacedOk
  <1>23. use.spec BY <1>1 DEF Shape, TokenByToken
  <1> QED BY <1>5, <1>12, <1>18, <1>22, <1>23 DEF IInv, Phases

\* Behind its last token a step has emitted all it holds.
LEMMA CommitKeeps ==
    ASSUME IInv, Commit
    PROVE  IInv'
  <1>1. /\ Shape /\ pc = "commit" /\ step.over # "stall"
        /\ (step.over = "close" => ReplacedOk) /\ (step.over # "close" => CommitOk)
    BY DEF IInv, Phases, Commit
  <1>2. /\ lastTok' = step.next /\ pos' = pos + step.n /\ curPos' = pos + step.n
        /\ generated' = generated + step.n /\ burst' \in Burstable
        /\ pc' = IF cancelled THEN "flush"
                 ELSE IF step.over = "close" THEN "close"
                 ELSE IF step.over = "eos" THEN "flush" ELSE "loop"
        /\ step' = IF pc' = "close" THEN step ELSE NoStep
        /\ UNCHANGED <<story, use, departed, rows, rec, snap, out, ar, cancelled>>
    BY DEF Commit, target
  <1>3. PICK b \in Tokens : /\ Emitted(b)
                            /\ step.over = "close" => snap = b
                            /\ step.over # "close" => EmitFrom(b)
    BY <1>1 DEF ReplacedOk, CommitOk, EmitFrom
  <1>4. PICK toks \in Tokens : toks = step.toks BY <1>1, Shaped
  <1>5. PICK n \in Nat : n = step.n BY <1>1, Shaped
  <1>6. /\ Len(toks) \in Nat /\ n <= Len(toks) /\ n \in 0 .. Len(toks) /\ n > 0
        /\ pos \in Nat /\ Len(b) = pos /\ generated = pos /\ Len(rows) \in Nat
        /\ pos + n <= Len(rows) /\ NGen \in Nat
    <2>1. Len(toks) \in Nat /\ n <= Len(toks) /\ pos \in Nat /\ Len(rows) \in Nat /\ NGen \in Nat
      BY <1>1, <1>4, <1>5, Shaped DEF Shape
    <2>2. n > 0 BY <1>1, <1>5 DEF ReplacedOk, CommitOk
    <2>3. pos + n <= Len(rows)
      <3>1. CASE step.over = "close" BY <3>1, <1>1, <1>5 DEF ReplacedOk
      <3>2. CASE step.over # "close"
        <4>1. pos + Len(toks) <= Len(rows) BY <3>2, <1>3, <1>4 DEF EmitFrom
        <4> QED BY <4>1, <2>1
      <3> QED BY <3>1, <3>2
    <2> QED BY <1>3, <2>1, <2>2, <2>3 DEF Emitted
  <1>7. PICK kept \in Tokens : kept = Upto(toks, n) BY <1>6, UptoIs
  <1>8. Len(kept) = n BY <1>6, <1>7, UptoIs
  <1>9. PICK w \in Tokens : w = b \o kept BY CatLen
  <1>10. out = w /\ Len(w) = pos + n
    <2>1. Len(b \o kept) = Len(b) + Len(kept) BY CatLen
    <2> QED BY <2>1, <1>3, <1>4, <1>5, <1>6, <1>7, <1>8, <1>9 DEF Emitted
  <1>11. use.spec /\ use'.spec BY <1>1, <1>2 DEF Shape, TokenByToken
  <1>12. Shape'
    <2>1. pos' \in Nat /\ pos' <= Len(rows) /\ curPos' = pos' /\ generated' \in Nat
      BY <1>2, <1>5, <1>6
    <2>2. step' \in StepType /\ step'.n <= Len(step'.toks) BY <1>1, <1>2, NoStepIs DEF Shape
    <2>3. lastTok' \in Token \union {NoToken} BY <1>1, <1>2, Shaped
    <2>4. burst' \in 0 .. Burst
      <3>1. Burst \in 0 .. Burst BY <1>1, Shaped
      <3> QED BY <1>1, <1>2, <3>1 DEF Burstable, Shape
    <2>5. pc' \in Phase BY <1>2 DEF Phase
    <2> QED BY <1>1, <1>2, <1>11, <2>1, <2>2, <2>3, <2>4, <2>5 DEF Shape
  <1>13. CASE pc' = "flush" BY <1>11, <1>12, <1>13 DEF IInv, Phases
  <1>14. CASE pc' = "close"
    <2>1. step.over = "close" /\ step' = step BY <1>2, <1>14
    <2>2. Replaced' BY <1>1, <1>2, <2>1 DEF ReplacedOk, Replaced, OfStory
    <2>3. pos' = Len(out') /\ generated' = pos' BY <1>2, <1>5, <1>6, <1>10
    <2>4. snap \o Upto(step.toks, step.n) = out BY <1>3, <1>4, <1>5, <1>7, <1>9, <1>10, <2>1
    <2>5. CloseOk' BY <1>2, <2>1, <2>2, <2>3, <2>4 DEF CloseOk
    <2> QED BY <1>11, <1>12, <1>14, <2>5 DEF IInv, Phases
  <1>15. CASE pc' = "loop"
    <2>1. step.over = "no" /\ ~cancelled
      BY <1>1, <1>2, <1>15 DEF Shape, StepType
    <2>2. CommitOk /\ EmitFrom(b) /\ n = Len(toks) BY <1>1, <1>3, <1>4, <1>5, <2>1 DEF CommitOk
    <2>3. kept = toks BY <1>7, <2>2, UptoAll
    <2>4. /\ Upto(rows, pos + Len(toks)) = w /\ rec = w /\ ~departed
          /\ OfStory(b) /\ pos + Len(toks) <= NGen
          /\ (\A i \in 1 .. Len(toks) : toks[i] = story[pos + i])
          /\ (pos + Len(toks) < NGen => step.next \in {NoToken, story[pos + Len(toks) + 1]})
      BY <1>4, <1>9, <2>2, <2>3 DEF EmitFrom, Committed
    <2>5. OfStory(w)
      <3>1. story \in Stories BY <1>1 DEF Shape
      <3>2. OfStory(b \o toks) BY <1>6, <2>4, <3>1, StoryOn
      <3> QED BY <1>9, <2>3, <3>2
    <2>6. pos' = Len(out') /\ generated' = pos' /\ pos' = pos + Len(toks) /\ out' = w
      BY <1>2, <1>5, <1>6, <1>10, <2>2
    <2>7. Upto(rows', pos') = out' /\ rec' = out' BY <1>2, <2>4, <2>6
    <2>8. out' # <<>> BY <1>6, <1>10, <2>6, Nothing
    <2>9. pos' < NGen => lastTok' \in {NoToken, story'[pos' + 1]} BY <1>2, <2>4, <2>6
    <2>10. Running' BY <1>2, <2>1, <2>2 DEF CommitOk, Running
    <2>11. OfStory(out)' BY <1>2, <2>5, <2>6 DEF OfStory
    <2>12. LoopOk' BY <1>2, <2>4, <2>6, <2>7, <2>8, <2>9, <2>10, <2>11 DEF LoopOk
    <2> QED BY <1>11, <1>12, <1>15, <2>12 DEF IInv, Phases
  <1> QED BY <1>2, <1>13, <1>14, <1>15

-----------------------------------------------------------------------------
(* Handing over *)

\* The close tokens handed over are tokens.
LEMMA ArmedCloseIs == ArmedClose \in Tokens
  BY HookTokens, Nothing DEF ArmedClose

\* Without a valid seed do_ar_decode starts behind what has been emitted.
LEMMA InvalidSeedKeeps ==
    ASSUME IInv, InvalidSeed
    PROVE  IInv'
  <1>1. Shape /\ LoopOk /\ pc = "loop" /\ MoreToDo /\ ~ValidSeed BY DEF IInv, Phases, InvalidSeed
  <1>2. PICK left : left = Need OBVIOUS
  <1>3. PICK close \in Tokens : close = ArmedClose BY ArmedCloseIs
  <1>4. PICK o \in Tokens : o = out BY <1>1 DEF Shape
  <1>5. /\ out' = o /\ ar' = [Ar(left, left, close, "seed") EXCEPT !.entry = Len(o)]
        /\ lastTok' = Last(o) /\ pc' = (IF left > 0 THEN "ar" ELSE "done") /\ step' = NoStep
        /\ departed' = TRUE
        /\ UNCHANGED <<story, use, rows, rec, snap, pos, curPos, generated, burst, cancelled>>
    BY <1>2, <1>3, <1>4 DEF InvalidSeed, HandOver, target
  <1>6. /\ o # <<>> /\ Running /\ pos = Len(o) /\ generated = pos /\ Upto(rows, pos) = o /\ rec = o
        /\ generated < NGen /\ NGen \in Nat /\ Len(o) \in Nat
    BY <1>1, <1>4, Shaped DEF LoopOk, ValidSeed, MoreToDo
  <1>7. left \in Nat /\ left > 0 /\ Len(o) + left = NGen BY <1>2, <1>6 DEF Need
  <1>8. Last(o) \in Token BY <1>6, Lengths
  <1>9. PICK a : a = [Ar(left, left, close, "seed") EXCEPT !.entry = Len(o)] OBVIOUS
  <1>10. /\ a \in ArType /\ a.left = left /\ a.injected = 0 /\ a.entry = Len(o) /\ a.by = "seed"
         /\ a.left <= a.n /\ a.injected <= Len(a.close)
    <2>1. a = [n |-> left, left |-> left, close |-> close, injected |-> 0, entry |-> Len(o),
               by |-> "seed"]
      BY <1>9 DEF Ar
    <2>2. Len(close) \in Nat BY Lengths
    <2> QED BY <1>6, <1>7, <2>1, <2>2 DEF ArType
  <1>11. pc' = "ar" /\ ar' = a BY <1>5, <1>7, <1>9
  <1>12. use.spec BY <1>1 DEF Shape, TokenByToken
  <1>13. Shape'
    BY <1>1, <1>4, <1>5, <1>8, <1>10, <1>11, <1>12, NoStepIs DEF Shape, Phase
  <1>14. ArOk'
    <2>1. Len(out') + ar'.left <= NGen /\ ar'.entry <= Len(out')
      <3>1. out' = o /\ ar'.left = left /\ ar'.entry = Len(o) BY <1>5, <1>10, <1>11
      <3> QED BY <3>1, <1>6, <1>7
    <2>2. Running' BY <1>4, <1>5, <1>6 DEF Running
    <2>3. rec' = out' /\ Upto(rows', pos') = out' /\ out' # <<>> BY <1>5, <1>6
    <2> QED BY <1>5, <1>10, <1>11, <2>1, <2>2, <2>3 DEF ArOk
  <1> QED BY <1>5, <1>11, <1>12, <1>13, <1>14 DEF IInv, Phases

\* Behind a stall rows and recurrent state are the answer with the tool prefix.
LEMMA StallKeeps ==
    ASSUME IInv, Stall
    PROVE  IInv'
  <1>1. Shape /\ CommitOk /\ pc = "commit" /\ step.over = "stall" BY DEF IInv, Phases, Stall
  <1>2. PICK b \in Tokens : EmitFrom(b) BY <1>1 DEF CommitOk
  <1>3. PICK toks \in Tokens : toks = step.toks BY <1>1, Shaped
  <1>4. PICK n \in Nat : n = step.n BY <1>1, Shaped
  <1>5. /\ Len(toks) \in Nat /\ n \in 0 .. Len(toks) /\ pos \in Nat /\ Len(b) = pos
        /\ generated = pos /\ NGen \in Nat /\ Len(rows) \in Nat /\ pos + Len(toks) <= Len(rows)
    BY <1>1, <1>2, <1>3, <1>4, Shaped DEF Shape, EmitFrom, Emitted
  <1>6. PICK kept \in Tokens : kept = Upto(toks, n) BY <1>5, UptoIs
  <1>7. Len(kept) = n BY <1>5, <1>6, UptoIs
  <1>8. PICK tp \in Tokens : tp = ToolPrefix BY HookTokens
  <1>9. tp # <<>> /\ Last(tp) \in Token /\ Last(tp) # Eos /\ Len(tp) \in Nat
    BY <1>8, HookTokens, Lengths
  <1>10. (b \o kept) \o tp = b \o (kept \o tp) BY CatAssoc
  <1>11. snap = b BY <1>1, <1>2 DEF CommitOk, EmitFrom, ReplayHooksArmed
  <1>12. SubSeq(rows, 1, pos) = b
    <2>1. PICK r \in Tokens : r = rows BY <1>1 DEF Shape
    <2>2. PICK p \in Nat : p = pos BY <1>5
    <2>3. p + Len(toks) \in 0 .. Len(r) /\ p \in 0 .. p + Len(toks) BY <1>5, <2>1, <2>2
    <2>4. Upto(Upto(r, p + Len(toks)), p) = Upto(r, p) BY <2>3, UptoOfUpto
    <2>5. Upto(r, p + Len(toks)) = b \o toks BY <1>2, <1>3, <2>1, <2>2 DEF EmitFrom
    <2>6. Upto(b \o toks, Len(b)) = b
      <3>1. 0 \in 0 .. Len(toks) BY <1>5
      <3> QED BY <3>1, UptoOfCat
    <2> QED BY <1>5, <2>1, <2>2, <2>4, <2>5, <2>6 DEF Upto
  <1>13. PICK o \in Tokens : o = out BY <1>1 DEF Shape
  <1>14. o = b \o kept /\ Len(o) = pos + n
    <2>1. o = b \o kept BY <1>2, <1>3, <1>4, <1>6, <1>13 DEF EmitFrom, Emitted
    <2>2. Len(b \o kept) = Len(b) + Len(kept) BY CatLen
    <2> QED BY <2>1, <2>2, <1>5, <1>7
  <1>15. PICK w \in Tokens : w = o \o tp BY CatLen
  <1>16. Len(w) = pos + n + Len(tp) /\ w # <<>> /\ Last(w) = Last(tp)
    <2>1. Len(o \o tp) = Len(o) + Len(tp) BY CatLen
    <2>2. o \o tp # <<>> /\ Last(o \o tp) = Last(tp) BY <1>9, CatIs
    <2> QED BY <2>1, <2>2, <1>14, <1>15
  <1>17. rows' = w /\ rec' = w /\ out' = w
    <2>1. SubSeq(step.toks, 1, step.n) = kept BY <1>3, <1>4, <1>6 DEF Upto
    <2>2. rows' = b \o (kept \o tp) /\ rec' = (b \o kept) \o tp /\ out' = o \o tp
      BY <2>1, <1>8, <1>11, <1>12, <1>13 DEF Stall, Written
    <2> QED BY <2>2, <1>10, <1>14, <1>15
  <1>18. /\ pos' = Len(w) /\ curPos' = pos' /\ generated' = Len(w) /\ departed' = TRUE
         /\ UNCHANGED <<story, use, snap, burst, cancelled>>
    BY <1>4, <1>5, <1>8, <1>16 DEF Stall
  <1>19. Len(w) \in Nat /\ Upto(w, Len(w)) = w BY Lengths, UptoAll
  <1>20. use.spec BY <1>1 DEF Shape, TokenByToken
  <1>21. CASE cancelled
    <2>1. pc' = "flush" /\ step' = NoStep /\ UNCHANGED <<ar, lastTok>> BY <1>21 DEF Stall
    <2>2. Shape' BY <1>1, <1>17, <1>18, <1>19, <1>20, <2>1, NoStepIs DEF Shape, Phase
    <2> QED BY <1>18, <1>20, <2>1, <2>2 DEF IInv, Phases
  <1>22. CASE ~cancelled
    <2>1. PICK left : left = (IF Len(w) < NGen THEN NGen - Len(w) ELSE 0) OBVIOUS
    <2>2. left \in Nat /\ (left > 0 => Len(w) + left = NGen) BY <1>5, <1>19, <2>1
    <2>3. PICK close \in Tokens : close = ArmedClose BY ArmedCloseIs
    <2>4. PICK a : a = [Ar(left, left, close, "stall") EXCEPT !.entry = Len(w)] OBVIOUS
    <2>5. /\ ar' = a /\ lastTok' = Last(w) /\ pc' = (IF left > 0 THEN "ar" ELSE "done")
          /\ step' = NoStep
      BY <1>17, <1>18, <1>22, <2>1, <2>3, <2>4 DEF Stall, HandOver
    <2>6. /\ a \in ArType /\ a.left = left /\ a.injected = 0 /\ a.entry = Len(w) /\ a.by = "stall"
          /\ a.left <= a.n /\ a.injected <= Len(a.close)
      <3>1. a = [n |-> left, left |-> left, close |-> close, injected |-> 0, entry |-> Len(w),
                 by |-> "stall"]
        BY <2>4 DEF Ar
      <3>2. Len(close) \in Nat BY Lengths
      <3> QED BY <1>19, <2>2, <3>1, <3>2 DEF ArType
    <2>7. pc' \in Phase BY <2>5 DEF Phase
    <2>8. Shape'
      BY <1>1, <1>9, <1>16, <1>17, <1>18, <1>19, <1>20, <2>5, <2>6, <2>7, NoStepIs DEF Shape
    <2>9. pc' = "ar" => ArOk'
      <3> SUFFICES ASSUME pc' = "ar" PROVE ArOk' OBVIOUS
      <3>1. Len(w) + left = NGen BY <2>2, <2>5
      <3>2. Running' BY <1>9, <1>16, <1>17 DEF Running
      <3>3. Upto(rows', pos') = out' /\ rec' = out' BY <1>17, <1>18, <1>19
      <3>4. Len(out') + ar'.left <= NGen /\ ar'.entry <= Len(out')
        BY <1>5, <1>17, <1>19, <2>5, <2>6, <3>1
      <3> QED BY <1>16, <1>17, <1>18, <2>5, <2>6, <3>2, <3>3, <3>4 DEF ArOk
    <2> QED BY <1>18, <1>20, <2>5, <2>8, <2>9 DEF IInv, Phases
  <1> QED BY <1>21, <1>22

\* Behind a budget close the recurrent state is the answer with the close token
\* in it; of the rows nothing is said.
LEMMA CloseOverKeeps ==
    ASSUME IInv, CloseOver
    PROVE  IInv'
  <1>1. Shape /\ CloseOk /\ pc = "close" BY DEF IInv, Phases, CloseOver
  <1>2. PICK o \in Tokens : o = out BY <1>1 DEF Shape
  <1>3. /\ pos = Len(o) /\ generated = pos /\ Len(o) \in Nat /\ Len(o) <= NGen /\ NGen \in Nat
        /\ o # <<>> /\ Last(o) = Close[1] /\ Last(o) \in Token /\ Last(o) # Eos
        /\ pos \in Nat /\ pos <= Len(rows) /\ Len(rows) \in Nat
    BY <1>1, <1>2, HookTokens, Shaped DEF CloseOk, Replaced, Shape
  <1>4. PICK toks \in Tokens : toks = step.toks BY <1>1, Shaped
  <1>5. PICK n \in Nat : n = step.n BY <1>1, Shaped
  <1>6. n \in 0 .. Len(toks) /\ Len(toks) \in Nat
    <2>1. n <= Len(toks) /\ Len(toks) \in Nat BY <1>1, <1>4, <1>5, Shaped DEF Shape
    <2> QED BY <2>1
  <1>7. PICK kept \in Tokens : kept = Upto(toks, n) BY <1>6, UptoIs
  <1>8. Len(kept) = n BY <1>6, <1>7, UptoIs
  <1>9. PICK s \in Tokens : s = Upto(rows, pos)
    <2>1. PICK r \in Tokens : r = rows BY <1>1 DEF Shape
    <2>2. pos \in 0 .. Len(r) BY <1>3, <2>1
    <2> QED BY <2>1, <2>2, UptoIs
  <1>10. Len(s) = pos
    <2>1. PICK r \in Tokens : r = rows BY <1>1 DEF Shape
    <2>2. pos \in 0 .. Len(r) BY <1>3, <2>1
    <2> QED BY <1>9, <2>1, <2>2, UptoIs
  <1>11. rows' = s \o kept /\ rec' = o
    <2>1. SubSeq(step.toks, 1, step.n) = kept BY <1>4, <1>5, <1>7 DEF Upto
    <2>2. rows' = SubSeq(rows, 1, pos) \o kept /\ rec' = snap \o kept
      BY <2>1 DEF CloseOver, Written
    <2>3. snap \o kept = o BY <1>1, <1>2, <1>4, <1>5, <1>7 DEF CloseOk
    <2> QED BY <1>9, <2>2, <2>3 DEF Upto
  <1>12. s \o kept \in Tokens /\ Len(s \o kept) = pos + n
    <2>1. s \o kept \in Tokens /\ Len(s \o kept) = Len(s) + Len(kept) BY CatLen
    <2> QED BY <2>1, <1>8, <1>10
  <1>13. PICK left : left = Need OBVIOUS
  <1>14. left \in Nat /\ Len(o) + left = NGen BY <1>3, <1>13 DEF Need
  <1>15. PICK a : a = [Ar(left, left, <<>>, "close") EXCEPT !.entry = Len(o)] OBVIOUS
  <1>16. /\ a \in ArType /\ a.left = left /\ a.injected = 0 /\ a.entry = Len(o) /\ a.by = "close"
         /\ a.left <= a.n /\ a.injected <= Len(a.close)
    <2>1. a = [n |-> left, left |-> left, close |-> <<>>, injected |-> 0, entry |-> Len(o),
               by |-> "close"]
      BY <1>15 DEF Ar
    <2> QED BY <1>3, <1>14, <2>1, Nothing DEF ArType
  <1>17. /\ out' = o /\ ar' = a /\ lastTok' = Last(o) /\ step' = NoStep
         /\ pc' = (IF left > 0 THEN "ar" ELSE "done")
         /\ pos' = pos + n /\ curPos' = pos' /\ departed' = TRUE
         /\ UNCHANGED <<story, use, snap, generated, burst, cancelled>>
    BY <1>2, <1>5, <1>13, <1>15 DEF CloseOver, HandOver
  <1>18. use.spec BY <1>1 DEF Shape, TokenByToken
  <1>19. Shape'
    <2>1. rows' \in Tokens /\ pos' \in Nat /\ pos' <= Len(rows') BY <1>3, <1>11, <1>12, <1>17
    <2>2. pc' \in Phase BY <1>17 DEF Phase
    <2> QED BY <1>1, <1>3, <1>11, <1>16, <1>17, <1>18, <2>1, <2>2, NoStepIs DEF Shape
  <1>20. pc' = "ar" => ArOk'
    <2>1. Len(out') + ar'.left <= NGen /\ ar'.entry <= Len(out') BY <1>3, <1>14, <1>16, <1>17
    <2> QED BY <1>3, <1>11, <1>16, <1>17, <2>1 DEF ArOk, Running
  <1> QED BY <1>17, <1>18, <1>19, <1>20 DEF IInv, Phases

-----------------------------------------------------------------------------
(* Trees *)

\* Paths of a draft tree are sequences of tokens.
LEMMA TreePaths ==
    ASSUME NEW t \in Trees, NEW p \in t \union {<<>>}
    PROVE  p \in Tokens
  <1>1. Width \in Nat /\ Width >= 1 BY SpecAssumption
  <1>2. CASE p \in t
    <2>1. p \in SeqsUpTo(Width - 1) BY <1>2 DEF Trees
    <2>2. PICK k \in 0 .. Width - 1 : p \in [1 .. k -> Token] BY <2>1 DEF SeqsUpTo
    <2>3. k \in Nat BY <1>1
    <2> QED BY <2>2, <2>3 DEF Tokens
  <1>3. CASE p = <<>> BY <1>3, Nothing
  <1> QED BY <1>2, <1>3

\* The verified path, and what the target says behind it, are how the story goes
\* on.
LEMMA VerifyTreeKeeps ==
    ASSUME IInv, VerifyTree
    PROVE  IInv'
  <1>1. Shape /\ LoopOk /\ pc = "loop" BY DEF IInv, Phases, VerifyTree
  <1>2. lastTok \in Token /\ pos < NGen /\ lastTok = story[pos + 1]
    BY <1>1, SeedIs DEF VerifyTree
  <1>3. PICK t \in Trees : \E v \in Verified(t) :
          LET path == <<lastTok>> \o v[1]
          IN  step' = [NoStep EXCEPT !.kind = "tree", !.accept = Len(path), !.next = v[2],
                                     !.toks = SubSeq(path, 1, Min2(Len(path), Need))]
    BY DEF VerifyTree
  <1>4. PICK v \in Verified(t) :
          LET path == <<lastTok>> \o v[1]
          IN  step' = [NoStep EXCEPT !.kind = "tree", !.accept = Len(path), !.next = v[2],
                                     !.toks = SubSeq(path, 1, Min2(Len(path), Need))]
    BY <1>3
  <1>5. PICK p, next : p = v[1] /\ next = v[2] OBVIOUS
  <1>6. p \in Tokens /\ next \in Token
    <2>1. p \in t \union {<<>>} /\ next \in Token BY <1>5 DEF Verified
    <2> QED BY <2>1, TreePaths
  <1>7. PICK s \in Tokens : s = out BY <1>1 DEF Shape
  <1>8. s = Upto(rows, pos) /\ s = rec /\ Len(s) = pos /\ pos \in Nat /\ OfStory(s) /\ generated = pos
        /\ NGen \in Nat
    BY <1>1, <1>7, Shaped DEF LoopOk, Shape
  <1>9. PICK seed \in Token : seed = lastTok BY <1>2
  <1>10. PICK one \in Tokens : one = <<seed>> BY One
  <1>11. Len(one) = 1 /\ one[1] = seed /\ one # <<>> BY <1>10, One
  <1>12. PICK path \in Tokens : path = one \o p BY <1>6, CatLen
  <1>13. /\ Len(path) = 1 + Len(p) /\ Len(p) \in Nat /\ path[1] = seed /\ path # <<>>
         /\ \A i \in 1 .. Len(p) : path[1 + i] = p[i]
    <2>1. /\ Len(one \o p) = Len(one) + Len(p) /\ \A i \in 1 .. Len(one) : (one \o p)[i] = one[i]
          /\ \A i \in 1 .. Len(p) : (one \o p)[Len(one) + i] = p[i]
      BY <1>6, CatIs
    <2>2. Len(p) \in Nat /\ 1 \in 1 .. Len(one) BY <1>6, <1>11, Lengths
    <2>3. Len(path) = 1 + Len(p) BY <1>11, <1>12, <2>1
    <2>4. path # <<>> BY <2>2, <2>3, Nothing
    <2>5. path[1] = seed BY <1>11, <1>12, <2>1, <2>2
    <2>6. \A i \in 1 .. Len(p) : path[1 + i] = p[i] BY <1>11, <1>12, <2>1
    <2> QED BY <2>2, <2>3, <2>4, <2>5, <2>6
  <1>14. \A i \in 1 .. Len(p) : p[i] \in Answers(s \o Upto(path, i), s \o Upto(path, i))
    <2> SUFFICES ASSUME NEW i \in 1 .. Len(p)
                 PROVE  p[i] \in Answers(s \o Upto(path, i), s \o Upto(path, i))
      OBVIOUS
    <2>1. i - 1 \in 0 .. Len(p) /\ Len(one) + (i - 1) = i BY <1>11, <1>13
    <2>2. PICK q \in Tokens : q = Upto(p, i - 1) BY <1>6, <2>1, UptoIs
    <2>3. Upto(path, i) = one \o q
      <3>1. Upto(one \o p, Len(one) + (i - 1)) = one \o Upto(p, i - 1) BY <1>6, <2>1, UptoOfCat
      <3> QED BY <3>1, <1>12, <2>1, <2>2
    <2>4. p[i] \in Following(pos, rec, <<lastTok>> \o SubSeq(p, 1, i - 1)) BY <1>5 DEF Verified
    <2>5. SubSeq(p, 1, i - 1) = q BY <2>2 DEF Upto
    <2>6. p[i] \in Answers(s \o (one \o q), s \o (one \o q))
      BY <1>8, <1>9, <1>10, <2>4, <2>5 DEF Following, Written, Upto, Answers
    <2> QED BY <2>3, <2>6
  <1>15. next \in Answers(s \o Upto(path, Len(path)), s \o Upto(path, Len(path)))
    <2>1. next \in Following(pos, rec, <<lastTok>> \o p) BY <1>5 DEF Verified
    <2>2. next \in Answers(s \o path, s \o path)
      BY <1>8, <1>9, <1>10, <1>12, <2>1 DEF Following, Written, Upto, Answers
    <2> QED BY <2>2, UptoAll
  <1>16. /\ \A i \in 1 .. Len(path) : pos + i <= NGen => path[i] = story[pos + i]
         /\ pos + Len(path) < NGen => next = story[pos + Len(path) + 1]
    <2>1. story \in Stories BY <1>1 DEF Shape
    <2>2. Len(s) < NGen /\ path[1] = story[Len(s) + 1] BY <1>2, <1>8, <1>9, <1>13
    <2>3. Len(path) \in 1 .. Len(path) BY <1>13
    <2>4. \A i \in 2 .. Len(path) :
             path[i] \in Answers(s \o Upto(path, i - 1), s \o Upto(path, i - 1))
      <3> SUFFICES ASSUME NEW i \in 2 .. Len(path)
                   PROVE  path[i] \in Answers(s \o Upto(path, i - 1), s \o Upto(path, i - 1))
        OBVIOUS
      <3>1. PICK j \in 1 .. Len(p) : j = i - 1 /\ 1 + j = i
        <4>1. i - 1 \in 1 .. Len(p) /\ 1 + (i - 1) = i BY <1>13
        <4> QED BY <4>1
      <3>2. path[i] = p[j] BY <1>13, <3>1
      <3> QED BY <1>14, <3>1, <3>2
    <2>5. /\ \A i \in 1 .. Len(path) : Len(s) + i <= NGen => path[i] = story[Len(s) + i]
          /\ \A x \in Answers(s \o Upto(path, Len(path)), s \o Upto(path, Len(path))) :
                Len(s) + Len(path) < NGen => x = story[Len(s) + Len(path) + 1]
      BY <2>1, <2>2, <2>3, <2>4, <1>8, <1>13, Along
    <2> QED BY <2>5, <1>8, <1>15
  <1>17. PICK k : k = Min2(Len(path), Need) OBVIOUS
  <1>18. /\ k \in 1 .. Len(path) /\ k \in 0 .. Len(path) /\ pos + k <= NGen
         /\ (pos + k < NGen => k = Len(path))
    <2>1. Need = NGen - pos BY <1>8 DEF Need
    <2>2. Len(path) \in Nat /\ Len(path) >= 1 BY <1>13
    <2> QED BY <2>1, <2>2, <1>2, <1>8, <1>17 DEF Min2
  <1>19. PICK toks \in Tokens : toks = Upto(path, k) BY <1>18, UptoIs
  <1>20. Len(toks) = k /\ \A i \in 1 .. k : toks[i] = path[i] BY <1>18, <1>19, UptoIs
  <1>21. step' = [kind |-> "tree", draft |-> <<>>, accept |-> Len(path), toks |-> toks,
                  next |-> next, n |-> 0, over |-> "no"]
    <2>1. step' = [NoStep EXCEPT !.kind = "tree", !.accept = Len(path), !.next = next,
                                 !.toks = SubSeq(path, 1, k)]
      BY <1>4, <1>5, <1>9, <1>10, <1>12, <1>17
    <2> QED BY <2>1, <1>19 DEF NoStep, Upto
  <1>22. /\ snap' = rec /\ burst' = BurstLeft /\ pc' = "emitTree"
         /\ UNCHANGED <<story, use, departed, rows, rec, pos, curPos, lastTok, out, generated, ar,
                        cancelled>>
    BY DEF VerifyTree
  <1>23. use.spec /\ use'.spec BY <1>1, <1>22 DEF Shape, TokenByToken
  <1>24. Len(path) \in Nat BY <1>13
  <1>25. /\ step' \in StepType /\ step'.toks = toks /\ step'.next = next /\ step'.n = 0
         /\ step'.over = "no"
    BY <1>6, <1>21, <1>24, Nothing DEF StepType
  <1>26. Shape'
    <2>1. step'.n <= Len(step'.toks) BY <1>18, <1>20, <1>25
    <2>2. burst' \in 0 .. Burst BY <1>1, <1>22, Shaped DEF Shape, BurstLeft
    <2>3. pc' \in Phase BY <1>22 DEF Phase
    <2> QED BY <1>1, <1>22, <1>23, <1>25, <2>1, <2>2, <2>3 DEF Shape
  <1>27. TreeOk'
    <2>1. Emitted(s)'
      <3>1. 0 \in 0 .. Len(toks) BY <1>18, <1>20
      <3>2. Upto(toks, 0) = <<>> BY <3>1, UptoIs
      <3>3. s = s \o <<>> BY CatIs, Nothing
      <3> QED BY <1>7, <1>8, <1>22, <1>25, <3>2, <3>3 DEF Emitted
    <2>2. Committed(s)'
      <3>1. \A i \in 1 .. Len(toks) : toks[i] = story[pos + i]
        <4> SUFFICES ASSUME NEW i \in 1 .. Len(toks) PROVE toks[i] = story[pos + i] OBVIOUS
        <4>1. i \in 1 .. Len(path) /\ pos + i <= NGen /\ toks[i] = path[i] BY <1>8, <1>18, <1>20
        <4> QED BY <4>1, <1>16
      <3>2. pos + Len(toks) <= NGen
            /\ (pos + Len(toks) < NGen => next = story[pos + Len(toks) + 1])
        BY <1>16, <1>18, <1>20
      <3> QED BY <1>8, <1>22, <1>25, <3>1, <3>2 DEF Committed, OfStory
    <2>3. TreeFrom(s)' BY <1>1, <1>6, <1>8, <1>22, <1>25, <2>1, <2>2 DEF TreeFrom, LoopOk
    <2> QED BY <1>1, <1>22, <2>3 DEF TreeOk, LoopOk, Running
  <1>28. (step.n < Len(step.toks))' BY <1>18, <1>20, <1>25
  <1> QED BY <1>22, <1>23, <1>25, <1>26, <1>27, <1>28 DEF IInv, Phases

\* A tree step emits within the path verified.
LEMMA EmitTreeKeeps ==
    ASSUME IInv, EmitTree
    PROVE  IInv'
  <1>1. Shape /\ TreeOk /\ pc = "emitTree" /\ step.over = "no" /\ step.n < Len(step.toks)
    BY DEF IInv, Phases, EmitTree
  <1>2. PICK b \in Tokens : TreeFrom(b) BY <1>1 DEF TreeOk
  <1>3. /\ NextTok \in Token /\ Append(out, NextTok) \in Tokens
        /\ Append(out, NextTok) = b \o Upto(step.toks, step.n + 1)
    BY <1>1, <1>2, EmitGrows DEF TreeFrom
  <1>4. PICK x \in Token : x = NextTok BY <1>3
  <1>5. PICK over \in {"no", "eos", "stall", "close"} :
          over = (IF cancelled \/ x = Eos THEN "eos" ELSE "no")
    OBVIOUS
  <1>6. /\ out' = Append(out, x)
        /\ step' = [step EXCEPT !.n = @ + 1, !.over = over]
        /\ pc' = (IF cancelled \/ x = Eos \/ step.n + 1 = Len(step.toks) THEN "settle" ELSE "emitTree")
        /\ UNCHANGED <<story, use, departed, rows, rec, snap, pos, curPos, lastTok, generated,
                       burst, ar, cancelled>>
    BY <1>1, <1>4, <1>5 DEF EmitTree, target
  <1>7. PICK n \in Nat : n = step.n BY <1>1, Shaped
  <1>8. /\ step' \in StepType /\ step'.toks = step.toks /\ step'.next = step.next
        /\ step'.n = n + 1 /\ step'.over = over
    <2>1. PICK s \in StepType : s = step BY <1>1 DEF Shape
    <2>2. PICK m \in Nat : m = n + 1 OBVIOUS
    <2>3. PICK st : st = [s EXCEPT !.n = m, !.over = over] OBVIOUS
    <2>4. st \in StepType /\ st.toks = s.toks /\ st.next = s.next /\ st.n = m /\ st.over = over
      BY <2>3 DEF StepType
    <2>5. step' = st BY <1>6, <1>7, <2>1, <2>2, <2>3
    <2> QED BY <2>1, <2>2, <2>4, <2>5
  <1>9. Len(step.toks) \in Nat /\ n < Len(step.toks) BY <1>1, <1>7, Shaped
  <1>10. Last(out') = x
    <2>1. PICK o \in Tokens : o = out BY <1>1 DEF Shape
    <2> QED BY <2>1, <1>6, AppendIs
  <1>11. use.spec /\ use'.spec BY <1>1, <1>6 DEF Shape, TokenByToken
  <1>12. Shape'
    <2>1. step'.n <= Len(step'.toks) BY <1>8, <1>9
    <2>2. pc' \in Phase BY <1>6 DEF Phase
    <2>3. out' \in Tokens BY <1>3, <1>4, <1>6
    <2> QED BY <1>1, <1>6, <1>8, <1>11, <2>1, <2>2, <2>3 DEF Shape
  <1>13. TreeFrom(b)'
    <2>1. Emitted(b)' BY <1>2, <1>3, <1>4, <1>6, <1>7, <1>8 DEF TreeFrom, Emitted
    <2>2. Committed(b)' BY <1>2, <1>6, <1>8 DEF TreeFrom, Committed, OfStory
    <2> QED BY <1>2, <1>6, <1>8, <2>1, <2>2 DEF TreeFrom
  <1>14. TreeOk'
    <2>1. step'.over = "no" => x # Eos BY <1>5, <1>8
    <2>2. step'.over = "no" => Running' BY <2>1, <1>10 DEF Running
    <2> QED BY <1>13, <2>2 DEF TreeOk
  <1>15. CASE cancelled \/ x = Eos \/ n + 1 = Len(step.toks)
    <2>1. pc' = "settle" BY <1>6, <1>7, <1>15
    <2>2. step'.n > 0 /\ step'.over \in {"no", "eos"}
          /\ (step'.over = "no" => step'.n = Len(step'.toks))
      BY <1>5, <1>8, <1>15
    <2> QED BY <1>11, <1>12, <1>14, <2>1, <2>2 DEF IInv, Phases
  <1>16. CASE ~(cancelled \/ x = Eos \/ n + 1 = Len(step.toks))
    <2>1. pc' = "emitTree" BY <1>6, <1>7, <1>16
    <2>2. (step.n < Len(step.toks))' /\ step'.over = "no" BY <1>5, <1>8, <1>9, <1>16
    <2> QED BY <1>11, <1>12, <1>14, <2>1, <2>2 DEF IInv, Phases
  <1> QED BY <1>15, <1>16

\* What a tree step has emitted, and that it is how the story goes.
LEMMA TreeKeptIs ==
    ASSUME Shape, NEW b \in Tokens, TreeFrom(b), NEW kept, kept = TreeKept
    PROVE  /\ kept \in Tokens /\ Len(kept) = step.n /\ out = b \o kept /\ OfStory(out)
           /\ Len(out) = pos + step.n /\ Len(b) = pos /\ pos + step.n <= NGen
           /\ SubSeq(rows, 1, pos) = b /\ snap = b
  <1>1. PICK toks \in Tokens : toks = step.toks BY Shaped
  <1>2. PICK n \in Nat : n = step.n BY Shaped
  <1>3. /\ story \in Stories /\ Len(toks) \in Nat /\ n <= Len(toks) /\ pos \in Nat /\ NGen \in Nat
    BY <1>1, <1>2, Shaped DEF Shape
  <1>4. n \in 0 .. Len(toks) BY <1>3
  <1>5. kept = Upto(toks, n) BY <1>1, <1>2 DEF TreeKept, Upto
  <1>6. kept \in Tokens /\ Len(kept) = n /\ \A i \in 1 .. n : kept[i] = toks[i] BY <1>4, <1>5, UptoIs
  <1>7. /\ out = b \o kept /\ Len(b) = pos /\ OfStory(b) /\ pos + Len(toks) <= NGen
        /\ (\A i \in 1 .. Len(toks) : toks[i] = story[pos + i])
        /\ Upto(rows, pos) = b /\ snap = b
    BY <1>1, <1>2, <1>5 DEF TreeFrom, Emitted, Committed
  <1>8. PICK w \in Tokens : w = b \o kept BY <1>6, CatLen
  <1>9. Len(w) = pos + n
    <2>1. Len(b \o kept) = Len(b) + Len(kept) BY <1>6, CatLen
    <2> QED BY <2>1, <1>6, <1>7, <1>8
  <1>10. OfStory(w)
    <2>1. Len(b) + Len(kept) <= NGen BY <1>3, <1>6, <1>7
    <2>2. \A i \in 1 .. Len(kept) : kept[i] = story[Len(b) + i]
      <3> SUFFICES ASSUME NEW i \in 1 .. Len(kept) PROVE kept[i] = story[Len(b) + i] OBVIOUS
      <3>1. i \in 1 .. n /\ i \in 1 .. Len(toks) BY <1>3, <1>6
      <3> QED BY <3>1, <1>6, <1>7
    <2>3. OfStory(b \o kept) BY <1>3, <1>6, <1>7, <2>1, <2>2, StoryOn
    <2> QED BY <1>8, <2>3
  <1>11. OfStory(out) BY <1>7, <1>8, <1>10 DEF OfStory
  <1>12. pos + n <= NGen BY <1>3, <1>7
  <1> QED BY <1>2, <1>6, <1>7, <1>8, <1>9, <1>11, <1>12 DEF Upto

\* Rolling a tree step back leaves the cache at what it has emitted.
LEMMA RollBackTreeKeeps ==
    ASSUME IInv, RollBackTree
    PROVE  IInv'
  <1>1. /\ Shape /\ TreeOk /\ pc = "settle" /\ step.over \in {"no", "eos"} /\ step.n > 0
        /\ (step.over = "no" => step.n = Len(step.toks))
    BY DEF IInv, Phases, RollBackTree
  <1>2. PICK b \in Tokens : TreeFrom(b) BY <1>1 DEF TreeOk
  <1>3. PICK kept : kept = TreeKept OBVIOUS
  <1>4. PICK n \in Nat : n = step.n BY <1>1, Shaped
  <1>5. /\ kept \in Tokens /\ Len(kept) = n /\ out = b \o kept /\ OfStory(out)
        /\ Len(out) = pos + n /\ SubSeq(rows, 1, pos) = b /\ snap = b
    BY <1>1, <1>2, <1>3, <1>4, TreeKeptIs
  <1>6. PICK w \in Tokens : w = out BY <1>1 DEF Shape
  <1>7. /\ rows' = w /\ rec' = w /\ out' = w /\ lastTok' = step.next
        /\ pos' = pos + n /\ curPos' = pos' /\ generated' = generated + n /\ step' = NoStep
        /\ pc' = (IF step.over = "eos" \/ cancelled \/ generated' >= NGen \/ lastTok' \in {NoToken, Eos}
                  THEN "flush" ELSE "loop")
        /\ UNCHANGED <<story, use, departed, snap, burst, ar, cancelled>>
    BY <1>3, <1>4, <1>5, <1>6 DEF RollBackTree, EndTreeStep, Written
  <1>8. /\ generated = pos /\ pos \in Nat /\ Len(w) = pos + n /\ Len(w) \in Nat /\ n > 0 /\ NGen \in Nat
        /\ step.next \in Token
    BY <1>1, <1>2, <1>4, <1>5, <1>6, Shaped DEF TreeFrom, Emitted
  <1>9. pos' = Len(w) /\ generated' = Len(w) /\ Upto(w, Len(w)) = w
    BY <1>7, <1>8, UptoAll
  <1>10. use.spec /\ use'.spec BY <1>1, <1>7 DEF Shape, TokenByToken
  <1>11. pc' \in Phase BY <1>7 DEF Phase
  <1>12. Shape' BY <1>1, <1>7, <1>8, <1>9, <1>10, <1>11, NoStepIs DEF Shape
  <1>13. CASE pc' = "flush" BY <1>10, <1>12, <1>13 DEF IInv, Phases
  <1>14. CASE pc' = "loop"
    <2>1. step.over = "no" BY <1>1, <1>7, <1>14
    <2>2. n = Len(step.toks) BY <1>1, <1>4, <2>1
    <2>3. pos + n < NGen => step.next = story[pos + n + 1]
      <3>1. NoToken \notin Token BY SpecAssumption
      <3> QED BY <1>2, <1>8, <2>2, <3>1 DEF TreeFrom, Committed
    <2>4. pos' < NGen => lastTok' = story'[pos' + 1] BY <1>7, <1>8, <1>9, <2>3
    <2>5. Running' BY <1>1, <1>6, <1>7, <2>1 DEF TreeOk, Running
    <2>6. OfStory(out)' BY <1>5, <1>6, <1>7 DEF OfStory
    <2>7. out' # <<>> BY <1>7, <1>8, Nothing
    <2>8. ~departed' BY <1>2, <1>7 DEF TreeFrom
    <2>9. LoopOk' BY <1>7, <1>9, <2>4, <2>5, <2>6, <2>7, <2>8 DEF LoopOk
    <2> QED BY <1>10, <1>12, <1>14, <2>9 DEF IInv, Phases
  <1> QED BY <1>7, <1>13, <1>14

\* What a tree step's replay emits in addition.
LEMMA TreeBonusIs ==
    ASSUME Shape, NEW b \in Tokens, TreeFrom(b), NEW bonus, bonus = TreeBonus
    PROVE  /\ bonus \in Tokens /\ Len(bonus) \in {0, 1}
           /\ Len(bonus) = 1 => /\ bonus = <<step.next>> /\ bonus[1] = step.next
                                /\ Last(bonus) = step.next /\ bonus # <<>>
                                /\ step.over = "no" /\ ~cancelled /\ pos + step.n < NGen
           /\ Len(bonus) = 0 => bonus = <<>>
  <1>1. PICK next \in Token : next = step.next BY DEF TreeFrom
  <1>2. bonus = <<>> \/ bonus = <<next>> BY <1>1 DEF TreeBonus
  <1>3. CASE bonus = <<>> BY <1>3, Nothing
  <1>4. CASE bonus = <<next>>
    <2>1. bonus \in Tokens /\ Len(bonus) = 1 /\ bonus[1] = next /\ Last(bonus) = next /\ bonus # <<>>
      BY <1>4, One
    <2>2. step.over = "no" /\ ~cancelled /\ step.n < NGen - generated
      BY <2>1 DEF TreeBonus, Need
    <2>3. pos + step.n < NGen
      <3>1. generated = pos BY DEF TreeFrom, Emitted
      <3>2. pos \in Nat /\ NGen \in Nat /\ step.n \in Nat BY Shaped
      <3> QED BY <2>2, <3>1, <3>2
    <2> QED BY <1>1, <1>4, <2>1, <2>2, <2>3
  <1> QED BY <1>2, <1>3, <1>4

\* Replaying it leaves the cache at what it has emitted with the bonus.
LEMMA ReplayTreeKeeps ==
    ASSUME IInv, ReplayTree
    PROVE  IInv'
  <1>1. /\ Shape /\ TreeOk /\ pc = "settle" /\ step.over \in {"no", "eos"} /\ step.n > 0
        /\ (step.over = "no" => step.n = Len(step.toks))
    BY DEF IInv, Phases, ReplayTree
  <1>2. PICK b \in Tokens : TreeFrom(b) BY <1>1 DEF TreeOk
  <1>3. PICK kept, bonus : kept = TreeKept /\ bonus = TreeBonus OBVIOUS
  <1>4. PICK n \in Nat : n = step.n BY <1>1, Shaped
  <1>5. /\ kept \in Tokens /\ Len(kept) = n /\ out = b \o kept /\ OfStory(out)
        /\ Len(out) = pos + n /\ Len(b) = pos /\ SubSeq(rows, 1, pos) = b /\ snap = b
        /\ pos + n <= NGen
    BY <1>1, <1>2, <1>3, <1>4, TreeKeptIs
  <1>6. /\ bonus \in Tokens /\ Len(bonus) \in {0, 1}
        /\ (Len(bonus) = 1 => /\ bonus = <<step.next>> /\ bonus[1] = step.next
                              /\ Last(bonus) = step.next /\ bonus # <<>>
                              /\ step.over = "no" /\ ~cancelled /\ pos + n < NGen)
        /\ (Len(bonus) = 0 => bonus = <<>>)
    BY <1>1, <1>2, <1>3, <1>4, TreeBonusIs
  <1>7. (b \o kept) \o bonus = b \o (kept \o bonus) BY <1>5, <1>6, CatAssoc
  <1>8. PICK more \in Tokens : more = kept \o bonus BY <1>5, <1>6, CatLen
  <1>9. PICK w \in Tokens : w = b \o more BY CatLen
  <1>10. PICK o \in Tokens : o = out BY <1>1 DEF Shape
  <1>11. w = o \o bonus BY <1>5, <1>7, <1>8, <1>9, <1>10
  <1>12. /\ generated = pos /\ pos \in Nat /\ n > 0 /\ NGen \in Nat /\ step.next \in Token
         /\ Len(o) = pos + n /\ story \in Stories /\ NoToken \notin Token
    BY <1>1, <1>2, <1>4, <1>5, <1>10, Shaped DEF TreeFrom, Emitted, Shape
  <1>13. Len(w) = pos + n + Len(bonus) /\ Len(w) \in Nat
    <2>1. Len(o \o bonus) = Len(o) + Len(bonus) BY <1>6, CatLen
    <2> QED BY <2>1, <1>6, <1>11, <1>12
  <1>14. /\ rows' = w /\ rec' = w /\ out' = w
         /\ lastTok' \in Answers(w, w) \union {NoToken}
    <2>1. rows' = b \o more /\ rec' = (b \o kept) \o bonus /\ out' = o \o bonus
      BY <1>3, <1>5, <1>8, <1>10 DEF ReplayTree, Written
    <2>2. lastTok' \in Following(pos, snap, more) \union {NoToken} BY <1>3, <1>8 DEF ReplayTree
    <2>3. lastTok' \in Answers(w, w) \union {NoToken}
      BY <1>5, <1>9, <2>2 DEF Following, Written, Answers
    <2> QED BY <2>1, <2>3, <1>7, <1>8, <1>9, <1>11
  <1>15. /\ pos' = pos + (n + Len(bonus)) /\ curPos' = pos' /\ generated' = generated + (n + Len(bonus))
         /\ step' = NoStep
         /\ pc' = (IF (step.over = "eos" \/ bonus = <<Eos>>) \/ cancelled \/ generated' >= NGen
                      \/ lastTok' \in {NoToken, Eos}
                   THEN "flush" ELSE "loop")
         /\ UNCHANGED <<story, use, departed, snap, burst, ar, cancelled>>
    BY <1>3, <1>4 DEF ReplayTree, EndTreeStep
  <1>16. pos' = Len(w) /\ generated' = Len(w) /\ Upto(w, Len(w)) = w
    <2>1. Len(bonus) \in Nat BY <1>6
    <2> QED BY <1>12, <1>13, <1>15, <2>1, UptoAll
  <1>17. use.spec /\ use'.spec BY <1>1, <1>15 DEF Shape, TokenByToken
  <1>18. lastTok' \in Token \union {NoToken} BY <1>12, <1>14, AnswersAre
  <1>19. pc' \in Phase BY <1>15 DEF Phase
  <1>20. Shape' BY <1>1, <1>13, <1>14, <1>15, <1>16, <1>17, <1>18, <1>19, NoStepIs DEF Shape
  <1>21. CASE pc' = "flush" BY <1>17, <1>20, <1>21 DEF IInv, Phases
  <1>22. CASE pc' = "loop"
    <2>1. /\ step.over = "no" /\ bonus # <<Eos>> /\ Len(w) < NGen /\ lastTok' # NoToken
      BY <1>1, <1>12, <1>13, <1>15, <1>16, <1>22
    <2>2. n = Len(step.toks) BY <1>1, <1>4, <2>1
    <2>3. OfStory(o) BY <1>5, <1>10
    <2>4. OfStory(w)
      <3>1. CASE Len(bonus) = 0
        <4>1. w = o BY <3>1, <1>6, <1>11, CatIs
        <4> QED BY <4>1, <2>3
      <3>2. CASE Len(bonus) = 1
        <4>1. step.next = story[pos + n + 1] /\ pos + n + 1 <= NGen
          BY <3>2, <1>2, <1>6, <1>12, <2>2 DEF TreeFrom, Committed
        <4>2. Len(o) + Len(bonus) <= NGen BY <3>2, <4>1, <1>12
        <4>3. \A i \in 1 .. Len(bonus) : bonus[i] = story[Len(o) + i]
          BY <3>2, <4>1, <1>6, <1>12
        <4>4. OfStory(o \o bonus) BY <1>6, <1>12, <2>3, <4>2, <4>3, StoryOn
        <4> QED BY <4>4, <1>11
      <3> QED BY <1>6, <3>1, <3>2
    <2>5. lastTok' = story[Len(w) + 1] BY <1>12, <1>14, <2>1, <2>4, AnswersAre
    <2>6. Running'
      <3>1. CASE Len(bonus) = 0
        <4>1. w = o BY <3>1, <1>6, <1>11, CatIs
        <4> QED BY <4>1, <1>1, <1>10, <1>14, <2>1 DEF TreeOk, Running
      <3>2. CASE Len(bonus) = 1
        <4>1. Last(w) = step.next /\ step.next # Eos
          <5>1. Last(o \o bonus) = Last(bonus) BY <3>2, <1>6, CatIs
          <5> QED BY <5>1, <3>2, <1>6, <1>11, <2>1
        <4> QED BY <4>1, <1>14 DEF Running
      <3> QED BY <1>6, <3>1, <3>2
    <2>7. OfStory(out)' BY <1>14, <1>15, <2>4 DEF OfStory
    <2>8. out' # <<>> BY <1>6, <1>12, <1>13, <1>14, Nothing
    <2>9. ~departed' BY <1>2, <1>15 DEF TreeFrom
    <2>10. pos' < NGen => lastTok' = story'[pos' + 1] BY <1>15, <1>16, <2>5
    <2>11. LoopOk' BY <1>14, <1>16, <2>6, <2>7, <2>8, <2>9, <2>10 DEF LoopOk
    <2> QED BY <1>17, <1>20, <1>22, <2>11 DEF IInv, Phases
  <1> QED BY <1>15, <1>21, <1>22

-----------------------------------------------------------------------------
(* Token by token *)

\* Where s stands in t.
LEMMA WithinIs ==
    ASSUME NEW s \in Tokens, NEW t \in Tokens, NEW i \in 0 .. Len(t) - Len(s),
           \A j \in 1 .. Len(s) : t[i + j] = s[j]
    PROVE  Within(s, t)
  <1>1. Len(s) \in Nat /\ Len(t) \in Nat /\ i \in Nat /\ i + 1 \in Int /\ i + Len(s) \in Int
    BY Lengths
  <1>2. \A j \in i + 1 .. i + Len(s) : t[j] \in Token
    <2> SUFFICES ASSUME NEW j \in i + 1 .. i + Len(s) PROVE t[j] \in Token OBVIOUS
    <2>1. j \in 1 .. Len(t) BY <1>1
    <2> QED BY <2>1, Lengths
  <1>3. PICK u : u = SubSeq(t, i + 1, i + Len(s)) OBVIOUS
  <1>4. /\ u \in Tokens /\ Len(u) = (IF i + 1 <= i + Len(s) THEN i + Len(s) - (i + 1) + 1 ELSE 0)
        /\ \A j \in 1 .. i + Len(s) - (i + 1) + 1 : u[j] = t[i + 1 + j - 1]
    BY <1>1, <1>2, <1>3, SubSeqProperties DEF Tokens
  <1>5. Len(u) = Len(s) BY <1>1, <1>4
  <1>6. ASSUME NEW j \in 1 .. Len(u) PROVE u[j] = s[j]
    <2>1. j \in 1 .. i + Len(s) - (i + 1) + 1 /\ i + 1 + j - 1 = i + j /\ j \in 1 .. Len(s)
      BY <1>1, <1>5
    <2> QED BY <2>1, <1>4
  <1>7. u = s BY <1>4, <1>5, <1>6, SeqEqual DEF Tokens
  <1> QED BY <1>3, <1>7 DEF Within

\* It stays there when t grows.
LEMMA WithinAppend ==
    ASSUME NEW s \in Tokens, NEW t \in Tokens, NEW x \in Token, Within(s, t)
    PROVE  Within(s, Append(t, x))
  <1>1. Len(s) \in Nat /\ Len(t) \in Nat BY Lengths
  <1>2. PICK i \in 0 .. Len(t) - Len(s) : SubSeq(t, i + 1, i + Len(s)) = s BY DEF Within
  <1>3. i \in Nat /\ i + 1 \in Int /\ i + Len(s) \in Int /\ i + Len(s) <= Len(t) BY <1>1
  <1>4. \A j \in i + 1 .. i + Len(s) : t[j] \in Token
    <2> SUFFICES ASSUME NEW j \in i + 1 .. i + Len(s) PROVE t[j] \in Token OBVIOUS
    <2>1. j \in 1 .. Len(t) BY <1>1, <1>3
    <2> QED BY <2>1, Lengths
  <1>5. \A j \in 1 .. i + Len(s) - (i + 1) + 1 : SubSeq(t, i + 1, i + Len(s))[j] = t[i + 1 + j - 1]
    BY <1>3, <1>4, SubSeqProperties
  <1>6. PICK u \in Tokens : u = Append(t, x) BY AppendIs
  <1>7. Len(u) = Len(t) + 1 /\ \A j \in 1 .. Len(t) : u[j] = t[j] BY <1>6, AppendIs
  <1>8. ASSUME NEW j \in 1 .. Len(s) PROVE u[i + j] = s[j]
    <2>1. j \in 1 .. i + Len(s) - (i + 1) + 1 /\ i + 1 + j - 1 = i + j /\ i + j \in 1 .. Len(t)
      BY <1>1, <1>3
    <2>2. s[j] = t[i + j] BY <2>1, <1>2, <1>5
    <2> QED BY <2>1, <2>2, <1>7
  <1>9. i \in 0 .. Len(u) - Len(s) BY <1>1, <1>3, <1>7
  <1> QED BY <1>6, <1>8, <1>9, WithinIs

\* What the budget hook makes of a token.
LEMMA ForcedIs ==
    ASSUME Shape, NEW tok \in Token, NEW f, f = Forced(tok)
    PROVE  /\ f.tok \in Token /\ f.injected \in Nat /\ f.injected <= Len(ar.close)
           /\ \/ /\ ar.close = <<>> \/ ar.injected = Len(ar.close)
                 /\ f.tok = tok /\ f.injected = ar.injected
              \/ /\ ar.injected < Len(ar.close)
                 /\ ar.injected > 0 \/ ar.n - (Len(out) - ar.entry) <= HardLimit
                 /\ f.tok = ar.close[ar.injected + 1] /\ f.injected = ar.injected + 1
              \/ /\ ar.injected < Len(ar.close) /\ ar.injected = 0
                 /\ ~(ar.n - (Len(out) - ar.entry) <= HardLimit)
                 /\ f.tok = tok /\ f.injected = 0
  <1>1. PICK c \in Tokens : c = ar.close BY Shaped
  <1>2. PICK m \in Nat : m = ar.injected BY Shaped
  <1>3. Len(c) \in Nat /\ m <= Len(c) BY <1>1, <1>2, Lengths DEF Shape
  <1>4. f = (IF c = <<>> \/ m = Len(c) THEN [tok |-> tok, injected |-> m]
             ELSE IF m > 0 \/ ar.n - (Len(out) - ar.entry) <= HardLimit
             THEN [tok |-> c[m + 1], injected |-> m + 1]
             ELSE [tok |-> tok, injected |-> 0])
    BY <1>1, <1>2 DEF Forced
  <1>5. CASE c = <<>> \/ m = Len(c)
    <2>1. f.tok = tok /\ f.injected = m BY <1>4, <1>5
    <2> QED BY <2>1, <1>1, <1>2, <1>3, <1>5
  <1>6. CASE ~(c = <<>> \/ m = Len(c)) /\ (m > 0 \/ ar.n - (Len(out) - ar.entry) <= HardLimit)
    <2>1. f.tok = c[m + 1] /\ f.injected = m + 1 BY <1>4, <1>6
    <2>2. m < Len(c) /\ m + 1 <= Len(c) /\ m + 1 \in 1 .. Len(c) BY <1>3, <1>6
    <2>3. c[m + 1] \in Token BY <2>2, Lengths
    <2> QED BY <2>1, <2>2, <2>3, <1>1, <1>2, <1>6
  <1>7. CASE ~(c = <<>> \/ m = Len(c)) /\ ~(m > 0 \/ ar.n - (Len(out) - ar.entry) <= HardLimit)
    <2>1. f.tok = tok /\ f.injected = 0 BY <1>4, <1>7
    <2>2. m < Len(c) /\ m = 0 BY <1>3, <1>7
    <2> QED BY <2>1, <2>2, <1>1, <1>2, <1>3, <1>7
  <1> QED BY <1>5, <1>6, <1>7

\* A token more keeps what is known of the close sequence.
LEMMA ClosingGrows ==
    ASSUME Shape, Closing, NEW tok \in Token, NEW f, f = Forced(tok),
           out' = Append(out, f.tok), use' = use,
           ar'.n = ar.n, ar'.entry = ar.entry, ar'.close = ar.close, ar'.injected = f.injected
    PROVE  Closing'
  <1>1. PICK o \in Tokens : o = out BY DEF Shape
  <1>2. PICK x \in Token : x = f.tok BY ForcedIs
  <1>3. PICK u \in Tokens : u = Append(o, x) BY AppendIs
  <1>4. /\ Len(u) = Len(o) + 1 /\ u # <<>> /\ u[Len(o) + 1] = x /\ Len(o) \in Nat
        /\ \A i \in 1 .. Len(o) : u[i] = o[i]
    BY <1>3, AppendIs, Lengths
  <1>5. out' = u BY <1>1, <1>2, <1>3
  <1>6. ArmedClose' = ArmedClose BY DEF ArmedClose, CloseArmed
  <1>7. PICK m \in Nat : m = ar.injected BY Shaped
  <1>8. PICK k \in Nat : k = f.injected BY ForcedIs
  <1>9. NGen \in Nat /\ HardLimit \in Nat BY SpecAssumption
  <1>10. ar'.n = NGen /\ ar'.entry = 0 /\ ar'.close = ArmedClose' BY <1>6 DEF Closing
  <1>11. CASE use.close
    <2>1. PICK c \in Tokens : c = Close BY HookTokens
    <2>2. Len(c) \in Nat /\ Len(c) >= 1 /\ c # <<>> BY <2>1, HookTokens
    <2>3. ar.close = c /\ ar.n - (Len(out) - ar.entry) = NGen - Len(o)
      <3>1. ar.close = c BY <1>11, <2>1 DEF Closing, ArmedClose, CloseArmed
      <3>2. ar.n = NGen /\ ar.entry = 0 BY DEF Closing
      <3>3. Len(o) - 0 = Len(o) BY <1>4
      <3> QED BY <3>1, <3>2, <3>3, <1>1
    <2>4. /\ m = 0 /\ o # <<>> => NGen - (Len(o) - 1) > HardLimit
          /\ m > 0 /\ m < Len(c) =>
                /\ m <= Len(o)
                /\ \A i \in 1 .. m : o[Len(o) - m + i] = c[i]
                /\ Len(o) = m \/ NGen - (Len(o) - m) >= HardLimit
          /\ m = Len(c) => Within(c, o)
      BY <1>1, <1>7, <1>11, <2>1 DEF Closing
    <2>5. /\ k <= Len(c)
          /\ \/ m = Len(c) /\ k = m
             \/ /\ m < Len(c) /\ (m > 0 \/ NGen - Len(o) <= HardLimit)
                /\ x = c[m + 1] /\ k = m + 1
             \/ m < Len(c) /\ m = 0 /\ ~(NGen - Len(o) <= HardLimit) /\ k = 0
      BY <1>1, <1>2, <1>7, <1>8, <2>2, <2>3, ForcedIs
    <2>6. /\ k = 0 => NGen - (Len(u) - 1) > HardLimit
          /\ k > 0 /\ k < Len(c) =>
                /\ k <= Len(u)
                /\ \A i \in 1 .. k : u[Len(u) - k + i] = c[i]
                /\ Len(u) = k \/ NGen - (Len(u) - k) >= HardLimit
          /\ k = Len(c) => Within(c, u)
      <3>1. CASE m = Len(c) /\ k = m
        <4>1. Within(c, u) BY <3>1, <2>4, <1>3, WithinAppend
        <4> QED BY <4>1, <3>1, <2>2
      <3>2. CASE /\ m < Len(c) /\ (m > 0 \/ NGen - Len(o) <= HardLimit)
                 /\ x = c[m + 1] /\ k = m + 1
        <4>1. m <= Len(o) /\ \A i \in 1 .. m : o[Len(o) - m + i] = c[i]
          <5>1. CASE m = 0 BY <5>1, <1>4
          <5>2. CASE m > 0 BY <5>2, <3>2, <2>4
          <5> QED BY <5>1, <5>2
        <4>2. Len(u) - k = Len(o) - m /\ k <= Len(u)
          <5>1. Len(u) = Len(o) + 1 /\ Len(o) \in Nat BY <1>4
          <5>2. k = m + 1 BY <3>2
          <5>3. m <= Len(o) BY <4>1
          <5> QED BY <5>1, <5>2, <5>3
        <4>3. ASSUME NEW i \in 1 .. k PROVE u[Len(o) - m + i] = c[i]
          <5>1. CASE i = m + 1
            <6>1. Len(o) - m + i = Len(o) + 1 BY <5>1, <1>4
            <6> QED BY <6>1, <5>1, <3>2, <1>4
          <5>2. CASE i # m + 1
            <6>1. i \in 1 .. m BY <5>2, <3>2
            <6>2. Len(o) - m + i \in 1 .. Len(o) BY <6>1, <4>1, <1>4
            <6> QED BY <6>1, <6>2, <4>1, <1>4
          <5> QED BY <5>1, <5>2
        <4>4. Len(u) = k \/ NGen - (Len(u) - k) >= HardLimit
          <5>1. CASE m = 0
            <6>1. o = <<>> <=> Len(o) = 0 BY Lengths
            <6>2. CASE o = <<>> BY <6>1, <6>2, <5>1, <3>2, <1>4
            <6>3. CASE o # <<>>
              <7>1. NGen - (Len(o) - 1) > HardLimit BY <6>3, <5>1, <2>4
              <7> QED BY <7>1, <5>1, <3>2, <1>4, <1>9
            <6> QED BY <6>2, <6>3
          <5>2. CASE m > 0
            <6>1. Len(o) = m \/ NGen - (Len(o) - m) >= HardLimit BY <5>2, <3>2, <2>4
            <6> QED BY <6>1, <3>2, <4>2, <1>4
          <5> QED BY <5>1, <5>2
        <4>5. k = Len(c) => Within(c, u)
          <5> SUFFICES ASSUME k = Len(c) PROVE Within(c, u) OBVIOUS
          <5>1. PICK i : i = Len(o) - m OBVIOUS
          <5>2. i \in 0 .. Len(u) - Len(c) BY <5>1, <4>1, <4>2, <3>2, <1>4, <2>2
          <5>3. \A j \in 1 .. Len(c) : u[i + j] = c[j] BY <5>1, <4>3
          <5> QED BY <5>2, <5>3, WithinIs
        <4>6. \A i \in 1 .. k : u[Len(u) - k + i] = c[i] BY <4>2, <4>3
        <4> QED BY <3>2, <4>2, <4>4, <4>5, <4>6
      <3>3. CASE m < Len(c) /\ m = 0 /\ ~(NGen - Len(o) <= HardLimit) /\ k = 0
        BY <3>3, <1>4, <1>9, <2>2
      <3> QED BY <2>5, <3>1, <3>2, <3>3
    <2>7. ar'.injected = k BY <1>8
    <2> QED BY <1>5, <1>10, <2>1, <2>6, <2>7 DEF Closing
  <1>12. CASE ~use.close BY <1>10, <1>12 DEF Closing
  <1> QED BY <1>11, <1>12

\* Behind the first token of the prompt its row is still to be written.
LEMMA ArFirstKeeps ==
    ASSUME IInv, ArFirst
    PROVE  IInv'
  <1>1. Shape /\ FirstOk /\ pc = "first" /\ (~use.spec => Closing)
    BY DEF IInv, Phases, ArFirst
  <1>2. lastTok \in Token /\ lastTok = story[1] /\ story[1] \in Token /\ NGen \in Nat /\ NGen >= 1
    <2>1. /\ NGen \in Nat /\ NGen >= 1 /\ \A i \in 1 .. NGen : story[i] \in Token
      BY <1>1, StoryIs DEF Shape
    <2> QED BY <2>1, <1>1 DEF FirstOk
  <1>3. PICK tok \in Token : tok = lastTok BY <1>2
  <1>4. PICK f : f = Forced(tok) OBVIOUS
  <1>5. f.tok \in Token /\ f.injected \in Nat /\ f.injected <= Len(ar.close) BY <1>1, <1>4, ForcedIs
  <1>6. PICK x \in Token : x = f.tok BY <1>5
  <1>7. /\ out' = <<x>> /\ ar' = [ar EXCEPT !.injected = f.injected] /\ departed' = (x # tok)
        /\ pc' = (IF x = Eos THEN "done" ELSE "ar")
        /\ UNCHANGED <<story, use, rows, rec, snap, pos, curPos, lastTok, generated, burst, step,
                       cancelled>>
    BY <1>3, <1>4, <1>6 DEF ArFirst, target
  <1>8. PICK one \in Tokens : one = <<x>> BY One
  <1>9. Len(one) = 1 /\ one[1] = x /\ one # <<>> /\ Last(one) = x BY <1>8, One
  <1>10. /\ ar' \in ArType /\ ar'.n = ar.n /\ ar'.left = ar.left /\ ar'.close = ar.close
         /\ ar'.entry = ar.entry /\ ar'.by = ar.by /\ ar'.injected = f.injected
    <2>1. ar \in ArType BY <1>1 DEF Shape
    <2> QED BY <2>1, <1>5, <1>7 DEF ArType
  <1>11. Shape'
    <2>1. pc' \in Phase /\ (~use'.spec => pc' \in TokenByToken)
      BY <1>7 DEF Phase, TokenByToken
    <2> QED BY <1>1, <1>5, <1>7, <1>8, <1>10, <2>1 DEF Shape
  <1>12. ~use'.spec => Closing'
    <2> SUFFICES ASSUME ~use'.spec PROVE Closing' OBVIOUS
    <2>1. Closing BY <1>1, <1>7
    <2>2. out' = Append(out, f.tok)
      <3>1. Append(<<>>, x) = <<>> \o <<x>> /\ <<>> \o one = one BY Nothing, AppendIs, CatIs
      <3> QED BY <3>1, <1>1, <1>6, <1>7, <1>8 DEF FirstOk
    <2> QED BY <1>1, <1>4, <1>7, <1>10, <2>1, <2>2, ClosingGrows
  <1>13. pc' = "ar" => ArOk'
    <2> SUFFICES ASSUME pc' = "ar" PROVE ArOk' OBVIOUS
    <2>1. x # Eos BY <1>7
    <2>2. Running' BY <1>7, <1>8, <1>9, <2>1 DEF Running
    <2>3. Len(out') + ar'.left <= NGen /\ ar'.entry <= Len(out')
      <3>1. ar.left \in Nat /\ ar.left < NGen /\ ar.entry = 0 BY <1>1, Shaped DEF FirstOk
      <3>2. Len(out') = 1 BY <1>7, <1>8, <1>9
      <3> QED BY <3>1, <3>2, <1>2, <1>10
    <2>4. ~departed' => OfStory(out)'
      <3> SUFFICES ASSUME ~departed' PROVE OfStory(out)' OBVIOUS
      <3>1. x = story[1] BY <1>2, <1>3, <1>7
      <3>2. Len(one) <= NGen /\ \A i \in 1 .. Len(one) : one[i] = story[i] BY <3>1, <1>2, <1>9
      <3> QED BY <3>2, <1>7, <1>8 DEF OfStory
    <2>5. Append(Upto(rows', pos'), Last(out')) = out' /\ Append(rec', Last(out')) = out'
      <3>1. Append(<<>>, x) = <<>> \o <<x>> /\ <<>> \o one = one BY Nothing, AppendIs, CatIs
      <3>2. Upto(<<>>, 0) = <<>>
        <4>1. Upto(<<>>, Len(<<>>)) = <<>> BY Nothing, UptoAll
        <4> QED BY <4>1, Nothing
      <3> QED BY <3>1, <3>2, <1>1, <1>7, <1>8, <1>9 DEF FirstOk
    <2>6. ar'.by = "nobody" BY <1>1, <1>10 DEF FirstOk
    <2> QED BY <1>7, <1>8, <1>9, <2>2, <2>3, <2>4, <2>5, <2>6 DEF ArOk
  <1>14. pc' \in {"done", "ar"} BY <1>7
  <1> QED BY <1>11, <1>12, <1>13, <1>14 DEF IInv, Phases

\* What a plain step of do_ar_decode emits: the story goes on, or is departed
\* from.
LEMMA ArEmits ==
    ASSUME IInv, ArStep
    PROVE  \E tok \in Token, alt \in Token, x \in Token :
              /\ LET f == Forced(alt)
                 IN  /\ x = f.tok
                     /\ ar' = [ar EXCEPT !.left = @ - 1, !.injected = f.injected]
              /\ out' = Append(out, x) /\ departed' = (departed \/ x # tok)
              /\ x = Eos => pc' = "done"
              /\ pc' \in {"done", "degenerate", "ar"}
              /\ Len(out) < NGen
              /\ ~departed => tok = story[Len(out) + 1]
  <1>1. Shape /\ ArOk /\ pc = "ar" BY DEF IInv, Phases, ArStep
  <1>2. PICK tok \in Following(pos, rec, Pending) : \E alt \in Floored(tok) :
          LET f == Forced(alt)
          IN  /\ out' = Append(out, f.tok)
              /\ departed' = (departed \/ f.tok # tok)
              /\ ar' = [ar EXCEPT !.left = @ - 1, !.injected = f.injected]
              /\ pc' = IF cancelled \/ f.tok = Eos THEN "done"
                       ELSE IF Repeats(out') THEN "degenerate" ELSE "ar"
    BY DEF ArStep
  <1>3. PICK alt \in Floored(tok) :
          LET f == Forced(alt)
          IN  /\ out' = Append(out, f.tok)
              /\ departed' = (departed \/ f.tok # tok)
              /\ ar' = [ar EXCEPT !.left = @ - 1, !.injected = f.injected]
              /\ pc' = IF cancelled \/ f.tok = Eos THEN "done"
                       ELSE IF Repeats(out') THEN "degenerate" ELSE "ar"
    BY <1>2
  <1>4. PICK o \in Tokens : o = out BY <1>1 DEF Shape
  <1>5. /\ o # <<>> /\ Len(o) \in Nat /\ ar.left \in Nat /\ ar.left > 0 /\ Len(o) + ar.left <= NGen
        /\ NGen \in Nat
    BY <1>1, <1>4, Shaped DEF ArOk, ArStep
  <1>6. Len(o) < NGen BY <1>5
  <1>7. PICK last \in Token : last = Last(o) BY <1>5, Lengths
  <1>8. PICK r \in Tokens, s \in Tokens : r = rec /\ s = SubSeq(rows, 1, pos)
    <2>1. PICK all \in Tokens : all = rows BY <1>1 DEF Shape
    <2>2. pos \in 0 .. Len(all) BY <1>1, <2>1, Shaped DEF Shape
    <2>3. Upto(all, pos) \in Tokens BY <2>2, UptoIs
    <2> QED BY <1>1, <2>1, <2>3 DEF Shape, Upto
  <1>9. PICK one \in Tokens : one = <<last>> BY One
  <1>10. tok \in Answers(s \o one, r \o one)
    BY <1>4, <1>7, <1>8, <1>9 DEF Following, Written, Pending, Answers
  <1>11. story \in Stories BY <1>1 DEF Shape
  <1>12. PICK u \in Tokens, v \in Tokens : u = s \o one /\ v = r \o one BY CatLen
  <1>13. tok \in Token BY <1>10, <1>11, <1>12, AnswersAre
  <1>14. ~departed => tok = story[Len(o) + 1]
    <2> SUFFICES ASSUME ~departed PROVE tok = story[Len(o) + 1] OBVIOUS
    <2>1. /\ OfStory(o) /\ Append(s, last) = o /\ Append(r, last) = o
      BY <1>1, <1>4, <1>7, <1>8 DEF ArOk, Upto
    <2>2. Append(s, last) = s \o <<last>> /\ Append(r, last) = r \o <<last>> BY AppendIs
    <2>3. u = o /\ v = o BY <2>1, <2>2, <1>9, <1>12
    <2>4. tok \in Answers(o, o) BY <2>3, <1>10, <1>12
    <2>5. Answers(o, o) = {story[Len(o) + 1]} BY <2>1, <1>6, <1>11, AnswersAre
    <2> QED BY <2>4, <2>5
  <1>15. alt \in Token BY <1>13 DEF Floored
  <1>16. PICK x : x = Forced(alt).tok OBVIOUS
  <1>17. x \in Token BY <1>1, <1>15, <1>16, ForcedIs
  <1>18. /\ out' = Append(out, x) /\ departed' = (departed \/ x # tok)
         /\ ar' = [ar EXCEPT !.left = @ - 1, !.injected = Forced(alt).injected]
         /\ pc' = IF cancelled \/ x = Eos THEN "done" ELSE IF Repeats(out') THEN "degenerate" ELSE "ar"
    BY <1>3, <1>16
  <1>19. (x = Eos => pc' = "done") /\ pc' \in {"done", "degenerate", "ar"} BY <1>18
  <1> QED BY <1>4, <1>6, <1>13, <1>14, <1>15, <1>16, <1>17, <1>18, <1>19

\* A step of do_ar_decode leaves the cache one token behind, and goes on with the
\* close sequence where it has begun.
LEMMA ArStepKeeps ==
    ASSUME IInv, ArStep
    PROVE  IInv'
  <1>1. Shape /\ ArOk /\ pc = "ar" /\ (~use.spec => Closing) BY DEF IInv, Phases, ArStep
  <1>2. PICK tok \in Token, alt \in Token, x \in Token :
              /\ LET f == Forced(alt)
                 IN  /\ x = f.tok
                     /\ ar' = [ar EXCEPT !.left = @ - 1, !.injected = f.injected]
              /\ out' = Append(out, x) /\ departed' = (departed \/ x # tok)
              /\ x = Eos => pc' = "done"
              /\ pc' \in {"done", "degenerate", "ar"}
              /\ Len(out) < NGen
              /\ ~departed => tok = story[Len(out) + 1]
    BY ArEmits
  <1>3. PICK f : f = Forced(alt) OBVIOUS
  <1>4. f.tok = x /\ f.injected \in Nat /\ f.injected <= Len(ar.close) BY <1>1, <1>2, <1>3, ForcedIs
  <1>5. PICK left \in Nat : left = ar.left - 1
    <2>1. ar.left \in Nat /\ ar.left > 0 BY <1>1, Shaped DEF ArStep
    <2>2. ar.left - 1 \in Nat BY <2>1
    <2> QED BY <2>2
  <1>6. /\ ar' \in ArType /\ ar'.n = ar.n /\ ar'.left = left /\ ar'.close = ar.close
        /\ ar'.entry = ar.entry /\ ar'.by = ar.by /\ ar'.injected = f.injected
    <2>1. ar \in ArType BY <1>1 DEF Shape
    <2>2. ar' = [ar EXCEPT !.left = left, !.injected = f.injected] BY <1>2, <1>3, <1>5
    <2> QED BY <2>1, <2>2, <1>4 DEF ArType
  <1>7. PICK o \in Tokens : o = out BY <1>1 DEF Shape
  <1>8. /\ o # <<>> /\ Len(o) \in Nat /\ Len(o) + ar.left <= NGen /\ ar.entry <= Len(o) /\ NGen \in Nat
        /\ ar.left \in Nat /\ ar.entry \in Nat /\ pos \in Nat /\ ar.n \in Nat /\ ar.left <= ar.n
    BY <1>1, <1>7, Shaped DEF ArOk, Shape
  <1>9. PICK w \in Tokens : w = Append(o, x) BY AppendIs
  <1>10. Len(w) = Len(o) + 1 /\ w # <<>> /\ Last(w) = x BY <1>9, AppendIs
  <1>11. PICK last \in Token : last = Last(o) BY <1>8, Lengths
  <1>12. PICK one \in Tokens : one = <<last>> BY One
  <1>13. PICK s \in Tokens : s = SubSeq(rows, 1, pos) /\ Len(s) = pos
    <2>1. PICK all \in Tokens : all = rows BY <1>1 DEF Shape
    <2>2. pos \in 0 .. Len(all) BY <1>1, <1>8, <2>1, Shaped DEF Shape
    <2>3. Upto(all, pos) \in Tokens /\ Len(Upto(all, pos)) = pos BY <2>2, UptoIs
    <2> QED BY <2>1, <2>3 DEF Upto
  <1>14. PICK r \in Tokens : r = rec BY <1>1 DEF Shape
  <1>15. /\ rows' = s \o one /\ rec' = r \o one /\ pos' = pos + 1 /\ curPos' = pos'
         /\ UNCHANGED <<story, use, snap, lastTok, generated, burst, step, cancelled>>
    BY <1>7, <1>11, <1>12, <1>13, <1>14 DEF ArStep, Written, Pending
  <1>16. /\ s \o one \in Tokens /\ Len(s \o one) = pos + 1 /\ r \o one \in Tokens
         /\ s \o one = Append(s, last) /\ r \o one = Append(r, last)
    <2>1. Len(one) = 1 BY <1>12, One
    <2>2. s \o one \in Tokens /\ Len(s \o one) = Len(s) + Len(one) /\ r \o one \in Tokens BY CatLen
    <2>3. s \o one = Append(s, last) /\ r \o one = Append(r, last) BY <1>12, AppendIs
    <2> QED BY <2>1, <2>2, <2>3, <1>13
  <1>17. out' = w BY <1>2, <1>7, <1>9
  <1>18. Shape'
    <2>1. pos' \in Nat /\ pos' <= Len(rows') /\ curPos' = pos' BY <1>8, <1>15, <1>16
    <2>2. rows' \in Tokens /\ rec' \in Tokens BY <1>15, <1>16
    <2>3. ar'.left <= ar'.n /\ ar'.injected <= Len(ar'.close) BY <1>4, <1>5, <1>6, <1>8
    <2>4. pc' \in Phase /\ (~use'.spec => pc' \in TokenByToken) BY <1>2 DEF Phase, TokenByToken
    <2>5. departed' \in BOOLEAN BY <1>2
    <2> QED BY <1>1, <1>6, <1>15, <1>17, <2>1, <2>2, <2>3, <2>4, <2>5 DEF Shape
  <1>19. ~use'.spec => Closing'
    <2> SUFFICES ASSUME ~use'.spec PROVE Closing' OBVIOUS
    <2>1. Closing /\ use' = use BY <1>1, <1>15
    <2>2. out' = Append(out, f.tok) BY <1>2, <1>4
    <2> QED BY <1>1, <1>3, <1>6, <2>1, <2>2, ClosingGrows
  <1>20. pc' = "ar" => ArOk'
    <2> SUFFICES ASSUME pc' = "ar" PROVE ArOk' OBVIOUS
    <2>1. x # Eos BY <1>2
    <2>2. Running' BY <1>10, <1>17, <2>1 DEF Running
    <2>3. Len(out') + ar'.left <= NGen /\ ar'.entry <= Len(out') /\ Len(out') # ar'.entry
      <3>1. Len(out') = Len(o) + 1 /\ ar'.left = ar.left - 1 /\ ar'.entry = ar.entry
        BY <1>5, <1>6, <1>10, <1>17
      <3> QED BY <3>1, <1>8
    <2>4. ~departed' => ar'.by = "nobody" /\ OfStory(out)'
      <3> SUFFICES ASSUME ~departed' PROVE ar'.by = "nobody" /\ OfStory(out)' OBVIOUS
      <3>1. ~departed /\ x = tok /\ x = story[Len(o) + 1] BY <1>2, <1>7
      <3>2. OfStory(o) /\ ar'.by = "nobody" BY <3>1, <1>1, <1>6, <1>7 DEF ArOk
      <3>3. Len(w) <= NGen BY <1>2, <1>7, <1>8, <1>10
      <3>4. ASSUME NEW i \in 1 .. Len(w) PROVE w[i] = story[i]
        <4>1. w[Len(o) + 1] = x /\ \A j \in 1 .. Len(o) : w[j] = o[j] BY <1>9, AppendIs
        <4>2. CASE i = Len(o) + 1 BY <4>1, <4>2, <3>1
        <4>3. CASE i # Len(o) + 1
          <5>1. i \in 1 .. Len(o) BY <4>3, <1>8, <1>10
          <5> QED BY <5>1, <4>1, <3>2 DEF OfStory
        <4> QED BY <4>2, <4>3
      <3>5. OfStory(w) BY <3>3, <3>4 DEF OfStory
      <3> QED BY <3>2, <3>5, <1>15, <1>17 DEF OfStory
    <2>5. ar'.by = "nobody" =>
             Append(Upto(rows', pos'), Last(out')) = out' /\ Append(rec', Last(out')) = out'
      <3> SUFFICES ASSUME ar'.by = "nobody"
                   PROVE  Append(Upto(rows', pos'), Last(out')) = out'
                          /\ Append(rec', Last(out')) = out'
        OBVIOUS
      <3>1. Append(s, last) = o /\ Append(r, last) = o
        BY <1>1, <1>6, <1>7, <1>11, <1>13, <1>14 DEF ArOk, Upto
      <3>2. rows' = o /\ rec' = o /\ Len(o) = pos + 1 BY <3>1, <1>15, <1>16
      <3>3. Upto(o, Len(o)) = o BY UptoAll
      <3> QED BY <3>2, <3>3, <1>9, <1>10, <1>15, <1>17
    <2> QED BY <1>10, <1>17, <2>2, <2>3, <2>4, <2>5 DEF ArOk
  <1>21. pc' \in {"done", "degenerate", "ar"} BY <1>2
  <1> QED BY <1>18, <1>19, <1>20, <1>21 DEF IInv, Phases

-----------------------------------------------------------------------------
(* The other steps, and all of them *)

\* Ends and failures leave everything but the place as it is.
LEMMA EndKeeps ==
    ASSUME IInv, ArEnd \/ LoopEnd \/ Flush \/ Fail
    PROVE  IInv'
  <1>1. /\ pc' \in {"done", "flush", "failed"} /\ (~use.spec => pc' \in TokenByToken)
        /\ UNCHANGED <<story, use, departed, rows, rec, snap, pos, curPos, lastTok, out, generated,
                       burst, step, ar, cancelled>>
    <2>1. Shape BY DEF IInv
    <2>2. CASE ArEnd BY <2>2 DEF ArEnd, target, TokenByToken
    <2>3. CASE LoopEnd BY <2>1, <2>3 DEF LoopEnd, target, Shape, TokenByToken
    <2>4. CASE Flush BY <2>4 DEF Flush, target, TokenByToken
    <2>5. CASE Fail BY <2>5 DEF Fail, target, TokenByToken
    <2> QED BY <2>2, <2>3, <2>4, <2>5
  <1>2. Shape' BY <1>1 DEF IInv, Shape, Phase
  <1>3. Phases' BY <1>1 DEF Phases
  <1>4. ~use'.spec => Closing' BY <1>1 DEF IInv, Closing, ArmedClose, CloseArmed
  <1> QED BY <1>2, <1>3, <1>4 DEF IInv

\* A cancellation, or no step at all.
LEMMA CancelKeeps ==
    ASSUME IInv, cancelled' \in BOOLEAN, cancelled => cancelled',
           UNCHANGED <<story, use, departed, pc, rows, rec, snap, pos, curPos, lastTok, out,
                       generated, burst, step, ar>>
    PROVE  IInv'
  <1>1. Shape' BY DEF IInv, Shape
  <1>2. ~use'.spec => Closing' BY DEF IInv, Closing, ArmedClose, CloseArmed
  <1>3. Running' = Running BY DEF Running
  <1>4. OfStory(out)' = OfStory(out) BY DEF OfStory
  <1>5. ASSUME NEW b \in Tokens
        PROVE  Emitted(b)' = Emitted(b) /\ Committed(b)' = Committed(b)
    BY DEF Emitted, Committed, OfStory
  <1>6. ReplayHooksArmed' = ReplayHooksArmed BY DEF ReplayHooksArmed, CloseArmed, StallArmed
  <1>7. (\E b \in Tokens : EmitFrom(b)) => \E b \in Tokens : EmitFrom(b)'
    <2> SUFFICES ASSUME NEW b \in Tokens, EmitFrom(b) PROVE EmitFrom(b)' OBVIOUS
    <2> QED BY <1>5, <1>6 DEF EmitFrom
  <1>8. (\E b \in Tokens : TreeFrom(b)) => \E b \in Tokens : TreeFrom(b)'
    <2> SUFFICES ASSUME NEW b \in Tokens, TreeFrom(b) PROVE TreeFrom(b)' OBVIOUS
    <2> QED BY <1>5 DEF TreeFrom
  <1>9. Replaced => Replaced' BY <1>4 DEF Replaced
  <1>10. pc' = pc /\ step' = step OBVIOUS
  <1>11. LoopOk => LoopOk' BY <1>3, <1>4 DEF LoopOk
  <1>12. FixOk => FixOk' BY <1>3, <1>4 DEF FixOk
  <1>13. EmitOk => EmitOk' BY <1>3, <1>7 DEF EmitOk
  <1>14. CommitOk => CommitOk' BY <1>3, <1>7 DEF CommitOk, StallArmed
  <1>15. ReplacedOk => ReplacedOk'
    <2> SUFFICES ASSUME ReplacedOk PROVE ReplacedOk' OBVIOUS
    <2>1. PICK b \in Tokens : Emitted(b) /\ snap = b BY DEF ReplacedOk
    <2>2. Emitted(b)' /\ snap' = b BY <2>1, <1>5
    <2> QED BY <2>2, <1>9 DEF ReplacedOk
  <1>16. CloseOk => CloseOk' BY <1>9 DEF CloseOk
  <1>17. TreeOk => TreeOk' BY <1>3, <1>8 DEF TreeOk
  <1>18. FirstOk => FirstOk' BY DEF FirstOk
  <1>19. ArOk => ArOk' BY <1>3, <1>4 DEF ArOk
  <1>20. Phases'
    BY <1>10, <1>11, <1>12, <1>13, <1>14, <1>15, <1>16, <1>17, <1>18, <1>19 DEF IInv, Phases
  <1> QED BY <1>1, <1>2, <1>20 DEF IInv

\* The invariant is inductive.
THEOREM NextInv == IInv /\ [Next]_vars => IInv'
  <1> SUFFICES ASSUME IInv, [Next]_vars PROVE IInv' OBVIOUS
  <1>1. CASE VerifyChain BY <1>1, VerifyChainKeeps
  <1>2. CASE PlainStep BY <1>2, PlainStepKeeps
  <1>3. CASE RollBack BY <1>3, RollBackKeeps
  <1>4. CASE Replay BY <1>4, ReplayKeeps
  <1>5. CASE EmitStall BY <1>5, EmitStallKeeps
  <1>6. CASE EmitClose BY <1>6, EmitCloseKeeps
  <1>7. CASE Emit BY <1>7, EmitKeeps
  <1>8. CASE Commit BY <1>8, CommitKeeps
  <1>9. CASE InvalidSeed BY <1>9, InvalidSeedKeeps
  <1>10. CASE Stall BY <1>10, StallKeeps
  <1>11. CASE CloseOver BY <1>11, CloseOverKeeps
  <1>12. CASE VerifyTree BY <1>12, VerifyTreeKeeps
  <1>13. CASE EmitTree BY <1>13, EmitTreeKeeps
  <1>14. CASE RollBackTree BY <1>14, RollBackTreeKeeps
  <1>15. CASE ReplayTree BY <1>15, ReplayTreeKeeps
  <1>16. CASE ArFirst BY <1>16, ArFirstKeeps
  <1>17. CASE ArStep BY <1>17, ArStepKeeps
  <1>18. CASE ArEnd \/ LoopEnd \/ Flush \/ Fail BY <1>18, EndKeeps
  <1>19. CASE Cancel
    <2>1. cancelled' \in BOOLEAN /\ (cancelled => cancelled')
          /\ UNCHANGED <<story, use, departed, pc, rows, rec, snap, pos, curPos, lastTok, out,
                         generated, burst, step, ar>>
      BY <1>19 DEF Cancel, target
    <2> QED BY <2>1, CancelKeeps
  <1>20. CASE UNCHANGED vars
    <2>1. cancelled' \in BOOLEAN /\ (cancelled => cancelled')
          /\ UNCHANGED <<story, use, departed, pc, rows, rec, snap, pos, curPos, lastTok, out,
                         generated, burst, step, ar>>
      BY <1>20 DEF vars, target, IInv, Shape
    <2> QED BY <2>1, CancelKeeps
  <1> QED
    BY <1>1, <1>2, <1>3, <1>4, <1>5, <1>6, <1>7, <1>8, <1>9, <1>10, <1>11, <1>12, <1>13, <1>14,
       <1>15, <1>16, <1>17, <1>18, <1>19, <1>20
    DEF Next, Progress

\* In every state of a decode the cache, the answer and the step under way agree
\* as the place in the loop demands.
THEOREM InvCorrect == Spec => []IInv
  <1>1. Init => IInv BY InitInv
  <1>2. IInv /\ [Next]_vars => IInv' BY NextInv
  <1> QED BY <1>1, <1>2, PTL DEF Spec

-----------------------------------------------------------------------------
(* What follows *)

\* Every variable stays within its type, and every counter and index within the
\* sequence it counts into.
THEOREM TypeCorrect == Spec => []TypeOK
  <1>1. IInv => TypeOK
    <2> SUFFICES ASSUME IInv PROVE TypeOK OBVIOUS
    <2>1. Shape BY DEF IInv
    <2>2. pos \in 0 .. Len(rows) BY <2>1, Shaped DEF Shape
    <2>3. ar.left \in 0 .. ar.n /\ ar.injected \in 0 .. Len(ar.close) BY <2>1, Shaped DEF Shape
    <2>4. step.draft \in Seq(Token) /\ step.toks \in Seq(Token) BY <2>1, Shaped DEF Tokens
    <2> QED BY <2>1, <2>2, <2>3, <2>4 DEF Shape, TypeOK, Phase, Tokens
  <1> QED BY <1>1, InvCorrect, PTL

\* Wherever the program looks at the cache between two steps, rows and recurrent
\* state are those of the tokens emitted, whatever was drafted, accepted, rolled
\* back, replayed or replaced before.
THEOREM CacheCorrect == Spec => []CacheFollowsOut
  <1>1. IInv => CacheFollowsOut
    <2> SUFFICES ASSUME IInv PROVE CacheFollowsOut OBVIOUS
    <2>1. InLoop BY DEF IInv, Phases, LoopOk, InLoop, Upto
    <2>2. HandedOver BY DEF IInv, Phases, ArOk, HandedOver, Upto
    <2>3. ArBehind BY DEF IInv, Phases, ArOk, ArBehind, Upto
    <2> QED BY <2>1, <2>2, <2>3 DEF CacheFollowsOut
  <1> QED BY <1>1, InvCorrect, PTL

\* An answer that used up its budget token by token has the whole close sequence
\* in it, when the reserve has room for it.
THEOREM ClosedCorrect == Spec => []ClosedInFull
  <1>1. IInv => ClosedInFull
    <2> SUFFICES ASSUME IInv, pc = "done", ~use.spec, use.close, Len(out) = NGen,
                        Len(Close) <= HardLimit, Len(Close) <= NGen
                 PROVE  Within(Close, out)
      BY DEF ClosedInFull
    <2>1. Shape /\ Closing BY DEF IInv
    <2>2. /\ NGen \in Nat /\ NGen >= 1 /\ HardLimit \in Nat /\ Len(Close) \in Nat /\ Len(Close) >= 1
      BY HookTokens, SpecAssumption
    <2>3. PICK m \in Nat : m = ar.injected BY <2>1, Shaped
    <2>4. m <= Len(Close) BY <2>1, <2>3 DEF Shape, Closing, ArmedClose, CloseArmed
    <2>5. PICK o \in Tokens : o = out BY <2>1 DEF Shape
    <2>6. Len(o) = NGen /\ o # <<>> BY <2>2, <2>5, Nothing
    <2>7. /\ m = 0 => NGen - (NGen - 1) > HardLimit
          /\ m > 0 /\ m < Len(Close) => NGen = m \/ NGen - (NGen - m) >= HardLimit
          /\ m = Len(Close) => Within(Close, out)
      BY <2>1, <2>3, <2>5, <2>6 DEF Closing
    <2>8. m = Len(Close) BY <2>2, <2>4, <2>7
    <2> QED BY <2>7, <2>8
  <1> QED BY <1>1, InvCorrect, PTL

-----------------------------------------------------------------------------
(* Speculation is invisible *)

\* The three ways in which an answer that goes on may grow.
LEMMA Grows ==
    ASSUME Running, story' = story, Len(out) < NGen, NEW tok \in Token, out' = Append(out, tok),
           departed \in BOOLEAN, departed' \in BOOLEAN, departed => departed',
           ~departed' => tok = story[Len(out) + 1]
    PROVE  Greedy!Next
  <1>1. Greedy!Open BY DEF Greedy!Open, Running, Last
  <1>2. CASE ~departed' BY <1>1, <1>2 DEF Greedy!Next, Greedy!Follow
  <1>3. CASE departed' /\ ~departed BY <1>1, <1>3 DEF Greedy!Next, Greedy!Depart
  <1>4. CASE departed' /\ departed BY <1>1, <1>4 DEF Greedy!Next, Greedy!Continue
  <1> QED BY <1>2, <1>3, <1>4

\* A hook departs from the story and emits nothing, or the tool prefix.
LEMMA Leaves ==
    ASSUME Running, story' = story, out' = out \/ out' = out \o ToolPrefix, ~departed, departed' = TRUE
    PROVE  Greedy!Next
  <1>1. Greedy!Open BY DEF Greedy!Open, Running, Last
  <1> QED BY <1>1 DEF Greedy!Next, Greedy!Depart

\* A chain or plain step emits the story's next token, or the close token
\* instead of it.
LEMMA EmitIsGreedy ==
    ASSUME IInv, Emit \/ EmitClose
    PROVE  Greedy!Next
  <1>1. /\ Shape /\ EmitOk /\ story' = story BY DEF IInv, Phases, Emit, EmitClose, Emitting
  <1>2. PICK b \in Tokens : EmitFrom(b) BY <1>1 DEF EmitOk
  <1>3. Len(out) < NGen /\ NextTok \in Token /\ NextTok = story[Len(out) + 1]
    BY <1>1, <1>2, EmitGrows DEF EmitFrom, EmitOk
  <1>4. Running /\ ~departed BY <1>1, <1>2 DEF EmitOk, EmitFrom
  <1>5. CASE Emit
    <2>1. /\ out' = Append(out, NextTok) /\ departed' = departed
          /\ departed \in BOOLEAN /\ departed' \in BOOLEAN
      BY <1>1, <1>5 DEF Emit, Shape
    <2> QED BY <1>1, <1>3, <1>4, <2>1, Grows
  <1>6. CASE EmitClose
    <2>1. PICK c \in Token : c = Close[1] BY HookTokens
    <2>2. out' = Append(out, c) /\ departed' = (departed \/ NextTok # c)
      BY <1>6, <2>1 DEF EmitClose
    <2>3. /\ departed \in BOOLEAN /\ departed' \in BOOLEAN /\ (departed => departed')
          /\ (~departed' => c = story[Len(out) + 1])
      BY <1>1, <1>3, <2>2 DEF Shape
    <2> QED BY <1>1, <1>3, <1>4, <2>2, <2>3, Grows
  <1> QED BY <1>5, <1>6

\* A tree step emits the story's next token.
LEMMA EmitTreeIsGreedy ==
    ASSUME IInv, EmitTree
    PROVE  Greedy!Next
  <1>1. /\ Shape /\ TreeOk /\ step.over = "no" /\ step.n < Len(step.toks)
        /\ story' = story /\ departed' = departed /\ out' = Append(out, NextTok)
    BY DEF IInv, Phases, EmitTree
  <1>2. PICK b \in Tokens : TreeFrom(b) BY <1>1 DEF TreeOk
  <1>3. Len(out) < NGen /\ NextTok \in Token /\ NextTok = story[Len(out) + 1]
    BY <1>1, <1>2, EmitGrows DEF TreeFrom
  <1>4. Running /\ ~departed BY <1>1, <1>2 DEF TreeOk, TreeFrom
  <1>5. departed \in BOOLEAN /\ departed' \in BOOLEAN BY <1>1 DEF Shape
  <1> QED BY <1>1, <1>3, <1>4, <1>5, Grows

\* Its replay emits one more, or nothing.
LEMMA ReplayTreeIsGreedy ==
    ASSUME IInv, ReplayTree
    PROVE  Greedy!Next \/ UNCHANGED <<story, out, departed>>
  <1>1. /\ Shape /\ TreeOk /\ (step.over = "no" => step.n = Len(step.toks))
        /\ story' = story /\ departed' = departed
    BY DEF IInv, Phases, ReplayTree
  <1>2. PICK b \in Tokens : TreeFrom(b) BY <1>1 DEF TreeOk
  <1>3. PICK kept, bonus : kept = TreeKept /\ bonus = TreeBonus OBVIOUS
  <1>4. PICK n \in Nat : n = step.n BY <1>1, Shaped
  <1>5. Len(out) = pos + n BY <1>1, <1>2, <1>3, <1>4, TreeKeptIs
  <1>6. /\ Len(bonus) \in {0, 1}
        /\ (Len(bonus) = 1 => bonus = <<step.next>> /\ step.over = "no" /\ pos + n < NGen)
        /\ (Len(bonus) = 0 => bonus = <<>>)
    BY <1>1, <1>2, <1>3, <1>4, TreeBonusIs
  <1>7. PICK o \in Tokens : o = out BY <1>1 DEF Shape
  <1>8. out' = o \o bonus BY <1>3, <1>7 DEF ReplayTree
  <1>9. CASE Len(bonus) = 0
    <2>1. out' = out BY <1>6, <1>7, <1>8, <1>9, CatIs, Nothing
    <2> QED BY <1>1, <2>1
  <1>10. CASE Len(bonus) = 1
    <2>1. PICK next \in Token : next = step.next BY <1>2 DEF TreeFrom
    <2>2. out' = Append(out, next) BY <1>6, <1>7, <1>8, <1>10, <2>1, AppendIs
    <2>3. next = story[pos + n + 1]
      <3>1. NoToken \notin Token BY SpecAssumption
      <3>2. n = Len(step.toks) /\ pos + n < NGen BY <1>1, <1>4, <1>6, <1>10
      <3> QED BY <1>2, <2>1, <3>1, <3>2 DEF TreeFrom, Committed
    <2>4. Running /\ ~departed BY <1>1, <1>2, <1>6, <1>10 DEF TreeOk, TreeFrom
    <2>5. departed \in BOOLEAN /\ departed' \in BOOLEAN BY <1>1 DEF Shape
    <2>6. Len(out) < NGen /\ next = story[Len(out) + 1] BY <1>5, <1>6, <1>10, <2>3
    <2> QED BY <1>1, <2>1, <2>2, <2>4, <2>5, <2>6, Grows
  <1> QED BY <1>6, <1>9, <1>10

\* Handing over emits nothing, or the tool prefix.
LEMMA HandOverIsGreedy ==
    ASSUME IInv, InvalidSeed \/ Stall \/ CloseOver
    PROVE  Greedy!Next \/ UNCHANGED <<story, out, departed>>
  <1>1. Shape BY DEF IInv
  <1>2. CASE InvalidSeed
    <2>1. Running /\ ~departed BY <1>2 DEF IInv, Phases, InvalidSeed, LoopOk
    <2>2. story' = story /\ out' = out /\ departed' = TRUE BY <1>2 DEF InvalidSeed
    <2> QED BY <2>1, <2>2, Leaves
  <1>3. CASE Stall
    <2>1. CommitOk /\ step.over = "stall" BY <1>3 DEF IInv, Phases, Stall
    <2>2. Running /\ ~departed BY <2>1 DEF CommitOk, EmitFrom
    <2>3. story' = story /\ out' = out \o ToolPrefix /\ departed' = TRUE BY <1>3 DEF Stall
    <2> QED BY <2>2, <2>3, Leaves
  <1>4. CASE CloseOver
    <2>1. Replaced BY <1>4 DEF IInv, Phases, CloseOver, CloseOk
    <2>2. Running BY <2>1, HookTokens DEF Replaced, Running
    <2>3. story' = story /\ out' = out /\ departed' = TRUE BY <1>4 DEF CloseOver
    <2>4. CASE departed
      <3>1. departed = TRUE BY <1>1, <2>4 DEF Shape
      <3> QED BY <2>3, <3>1
    <2>5. CASE ~departed BY <2>2, <2>3, <2>5, Leaves
    <2> QED BY <2>4, <2>5
  <1> QED BY <1>2, <1>3, <1>4

\* Token by token, too, the answer goes on as the story does, until a hook
\* departs from it.
LEMMA ArIsGreedy ==
    ASSUME IInv, ArFirst \/ ArStep
    PROVE  Greedy!Next
  <1>1. Shape BY DEF IInv
  <1>2. CASE ArFirst
    <2>1. FirstOk BY <1>2 DEF IInv, Phases, ArFirst
    <2>2. /\ NGen \in Nat /\ NGen >= 1 /\ \A i \in 1 .. NGen : story[i] \in Token
      BY <1>1, StoryIs DEF Shape
    <2>3. lastTok \in Token /\ lastTok = story[1] BY <2>1, <2>2 DEF FirstOk
    <2>4. PICK x : x = Forced(lastTok).tok OBVIOUS
    <2>5. x \in Token BY <1>1, <2>3, <2>4, ForcedIs
    <2>6. /\ out' = <<x>> /\ departed' = (x # lastTok) /\ story' = story /\ out = <<>> /\ ~departed
      BY <1>2, <2>1, <2>4 DEF ArFirst, FirstOk
    <2>7. out' = Append(out, x)
      <3>1. Append(<<>>, x) = <<>> \o <<x>> BY <2>5, Nothing, AppendIs
      <3>2. <<>> \o <<x>> = <<x>> BY <2>5, Nothing, One, CatIs
      <3> QED BY <2>6, <3>1, <3>2
    <2>8. Running /\ Len(out) = 0 /\ Len(out) + 1 = 1 BY <2>6, Nothing DEF Running
    <2>9. Len(out) < NGen BY <2>2, <2>8
    <2>10. /\ departed \in BOOLEAN /\ departed' \in BOOLEAN /\ (departed => departed')
           /\ (~departed' => x = story[Len(out) + 1])
      BY <1>1, <2>3, <2>6, <2>8 DEF Shape
    <2> QED BY <2>5, <2>6, <2>7, <2>8, <2>9, <2>10, Grows
  <1>3. CASE ArStep
    <2>1. PICK tok \in Token, alt \in Token, x \in Token :
                /\ LET f == Forced(alt)
                   IN  /\ x = f.tok
                       /\ ar' = [ar EXCEPT !.left = @ - 1, !.injected = f.injected]
                /\ out' = Append(out, x) /\ departed' = (departed \/ x # tok)
                /\ x = Eos => pc' = "done"
                /\ pc' \in {"done", "degenerate", "ar"}
                /\ Len(out) < NGen
                /\ ~departed => tok = story[Len(out) + 1]
      BY <1>3, ArEmits
    <2>2. Running /\ story' = story BY <1>3 DEF IInv, Phases, ArStep, ArOk
    <2>3. /\ departed \in BOOLEAN /\ departed' \in BOOLEAN /\ (departed => departed')
          /\ (~departed' => x = story[Len(out) + 1])
      BY <1>1, <2>1 DEF Shape
    <2> QED BY <2>1, <2>2, <2>3, Grows
  <1> QED BY <1>2, <1>3

\* Every step of the decode is a step of the greedy answer, or not to be seen.
LEMMA StepIsGreedy ==
    ASSUME IInv, [Next]_vars
    PROVE  Greedy!Next \/ UNCHANGED <<story, out, departed>>
  <1>1. CASE Emit \/ EmitClose BY <1>1, EmitIsGreedy
  <1>2. CASE EmitTree BY <1>2, EmitTreeIsGreedy
  <1>3. CASE ReplayTree BY <1>3, ReplayTreeIsGreedy
  <1>4. CASE InvalidSeed \/ Stall \/ CloseOver BY <1>4, HandOverIsGreedy
  <1>5. CASE ArFirst \/ ArStep BY <1>5, ArIsGreedy
  <1>6. CASE VerifyChain \/ PlainStep \/ RollBack \/ Replay
    BY <1>6 DEF VerifyChain, PlainStep, RollBack, Replay
  <1>7. CASE EmitStall \/ Commit \/ VerifyTree \/ RollBackTree
    BY <1>7 DEF EmitStall, Commit, VerifyTree, RollBackTree
  <1>8. CASE ArEnd \/ LoopEnd \/ Flush \/ Fail \/ Cancel
    BY <1>8 DEF ArEnd, LoopEnd, Flush, Fail, Cancel
  <1>9. CASE UNCHANGED vars BY <1>9 DEF vars
  <1> QED
    BY <1>1, <1>2, <1>3, <1>4, <1>5, <1>6, <1>7, <1>8, <1>9 DEF Next, Progress

\* However an answer is decoded, it grows as greedy decoding would write it until
\* a hook departs from it, never past its end or its budget: do_spec_decode
\* with all it falls back to implements GreedyAnswer.
THEOREM SpecImplementsGreedy == Spec => ImplementsGreedy
  <1>1. Init => Greedy!Init BY DEF Init, Greedy!Init
  <1>2. IInv /\ [Next]_vars => [Greedy!Next]_(Greedy!vars)
    BY StepIsGreedy DEF Greedy!vars
  <1> QED BY <1>1, <1>2, InvCorrect, PTL DEF Spec, ImplementsGreedy, Greedy!Spec
=============================================================================
