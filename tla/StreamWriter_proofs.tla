------------------------ MODULE StreamWriter_proofs ------------------------
(***************************************************************************)
(* Proofs about StreamWriter, for any number of frames, pieces and         *)
(* comments.                                                               *)
(***************************************************************************)
EXTENDS StreamWriter, SequenceTheorems, TLAPS

USE StreamAssumption

\* What the client will have been sent when the write under way is through.
Stream == wire \o out

Final(s) == s[Len(s)]
DoneEnd  == Pieces(Done)[Parts]

\* May q come right behind p?
Follows(p, q) ==
    IF IsEnd(p) THEN q.part = 1 ELSE q.item = p.item /\ q.part = p.part + 1

Chain(s) ==
    \A i \in 1 .. Len(s) : IF i = 1 THEN s[i].part = 1 ELSE Follows(s[i - 1], s[i])

Sooner(p, q) == p.item < q.item \/ (p.item = q.item /\ p.part < q.part)

\* A local answer is on its way in whole items, and what heartbeat_offset says
\* of an unfinished comment is true.
Whole ==
    /\ ~proxy => Chain(Stream)
    /\ ~left /\ offset > 0 =>
          out = <<>> /\ Stream # <<>> /\ Final(Stream) = [item |-> Comment, part |-> offset]
    /\ ~left /\ offset = 0 /\ ~proxy => Stream = <<>> \/ IsEnd(Final(Stream))

\* All but the comments are pieces of the answer, in its order.
FromAnswer(s, n) == \A i \in 1 .. Len(s) : s[i].item # Comment => \E h \in 1 .. n : s[i] = Answer[h]

InOrder(s) ==
    \A i, j \in 1 .. Len(s) :
        i < j /\ s[i].item # Comment /\ s[j].item # Comment => Sooner(s[i], s[j])

Quiet(s) == \A i, j \in 1 .. Len(s) : i < j /\ s[i] = DoneEnd => s[j].item # Comment

\* Where process_job is tells how much has been handed over, and when the whole
\* answer has, no comment is begun or continued.
Place ==
    /\ ~proxy => \E m \in 0 .. Done : next = Upto(m)
    /\ ~proxy /\ pc = "stream" => next <= Upto(Frames)
    /\ pc = "headers" => next \in {0, Upto(1)} /\ line = <<>> /\ offset = 0
    /\ pc = "final" => next \in {Upto(Frames), Upto(Done)}
    /\ pc = "forwarded" => proxy
    /\ pc # "stream" => ~ready
    /\ next = Upto(Done) => ~ready /\ (offset = 0 \/ left)

\* sse_partial_line is what came behind the last line end.
LineFrom(b) ==
    /\ line = SubSeq(Answer, b + 1, next)
    /\ b = 0 \/ IsEnd(Answer[b])
    /\ \A i \in b + 1 .. next : ~IsEnd(Answer[i])

LineShape == proxy /\ pc = "stream" => \E b \in 0 .. next : LineFrom(b)

Ended ==
    /\ pc = "final" /\ next = Upto(Done) /\ ~left => Stream # <<>> /\ Final(Stream) = DoneEnd
    /\ pc = "finished" => out = <<>>
    /\ pc = "finished" /\ ~left /\ ~proxy => Stream # <<>> /\ Final(Stream) = DoneEnd

IInv ==
    /\ TypeOK /\ Whole /\ FromAnswer(Stream, next) /\ InOrder(Stream) /\ Quiet(Stream)
    /\ Place /\ LineShape /\ Ended

-----------------------------------------------------------------------------
(* The answer *)

\* Items lie one behind the other.
LEMMA Behind ==
    ASSUME NEW m \in Nat, NEW n \in Nat, m < n
    PROVE  Upto(m) \in Nat /\ Upto(n) \in Nat /\ Upto(m) + Parts <= Upto(n) /\ Upto(m + 1) = Upto(m) + Parts
  <1>1. PICK d \in Nat : n = m + 1 + d
    <2>1. n - m - 1 \in Nat /\ n = m + 1 + (n - m - 1) OBVIOUS
    <2> QED BY <2>1
  <1>2. (m + 1 + d) * Parts = m * Parts + Parts + d * Parts OBVIOUS
  <1>3. d * Parts \in Nat /\ m * Parts \in Nat OBVIOUS
  <1>4. (m + 1) * Parts = m * Parts + Parts OBVIOUS
  <1> QED BY <1>1, <1>2, <1>3, <1>4 DEF Upto

\* A number of pieces is so many whole frames and a rest.
LEMMA Divided ==
    ASSUME NEW x \in Nat
    PROVE  /\ x \div Parts \in Nat /\ x % Parts \in 0 .. Parts - 1
           /\ x = Parts * (x \div Parts) + (x % Parts)
  OBVIOUS

\* Every place in the answer is a piece of some item.
LEMMA Placed ==
    ASSUME NEW k \in 1 .. Upto(Done)
    PROVE  \E item \in 1 .. Done, p \in 1 .. Parts : k = Upto(item - 1) + p
  <1> DEFINE q == (k - 1) \div Parts
             r == (k - 1) % Parts
             item == q + 1
             p == r + 1
  <1>0. Upto(Done) \in Nat /\ k \in Nat /\ k - 1 \in Nat BY DEF Upto, Done
  <1>1. q \in Nat /\ r \in 0 .. Parts - 1 /\ k - 1 = Parts * q + r BY <1>0, Divided
  <1>2. q < Done
    <2> HIDE DEF q, r
    <2>1. SUFFICES ASSUME Done <= q PROVE FALSE BY <1>1 DEF Done
    <2>2. Done * Parts <= q * Parts
      <3>0. Done * Parts \in Int BY DEF Done
      <3>1. CASE Done = q BY <3>0, <3>1
      <3>2. CASE Done < q BY <3>2, <1>1, <2>1, Behind DEF Upto, Done
      <3> QED BY <3>1, <3>2, <2>1, <1>1 DEF Done
    <2>3. q * Parts = Parts * q BY <1>1
    <2> QED BY <2>2, <2>3, <1>1, <1>0 DEF Upto, Done
  <1>3. item \in 1 .. Done /\ p \in 1 .. Parts BY <1>1, <1>2 DEF Done
  <1>4. k = Upto(item - 1) + p
    <2> HIDE DEF q, r
    <2>1. item - 1 = q /\ q * Parts = Parts * q BY <1>1
    <2> QED BY <2>1, <1>1, <1>0 DEF Upto
  <1> HIDE DEF item, p
  <1> QED BY <1>3, <1>4

\* Where a piece of an item lies in the answer.
LEMMA AnswerAt ==
    ASSUME NEW item \in 1 .. Done, NEW p \in 1 .. Parts
    PROVE  /\ Upto(item - 1) + p \in 1 .. Upto(item) /\ Upto(item - 1) + p \in 1 .. Upto(Done)
           /\ Upto(item) \in Nat /\ Upto(item - 1) \in Nat /\ Upto(item) <= Upto(Done)
           /\ Answer[Upto(item - 1) + p] = [item |-> item, part |-> p]
  <1> DEFINE b == Upto(item - 1)
             k == b + p
  <1>1. item - 1 \in Nat /\ item \in Nat /\ Done \in Nat BY DEF Done
  <1>2. b \in Nat /\ b + Parts = Upto(item) /\ Upto(item) \in Nat BY <1>1, Behind
  <1>3. Upto(item) <= Upto(Done) /\ Upto(Done) \in Nat
    <2>1. CASE item = Done BY <2>1, <1>2
    <2>2. CASE item < Done BY <2>2, <1>1, Behind
    <2> QED BY <2>1, <2>2, <1>1
  <1>4. k \in 1 .. Upto(item) /\ k \in 1 .. Upto(Done) BY <1>2, <1>3
  <1>5. (k - 1) \div Parts = item - 1 /\ (k - 1) % Parts = p - 1
    <2> DEFINE x == k - 1
               q == x \div Parts
               r == x % Parts
               j == item - 1
    <2>0. x \in Nat /\ x = j * Parts + (p - 1) BY <1>2 DEF Upto
    <2>1. q \in Nat /\ r \in 0 .. Parts - 1 /\ x = Parts * q + r BY <2>0, Divided
    <2>2. j \in Nat BY <1>1
    <2>3. q * Parts = Parts * q BY <2>1
    <2> HIDE DEF q, r, x, j
    <2>4. ~(q < j)
      <3> SUFFICES ASSUME q < j PROVE FALSE OBVIOUS
      <3>1. q * Parts + Parts <= j * Parts BY <2>1, <2>2, Behind DEF Upto
      <3>2. q * Parts \in Nat /\ j * Parts \in Nat BY <2>1, <2>2
      <3> QED BY <3>1, <3>2, <2>0, <2>1, <2>3
    <2>5. ~(j < q)
      <3> SUFFICES ASSUME j < q PROVE FALSE OBVIOUS
      <3>1. j * Parts + Parts <= q * Parts BY <2>1, <2>2, Behind DEF Upto
      <3>2. q * Parts \in Nat /\ j * Parts \in Nat BY <2>1, <2>2
      <3> QED BY <3>1, <3>2, <2>0, <2>1, <2>3
    <2>6. q = j BY <2>4, <2>5, <2>1, <2>2
    <2>7. r = p - 1 BY <2>6, <2>0, <2>1, <2>3
    <2> QED BY <2>6, <2>7 DEF q, r, x, j
  <1>6. Answer[k] = [item |-> ((k - 1) \div Parts) + 1, part |-> ((k - 1) % Parts) + 1]
    BY <1>4 DEF Answer, Upto
  <1>7. item - 1 + 1 = item /\ p - 1 + 1 = p OBVIOUS
  <1> QED BY <1>2, <1>3, <1>4, <1>5, <1>6, <1>7

\* How many pieces the frames, and the frames with [DONE], take.
LEMMA Sizes ==
    /\ Done \in Nat /\ Upto(Done) \in Nat /\ Upto(Frames) \in Nat /\ Upto(1) = Parts
    /\ Upto(0) = 0 /\ Upto(Frames) + Parts = Upto(Done) /\ Upto(1) <= Upto(Frames)
  <1>1. Upto(0) = 0 /\ Upto(1) = Parts BY DEF Upto
  <1>2. Done \in Nat /\ Frames \in Nat /\ Frames < Done /\ Done = Frames + 1 BY DEF Done
  <1>3. Upto(Frames) \in Nat /\ Upto(Done) \in Nat /\ Upto(Frames) + Parts = Upto(Done)
    BY <1>2, Behind
  <1>4. Upto(1) <= Upto(Frames)
    <2>1. CASE Frames = 1 BY <2>1, <1>1
    <2>2. CASE 1 < Frames BY <2>2, <1>1, <1>2, Behind
    <2> QED BY <2>1, <2>2, <1>2
  <1> QED BY <1>1, <1>2, <1>3, <1>4

\* The answer is made of pieces, none of them a heartbeat.
LEMMA AnswerType ==
    /\ Answer \in Seq(Piece) /\ Len(Answer) = Upto(Done)
    /\ \A k \in 1 .. Upto(Done) : Answer[k] \in Piece /\ Answer[k].item # Comment
  <1>1. \A k \in 1 .. Upto(Done) : Answer[k] \in Piece /\ Answer[k].item # Comment
    <2> SUFFICES ASSUME NEW k \in 1 .. Upto(Done)
                 PROVE  Answer[k] \in Piece /\ Answer[k].item # Comment
      OBVIOUS
    <2>1. PICK item \in 1 .. Done, p \in 1 .. Parts : k = Upto(item - 1) + p BY Placed
    <2>2. Answer[k] = [item |-> item, part |-> p] BY <2>1, AnswerAt
    <2> QED BY <2>2, Sizes DEF Piece, Comment
  <1>2. Answer = [k \in 1 .. Upto(Done) |-> Answer[k]] BY DEF Answer, Upto
  <1>3. Answer \in [1 .. Upto(Done) -> Piece] BY <1>1, <1>2
  <1> QED BY <1>1, <1>3, Sizes

\* The pieces of the answer follow one another.
LEMMA AnswerChain ==
    /\ Answer[1].part = 1
    /\ \A k \in 2 .. Upto(Done) : Follows(Answer[k - 1], Answer[k])
  <1>1. Answer[1].part = 1
    <2>1. 1 \in 1 .. Done /\ 1 \in 1 .. Parts /\ Upto(1 - 1) + 1 = 1 BY Sizes DEF Done
    <2>2. Answer[Upto(1 - 1) + 1] = [item |-> 1, part |-> 1] BY <2>1, AnswerAt
    <2> QED BY <2>1, <2>2
  <1>2. ASSUME NEW k \in 2 .. Upto(Done) PROVE Follows(Answer[k - 1], Answer[k])
    <2>0. k - 1 \in 1 .. Upto(Done) BY <1>2, Sizes
    <2>1. PICK item \in 1 .. Done, p \in 1 .. Parts : k - 1 = Upto(item - 1) + p BY <2>0, Placed
    <2>2. Answer[k - 1] = [item |-> item, part |-> p] BY <2>1, AnswerAt
    <2>3. CASE p < Parts
      <3>1. p + 1 \in 1 .. Parts BY <2>3
      <3>2. k = Upto(item - 1) + (p + 1)
        <4>1. Upto(item - 1) \in Nat BY AnswerAt
        <4> QED BY <4>1, <2>1
      <3>3. Answer[k] = [item |-> item, part |-> p + 1] BY <3>1, <3>2, AnswerAt
      <3> QED BY <2>2, <2>3, <3>3 DEF Follows, IsEnd
    <2>4. CASE p = Parts
      <3>1. Upto(item) + 1 = k /\ Upto(item) \in Nat
        <4>1. Upto(item - 1) \in Nat /\ Upto(item) = Upto(item - 1) + Parts
          <5>1. item - 1 \in Nat /\ item \in Nat /\ item - 1 + 1 = item OBVIOUS
          <5> QED BY <5>1, Behind
        <4> QED BY <4>1, <2>1, <2>4
      <3>2. item < Done BY <3>1, <2>4, Sizes
      <3>3. item + 1 \in 1 .. Done /\ item + 1 - 1 = item /\ 1 \in 1 .. Parts BY <3>2, Sizes
      <3>4. k = Upto(item + 1 - 1) + 1 BY <3>1, <3>3
      <3>5. Answer[k] = [item |-> item + 1, part |-> 1] BY <3>3, <3>4, AnswerAt
      <3> QED BY <2>2, <2>4, <3>5 DEF Follows, IsEnd
    <2> QED BY <2>3, <2>4
  <1> QED BY <1>1, <1>2

\* No piece of the answer comes twice.
LEMMA AnswerSooner ==
    ASSUME NEW h \in 1 .. Upto(Done), NEW k \in 1 .. Upto(Done), h < k
    PROVE  Sooner(Answer[h], Answer[k])
  <1>1. PICK i \in 1 .. Done, p \in 1 .. Parts : h = Upto(i - 1) + p BY Placed
  <1>2. PICK j \in 1 .. Done, q \in 1 .. Parts : k = Upto(j - 1) + q BY Placed
  <1>3. Answer[h] = [item |-> i, part |-> p] /\ Answer[k] = [item |-> j, part |-> q]
    BY <1>1, <1>2, AnswerAt
  <1>4. Upto(i - 1) \in Nat /\ Upto(j - 1) \in Nat BY AnswerAt
  <1>5. CASE i < j BY <1>3, <1>5 DEF Sooner
  <1>6. CASE i = j BY <1>1, <1>2, <1>3, <1>4, <1>6 DEF Sooner
  <1>7. CASE j < i
    <2>1. j - 1 \in Nat /\ i - 1 \in Nat /\ j - 1 < i - 1 BY <1>7
    <2>2. Upto(j - 1) + Parts <= Upto(i - 1) BY <2>1, Behind
    <2> QED BY <2>2, <1>1, <1>2, <1>4
  <1> QED BY <1>5, <1>6, <1>7, Sizes

\* An item ends where the next begins.
LEMMA AnswerEnds ==
    /\ \A m \in 1 .. Done : Upto(m) \in 1 .. Upto(Done) /\ IsEnd(Answer[Upto(m)])
    /\ \A k \in 1 .. Upto(Done) : IsEnd(Answer[k]) => \E m \in 1 .. Done : k = Upto(m)
    /\ \A k \in Upto(Frames) + 1 .. Upto(Done) :
          Answer[k] = [item |-> Done, part |-> k - Upto(Frames)]
  <1>0. \A m \in 1 .. Done : Upto(m) = Upto(m - 1) + Parts /\ Upto(m - 1) \in Nat
    <2> SUFFICES ASSUME NEW m \in 1 .. Done PROVE Upto(m) = Upto(m - 1) + Parts /\ Upto(m - 1) \in Nat
      OBVIOUS
    <2>1. m - 1 \in Nat /\ m \in Nat /\ m - 1 < m /\ m - 1 + 1 = m BY Sizes
    <2> QED BY <2>1, Behind
  <1>1. \A m \in 1 .. Done : Upto(m) \in 1 .. Upto(Done) /\ IsEnd(Answer[Upto(m)])
    <2> SUFFICES ASSUME NEW m \in 1 .. Done
                 PROVE  Upto(m) \in 1 .. Upto(Done) /\ IsEnd(Answer[Upto(m)])
      OBVIOUS
    <2>1. Parts \in 1 .. Parts OBVIOUS
    <2>2. Upto(m - 1) + Parts \in 1 .. Upto(Done) /\ Answer[Upto(m - 1) + Parts] = [item |-> m, part |-> Parts]
      BY <2>1, AnswerAt
    <2> QED BY <2>2, <1>0 DEF IsEnd
  <1>2. ASSUME NEW k \in 1 .. Upto(Done), IsEnd(Answer[k]) PROVE \E m \in 1 .. Done : k = Upto(m)
    <2>1. PICK m \in 1 .. Done, p \in 1 .. Parts : k = Upto(m - 1) + p BY Placed
    <2>2. Answer[k] = [item |-> m, part |-> p] BY <2>1, AnswerAt
    <2>3. p = Parts BY <2>2, <1>2 DEF IsEnd
    <2> QED BY <2>1, <2>3, <1>0
  <1>3. ASSUME NEW k \in Upto(Frames) + 1 .. Upto(Done)
        PROVE  Answer[k] = [item |-> Done, part |-> k - Upto(Frames)]
    <2>1. k - Upto(Frames) \in 1 .. Parts /\ Done \in 1 .. Done /\ Done - 1 = Frames
      BY Sizes DEF Done
    <2>2. k = Upto(Done - 1) + (k - Upto(Frames)) BY <2>1, Sizes
    <2> QED BY <2>1, <2>2, AnswerAt
  <1> QED BY <1>1, <1>2, <1>3

\* The marker's last piece is the last of the answer.
LEMMA AnswerDone ==
    /\ DoneEnd = [item |-> Done, part |-> Parts]
    /\ \A k \in 1 .. Upto(Done) : Answer[k] = DoneEnd <=> k = Upto(Done)
  <1>1. DoneEnd = [item |-> Done, part |-> Parts] BY DEF DoneEnd, Pieces
  <1>2. Upto(Done) \in 1 .. Upto(Done) /\ Upto(Done) \in Upto(Frames) + 1 .. Upto(Done) /\ Upto(Done) - Upto(Frames) = Parts
    BY Sizes
  <1>3. Answer[Upto(Done)] = [item |-> Done, part |-> Parts] BY <1>2, AnswerEnds
  <1>4. ASSUME NEW k \in 1 .. Upto(Done), Answer[k] = DoneEnd, k # Upto(Done) PROVE FALSE
    <2>1. Sooner(Answer[k], Answer[Upto(Done)]) BY <1>2, <1>4, AnswerSooner
    <2> QED BY <2>1, <1>1, <1>3, <1>4, Sizes DEF Sooner
  <1> QED BY <1>1, <1>3, <1>4

-----------------------------------------------------------------------------
(* What is put behind what has been sent *)

\* Does t go on where s stops?
Continues(s, t) ==
    /\ t # <<>> => IF s = <<>> THEN t[1].part = 1 ELSE Follows(Final(s), t[1])
    /\ \A i \in 2 .. Len(t) : Follows(t[i - 1], t[i])

\* Pieces in order, continued in order, are in order.
LEMMA ChainJoins ==
    ASSUME NEW s \in Seq(Piece), NEW t \in Seq(Piece), Chain(s), Continues(s, t)
    PROVE  Chain(s \o t)
  <1> DEFINE u == s \o t
  <1>1. u \in Seq(Piece) /\ Len(u) = Len(s) + Len(t)
        /\ \A i \in 1 .. Len(s) + Len(t) : u[i] = IF i <= Len(s) THEN s[i] ELSE t[i - Len(s)]
    BY ConcatProperties
  <1> HIDE DEF u
  <1>2. Len(s) \in Nat /\ Len(t) \in Nat OBVIOUS
  <1> SUFFICES ASSUME NEW i \in 1 .. Len(u)
               PROVE  IF i = 1 THEN u[i].part = 1 ELSE Follows(u[i - 1], u[i])
    BY DEF Chain, u
  <1>3. CASE i <= Len(s)
    <2>1. i \in 1 .. Len(s) /\ (i > 1 => i - 1 \in 1 .. Len(s)) BY <1>1, <1>2, <1>3
    <2>2. u[i] = s[i] /\ (i > 1 => u[i - 1] = s[i - 1]) BY <2>1, <1>1, <1>2
    <2> QED BY <2>1, <2>2 DEF Chain
  <1>4. CASE i = Len(s) + 1
    <2>1. t # <<>> /\ u[i] = t[1] BY <1>1, <1>2, <1>4
    <2>2. CASE s = <<>> BY <2>1, <2>2, <1>4 DEF Continues
    <2>3. CASE s # <<>>
      <3>1. i > 1 /\ i - 1 = Len(s) /\ u[i - 1] = s[Len(s)] BY <2>3, <1>1, <1>2, <1>4
      <3> QED BY <3>1, <2>1, <2>3 DEF Continues, Final
    <2> QED BY <2>2, <2>3
  <1>5. CASE i > Len(s) + 1
    <2>1. i - Len(s) \in 2 .. Len(t) /\ i # 1 BY <1>1, <1>2, <1>5
    <2>2. u[i] = t[i - Len(s)] /\ u[i - 1] = t[i - Len(s) - 1] BY SMTT(30), <1>1, <1>2, <1>5
    <2> QED BY <2>1, <2>2 DEF Continues
  <1>6. i <= Len(s) \/ i = Len(s) + 1 \/ i > Len(s) + 1 BY <1>1, <1>2
  <1> QED BY <1>3, <1>4, <1>5, <1>6

\* Pieces handed over together go on from one another.
LEMMA ContinuesJoins ==
    ASSUME NEW s \in Seq(Piece), NEW c \in Seq(Piece), NEW t \in Seq(Piece),
           Continues(s, c), Continues(s \o c, t)
    PROVE  Continues(s, c \o t)
  <1> DEFINE u == c \o t
  <1>1. u \in Seq(Piece) /\ Len(u) = Len(c) + Len(t)
        /\ \A i \in 1 .. Len(c) + Len(t) : u[i] = IF i <= Len(c) THEN c[i] ELSE t[i - Len(c)]
    BY ConcatProperties
  <1>2. Len(c) \in Nat /\ Len(t) \in Nat /\ Len(s) \in Nat OBVIOUS
  <1>3. CASE c = <<>>
    <2>1. s \o c = s /\ c \o t = t BY <1>3, ConcatEmptySeq
    <2> QED BY <2>1
  <1>4. CASE c # <<>>
    <2> HIDE DEF u
    <2>1. Len(c) > 0 /\ u[1] = c[1] BY <1>4, <1>1, <1>2
    <2>2. Final(s \o c) = c[Len(c)] /\ s \o c # <<>>
      <3>1. Len(s \o c) = Len(s) + Len(c) /\ (s \o c)[Len(s) + Len(c)] = c[Len(s) + Len(c) - Len(s)]
        BY <1>2, <2>1, ConcatProperties
      <3> QED BY <3>1, <2>1, <1>2 DEF Final
    <2>3. ASSUME NEW i \in 2 .. Len(u) PROVE Follows(u[i - 1], u[i])
      <3>1. CASE i <= Len(c)
        <4>1. i \in 2 .. Len(c) /\ i \in 1 .. Len(c) + Len(t) /\ i - 1 \in 1 .. Len(c) + Len(t) /\ i - 1 <= Len(c)
          BY <3>1, <1>2
        <4>2. u[i] = c[i] /\ u[i - 1] = c[i - 1] BY <4>1, <3>1, <1>1
        <4> QED BY <4>1, <4>2 DEF Continues
      <3>2. CASE i = Len(c) + 1
        <4>1. u[i] = t[1] /\ u[i - 1] = c[Len(c)] /\ t # <<>> BY SMTT(30), <3>2, <1>1, <1>2, <2>1
        <4> QED BY <4>1, <2>2 DEF Continues
      <3>3. CASE i > Len(c) + 1
        <4>1. u[i] = t[i - Len(c)] /\ u[i - 1] = t[i - Len(c) - 1] /\ i - Len(c) \in 2 .. Len(t)
          BY <3>3, <1>1, <1>2
        <4> QED BY <4>1 DEF Continues
      <3> QED BY <3>1, <3>2, <3>3, <1>1, <1>2
    <2>4. u # <<>> => IF s = <<>> THEN u[1].part = 1 ELSE Follows(Final(s), u[1])
      BY <1>4, <2>1 DEF Continues
    <2> QED BY <2>3, <2>4 DEF Continues, u
  <1> QED BY <1>3, <1>4

\* A piece of the answer's text.
LEMMA Chunk ==
    ASSUME NEW k \in 0 .. Upto(Done), NEW n \in k .. Upto(Done)
    PROVE  LET t == SubSeq(Answer, k + 1, n)
           IN  /\ t \in Seq(Piece) /\ Len(t) = n - k
               /\ \A i \in 1 .. Len(t) : t[i] = Answer[k + i] /\ k + i \in k + 1 .. n
  <1> DEFINE t == SubSeq(Answer, k + 1, n)
  <1>1. k \in Nat /\ n \in Nat /\ k <= n /\ n <= Upto(Done) /\ Upto(Done) \in Nat BY Sizes
  <1>2. \A i \in k + 1 .. n : Answer[i] \in Piece BY <1>1, AnswerType
  <1>3. /\ t \in Seq(Piece) /\ Len(t) = IF k + 1 <= n THEN n - (k + 1) + 1 ELSE 0
        /\ \A i \in 1 .. n - (k + 1) + 1 : t[i] = Answer[k + 1 + i - 1]
    BY <1>1, <1>2, SubSeqProperties
  <1>4. Len(t) = n - k BY <1>1, <1>3
  <1> HIDE DEF t
  <1>5. ASSUME NEW i \in 1 .. Len(t) PROVE t[i] = Answer[k + i] /\ k + i \in k + 1 .. n
    <2>1. i \in 1 .. n - (k + 1) + 1 /\ k + 1 + i - 1 = k + i BY <1>1, <1>4
    <2> QED BY <2>1, <1>1, <1>3, <1>4
  <1> QED BY <1>3, <1>4, <1>5 DEF t

\* So are those of a stretch of the answer.
LEMMA ChunkChain ==
    ASSUME NEW k \in 0 .. Upto(Done), NEW n \in k .. Upto(Done)
    PROVE  LET t == SubSeq(Answer, k + 1, n)
           IN  \A i \in 2 .. Len(t) : Follows(t[i - 1], t[i])
  <1> DEFINE t == SubSeq(Answer, k + 1, n)
  <1>1. /\ t \in Seq(Piece) /\ Len(t) = n - k
        /\ \A i \in 1 .. Len(t) : t[i] = Answer[k + i] /\ k + i \in k + 1 .. n
    BY Chunk
  <1> HIDE DEF t
  <1>2. ASSUME NEW i \in 2 .. Len(t) PROVE Follows(t[i - 1], t[i])
    <2>1. i - 1 \in 1 .. Len(t) /\ i \in 1 .. Len(t) BY <1>1
    <2>2. t[i - 1] = Answer[k + (i - 1)] /\ t[i] = Answer[k + i] BY <2>1, <1>1
    <2>3. k + i \in 2 .. Upto(Done) /\ k + i - 1 = k + (i - 1) BY <1>1, <2>1, Sizes
    <2> QED BY <2>2, <2>3, AnswerChain
  <1> QED BY <1>2 DEF t

\* Behind the end of an item comes the beginning of one.
LEMMA AnswerGoesOn ==
    ASSUME NEW k \in 1 .. Upto(Done), k < Upto(Done), IsEnd(Answer[k])
    PROVE  Answer[k + 1].part = 1
  <1>1. k + 1 \in 2 .. Upto(Done) /\ k + 1 - 1 = k BY Sizes
  <1>2. Follows(Answer[k], Answer[k + 1]) BY <1>1, AnswerChain
  <1> QED BY <1>2 DEF Follows

\* The rest of a comment, or part of it.
LEMMA CommentPart ==
    ASSUME NEW a \in 0 .. Parts, NEW b \in a .. Parts
    PROVE  LET c == SubSeq(Pieces(Comment), a + 1, b)
           IN  /\ c \in Seq(Piece) /\ Len(c) = b - a
               /\ \A i \in 1 .. Len(c) : c[i] = [item |-> Comment, part |-> a + i]
  <1> DEFINE c == SubSeq(Pieces(Comment), a + 1, b)
  <1>0. a \in Nat /\ b \in Nat /\ a + 1 \in Int /\ a <= b OBVIOUS
  <1>1. \A i \in a + 1 .. b : Pieces(Comment)[i] = [item |-> Comment, part |-> i] /\ [item |-> Comment, part |-> i] \in Piece
    BY Sizes DEF Pieces, Piece, Comment
  <1>2. /\ c \in Seq(Piece) /\ Len(c) = IF a + 1 <= b THEN b - (a + 1) + 1 ELSE 0
        /\ \A i \in 1 .. b - (a + 1) + 1 : c[i] = Pieces(Comment)[a + 1 + i - 1]
    <2>1. \A i \in a + 1 .. b : Pieces(Comment)[i] \in Piece BY <1>1
    <2> DEFINE s == Pieces(Comment)
    <2>2. \A i \in a + 1 .. b : s[i] \in Piece BY <2>1
    <2> HIDE DEF s
    <2>3. /\ SubSeq(s, a + 1, b) \in Seq(Piece)
          /\ Len(SubSeq(s, a + 1, b)) = IF a + 1 <= b THEN b - (a + 1) + 1 ELSE 0
          /\ \A i \in 1 .. b - (a + 1) + 1 : SubSeq(s, a + 1, b)[i] = s[a + 1 + i - 1]
      BY <1>0, <2>2, SubSeqProperties
    <2> QED BY <2>3 DEF s
  <1>3. Len(c) = b - a BY <1>0, <1>2
  <1> HIDE DEF c
  <1>4. ASSUME NEW i \in 1 .. Len(c) PROVE c[i] = [item |-> Comment, part |-> a + i]
    <2>1. i \in 1 .. b - (a + 1) + 1 /\ a + 1 + i - 1 = a + i /\ a + i \in a + 1 .. b BY <1>3
    <2> QED BY <2>1, <1>1, <1>2
  <1>5. c \in Seq(Piece) BY <1>2
  <1>6. \A i \in 1 .. Len(c) : c[i] = [item |-> Comment, part |-> a + i] BY <1>4
  <1>7. c \in Seq(Piece) /\ Len(c) = b - a /\ \A i \in 1 .. Len(c) : c[i] = [item |-> Comment, part |-> a + i]
    BY <1>3, <1>5, <1>6
  <1> QED BY <1>7, Zenon DEF c

-----------------------------------------------------------------------------
(* What is kept when the stream grows or is cut *)

\* Behind what has been sent comes the next part of the answer.
LEMMA GrowAnswer ==
    ASSUME NEW s \in Seq(Piece), NEW k \in 0 .. Upto(Done), NEW n \in k .. Upto(Done),
           FromAnswer(s, k), InOrder(s), Quiet(s)
    PROVE  LET u == s \o SubSeq(Answer, k + 1, n)
           IN  u \in Seq(Piece) /\ FromAnswer(u, n) /\ InOrder(u) /\ Quiet(u)
  <1> DEFINE t == SubSeq(Answer, k + 1, n)
             u == s \o t
  <1>1. /\ t \in Seq(Piece) /\ Len(t) = n - k
        /\ \A i \in 1 .. Len(t) : t[i] = Answer[k + i] /\ k + i \in k + 1 .. n
    BY Chunk
  <1> HIDE DEF t
  <1>2. u \in Seq(Piece) /\ Len(u) = Len(s) + Len(t)
        /\ \A i \in 1 .. Len(s) + Len(t) : u[i] = IF i <= Len(s) THEN s[i] ELSE t[i - Len(s)]
    BY <1>1, ConcatProperties
  <1> HIDE DEF u
  <1>3. Len(s) \in Nat /\ k \in Nat /\ n \in Nat /\ k <= n /\ n <= Upto(Done) /\ Upto(Done) \in Nat
    BY Sizes
  <1>4. \A i \in 1 .. Len(u) :
            \/ i \in 1 .. Len(s) /\ u[i] = s[i]
            \/ i > Len(s) /\ u[i] = Answer[k + (i - Len(s))] /\ k + (i - Len(s)) \in k + 1 .. n
    <2> SUFFICES ASSUME NEW i \in 1 .. Len(u)
                 PROVE  \/ i \in 1 .. Len(s) /\ u[i] = s[i]
                        \/ i > Len(s) /\ u[i] = Answer[k + (i - Len(s))] /\ k + (i - Len(s)) \in k + 1 .. n
      OBVIOUS
    <2>1. CASE i <= Len(s) BY <2>1, <1>2, <1>3
    <2>2. CASE i > Len(s)
      <3>1. i - Len(s) \in 1 .. Len(t) BY <2>2, <1>1, <1>2, <1>3
      <3> QED BY <3>1, <2>2, <1>1, <1>2, <1>3
    <2> QED BY <2>1, <2>2, <1>1, <1>2, <1>3
  <1>5. FromAnswer(u, n)
    <2> SUFFICES ASSUME NEW i \in 1 .. Len(u), u[i].item # Comment
                 PROVE  \E h \in 1 .. n : u[i] = Answer[h]
      BY DEF FromAnswer
    <2>1. CASE i \in 1 .. Len(s) /\ u[i] = s[i] BY <2>1, <1>3 DEF FromAnswer
    <2>2. CASE i > Len(s) /\ u[i] = Answer[k + (i - Len(s))] /\ k + (i - Len(s)) \in k + 1 .. n
      BY <2>2, <1>3
    <2> QED BY <2>1, <2>2, <1>4
  <1>6. InOrder(u)
    <2> SUFFICES ASSUME NEW i \in 1 .. Len(u), NEW j \in 1 .. Len(u), i < j,
                        u[i].item # Comment, u[j].item # Comment
                 PROVE  Sooner(u[i], u[j])
      BY DEF InOrder
    <2>1. CASE j \in 1 .. Len(s) /\ u[j] = s[j]
      <3>1. i \in 1 .. Len(s) /\ u[i] = s[i] BY <2>1, <1>3, <1>4
      <3> QED BY <3>1, <2>1 DEF InOrder
    <2>2. CASE j > Len(s) /\ u[j] = Answer[k + (j - Len(s))] /\ k + (j - Len(s)) \in k + 1 .. n
      <3>1. CASE i \in 1 .. Len(s) /\ u[i] = s[i]
        <4>1. PICK h \in 1 .. k : u[i] = Answer[h] BY <3>1 DEF FromAnswer
        <4>2. h \in 1 .. Upto(Done) /\ k + (j - Len(s)) \in 1 .. Upto(Done) /\ h < k + (j - Len(s))
          BY <1>3, <2>2
        <4> QED BY <4>1, <4>2, <2>2, AnswerSooner
      <3>2. CASE i > Len(s) /\ u[i] = Answer[k + (i - Len(s))] /\ k + (i - Len(s)) \in k + 1 .. n
        <4>1. /\ k + (i - Len(s)) \in 1 .. Upto(Done) /\ k + (j - Len(s)) \in 1 .. Upto(Done)
              /\ k + (i - Len(s)) < k + (j - Len(s))
          BY SMTT(30), <1>3, <2>2, <3>2
        <4> QED BY <4>1, <2>2, <3>2, AnswerSooner
      <3> QED BY <3>1, <3>2, <1>4
    <2> QED BY <2>1, <2>2, <1>4
  <1>7. Quiet(u)
    <2> SUFFICES ASSUME NEW i \in 1 .. Len(u), NEW j \in 1 .. Len(u), i < j, u[i] = DoneEnd
                 PROVE  u[j].item # Comment
      BY DEF Quiet
    <2>1. CASE j \in 1 .. Len(s) /\ u[j] = s[j]
      <3>1. i \in 1 .. Len(s) /\ u[i] = s[i] BY <2>1, <1>3, <1>4
      <3> QED BY <3>1, <2>1 DEF Quiet
    <2>2. CASE j > Len(s) /\ u[j] = Answer[k + (j - Len(s))] /\ k + (j - Len(s)) \in k + 1 .. n
      BY <2>2, <1>3, AnswerType
    <2> QED BY <2>1, <2>2, <1>4
  <1> QED BY <1>2, <1>5, <1>6, <1>7 DEF u, t

\* Pieces of comments come in between, but not behind the whole answer.
LEMMA GrowComment ==
    ASSUME NEW s \in Seq(Piece), NEW k \in 0 .. Upto(Done), NEW c \in Seq(Piece),
           \A i \in 1 .. Len(c) : c[i].item = Comment,
           c # <<>> => k < Upto(Done),
           FromAnswer(s, k), InOrder(s), Quiet(s)
    PROVE  LET u == s \o c
           IN  u \in Seq(Piece) /\ FromAnswer(u, k) /\ InOrder(u) /\ Quiet(u)
  <1> DEFINE u == s \o c
  <1>1. u \in Seq(Piece) /\ Len(u) = Len(s) + Len(c)
        /\ \A i \in 1 .. Len(s) + Len(c) : u[i] = IF i <= Len(s) THEN s[i] ELSE c[i - Len(s)]
    BY ConcatProperties
  <1> HIDE DEF u
  <1>2. Len(s) \in Nat /\ Len(c) \in Nat /\ k \in Nat /\ Upto(Done) \in Nat BY Sizes
  <1>3. \A i \in 1 .. Len(u) :
            \/ i \in 1 .. Len(s) /\ u[i] = s[i]
            \/ i > Len(s) /\ u[i].item = Comment /\ c # <<>>
    <2> SUFFICES ASSUME NEW i \in 1 .. Len(u)
                 PROVE  \/ i \in 1 .. Len(s) /\ u[i] = s[i]
                        \/ i > Len(s) /\ u[i].item = Comment /\ c # <<>>
      OBVIOUS
    <2>1. CASE i <= Len(s) BY <2>1, <1>1, <1>2
    <2>2. CASE i > Len(s)
      <3>1. i - Len(s) \in 1 .. Len(c) BY <2>2, <1>1, <1>2
      <3> QED BY SMTT(30), <3>1, <2>2, <1>1, <1>2
    <2> QED BY <2>1, <2>2, <1>1, <1>2
  <1>4. FromAnswer(u, k) BY <1>3 DEF FromAnswer
  <1>5. InOrder(u)
    <2> SUFFICES ASSUME NEW i \in 1 .. Len(u), NEW j \in 1 .. Len(u), i < j,
                        u[i].item # Comment, u[j].item # Comment
                 PROVE  Sooner(u[i], u[j])
      BY DEF InOrder
    <2>1. i \in 1 .. Len(s) /\ u[i] = s[i] /\ j \in 1 .. Len(s) /\ u[j] = s[j] BY <1>3
    <2> QED BY <2>1 DEF InOrder
  <1>6. Quiet(u)
    <2> SUFFICES ASSUME NEW i \in 1 .. Len(u), NEW j \in 1 .. Len(u), i < j,
                        u[i] = DoneEnd, u[j].item = Comment
                 PROVE  FALSE
      BY DEF Quiet
    <2>0. DoneEnd.item # Comment BY AnswerDone, Sizes DEF Comment, Done
    <2>1. i \in 1 .. Len(s) /\ u[i] = s[i] BY <2>0, <1>3
    <2>2. CASE j \in 1 .. Len(s) /\ u[j] = s[j] BY <2>1, <2>2 DEF Quiet
    <2>3. CASE c # <<>>
      <3>1. PICK h \in 1 .. k : s[i] = Answer[h] BY <2>0, <2>1 DEF FromAnswer
      <3>2. h \in 1 .. Upto(Done) /\ h # Upto(Done) BY <1>2, <2>3
      <3> QED BY <3>1, <3>2, <2>1, AnswerDone
    <2> QED BY <2>2, <2>3, <1>3
  <1> QED BY <1>1, <1>4, <1>5, <1>6 DEF u

\* What holds of the stream holds of its beginning.
LEMMA Beginning ==
    ASSUME NEW s \in Seq(Piece), NEW t \in Seq(Piece), NEW n
    PROVE  /\ Chain(s \o t) => Chain(s)
           /\ FromAnswer(s \o t, n) => FromAnswer(s, n)
           /\ InOrder(s \o t) => InOrder(s)
           /\ Quiet(s \o t) => Quiet(s)
  <1> DEFINE u == s \o t
  <1>1. Len(u) = Len(s) + Len(t) /\ Len(s) \in Nat /\ Len(t) \in Nat
        /\ \A i \in 1 .. Len(s) + Len(t) : u[i] = IF i <= Len(s) THEN s[i] ELSE t[i - Len(s)]
    BY ConcatProperties
  <1> HIDE DEF u
  <1>2. \A i \in 1 .. Len(s) : i \in 1 .. Len(u) /\ u[i] = s[i] BY <1>1
  <1>3. \A i \in 1 .. Len(s) : i # 1 => i - 1 \in 1 .. Len(s) BY <1>1
  <1>4. Chain(u) => Chain(s) BY <1>2, <1>3 DEF Chain
  <1>5. FromAnswer(u, n) => FromAnswer(s, n) BY <1>2 DEF FromAnswer
  <1>6. InOrder(u) => InOrder(s) BY <1>2 DEF InOrder
  <1>7. Quiet(u) => Quiet(s) BY <1>2 DEF Quiet
  <1> QED BY <1>4, <1>5, <1>6, <1>7 DEF u

\* The last piece of two lists is that of the second, if it has one.
LEMMA LastOf ==
    ASSUME NEW s \in Seq(Piece), NEW t \in Seq(Piece)
    PROVE  /\ t # <<>> => s \o t # <<>> /\ Final(s \o t) = Final(t)
           /\ t = <<>> => s \o t = s
  <1>1. Len(s \o t) = Len(s) + Len(t)
        /\ \A i \in 1 .. Len(s) + Len(t) : (s \o t)[i] = IF i <= Len(s) THEN s[i] ELSE t[i - Len(s)]
    BY ConcatProperties
  <1>2. CASE t = <<>> BY <1>2, ConcatEmptySeq
  <1>3. CASE t # <<>>
    <2>1. Len(t) > 0 /\ Len(t) \in Nat /\ Len(s) \in Nat BY <1>3
    <2>2. (s \o t)[Len(s) + Len(t)] = t[Len(s) + Len(t) - Len(s)] BY <1>1, <2>1
    <2> QED BY <1>1, <1>3, <2>1, <2>2 DEF Final
  <1> QED BY <1>2, <1>3

\* Successive pieces of a comment.
LEMMA CommentRun ==
    ASSUME NEW a \in 0 .. Parts, NEW b \in a + 1 .. Parts
    PROVE  LET c == SubSeq(Pieces(Comment), a + 1, b)
           IN  /\ c \in Seq(Piece) /\ c # <<>>
               /\ \A i \in 1 .. Len(c) : c[i].item = Comment
               /\ c[1] = [item |-> Comment, part |-> a + 1]
               /\ Final(c) = [item |-> Comment, part |-> b]
               /\ \A i \in 2 .. Len(c) : Follows(c[i - 1], c[i])
  <1> DEFINE c == SubSeq(Pieces(Comment), a + 1, b)
  <1>0. a \in Nat /\ b \in a .. Parts /\ b - a >= 1 /\ b \in Nat OBVIOUS
  <1>1. /\ c \in Seq(Piece) /\ Len(c) = b - a
        /\ \A i \in 1 .. Len(c) : c[i] = [item |-> Comment, part |-> a + i]
    BY <1>0, CommentPart
  <1> HIDE DEF c
  <1>2. c # <<>> BY <1>0, <1>1
  <1>3. Final(c) = [item |-> Comment, part |-> b]
    <2>1. Len(c) \in 1 .. Len(c) /\ a + Len(c) = b BY <1>0, <1>1
    <2> QED BY <2>1, <1>1 DEF Final
  <1>4. c[1] = [item |-> Comment, part |-> a + 1] BY <1>0, <1>1
  <1>5. ASSUME NEW i \in 2 .. Len(c) PROVE Follows(c[i - 1], c[i])
    <2>1. i - 1 \in 1 .. Len(c) /\ i \in 1 .. Len(c) /\ a + (i - 1) < Parts BY <1>0, <1>1
    <2>2. c[i - 1] = [item |-> Comment, part |-> a + (i - 1)] /\ c[i] = [item |-> Comment, part |-> a + i]
      BY <2>1, <1>1
    <2> QED BY <2>1, <2>2, <1>0 DEF Follows, IsEnd
  <1>6. ASSUME NEW i \in 1 .. Len(c) PROVE c[i].item = Comment
    <2>1. c[i] = [item |-> Comment, part |-> a + i] BY <1>1
    <2> QED BY <2>1
  <1>7. /\ c \in Seq(Piece) /\ c # <<>>
        /\ \A i \in 1 .. Len(c) : c[i].item = Comment
        /\ c[1] = [item |-> Comment, part |-> a + 1]
        /\ Final(c) = [item |-> Comment, part |-> b]
        /\ \A i \in 2 .. Len(c) : Follows(c[i - 1], c[i])
    BY <1>1, <1>2, <1>3, <1>4, <1>5, <1>6, Zenon
  <1> QED BY <1>7, Zenon DEF c

\* What is missing of a comment, if anything is.
LEMMA CutOffRun ==
    ASSUME TypeOK
    PROVE  /\ CutOff \in Seq(Piece)
           /\ \A i \in 1 .. Len(CutOff) : CutOff[i].item = Comment
           /\ \A i \in 2 .. Len(CutOff) : Follows(CutOff[i - 1], CutOff[i])
           /\ offset = 0 => CutOff = <<>>
           /\ offset > 0 => /\ CutOff # <<>>
                            /\ CutOff[1] = [item |-> Comment, part |-> offset + 1]
                            /\ Final(CutOff) = [item |-> Comment, part |-> Parts]
  <1>1. CASE offset = 0 BY <1>1 DEF CutOff
  <1>2. CASE offset > 0
    <2>1. offset \in 0 .. Parts /\ Parts \in offset + 1 .. Parts /\ offset # 0 BY <1>2 DEF TypeOK
    <2> DEFINE c == SubSeq(Pieces(Comment), offset + 1, Parts)
    <2>2. CutOff = c BY <2>1 DEF CutOff
    <2>3. /\ c \in Seq(Piece) /\ c # <<>>
          /\ \A i \in 1 .. Len(c) : c[i].item = Comment
          /\ c[1] = [item |-> Comment, part |-> offset + 1]
          /\ Final(c) = [item |-> Comment, part |-> Parts]
          /\ \A i \in 2 .. Len(c) : Follows(c[i - 1], c[i])
      BY <2>1, CommentRun
    <2> HIDE DEF c
    <2> QED BY <2>1, <2>2, <2>3
  <1> QED BY <1>1, <1>2 DEF TypeOK

-----------------------------------------------------------------------------
(* The line that has begun *)

\* The last item that is complete after n pieces.
LEMMA LastEnd ==
    ASSUME NEW n \in 0 .. Upto(Done)
    PROVE  LET b == Upto(n \div Parts)
           IN  /\ b \in 0 .. n
               /\ b = 0 \/ IsEnd(Answer[b])
               /\ \A i \in b + 1 .. n : ~IsEnd(Answer[i])
  <1> DEFINE q == n \div Parts
             r == n % Parts
             b == Upto(q)
  <1>0. n \in Nat /\ Upto(Done) \in Nat /\ n <= Upto(Done) BY Sizes
  <1>1. q \in Nat /\ r \in 0 .. Parts - 1 /\ n = Parts * q + r BY <1>0, Divided
  <1> HIDE DEF q, r
  <1>2. b \in Nat /\ n = b + r
    <2>1. b = Parts * q /\ b \in Nat BY <1>1 DEF Upto
    <2> QED BY <2>1, <1>1
  <1>3. q <= Done
    <2> SUFFICES ASSUME Done < q PROVE FALSE BY <1>1, Sizes
    <2>1. Upto(Done) + Parts <= Upto(q) BY <1>1, Sizes, Behind
    <2> QED BY <2>1, <1>0, <1>1, <1>2
  <1>4. b = 0 \/ IsEnd(Answer[b])
    <2>1. CASE q = 0 BY <2>1, Sizes
    <2>2. CASE q > 0
      <3>1. q \in 1 .. Done BY <2>2, <1>1, <1>3, Sizes
      <3> QED BY <3>1, AnswerEnds
    <2> QED BY <2>1, <2>2, <1>1
  <1>5. ASSUME NEW i \in b + 1 .. n, IsEnd(Answer[i]) PROVE FALSE
    <2>1. i \in 1 .. Upto(Done) BY <1>0, <1>2
    <2>2. PICK m \in 1 .. Done : i = Upto(m) BY <2>1, <1>5, AnswerEnds
    <2>3. CASE m <= q
      <3>1. CASE m = q BY <3>1, <2>2, <1>2
      <3>2. CASE m < q
        <4>1. Upto(m) + Parts <= Upto(q) /\ m \in Nat BY <3>2, <1>1, Behind
        <4> QED BY <4>1, <2>2, <1>2
      <3> QED BY <3>1, <3>2, <2>3, <1>1
    <2>4. CASE q < m
      <3>1. Upto(q) + Parts <= Upto(m) BY <2>4, <1>1, Behind
      <3> QED BY <3>1, <2>2, <1>0, <1>1, <1>2
    <2> QED BY <2>3, <2>4, <1>1
  <1>6. b \in 0 .. n BY <1>1, <1>2
  <1>7. b \in 0 .. n /\ (b = 0 \/ IsEnd(Answer[b])) /\ \A i \in b + 1 .. n : ~IsEnd(Answer[i])
    BY <1>4, <1>5, <1>6
  <1> QED BY <1>7, Zenon DEF b, q

\* Two parts of the answer that adjoin are one.
LEMMA Adjoin ==
    ASSUME NEW b \in 0 .. Upto(Done), NEW k \in b .. Upto(Done), NEW n \in k .. Upto(Done)
    PROVE  SubSeq(Answer, b + 1, k) \o SubSeq(Answer, k + 1, n) = SubSeq(Answer, b + 1, n)
  <1> DEFINE s == SubSeq(Answer, b + 1, k)
             t == SubSeq(Answer, k + 1, n)
             u == SubSeq(Answer, b + 1, n)
             v == s \o t
  <1>0. b \in Nat /\ k \in Nat /\ n \in Nat /\ b <= k /\ k <= n /\ n \in b .. Upto(Done)
        /\ k \in 0 .. Upto(Done)
    BY Sizes
  <1>1. s \in Seq(Piece) /\ Len(s) = k - b /\ \A i \in 1 .. Len(s) : s[i] = Answer[b + i] BY Chunk
  <1>2. t \in Seq(Piece) /\ Len(t) = n - k /\ \A i \in 1 .. Len(t) : t[i] = Answer[k + i]
    BY <1>0, Chunk
  <1>3. u \in Seq(Piece) /\ Len(u) = n - b /\ \A i \in 1 .. Len(u) : u[i] = Answer[b + i]
    BY <1>0, Chunk
  <1> HIDE DEF s, t, u
  <1>4. v \in Seq(Piece) /\ Len(v) = Len(s) + Len(t)
        /\ \A i \in 1 .. Len(s) + Len(t) : v[i] = IF i <= Len(s) THEN s[i] ELSE t[i - Len(s)]
    BY <1>1, <1>2, ConcatProperties
  <1> HIDE DEF v
  <1>5. ASSUME NEW i \in 1 .. Len(v) PROVE v[i] = u[i]
    <2>1. i \in 1 .. Len(u) BY <1>0, <1>1, <1>2, <1>3, <1>4
    <2>2. CASE i <= Len(s) BY <2>1, <2>2, <1>0, <1>1, <1>3, <1>4
    <2>3. CASE i > Len(s)
      <3>1. i - Len(s) \in 1 .. Len(t) /\ k + (i - Len(s)) = b + i
        BY <2>1, <2>3, <1>0, <1>1, <1>2, <1>3, <1>4
      <3>2. v[i] = t[i - Len(s)] BY <2>3, <1>4
      <3>3. t[i - Len(s)] = Answer[k + (i - Len(s))] BY <3>1, <1>2
      <3>4. u[i] = Answer[b + i] BY <2>1, <1>3
      <3> QED BY <3>1, <3>2, <3>3, <3>4
    <2> QED BY <2>2, <2>3, <2>1, <1>0, <1>1
  <1>6. Len(v) = Len(u) BY SMTT(30), <1>0, <1>1, <1>2, <1>3, <1>4
  <1>7. v = u BY <1>3, <1>4, <1>5, <1>6, SeqEqual
  <1> QED BY <1>7 DEF s, t, u, v

\* What is left of a line behind a chunk, and that the chunk the marker ends in
\* is recognised, whichever way it was cut.
LEMMA Forwarded ==
    ASSUME NEW k \in 0 .. Upto(Done), NEW n \in k + 1 .. Upto(Done), NEW b \in 0 .. k,
           line = SubSeq(Answer, b + 1, k),
           b = 0 \/ IsEnd(Answer[b]),
           \A i \in b + 1 .. k : ~IsEnd(Answer[i])
    PROVE  LET chunk == SubSeq(Answer, k + 1, n)
           IN  /\ Unfinished(chunk) = SubSeq(Answer, Upto(n \div Parts) + 1, n)
               /\ n = Upto(Done) => HasDone(chunk)
  <1> DEFINE chunk == SubSeq(Answer, k + 1, n)
             seen == SubSeq(Answer, b + 1, n)
             e == Upto(n \div Parts)
             cut == {i \in 0 .. Len(seen) : i = 0 \/ IsEnd(seen[i])}
             last == CHOOSE i \in cut : \A j \in cut : j <= i
  <1>0. /\ b \in Nat /\ k \in Nat /\ n \in Nat /\ b <= k /\ k < n /\ n <= Upto(Done) /\ Upto(Done) \in Nat
        /\ b \in 0 .. Upto(Done) /\ n \in b .. Upto(Done) /\ k \in b .. Upto(Done)
        /\ n \in k .. Upto(Done) /\ n \in 0 .. Upto(Done)
    BY Sizes
  <1>1. line \o chunk = seen BY <1>0, Adjoin
  <1>2. seen \in Seq(Piece) /\ Len(seen) = n - b /\ \A i \in 1 .. Len(seen) : seen[i] = Answer[b + i]
    BY <1>0, Chunk
  <1>3. e \in 0 .. n /\ (e = 0 \/ IsEnd(Answer[e])) /\ \A i \in e + 1 .. n : ~IsEnd(Answer[i])
    BY <1>0, LastEnd
  <1> HIDE DEF e
  <1>4. b <= e
    <2> SUFFICES ASSUME e < b PROVE FALSE BY <1>0, <1>3
    <2>1. b \in e + 1 .. n /\ b # 0 BY <1>0, <1>3
    <2> QED BY <2>1, <1>3
  <1> HIDE DEF seen, chunk
  <1>5. e - b \in cut
    <2>1. e - b \in 0 .. Len(seen) BY <1>0, <1>2, <1>3, <1>4
    <2>2. CASE e - b = 0 BY <2>1, <2>2
    <2>3. CASE e - b > 0
      <3>1. e - b \in 1 .. Len(seen) /\ b + (e - b) = e /\ e # 0 BY <2>1, <2>3, <1>0, <1>3
      <3> QED BY <3>1, <2>1, <1>2, <1>3 DEF IsEnd
    <2> QED BY <2>1, <2>2, <2>3, <1>2
  <1>6. \A j \in cut : j <= e - b
    <2> SUFFICES ASSUME NEW j \in cut, j > e - b PROVE FALSE BY <1>0, <1>2, <1>3
    <2>1. j \in 1 .. Len(seen) /\ b + j \in e + 1 .. n BY SMTT(30), <1>0, <1>2, <1>3, <1>4
    <2>2. IsEnd(Answer[b + j]) BY <2>1, <1>2 DEF IsEnd
    <2> QED BY <2>1, <2>2, <1>3
  <1>7. last = e - b
    <2>1. last \in cut /\ \A j \in cut : j <= last
      <3> HIDE DEF cut
      <3> QED BY <1>5, <1>6
    <2>2. last <= e - b /\ e - b <= last
      <3> HIDE DEF cut, last
      <3> QED BY <2>1, <1>5, <1>6
    <2>3. last \in Int
      <3>1. \A j \in cut : j \in Int BY <1>2, <1>0
      <3> HIDE DEF cut, last
      <3> QED BY <2>1, <3>1
    <2> HIDE DEF last
    <2> QED BY <2>2, <2>3, <1>0, <1>3
  <1>8. Unfinished(chunk) = SubSeq(seen, last + 1, Len(seen)) BY <1>1 DEF Unfinished
  <1>9. SubSeq(seen, last + 1, Len(seen)) = SubSeq(Answer, e + 1, n)
    <2> DEFINE s == SubSeq(seen, e - b + 1, n - b)
               t == SubSeq(Answer, e + 1, n)
    <2>1. t \in Seq(Piece) /\ Len(t) = n - e /\ \A i \in 1 .. Len(t) : t[i] = Answer[e + i]
      <3>1. e \in 0 .. Upto(Done) /\ n \in e .. Upto(Done) BY <1>0, <1>3
      <3> QED BY <3>1, Chunk
    <2>2. \A i \in e - b + 1 .. n - b : seen[i] \in Piece BY <1>0, <1>2, <1>3, <1>4
    <2>3. /\ s \in Seq(Piece) /\ Len(s) = IF e - b + 1 <= n - b THEN n - b - (e - b + 1) + 1 ELSE 0
          /\ \A i \in 1 .. n - b - (e - b + 1) + 1 : s[i] = seen[e - b + 1 + i - 1]
      <3>1. e - b + 1 \in Int /\ n - b \in Int BY <1>0, <1>3
      <3> QED BY SMTT(30), <3>1, <2>2, SubSeqProperties
    <2> HIDE DEF s, t
    <2>4. Len(s) = Len(t) BY <2>1, <2>3, <1>0, <1>3
    <2>5. ASSUME NEW i \in 1 .. Len(s) PROVE s[i] = t[i]
      <3>1. i \in 1 .. n - b - (e - b + 1) + 1 /\ e - b + 1 + i - 1 = e - b + i /\ e - b + i \in 1 .. Len(seen)
            /\ b + (e - b + i) = e + i
        BY <2>1, <2>4, <1>0, <1>2, <1>3, <1>4
      <3>2. s[i] = seen[e - b + i] BY <3>1, <2>3
      <3>3. seen[e - b + i] = Answer[b + (e - b + i)] BY <3>1, <1>2
      <3>4. t[i] = Answer[e + i] BY <2>1, <2>4
      <3> QED BY <3>1, <3>2, <3>3, <3>4
    <2>6. s = t BY <2>1, <2>3, <2>4, <2>5, SeqEqual
    <2> HIDE DEF last
    <2> QED BY <2>6, <1>2, <1>7 DEF s, t
  <1>10. ASSUME n = Upto(Done) PROVE HasDone(chunk)
    <2> DEFINE f == Upto(Frames)
               i == f - b + 1
               s == SubSeq(seen, i, i + Parts - 1)
    <2>0. f \in Nat /\ b \in Nat /\ Parts \in Nat /\ f + Parts = n /\ Len(seen) = f + Parts - b
      BY <1>0, <1>2, <1>10, Sizes
    <2>1. b <= f
      <3>1. CASE b = 0 BY <3>1, <2>0
      <3>2. CASE b # 0
        <4>1. b \in 1 .. Upto(Done) /\ IsEnd(Answer[b]) BY <3>2, <1>0
        <4>2. PICK m \in 1 .. Done : b = Upto(m) BY <4>1, AnswerEnds
        <4>3. m # Done BY <4>2, <1>0, <1>10
        <4>4. m \in Nat /\ m <= Frames /\ Frames \in Nat BY <4>3, Sizes DEF Done
        <4>5. CASE m = Frames BY <4>5, <4>2, <2>0
        <4>6. CASE m < Frames
          <5>1. Upto(m) \in Nat /\ Upto(m) + Parts <= Upto(Frames) BY <4>4, <4>6, Behind
          <5> QED BY <5>1, <4>2, <2>0
        <4> QED BY <4>4, <4>5, <4>6
      <3> QED BY <3>1, <3>2
    <2> HIDE DEF f
    <2>2. i \in 1 .. Len(seen) /\ i + Parts - 1 = Len(seen) /\ i \in Int /\ i + Parts - 1 \in Int
          /\ i + Parts - 1 - i + 1 = Parts /\ i <= i + Parts - 1
      BY <2>0, <2>1
    <2>3. \A j \in i .. i + Parts - 1 : seen[j] \in Piece BY SMTT(30), <2>2, <1>2
    <2>4. /\ s \in Seq(Piece) /\ Len(s) = Parts
          /\ \A p \in 1 .. Parts : s[p] = seen[i + p - 1]
      <3> HIDE DEF i
      <3> QED BY <2>2, <2>3, SubSeqProperties
    <2>5. \A p \in 1 .. Parts : s[p] = [item |-> Done, part |-> p]
      <3> SUFFICES ASSUME NEW p \in 1 .. Parts PROVE s[p] = [item |-> Done, part |-> p] OBVIOUS
      <3>1. i + p - 1 \in 1 .. Len(seen) BY <2>0, <2>1
      <3>2. b + (i + p - 1) = f + p BY <2>0, <1>0
      <3>3. Answer[f + p] = [item |-> Done, part |-> p]
        <4>1. Done \in 1 .. Done /\ Done - 1 = Frames BY Sizes DEF Done
        <4>2. Answer[Upto(Done - 1) + p] = [item |-> Done, part |-> p] BY <4>1, AnswerAt
        <4> QED BY <4>1, <4>2 DEF f
      <3> HIDE DEF i, s
      <3>4. s[p] = seen[i + p - 1] BY <2>4
      <3>5. seen[i + p - 1] = Answer[b + (i + p - 1)] BY <3>1, <1>2
      <3> QED BY <3>2, <3>3, <3>4, <3>5
    <2>6. s = Pieces(Done)
      <3> HIDE DEF s
      <3>1. s = [p \in 1 .. Parts |-> s[p]] BY <2>4
      <3> QED BY <3>1, <2>5 DEF Pieces
    <2>7. i \in 1 .. Len(seen) /\ i + Parts - 1 <= Len(seen) /\ SubSeq(seen, i, i + Parts - 1) = Pieces(Done)
      BY <2>0, <2>2, <2>6
    <2> HIDE DEF i, s
    <2>8. \E j \in 1 .. Len(seen) : j + Parts - 1 <= Len(seen) /\ SubSeq(seen, j, j + Parts - 1) = Pieces(Done)
      BY <2>7
    <2> QED BY <2>8, <1>1 DEF HasDone
  <1>11. Unfinished(chunk) = SubSeq(Answer, e + 1, n) BY <1>8, <1>9
  <1>12. Unfinished(chunk) = SubSeq(Answer, e + 1, n) /\ (n = Upto(Done) => HasDone(chunk)) BY <1>10, <1>11
  <1> QED BY <1>12, Zenon DEF chunk, e

-----------------------------------------------------------------------------
(* The invariant *)

\* The worker hands over the answer up to n, behind a comment it completes.
LEMMA Sending ==
    ASSUME IInv, NEW n \in next + 1 .. Upto(Done),
           Send(SubSeq(Answer, next + 1, n)), next' = n, UNCHANGED <<proxy, wire, left>>,
           ~proxy => \E m \in 0 .. Done : n = Upto(m)
    PROVE  /\ out' \in Seq(Piece) /\ offset' = 0
           /\ Whole' /\ FromAnswer(Stream', n) /\ InOrder(Stream') /\ Quiet(Stream')
           /\ Stream' # <<>> /\ Final(Stream') = Answer[n]
  <1> DEFINE t == SubSeq(Answer, next + 1, n)
             u == wire \o CutOff
  <1>1. /\ next \in 0 .. Upto(Done) /\ n \in next .. Upto(Done) /\ next < Upto(Done) /\ next < n
        /\ next \in Nat /\ n \in Nat /\ n \in 1 .. Upto(Done)
    BY Sizes DEF IInv, TypeOK
  <1>2. wire \in Seq(Piece) /\ ~left /\ Stream = wire /\ out = <<>>
    BY ConcatEmptySeq DEF IInv, TypeOK, Send, WriteMuFree, Stream
  <1>3. /\ t \in Seq(Piece) /\ Len(t) = n - next
        /\ \A i \in 1 .. Len(t) : t[i] = Answer[next + i] /\ next + i \in next + 1 .. n
    BY <1>1, Chunk
  <1> HIDE DEF t
  <1>4. /\ CutOff \in Seq(Piece)
        /\ \A i \in 1 .. Len(CutOff) : CutOff[i].item = Comment
        /\ \A i \in 2 .. Len(CutOff) : Follows(CutOff[i - 1], CutOff[i])
        /\ offset = 0 => CutOff = <<>>
        /\ offset > 0 => /\ CutOff # <<>>
                         /\ CutOff[1] = [item |-> Comment, part |-> offset + 1]
                         /\ Final(CutOff) = [item |-> Comment, part |-> Parts]
    BY CutOffRun DEF IInv
  <1>5. u \in Seq(Piece) /\ FromAnswer(u, next) /\ InOrder(u) /\ Quiet(u)
    BY <1>1, <1>2, <1>4, GrowComment DEF IInv
  <1>6. u \o t \in Seq(Piece) /\ FromAnswer(u \o t, n) /\ InOrder(u \o t) /\ Quiet(u \o t)
    BY <1>1, <1>5, GrowAnswer DEF t
  <1>7. out' = CutOff \o t /\ offset' = 0 /\ wire' = wire /\ proxy' = proxy /\ left' = left BY DEF Send, t
  <1>8. Stream' = u \o t
    <2>1. (wire \o CutOff) \o t = wire \o (CutOff \o t)
      <3>1. wire \in Seq(Piece) /\ CutOff \in Seq(Piece) /\ t \in Seq(Piece) BY <1>2, <1>3, <1>4
      <3> HIDE DEF CutOff, Piece
      <3> QED BY <3>1, ConcatAssociative
    <2> QED BY <2>1, <1>7 DEF Stream, u
  <1>9. t # <<>> /\ t[1] = Answer[next + 1] /\ Final(t) = Answer[n]
    <2>1. Len(t) \in 1 .. Len(t) /\ 1 \in 1 .. Len(t) /\ next + Len(t) = n BY <1>1, <1>3
    <2> QED BY <2>1, <1>3 DEF Final
  <1> HIDE DEF u
  <1>10. Stream' # <<>> /\ Final(Stream') = Answer[n] BY <1>3, <1>5, <1>8, <1>9, LastOf
  <1>11. out' \in Seq(Piece)
    BY <1>3, <1>4, <1>7, ConcatProperties
  <1>12. ASSUME ~proxy PROVE Chain(Stream') /\ IsEnd(Final(Stream'))
    <2>1. Chain(wire) BY <1>2, <1>12 DEF IInv, Whole
    <2>2. Continues(wire, CutOff)
      <3>1. CASE offset = 0
        <4>1. Len(CutOff) = 0 BY <1>4, <3>1
        <4> QED BY <1>4, <3>1, <4>1 DEF Continues
      <3>2. CASE offset > 0
        <4>1. wire # <<>> /\ Final(wire) = [item |-> Comment, part |-> offset] /\ offset < Parts
          BY <3>2, <1>2 DEF IInv, Whole, TypeOK
        <4>2. Follows(Final(wire), CutOff[1]) BY <4>1, <1>4, <3>2 DEF Follows, IsEnd
        <4> QED BY <4>1, <4>2, <1>4 DEF Continues
      <3> QED BY <3>1, <3>2 DEF IInv, TypeOK
    <2>3. Chain(u) BY <1>2, <1>4, <2>1, <2>2, ChainJoins DEF u
    <2>4. u = <<>> \/ IsEnd(Final(u))
      <3>1. CASE offset = 0
        <4>1. u = wire BY <3>1, <1>2, <1>4, LastOf DEF u
        <4> QED BY <4>1, <3>1, <1>2, <1>12 DEF IInv, Whole
      <3>2. CASE offset > 0
        <4>1. Final(u) = [item |-> Comment, part |-> Parts] BY <3>2, <1>2, <1>4, LastOf DEF u
        <4> QED BY <4>1 DEF IsEnd
      <3> QED BY <3>1, <3>2 DEF IInv, TypeOK
    <2>5. Answer[next + 1].part = 1
      <3>1. PICK m \in 0 .. Done : next = Upto(m) BY <1>12 DEF IInv, Place
      <3>2. CASE m = 0 BY <3>1, <3>2, Sizes, AnswerChain
      <3>3. CASE m > 0
        <4>1. IsEnd(Answer[next]) /\ next \in 1 .. Upto(Done) BY <3>1, <3>3, Sizes, AnswerEnds
        <4> QED BY <4>1, <1>1, AnswerGoesOn
      <3> QED BY <3>2, <3>3, Sizes
    <2>6. Continues(u, t)
      <3>1. \A i \in 2 .. Len(t) : Follows(t[i - 1], t[i]) BY <1>1, ChunkChain DEF t
      <3>2. IF u = <<>> THEN t[1].part = 1 ELSE Follows(Final(u), t[1])
        BY <2>4, <2>5, <1>9 DEF Follows
      <3> QED BY <3>1, <3>2 DEF Continues
    <2>7. Chain(u \o t) BY <1>3, <1>5, <2>3, <2>6, ChainJoins
    <2>8. IsEnd(Answer[n])
      <3>1. PICK m \in 0 .. Done : n = Upto(m) BY <1>12
      <3>2. m \in 1 .. Done BY <3>1, <1>1, Sizes
      <3> QED BY <3>1, <3>2, AnswerEnds
    <2> QED BY <2>7, <2>8, <1>8, <1>10
  <1>13. Whole' BY <1>7, <1>12 DEF Whole
  <1> QED BY <1>6, <1>7, <1>8, <1>10, <1>11, <1>13

\* Nothing has been written at the start.
LEMMA Begun == Init => IInv
  <1> SUFFICES ASSUME Init PROVE IInv OBVIOUS
  <1>0. next = 0 /\ wire = <<>> /\ out = <<>> /\ line = <<>> /\ offset = 0 /\ pc = "headers" /\ ~ready /\ ~left
    BY DEF Init
  <1>1. Stream = <<>> BY <1>0 DEF Stream
  <1>2. TypeOK
    <2>1. 0 \in 0 .. Upto(Done) /\ 0 \in 0 .. Parts - 1 BY Sizes
    <2>2. <<>> \in Seq(Piece) BY EmptySeq
    <2> QED BY <1>0, <2>1, <2>2 DEF Init, TypeOK
  <1>3. Whole BY <1>0, <1>1 DEF Whole, Chain
  <1>4. FromAnswer(Stream, next) /\ InOrder(Stream) /\ Quiet(Stream)
    BY <1>1 DEF FromAnswer, InOrder, Quiet
  <1>5. Place BY <1>0, Sizes DEF Place
  <1>6. LineShape /\ Ended BY <1>0 DEF LineShape, Ended
  <1> QED BY <1>2, <1>3, <1>4, <1>5, <1>6 DEF IInv

\* A piece is sent: it passes from what is to be written to what is written.
LEMMA Passed ==
    ASSUME NEW s \in Seq(Piece), NEW t \in Seq(Piece), t # <<>>
    PROVE  /\ Append(s, Head(t)) \in Seq(Piece) /\ Tail(t) \in Seq(Piece)
           /\ Append(s, Head(t)) \o Tail(t) = s \o t
  <1> DEFINE a == Append(s, Head(t))
             b == Tail(t)
             u == a \o b
             v == s \o t
  <1>0. Len(s) \in Nat /\ Len(t) \in Nat /\ Len(t) > 0 BY EmptySeq
  <1>1. Head(t) \in Piece /\ Head(t) = t[1] BY HeadTailProperties
  <1>2. b \in Seq(Piece) /\ Len(b) = Len(t) - 1 /\ \A i \in 1 .. Len(b) : b[i] = t[i + 1]
    BY HeadTailProperties
  <1>3. /\ a \in Seq(Piece) /\ Len(a) = Len(s) + 1
        /\ \A i \in 1 .. Len(s) : a[i] = s[i]
        /\ a[Len(s) + 1] = t[1]
    BY <1>1, AppendProperties
  <1> HIDE DEF a, b
  <1>4. /\ u \in Seq(Piece) /\ Len(u) = Len(a) + Len(b)
        /\ \A i \in 1 .. Len(a) + Len(b) : u[i] = IF i <= Len(a) THEN a[i] ELSE b[i - Len(a)]
    BY <1>2, <1>3, ConcatProperties
  <1>5. /\ v \in Seq(Piece) /\ Len(v) = Len(s) + Len(t)
        /\ \A i \in 1 .. Len(s) + Len(t) : v[i] = IF i <= Len(s) THEN s[i] ELSE t[i - Len(s)]
    BY ConcatProperties
  <1> HIDE DEF u, v
  <1>6. Len(u) = Len(v) BY <1>0, <1>2, <1>3, <1>4, <1>5
  <1>7. ASSUME NEW i \in 1 .. Len(u) PROVE u[i] = v[i]
    <2>0. /\ i \in 1 .. Len(a) + Len(b) /\ i \in 1 .. Len(s) + Len(t) /\ i \in Nat
          /\ Len(a) = Len(s) + 1 /\ Len(b) = Len(t) - 1
      BY <1>0, <1>2, <1>3, <1>4
    <2>1. CASE i <= Len(s)
      <3>1. i \in 1 .. Len(s) /\ i <= Len(a) BY <2>0, <2>1, <1>0
      <3>2. u[i] = a[i] /\ v[i] = s[i] BY <2>0, <3>1, <2>1, <1>4, <1>5
      <3> QED BY <3>1, <3>2, <1>3
    <2>2. CASE i = Len(s) + 1
      <3>1. i <= Len(a) /\ ~(i <= Len(s)) /\ i - Len(s) = 1 BY <2>0, <2>2, <1>0
      <3>2. u[i] = a[i] /\ v[i] = t[i - Len(s)] BY <2>0, <3>1, <1>4, <1>5
      <3> QED BY <3>1, <3>2, <2>2, <1>3
    <2>3. CASE i > Len(s) + 1
      <3>1. i - Len(a) \in 1 .. Len(b) /\ i - Len(a) + 1 = i - Len(s) /\ ~(i <= Len(a)) /\ ~(i <= Len(s))
        BY <2>0, <2>3, <1>0
      <3>2. u[i] = b[i - Len(a)] BY <2>0, <3>1, <1>4
      <3>3. v[i] = t[i - Len(s)] BY <2>0, <3>1, <1>5
      <3> QED BY <3>1, <3>2, <3>3, <1>2
    <2> QED BY <2>0, <2>1, <2>2, <2>3, <1>0
  <1>8. u = v BY <1>4, <1>5, <1>6, <1>7, SeqEqual
  <1> QED BY <1>2, <1>3, <1>8 DEF a, b, u, v

\* Every step of either writer keeps the invariant.
LEMMA Kept ==
    ASSUME IInv, Next
    PROVE  IInv'
  <1> USE DEF IInv
  <1>0. /\ TypeOK /\ Whole /\ FromAnswer(Stream, next) /\ InOrder(Stream) /\ Quiet(Stream)
        /\ Place /\ LineShape /\ Ended
        /\ next \in Nat /\ next \in 0 .. Upto(Done) /\ wire \in Seq(Piece) /\ out \in Seq(Piece)
    BY Sizes DEF TypeOK
  <1> USE DEF TypeOK
  <1>1. CASE WritePiece
    <2>1. wire' \in Seq(Piece) /\ out' \in Seq(Piece) /\ Stream' = Stream
      BY <1>0, <1>1, Passed DEF WritePiece, Stream
    <2>2. out # <<>> /\ UNCHANGED <<proxy, pc, next, ready, offset, left, line>>
      BY <1>1 DEF WritePiece
    <2>3. TypeOK' BY <1>0, <2>1, <2>2
    <2>4. Whole' BY <1>0, <2>1, <2>2 DEF Whole
    <2>5. FromAnswer(Stream', next') /\ InOrder(Stream') /\ Quiet(Stream') BY <1>0, <2>1, <2>2
    <2>6. Place' /\ LineShape' BY <1>0, <2>2 DEF Place, LineShape, LineFrom
    <2>7. Ended' BY <1>0, <2>1, <2>2 DEF Ended
    <2> QED BY <2>3, <2>4, <2>5, <2>6, <2>7
  <1>2. CASE WriteFails
    <2>1. out' = <<>> /\ left' /\ UNCHANGED <<proxy, pc, next, wire, ready, offset, line>>
      BY <1>2 DEF WriteFails
    <2>2. Stream' = wire BY <1>0, <2>1, ConcatEmptySeq DEF Stream
    <2>3. TypeOK' BY <1>0, <1>2, <2>1 DEF WriteFails
    <2>4. Whole' BY <1>0, <2>1, <2>2, Beginning DEF Whole, Stream
    <2>5. FromAnswer(Stream', next') /\ InOrder(Stream') /\ Quiet(Stream')
      BY <1>0, <2>1, <2>2, Beginning DEF Stream
    <2>6. Place' /\ LineShape' BY <1>0, <2>1 DEF Place, LineShape, LineFrom
    <2>7. Ended' BY <1>0, <2>1 DEF Ended
    <2> QED BY <2>3, <2>4, <2>5, <2>6, <2>7
  <1>3. CASE SendHeaders
    <2>1. /\ pc = "headers" /\ next = 0 /\ next' = Upto(1) /\ UNCHANGED <<proxy, pc, wire, ready, left, line>>
          /\ Send(SubSeq(Answer, next + 1, Upto(1)))
      BY <1>3 DEF SendHeaders
    <2>2. Upto(1) \in next + 1 .. Upto(Done) /\ Upto(1) # Upto(Done) BY <2>1, Sizes
    <2>3. 1 \in 0 .. Done BY Sizes DEF Done
    <2>4. /\ out' \in Seq(Piece) /\ offset' = 0
          /\ Whole' /\ FromAnswer(Stream', Upto(1)) /\ InOrder(Stream') /\ Quiet(Stream')
      BY <1>0, <2>1, <2>2, <2>3, Sending
    <2>5. TypeOK' BY <1>0, <2>1, <2>2, <2>4, Sizes
    <2>6. Place' BY <1>0, <2>1, <2>2, <2>3, <2>4 DEF Place
    <2>7. LineShape' /\ Ended' BY <2>1 DEF LineShape, Ended
    <2> QED BY <2>1, <2>4, <2>5, <2>6, <2>7
  <1>4. CASE StartStream
    <2>1. /\ pc = "headers" /\ next = Upto(1) /\ out = <<>> /\ pc' = "stream" /\ ready' = ~left
          /\ UNCHANGED <<proxy, next, out, wire, left, line>>
      BY <1>4 DEF StartStream, WriteMuFree
    <2>2. offset = 0 /\ offset' = 0 /\ line = <<>> BY <1>0, <1>4, <2>1 DEF StartStream, Place
    <2>3. Stream' = Stream BY <2>1 DEF Stream
    <2>4. TypeOK' BY <1>0, <2>1, <2>2
    <2>5. Whole' BY <1>0, <2>1, <2>2, <2>3 DEF Whole
    <2>6. FromAnswer(Stream', next') /\ InOrder(Stream') /\ Quiet(Stream') BY <1>0, <2>1, <2>3
    <2>7. Place' BY <1>0, <2>1, <2>2, Sizes DEF Place
    <2>8. LineShape'
      <3>1. 1 \in 1 .. Done BY Sizes DEF Done
      <3>2. next \in 0 .. next /\ IsEnd(Answer[next]) BY <1>0, <2>1, <3>1, AnswerEnds
      <3>3. next \in 0 .. Upto(Done) /\ next \in next .. Upto(Done) BY <1>0, Sizes
      <3>4. Len(SubSeq(Answer, next + 1, next)) = next - next /\ SubSeq(Answer, next + 1, next) \in Seq(Piece)
        BY <3>3, Chunk
      <3>5. SubSeq(Answer, next + 1, next) = <<>> BY <1>0, <3>4, EmptySeq
      <3>6. \A i \in next + 1 .. next : ~IsEnd(Answer[i]) BY <1>0
      <3>7. (next \in 0 .. next /\ LineFrom(next))'
        BY <2>1, <2>2, <3>2, <3>5, <3>6 DEF LineFrom
      <3> QED BY <3>7 DEF LineShape
    <2>9. Ended' BY <2>1 DEF Ended
    <2> QED BY <2>4, <2>5, <2>6, <2>7, <2>8, <2>9
  <1>5. CASE SendToken
    <2>1. /\ pc = "stream" /\ ~proxy /\ next < Upto(Frames) /\ next' = next + Parts
          /\ UNCHANGED <<proxy, pc, wire, ready, left, line>>
          /\ Send(SubSeq(Answer, next + 1, next + Parts))
      BY <1>5 DEF SendToken
    <2>2. PICK m \in 0 .. Done : next = Upto(m) BY <1>0, <2>1 DEF Place
    <2>3. m < Frames
      <3>1. m \in Nat /\ Frames \in Nat BY <2>2, Sizes
      <3>2. CASE m = Frames BY <3>2, <2>1, <2>2, <1>0
      <3>3. CASE Frames < m
        <4>1. Upto(Frames) + Parts <= Upto(m) BY <3>1, <3>3, Behind
        <4> QED BY <4>1, <2>1, <2>2, <1>0, Sizes
      <3> QED BY <3>1, <3>2, <3>3
    <2>4. next + Parts = Upto(m + 1) /\ next + Parts <= Upto(Frames) /\ m + 1 \in 0 .. Done
      BY <2>2, <2>3, Behind DEF Done
    <2>5. next + Parts \in next + 1 .. Upto(Done) /\ next + Parts # Upto(Done)
      BY <1>0, <2>4, Sizes
    <2>6. /\ out' \in Seq(Piece) /\ offset' = 0
          /\ Whole' /\ FromAnswer(Stream', next + Parts) /\ InOrder(Stream') /\ Quiet(Stream')
      BY <1>0, <2>1, <2>4, <2>5, Sending
    <2>7. TypeOK' BY <1>0, <2>1, <2>5, <2>6, Sizes
    <2>8. Place' BY <1>0, <2>1, <2>4, <2>5, <2>6 DEF Place
    <2>9. LineShape' /\ Ended' BY <2>1 DEF LineShape, Ended
    <2> QED BY <2>1, <2>6, <2>7, <2>8, <2>9
  <1>6. CASE EndTokens
    <2>1. /\ pc = "stream" /\ (proxy => next = Upto(1)) /\ out = <<>> /\ pc' = "final" /\ ~ready'
          /\ ready' \in BOOLEAN
          /\ next' = Upto(Frames) /\ UNCHANGED <<proxy, out, wire, offset, left, line>>
      BY <1>6 DEF EndTokens, WriteMuFree
    <2>2. next <= Upto(Frames) BY <1>0, <2>1, Sizes DEF Place
    <2>3. Stream' = Stream BY <2>1 DEF Stream
    <2>4. TypeOK' BY <1>0, <2>1, Sizes
    <2>5. Whole' BY <1>0, <2>1, <2>3 DEF Whole
    <2>6. FromAnswer(Stream, Upto(Frames))
      <3>1. \A h \in 1 .. next : h \in 1 .. Upto(Frames) BY <1>0, <2>2, Sizes
      <3> QED BY <1>0, <3>1 DEF FromAnswer
    <2>7. Frames \in 0 .. Done /\ Upto(Frames) # Upto(Done) BY Sizes DEF Done
    <2>8. Place' BY <1>0, <2>1, <2>7 DEF Place
    <2>9. LineShape' /\ Ended' BY <2>1, <2>7 DEF LineShape, Ended
    <2> QED BY <1>0, <2>1, <2>3, <2>4, <2>5, <2>6, <2>8, <2>9
  <1>7. CASE SendDone
    <2>1. /\ pc = "final" /\ next = Upto(Frames) /\ next' = Upto(Done)
          /\ UNCHANGED <<proxy, pc, wire, ready, left, line>>
          /\ Send(SubSeq(Answer, next + 1, Upto(Done)))
      BY <1>7 DEF SendDone
    <2>2. Upto(Done) \in next + 1 .. Upto(Done) /\ Done \in 0 .. Done BY <2>1, Sizes
    <2>3. /\ out' \in Seq(Piece) /\ offset' = 0
          /\ Whole' /\ FromAnswer(Stream', Upto(Done)) /\ InOrder(Stream') /\ Quiet(Stream')
          /\ Stream' # <<>> /\ Final(Stream') = Answer[Upto(Done)]
      BY <1>0, <2>1, <2>2, Sending
    <2>4. TypeOK' BY <1>0, <2>1, <2>3, Sizes
    <2>5. Place' BY <1>0, <2>1, <2>2, <2>3 DEF Place
    <2>6. Answer[Upto(Done)] = DoneEnd
      <3>1. Upto(Done) \in 1 .. Upto(Done) BY Sizes
      <3> QED BY <3>1, AnswerDone
    <2>7. LineShape' /\ Ended' BY <2>1, <2>3, <2>6 DEF LineShape, Ended
    <2> QED BY <2>1, <2>3, <2>4, <2>5, <2>7
  <1>8. ASSUME NEW k \in 1 .. Done * Parts, ForwardChunk(k) PROVE IInv'
    <2> DEFINE n == next + k
               chunk == SubSeq(Answer, next + 1, n)
    <2>1. /\ pc = "stream" /\ proxy /\ n <= Upto(Done) /\ next' = n
          /\ Send(chunk) /\ ready' = (ready /\ ~HasDone(chunk)) /\ line' = Unfinished(chunk)
          /\ UNCHANGED <<proxy, pc, wire, left>>
      BY <1>8 DEF ForwardChunk
    <2>2. n \in next + 1 .. Upto(Done) /\ n \in 0 .. Upto(Done) /\ k \in Nat
      BY <1>0, <2>1, Sizes DEF Upto
    <2>3. PICK b \in 0 .. next : LineFrom(b) BY <1>0, <2>1 DEF LineShape
    <2>4. Unfinished(chunk) = SubSeq(Answer, Upto(n \div Parts) + 1, n) /\ (n = Upto(Done) => HasDone(chunk))
      BY <1>0, <2>2, <2>3, Forwarded DEF LineFrom
    <2> HIDE DEF n
    <2>5. /\ out' \in Seq(Piece) /\ offset' = 0
          /\ Whole' /\ FromAnswer(Stream', n) /\ InOrder(Stream') /\ Quiet(Stream')
      BY <1>0, <2>1, <2>2, Sending
    <2>6. /\ Upto(n \div Parts) \in 0 .. n
          /\ Upto(n \div Parts) = 0 \/ IsEnd(Answer[Upto(n \div Parts)])
          /\ \A i \in Upto(n \div Parts) + 1 .. n : ~IsEnd(Answer[i])
      BY <2>2, LastEnd
    <2>7. LineShape'
      <3>1. PICK e : /\ e \in 0 .. n /\ (e = 0 \/ IsEnd(Answer[e])) /\ \A i \in e + 1 .. n : ~IsEnd(Answer[i])
                     /\ line' = SubSeq(Answer, e + 1, n) /\ next' = n
        BY <2>1, <2>4, <2>6
      <3>2. (e \in 0 .. next /\ LineFrom(e))' BY <3>1 DEF LineFrom
      <3> QED BY <3>2 DEF LineShape
    <2>8. line' \in Seq(Piece)
      <3> DEFINE e == Upto(n \div Parts)
      <3> HIDE DEF e
      <3>1. e \in 0 .. n /\ n \in 0 .. Upto(Done) /\ Upto(Done) \in Nat BY <2>2, <2>6, Sizes DEF e
      <3>2. e \in 0 .. Upto(Done) /\ n \in e .. Upto(Done) BY <3>1
      <3>3. SubSeq(Answer, e + 1, n) \in Seq(Piece) BY <3>2, Chunk
      <3> QED BY <2>1, <2>4, <3>3 DEF e
    <2>9. TypeOK' BY <1>0, <2>1, <2>2, <2>5, <2>8
    <2>10. Place' BY <1>0, <2>1, <2>4, <2>5 DEF Place
    <2>11. Ended' BY <2>1 DEF Ended
    <2> QED BY <2>1, <2>5, <2>7, <2>9, <2>10, <2>11
  <1>9. CASE EndForward
    <2>1. /\ pc = "stream" /\ proxy /\ out = <<>> /\ pc' = "forwarded" /\ ~ready' /\ ready' \in BOOLEAN
          /\ UNCHANGED <<proxy, next, out, wire, offset, left, line>>
      BY <1>9 DEF EndForward, WriteMuFree
    <2>2. Stream' = Stream BY <2>1 DEF Stream
    <2>3. TypeOK' BY <1>0, <2>1
    <2>4. Whole' BY <1>0, <2>1, <2>2 DEF Whole
    <2>5. Place' BY <1>0, <2>1 DEF Place
    <2>6. LineShape' /\ Ended' BY <2>1 DEF LineShape, Ended
    <2> QED BY <1>0, <2>1, <2>2, <2>3, <2>4, <2>5, <2>6
  <1>10. CASE Finish
    <2>1. /\ out = <<>> /\ pc' = "finished" /\ ~ready' /\ ready' \in BOOLEAN
          /\ left \/ pc = "forwarded" \/ (pc = "final" /\ next = Upto(Done))
          /\ UNCHANGED <<proxy, next, out, wire, offset, left, line>>
      BY <1>10 DEF Finish, WriteMuFree
    <2>2. Stream' = Stream BY <2>1 DEF Stream
    <2>3. TypeOK' BY <1>0, <2>1
    <2>4. Whole' BY <1>0, <2>1, <2>2 DEF Whole
    <2>5. Place' BY <1>0, <2>1 DEF Place
    <2>6. LineShape' BY <2>1 DEF LineShape
    <2>7. Ended' BY <1>0, <2>1, <2>2 DEF Ended, Place
    <2> QED BY <1>0, <2>1, <2>2, <2>3, <2>4, <2>5, <2>6, <2>7
  <1>11. ASSUME NEW n \in 1 .. Parts, Heartbeat(n) PROVE IInv'
    <2> DEFINE c == SubSeq(Pieces(Comment), offset + 1, offset + n)
    <2>1. /\ out = <<>> /\ ready /\ ~left /\ offset + n <= Parts /\ wire' = wire \o c
          /\ offset' = (offset + n) % Parts /\ UNCHANGED <<proxy, pc, next, out, ready, left, line>>
      BY <1>11 DEF Heartbeat, WriteMuFree
    <2>2. pc = "stream" /\ next < Upto(Done) BY <1>0, <2>1, Sizes DEF Place
    <2>3. Stream = wire /\ Stream' = wire \o c
      <3>1. Stream = wire BY <1>0, <2>1, ConcatEmptySeq DEF Stream
      <3>2. offset + n \in offset .. Parts /\ offset \in 0 .. Parts BY <1>0, <2>1
      <3>3. c \in Seq(Piece) BY <3>2, CommentPart
      <3>4. wire \o c \in Seq(Piece) BY <1>0, <3>3, ConcatProperties
      <3> HIDE DEF c
      <3> QED BY <2>1, <3>1, <3>4, ConcatEmptySeq DEF Stream
    <2>4. /\ c \in Seq(Piece) /\ c # <<>>
          /\ \A i \in 1 .. Len(c) : c[i].item = Comment
          /\ c[1] = [item |-> Comment, part |-> offset + 1]
          /\ Final(c) = [item |-> Comment, part |-> offset + n]
          /\ \A i \in 2 .. Len(c) : Follows(c[i - 1], c[i])
      <3>1. offset + n \in offset + 1 .. Parts /\ offset \in 0 .. Parts BY <1>0, <2>1
      <3> QED BY <3>1, CommentRun
    <2> HIDE DEF c
    <2>5. Stream' \in Seq(Piece) /\ FromAnswer(Stream', next) /\ InOrder(Stream') /\ Quiet(Stream')
      BY <1>0, <2>2, <2>3, <2>4, GrowComment
    <2>6. Stream' # <<>> /\ Final(Stream') = [item |-> Comment, part |-> offset + n]
      BY <1>0, <2>3, <2>4, LastOf
    <2>7. (offset + n = Parts /\ offset' = 0) \/ (offset + n < Parts /\ offset' = offset + n)
      <3>1. CASE offset + n = Parts
        <4>1. Parts % Parts = 0 OBVIOUS
        <4> QED BY <3>1, <4>1, <2>1
      <3>2. CASE offset + n < Parts
        <4>1. offset + n \in 0 .. Parts - 1 /\ offset + n \in Nat BY <3>2, <1>0
        <4>2. (offset + n) % Parts = offset + n BY <4>1
        <4> QED BY <3>2, <4>2, <2>1
      <3> QED BY <3>1, <3>2, <2>1, <1>0
    <2>8. TypeOK' BY <1>0, <2>1, <2>3, <2>5, <2>7
    <2>9. ~proxy => Chain(Stream')
      <3> SUFFICES ASSUME ~proxy PROVE Chain(Stream') OBVIOUS
      <3>1. Chain(wire) BY <1>0, <2>3 DEF Whole
      <3>2. IF wire = <<>> THEN c[1].part = 1 ELSE Follows(Final(wire), c[1])
        <4>1. CASE offset = 0
          <5>1. wire = <<>> \/ IsEnd(Final(wire)) BY <4>1, <1>0, <2>1, <2>3 DEF Whole
          <5> QED BY <4>1, <5>1, <2>4 DEF Follows
        <4>2. CASE offset > 0
          <5>1. wire # <<>> /\ Final(wire) = [item |-> Comment, part |-> offset] /\ offset < Parts
            BY <4>2, <1>0, <2>1, <2>3 DEF Whole
          <5> QED BY <5>1, <2>4 DEF Follows, IsEnd
        <4> QED BY <4>1, <4>2, <1>0
      <3>3. Continues(wire, c) BY <3>2, <2>4 DEF Continues
      <3> QED BY <1>0, <2>3, <2>4, <3>1, <3>3, ChainJoins
    <2>10. Whole'
      <3>1. ~left' /\ offset' = 0 /\ ~proxy' => IsEnd(Final(Stream'))
        BY <2>6, <2>7, <1>0 DEF IsEnd
      <3>2. offset' > 0 => out' = <<>> /\ Stream' # <<>> /\ Final(Stream') = [item |-> Comment, part |-> offset']
        BY <2>1, <2>6, <2>7
      <3> QED BY <2>1, <2>9, <3>1, <3>2 DEF Whole
    <2>11. Place' BY <1>0, <2>1, <2>2 DEF Place
    <2>12. LineShape' /\ Ended' BY <1>0, <2>1, <2>2 DEF LineShape, LineFrom, Ended
    <2> QED BY <2>1, <2>5, <2>8, <2>10, <2>11, <2>12
  <1>12. CASE HeartbeatFails
    <2>1. /\ out = <<>> /\ ready /\ left' /\ left' \in BOOLEAN /\ offset' = 0
          /\ UNCHANGED <<proxy, pc, next, out, wire, ready, line>>
      BY <1>12 DEF HeartbeatFails, WriteMuFree
    <2>2. Stream' = Stream BY <2>1 DEF Stream
    <2>3. TypeOK' BY <1>0, <2>1
    <2>4. Whole' BY <1>0, <2>1, <2>2 DEF Whole
    <2>5. Place' BY <1>0, <2>1 DEF Place
    <2>6. LineShape' /\ Ended' BY <1>0, <2>1 DEF LineShape, LineFrom, Ended
    <2> QED BY <1>0, <2>1, <2>2, <2>3, <2>4, <2>5, <2>6
  <1>13. CASE SeeDisconnect
    <2>1. /\ left' /\ left' \in BOOLEAN
          /\ UNCHANGED <<proxy, pc, next, out, wire, ready, offset, line>>
      BY <1>13 DEF SeeDisconnect
    <2>2. Stream' = Stream BY <2>1 DEF Stream
    <2>3. TypeOK' BY <1>0, <2>1
    <2>4. Whole' BY <1>0, <2>1, <2>2 DEF Whole
    <2>5. Place' BY <1>0, <2>1 DEF Place
    <2>6. LineShape' /\ Ended' BY <1>0, <2>1 DEF LineShape, LineFrom, Ended
    <2> QED BY <1>0, <2>1, <2>2, <2>3, <2>4, <2>5, <2>6
  <1> QED
    BY <1>1, <1>2, <1>3, <1>4, <1>5, <1>6, <1>7, <1>8, <1>9, <1>10, <1>11, <1>12, <1>13
    DEF Next, Worker, Monitor

\* So does a step that changes nothing.
LEMMA Stays == IInv /\ UNCHANGED vars => IInv'
  BY DEF vars, IInv, TypeOK, Whole, Stream, Place, LineShape, LineFrom, Ended

\* The invariant holds in every behaviour.
LEMMA Inductive == Spec => []IInv
  <1>1. IInv /\ [Next]_vars => IInv' BY Kept, Stays
  <1> QED BY Begun, <1>1, PTL DEF Spec

-----------------------------------------------------------------------------
(* Theorems *)

\* The variables keep their types, offset stays inside a comment and next
\* inside the answer.
THEOREM TypeCorrect == Spec => []TypeOK
  <1>1. IInv => TypeOK BY DEF IInv
  <1> QED BY <1>1, Inductive, PTL

\* What the client has been sent can be read, for any number of frames and
\* pieces: in a local answer every item, frame or comment, is finished before
\* the next begins (send_job_bytes, maybe_send_job_heartbeat), and no comment
\* follows the end of [DONE], local or forwarded (curl_write_passthrough).
THEOREM WireCorrect == Spec => []WireInOrder
  <1>1. ASSUME IInv PROVE WireInOrder
    <2>1. wire \in Seq(Piece) /\ out \in Seq(Piece) BY <1>1 DEF IInv, TypeOK
    <2>2. (~proxy => Chain(wire)) /\ Quiet(wire)
      BY <1>1, <2>1, Beginning DEF IInv, Whole, Stream
    <2>3. ~proxy => Unbroken
      <3>1. wire # <<>> => Len(wire) >= 1 BY <2>1
      <3> QED BY <2>1, <2>2, <3>1 DEF Chain, Unbroken, Follows
    <2>4. NoCommentAfterDone BY <2>2 DEF Quiet, NoCommentAfterDone, DoneEnd
    <2> QED BY <2>3, <2>4 DEF WireInOrder, LocalUnbroken
  <1> QED BY <1>1, Inductive, PTL

\* A client that never went missing has got the frames of a local answer in
\* order, none twice, and the end of [DONE] last, when the job is finished
\* (process_job, finish_job).
THEOREM DeliveredCorrect == Spec => []Delivered
  <1>1. ASSUME IInv PROVE Delivered
    <2> SUFFICES ASSUME pc = "finished", ~left, ~proxy
                 PROVE  /\ wire # <<>> /\ wire[Len(wire)] = DoneEnd
                        /\ InOrder(wire)
      BY DEF Delivered, InOrder, Sooner, DoneEnd
    <2>1. wire \in Seq(Piece) /\ out = <<>> BY <1>1 DEF IInv, TypeOK, Ended
    <2>2. Stream = wire BY <2>1, ConcatEmptySeq DEF Stream
    <2> QED BY <1>1, <2>2 DEF IInv, Ended, Final
  <1> QED BY <1>1, Inductive, PTL

=============================================================================
