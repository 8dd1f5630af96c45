---------------------- MODULE SseEmitterAnswers_proofs ----------------------
(****************************************************************************)
(* Proofs about whole answers of SseEmitter: what is shown, what a replay   *)
(* keeps, what is counted.                                                  *)
(****************************************************************************)
EXTENDS SseEmitter_proofs

\* The delimiters in a window are those of its core.
LEMMA CoreHits ==
    ASSUME NEW e \in Em
    PROVE  LET c == Core(e)
           IN  /\ CloseHits(c) = CloseHits(e) /\ ThinkHits(c) = ThinkHits(e)
               /\ ToolHits(c) = ToolHits(e) /\ PrefixOpen(c) = PrefixOpen(e)
               /\ BareJson(c) = BareJson(e)
  BY CoreIs DEF CloseHits, ThinkHits, ToolHits, PrefixOpen, BareJson

\* What comes behind an open tool buffer goes there.
LEMMA BufferedFollows ==
    ASSUME NEW e \in Em, e.mode = "TOOL_BUFFER"
    PROVE  Follows(Waits(Buffered(e)), CoreRound(req, Core(e)), e)
  <1>1. /\ e.window \in Text /\ e.toolBuffer \in Text /\ e.count \in Nat /\ e.firstContent \in Int
    BY DEF Em
  <1>2. PICK full \in Text : full = e.toolBuffer \o e.window BY <1>1, CatIs
  <1>3. <<>> \in Text BY EmptySeq DEF Text
  <1>4. e.count \in Int /\ e.count - 1 \in Int BY <1>1
  <1>5. PICK f : f = Buffered(e) OBVIOUS
  <1>6. \E first \in Int : f = [e EXCEPT !.toolBuffer = full, !.window = <<>>, !.firstContent = first]
    <2> DEFINE ends  == Where(full, "f")
               close == {i \in At(full, ThinkClose) : i > Min(ends)}
               after == From(full, Min(close) + Len(ThinkClose))
               seen  == e.fromReasoning /\ e.firstContent < 0 /\ ends # {} /\ close # {}
               first == IF ~seen THEN e.firstContent
                        ELSE IF Blank(after) THEN e.count ELSE e.count - 1
    <2>1. f = [e EXCEPT !.toolBuffer = full, !.window = <<>>, !.firstContent = first]
      BY <1>2, <1>5 DEF Buffered
    <2>2. first \in Int BY <1>1, <1>4
    <2> HIDE DEF first
    <2> QED BY <2>1, <2>2
  <1>7. PICK first \in Int : f = [e EXCEPT !.toolBuffer = full, !.window = <<>>, !.firstContent = first]
    BY <1>6
  <1>8. f \in Em BY <1>3, <1>7 DEF Em
  <1>9. /\ f.mode = e.mode /\ f.window = <<>> /\ f.toolBuffer = full
        /\ f.content = e.content /\ f.reasoning = e.reasoning
        /\ f.fromReasoning = e.fromReasoning /\ f.fallback = e.fallback
        /\ f.checkedPrefix = e.checkedPrefix
    BY <1>7 DEF Em
  <1>10. Beside(f, e) BY <1>7, <1>9 DEF Beside, Em
  <1>11. PICK c : c = Core(e) OBVIOUS
  <1>12. CoreRound(req, c) = Waits([c EXCEPT !.toolBuffer = full, !.window = <<>>])
    BY <1>2, <1>11, CoreIs DEF CoreRound
  <1>13. [c EXCEPT !.toolBuffer = full, !.window = <<>>] = Core(f)
    <2>0. PICK none : none = <<>> OBVIOUS
    <2>1. c =
            [mode |-> e.mode, window |-> e.window, toolBuffer |-> e.toolBuffer, content |-> e.content,
             reasoning |-> e.reasoning, fromReasoning |-> e.fromReasoning,
             fallback |-> e.fallback, checkedPrefix |-> e.checkedPrefix]
      BY <1>11 DEF Core
    <2>a. PICK g : g = [c EXCEPT !.toolBuffer = full, !.window = none] OBVIOUS
    <2>2. g =
            [mode |-> e.mode, window |-> none, toolBuffer |-> full, content |-> e.content,
             reasoning |-> e.reasoning, fromReasoning |-> e.fromReasoning,
             fallback |-> e.fallback, checkedPrefix |-> e.checkedPrefix]
      BY <2>1, <2>a
    <2> QED BY <2>0, <2>a, <2>2, <1>9 DEF Core
  <1> QED BY <1>5, <1>8, <1>10, <1>11, <1>12, <1>13 DEF Follows, Waits

\* A leading <think> is dropped.
LEMMA PrefixFollows ==
    ASSUME NEW e \in Em, e.mode = "REASONING"
    PROVE  Follows(Again(PrefixDropped(e)), Again(PrefixDropped(Core(e))), e)
  <1>1. e.window \in Text BY DEF Em
  <1>2. PICK w : w = IF FirstBlack(e.window) \in At(e.window, ThinkOpen)
                     THEN From(e.window, FirstBlack(e.window) + Len(ThinkOpen)) ELSE e.window
    OBVIOUS
  <1>3. w \in Text
    <2>1. FirstBlack(e.window) \in 1 .. Len(e.window) + 1 /\ Len(e.window) \in Nat
      BY <1>1, FirstBlackIs, TextIs
    <2>2. FirstBlack(e.window) + 2 \in Nat /\ FirstBlack(e.window) + 2 >= 1 BY <2>1
    <2>3. Len(ThinkOpen) = 2 BY DEF ThinkOpen
    <2>4. From(e.window, FirstBlack(e.window) + 2) \in Text BY <1>1, <2>2, FromIs
    <2> QED BY <1>1, <1>2, <2>3, <2>4
  <1>4. PICK f : f = PrefixDropped(e) OBVIOUS
  <1>5. f = [e EXCEPT !.checkedPrefix = TRUE, !.window = w] BY <1>2, <1>4 DEF PrefixDropped
  <1>6. f \in Em BY <1>3, <1>5 DEF Em
  <1>7. Beside(f, e) BY <1>5 DEF Beside, Em
  <1>8. /\ f.mode = e.mode /\ f.window = w /\ f.toolBuffer = e.toolBuffer
        /\ f.content = e.content /\ f.reasoning = e.reasoning
        /\ f.fromReasoning = e.fromReasoning /\ f.fallback = e.fallback
        /\ f.checkedPrefix = TRUE
    BY <1>5 DEF Em
  <1>9. PrefixDropped(Core(e)) = [Core(e) EXCEPT !.checkedPrefix = TRUE, !.window = w]
    BY <1>2, CoreIs DEF PrefixDropped
  <1>10. PrefixDropped(Core(e)) = Core(f)
    <2>0. PICK b : b = TRUE OBVIOUS
    <2>c. PICK c : c = Core(e) OBVIOUS
    <2>1. c =
            [mode |-> e.mode, window |-> e.window, toolBuffer |-> e.toolBuffer, content |-> e.content,
             reasoning |-> e.reasoning, fromReasoning |-> e.fromReasoning,
             fallback |-> e.fallback, checkedPrefix |-> e.checkedPrefix]
      BY <2>c DEF Core
    <2>a. PICK g : g = [c EXCEPT !.checkedPrefix = b, !.window = w] OBVIOUS
    <2>2. g =
            [mode |-> e.mode, window |-> w, toolBuffer |-> e.toolBuffer, content |-> e.content,
             reasoning |-> e.reasoning, fromReasoning |-> e.fromReasoning,
             fallback |-> e.fallback, checkedPrefix |-> b]
      BY <2>1, <2>a
    <2>3. PrefixDropped(Core(e)) = g BY <2>0, <2>c, <2>a, <1>9
    <2>4. g = Core(f) BY <2>0, <2>2, <1>8 DEF Core
    <2> QED BY <2>3, <2>4
  <1> QED BY <1>4, <1>6, <1>7, <1>10 DEF Follows, Again

\* The places of delimiters are places of the window.
LEMMA HitPlaces ==
    ASSUME NEW e \in Em
    PROVE  /\ CloseHits(e) \in SUBSET Nat /\ ThinkHits(e) \in SUBSET Nat /\ ToolHits(e) \in SUBSET Nat
           /\ \A i \in CloseHits(e) \union ThinkHits(e) :
                 i \in 1 .. Len(e.window) + 1 /\ i + 2 \in 1 .. Len(e.window) + 1
           /\ \A i \in ToolHits(e) : i \in 1 .. Len(e.window) + 1
  <1>1. Len(e.window) \in Nat BY EmTexts
  <1>2. PICK n \in Nat : n = Len(e.window) BY <1>1
  <1>3. \A i \in 1 .. n - 1 : i \in 1 .. n + 1 /\ i + 2 \in 1 .. n + 1 OBVIOUS
  <1>4. \A i \in 1 .. n : i \in 1 .. n + 1 OBVIOUS
  <1> QED BY <1>2, <1>3, <1>4, HitsIn

\* While it reasons.
LEMMA ReasoningFollows ==
    ASSUME NEW e \in Em, Asked(req), e.mode = "REASONING"
    PROVE  Follows(Reasoning(e, CloseHits(e), ToolHits(e)),
                   CoreReasoning(Core(e), CloseHits(e), ToolHits(e), Releasable(Core(e).window)), e)
  <1> DEFINE closes == CloseHits(e)
             tools  == ToolHits(e)
  <1>0. /\ Len(e.window) \in Nat /\ e.window \in Text /\ e.mode # "TOOL_BUFFER"
        /\ req.format \in ThreeFormats /\ req.vocabulary.stop \in BOOLEAN
        /\ "CONTENT" \in Modes /\ "REASONING" \in Modes
    BY EmTexts DEF Asked, Modes
  <1>1. PICK c : c = Core(e) OBVIOUS
  <1>2. c.checkedPrefix = e.checkedPrefix /\ c.window = e.window /\ PrefixOpen(c) = PrefixOpen(e)
    BY <1>1, CoreIs, CoreHits
  <1>3. CASE ~e.checkedPrefix /\ PrefixOpen(e)
    <2>1. Beside(e, e) BY <1>0 DEF Beside
    <2>2. Reasoning(e, closes, tools) = Waits(e) BY <1>3 DEF Reasoning
    <2>3. CoreReasoning(c, closes, tools, Releasable(c.window)) = Waits(c)
      BY <1>2, <1>3 DEF CoreReasoning
    <2> QED BY <1>1, <2>1, <2>2, <2>3 DEF Follows, Waits
  <1>4. CASE ~e.checkedPrefix /\ ~PrefixOpen(e)
    <2>1. Reasoning(e, closes, tools) = Again(PrefixDropped(e)) BY <1>4 DEF Reasoning
    <2>2. CoreReasoning(c, closes, tools, Releasable(c.window)) = Again(PrefixDropped(c))
      BY <1>2, <1>4 DEF CoreReasoning
    <2> QED BY <1>1, <2>1, <2>2, PrefixFollows
  <1>5. CASE e.checkedPrefix /\ closes # {} /\ \A t \in tools : Min(closes) < t
    <2>1. PICK i : i = Min(closes) OBVIOUS
    <2>2. i \in closes BY <1>5, <2>1, MinIs, HitPlaces
    <2>3. i \in 1 .. Len(e.window) + 1 /\ i + 2 \in 1 .. Len(e.window) + 1 BY <2>2, HitPlaces
    <2>4. PICK f : f = [Think(e, Before(e.window, i)) EXCEPT !.window = From(@, i + 2), !.mode = "CONTENT"]
      BY SMTT(60)
    <2>5. f \in Em /\ Core(f) = Thinks(c, i, i + 2, "CONTENT") /\ Beside(f, e)
      BY <1>0, <1>1, <2>3, <2>4, FrontFollows
    <2>6. Same(Think(e, Before(e.window, i)), e)
      BY <1>0, <2>3, SpeakAny, BeforeIs
    <2>7. f = Thought(e, i)
      <3>1. Len(ThinkClose) = 2 BY DEF ThinkClose
      <3>2. Think(e, Before(e.window, i)).window = e.window BY <2>6 DEF Same
      <3> QED BY <2>4, <3>1, <3>2 DEF Thought
    <2>8. Reasoning(e, closes, tools) = Again(f) BY <1>5, <2>1, <2>7 DEF Reasoning
    <2>9. CoreReasoning(c, closes, tools, Releasable(c.window)) = Again(Thinks(c, i, i + 2, "CONTENT"))
      BY <1>2, <1>5, <2>1 DEF CoreReasoning
    <2> QED BY <1>1, <2>5, <2>8, <2>9 DEF Follows, Again
  <1>6. CASE e.checkedPrefix /\ ~(closes # {} /\ \A t \in tools : Min(closes) < t) /\ tools # {}
    <2>1. PICK i : i = Min(tools) OBVIOUS
    <2>2. i \in tools BY <1>6, <2>1, MinIs, HitPlaces
    <2>3. i \in 1 .. Len(e.window) + 1 BY <2>2, HitPlaces
    <2>4. PICK front \in Text : front = Before(e.window, i) BY <1>0, <2>3, BeforeIs
    <2>5. PICK t : t = Think(e, front) OBVIOUS
    <2>6. t \in Em /\ Same(t, e) /\ t.reasoning = e.reasoning \o front /\ t.content = e.content
      BY <1>0, <2>4, <2>5, SpeakAny
    <2>7. PICK s : s = ReasoningClosed(t) OBVIOUS
    <2>8. s \in Em /\ Same(s, e) /\ s.reasoning = e.reasoning \o front /\ s.content = e.content
      BY <2>6, <2>7, TurnsKin DEF Kin, Alike, Same
    <2>9. s.window = e.window BY <2>8 DEF Same
    <2>10. PICK f : f = ToBuffer(s, i, TRUE, FALSE) OBVIOUS
    <2>11. f \in Em /\ Core(f) = ToBuffer(Core(s), i, TRUE, FALSE) /\ Beside(f, s)
      BY <2>3, <2>8, <2>9, <2>10, BufferFollows
    <2>12. Beside(f, e)
      <3>1. f.mode = "TOOL_BUFFER" BY <2>8, <2>10 DEF ToBuffer, Em
      <3> QED BY <2>8, <2>11, <3>1 DEF Beside, Same
    <2>13. Core(s) = [c EXCEPT !.reasoning = e.reasoning \o front]
      <3>0. PICK u : u = e.reasoning \o front OBVIOUS
      <3>1. c =
            [mode |-> e.mode, window |-> e.window, toolBuffer |-> e.toolBuffer, content |-> e.content,
             reasoning |-> e.reasoning, fromReasoning |-> e.fromReasoning,
             fallback |-> e.fallback, checkedPrefix |-> e.checkedPrefix]
        BY <1>1 DEF Core
      <3>2. [c EXCEPT !.reasoning = u] =
            [mode |-> e.mode, window |-> e.window, toolBuffer |-> e.toolBuffer, content |-> e.content,
             reasoning |-> u, fromReasoning |-> e.fromReasoning,
             fallback |-> e.fallback, checkedPrefix |-> e.checkedPrefix]
      BY <3>1
      <3> QED BY <3>2, <2>8, <3>0 DEF Core, Same
    <2>14. Reasoning(e, closes, tools) = Again(f)
      BY <1>6, <2>1, <2>4, <2>5, <2>7, <2>10 DEF Reasoning
    <2>15. c.reasoning = e.reasoning BY <1>1, CoreIs
    <2>16. CoreReasoning(c, closes, tools, Releasable(c.window)) = Again(ToBuffer(Core(s), i, TRUE, FALSE))
      <3>1. [c EXCEPT !.reasoning = @ \o Before(c.window, i)] = Core(s)
        BY <1>2, <2>4, <2>13, <2>15
      <3> QED BY <1>2, <1>6, <2>1, <3>1 DEF CoreReasoning
    <2> QED BY <1>1, <2>11, <2>12, <2>14, <2>16 DEF Follows, Again
  <1>7. CASE e.checkedPrefix /\ ~(closes # {} /\ \A t \in tools : Min(closes) < t) /\ tools = {}
    <2>1. PICK k \in 0 .. Len(e.window) : k = Releasable(e.window) BY <1>0, ReleasableIs
    <2>2. k + 1 \in 1 .. Len(e.window) + 1 BY <1>0
    <2>3. PICK f : f = [Think(e, Before(e.window, k + 1)) EXCEPT !.window = From(@, k + 1),
                                                                 !.mode = "REASONING"]
      BY SMTT(60)
    <2>4. f \in Em /\ Core(f) = Thinks(c, k + 1, k + 1, "REASONING") /\ Beside(f, e)
      BY <1>0, <1>1, <2>2, <2>3, FrontFollows
    <2>5. Before(e.window, k + 1) = SubSeq(e.window, 1, k)
      <3>1. k + 1 - 1 = k BY <1>0
      <3> QED BY <3>1 DEF Before
    <2>6. PICK s : s = Think(e, SubSeq(e.window, 1, k)) OBVIOUS
    <2>7. s \in Em /\ Same(s, e) BY <1>0, <2>2, <2>5, <2>6, SpeakAny, BeforeIs
    <2>8. s.mode = "REASONING" BY <2>7 DEF Same
    <2>9. f = Thinking(e, k)
      <3>1. [s EXCEPT !.window = From(@, k + 1), !.mode = "REASONING"] = [s EXCEPT !.window = From(@, k + 1)]
        BY <2>7, <2>8 DEF Em
      <3>2. s.window = e.window BY <2>7 DEF Same
      <3> QED BY <2>3, <2>5, <2>6, <3>1, <3>2 DEF Thinking
    <2>10. Reasoning(e, closes, tools) = Waits(f) BY <1>7, <2>1, <2>9 DEF Reasoning
    <2>11. CoreReasoning(c, closes, tools, Releasable(c.window)) = Waits(Thinks(c, k + 1, k + 1, "REASONING"))
      BY <1>2, <1>7, <2>1 DEF CoreReasoning
    <2> QED BY <1>1, <2>4, <2>10, <2>11 DEF Follows, Waits
  <1> QED BY <1>1, <1>3, <1>4, <1>5, <1>6, <1>7

\* Places of a window have a first one.
LEMMA FirstOfIs ==
    ASSUME NEW e \in Em
    PROVE  LET all   == ThinkHits(e) \union CloseHits(e) \union ToolHits(e)
               first == FirstOf(all)
           IN  /\ first > 0 => first \in all /\ \A i \in all : first <= i
               /\ first > 0 \/ (first = 0 /\ all = {})
  <1> DEFINE all == ThinkHits(e) \union CloseHits(e) \union ToolHits(e)
  <1>1. all \in SUBSET Nat /\ \A i \in all : i > 0
    <2>1. Len(e.window) \in Nat BY EmTexts
    <2>2. all \in SUBSET Nat BY HitPlaces
    <2>3. \A i \in all : i \in 1 .. Len(e.window) + 1 BY HitPlaces
    <2> QED BY <2>1, <2>2, <2>3
  <1>2. CASE all = {} BY <1>2 DEF FirstOf
  <1>3. CASE all # {}
    <2>1. Min(all) \in all /\ \A j \in all : Min(all) <= j BY <1>1, <1>3, MinIs
    <2>2. FirstOf(all) = Min(all) BY <1>3 DEF FirstOf
    <2> QED BY <1>1, <2>1, <2>2
  <1> QED BY <1>2, <1>3

\* A round that goes on or waits, as the core's does.
LEMMA FollowsIs ==
    ASSUME NEW f \in Em, NEW e, Beside(f, e), NEW l, NEW m
    PROVE  /\ l = Again(f) /\ m = Again(Core(f)) => Follows(l, m, e)
           /\ l = Waits(f) /\ m = Waits(Core(f)) => Follows(l, m, e)
  <1>1. ASSUME l = Again(f), m = Again(Core(f)) PROVE Follows(l, m, e)
    <2>1. l.em = f /\ l.again = TRUE BY <1>1 DEF Again
    <2>2. PICK c : c = Core(f) OBVIOUS
    <2>3. m = [em |-> c, again |-> TRUE] BY <1>1, <2>2 DEF Again
    <2>4. m = [em |-> Core(l.em), again |-> l.again] BY <2>1, <2>2, <2>3
    <2> QED BY <2>1, <2>4 DEF Follows
  <1>2. ASSUME l = Waits(f), m = Waits(Core(f)) PROVE Follows(l, m, e)
    <2>1. l.em = f /\ l.again = FALSE BY <1>2 DEF Waits
    <2>2. PICK c : c = Core(f) OBVIOUS
    <2>3. m = [em |-> c, again |-> FALSE] BY <1>2, <2>2 DEF Waits
    <2>4. m = [em |-> Core(l.em), again |-> l.again] BY <2>1, <2>2, <2>3
    <2> QED BY <2>1, <2>4 DEF Follows
  <1> QED BY <1>1, <1>2

\* In the answer's text.
LEMMA AnsweringFollows ==
    ASSUME NEW e \in Em, Asked(req), e.mode = "CONTENT",
           NEW first, first = FirstOf(ThinkHits(e) \union CloseHits(e) \union ToolHits(e))
    PROVE  Follows(Answering(e, first, ThinkHits(e), CloseHits(e)),
                   CoreAnswering(Core(e), first, ThinkHits(e), CloseHits(e), BareJson(Core(e)), Cut(Core(e).window)), e)
  <1> DEFINE opens  == ThinkHits(e)
             closes == CloseHits(e)
             tools  == ToolHits(e)
  <1>0. /\ Len(e.window) \in Nat /\ e.window \in Text /\ e.mode # "TOOL_BUFFER"
        /\ req.format \in ThreeFormats /\ req.vocabulary.stop \in BOOLEAN
        /\ "CONTENT" \in Modes /\ "REASONING" \in Modes
    BY EmTexts DEF Asked, Modes
  <1>1. PICK c : c = Core(e) OBVIOUS
  <1>2. c.window = e.window /\ BareJson(c) = BareJson(e) /\ c.content = e.content
    BY <1>1, CoreIs, CoreHits
  <1>3. /\ first > 0 => first \in opens \union closes \union tools
        /\ first > 0 \/ first = 0
    BY FirstOfIs
  <1>4. CASE first > 0
    <2>1. first \in 1 .. Len(e.window) + 1 BY <1>3, <1>4, HitPlaces
    <2>2. PICK front \in Text : front = Before(e.window, first) BY <1>0, <2>1, BeforeIs
    <2>3. PICK s : s = Say(e, front) OBVIOUS
    <2>4. s \in Em /\ Same(s, e) /\ s.content = e.content \o front /\ s.reasoning = e.reasoning
      BY <1>0, <2>2, <2>3, SpeakAny
    <2>5. s.window = e.window /\ s.mode = "CONTENT" BY <2>4 DEF Same
    <2>6. Answering(e, first, opens, closes) = Divided(s, first, opens, closes)
      BY <1>4, <2>2, <2>3 DEF Answering
    <2>7. CoreAnswering(c, first, opens, closes, BareJson(c), Cut(c.window)) = CoreDivided(c, first, opens, closes)
      BY <1>4 DEF CoreAnswering
    <2>8. ASSUME NEW mode \in Modes, first \in opens \union closes
          PROVE  \E f \in Em :
                    /\ f = [s EXCEPT !.window = From(@, first + 2), !.mode = mode]
                    /\ Core(f) = Says(c, first, first + 2, mode) /\ Beside(f, e)
      <3>1. first + 2 \in 1 .. Len(e.window) + 1 BY <2>8, HitPlaces
      <3>2. PICK f : f = [Say(e, Before(e.window, first)) EXCEPT !.window = From(@, first + 2), !.mode = mode]
        BY SMTT(60)
      <3>3. f \in Em /\ Core(f) = Says(c, first, first + 2, mode) /\ Beside(f, e)
        BY <1>0, <1>1, <2>1, <3>1, <3>2, FrontFollows
      <3> QED BY <2>2, <2>3, <3>2, <3>3
    <2>9. CASE first \in opens
      <3>1. PICK f \in Em : /\ f = [s EXCEPT !.window = From(@, first + 2), !.mode = "REASONING"]
                            /\ Core(f) = Says(c, first, first + 2, "REASONING") /\ Beside(f, e)
        BY <1>0, <2>8, <2>9
      <3>2. Len(ThinkOpen) = 2 BY DEF ThinkOpen
      <3>3. Divided(s, first, opens, closes) = Again(f) BY <2>9, <3>1, <3>2 DEF Divided
      <3>4. CoreDivided(c, first, opens, closes) = Again(Core(f)) BY <2>9, <3>1 DEF CoreDivided
      <3> QED BY <1>1, <2>6, <2>7, <3>1, <3>3, <3>4, FollowsIs
    <2>10. CASE first \notin opens /\ first \in closes
      <3>1. PICK f \in Em : /\ f = [s EXCEPT !.window = From(@, first + 2), !.mode = "CONTENT"]
                            /\ Core(f) = Says(c, first, first + 2, "CONTENT") /\ Beside(f, e)
        BY <1>0, <2>8, <2>10
      <3>2. Len(ThinkClose) = 2 BY DEF ThinkClose
      <3>3. f = [s EXCEPT !.window = From(@, first + 2)] BY ZenonT(40), <2>4, <2>5, <3>1 DEF Em
      <3>4. Divided(s, first, opens, closes) = Again(f) BY <2>10, <3>2, <3>3 DEF Divided
      <3>5. CoreDivided(c, first, opens, closes) = Again(Core(f)) BY <2>10, <3>1 DEF CoreDivided
      <3> QED BY <1>1, <2>6, <2>7, <3>1, <3>4, <3>5, FollowsIs
    <2>11. CASE first \notin opens /\ first \notin closes
      <3>1. PICK f : f = ToBuffer(s, first, FALSE, FALSE) OBVIOUS
      <3>2. f \in Em /\ Core(f) = ToBuffer(Core(s), first, FALSE, FALSE) /\ Beside(f, s)
        BY <2>1, <2>4, <2>5, <3>1, BufferFollows
      <3>3. f.mode = "TOOL_BUFFER" BY <2>4, <3>1 DEF ToBuffer, Em
      <3>4. Beside(f, e) BY <2>4, <3>2, <3>3 DEF Beside, Same
      <3>5. [c EXCEPT !.content = @ \o Before(c.window, first)] = Core(s)
        <4>0. PICK u : u = e.content \o front OBVIOUS
        <4>1. c = [mode |-> e.mode, window |-> e.window, toolBuffer |-> e.toolBuffer,
                   content |-> e.content, reasoning |-> e.reasoning,
                   fromReasoning |-> e.fromReasoning, fallback |-> e.fallback,
                   checkedPrefix |-> e.checkedPrefix]
          BY <1>1 DEF Core
        <4>2. PICK g : g = [c EXCEPT !.content = u] OBVIOUS
        <4>3. g = [mode |-> e.mode, window |-> e.window, toolBuffer |-> e.toolBuffer,
                   content |-> u, reasoning |-> e.reasoning,
                   fromReasoning |-> e.fromReasoning, fallback |-> e.fallback,
                   checkedPrefix |-> e.checkedPrefix]
          BY <4>1, <4>2
        <4>4. g = Core(s) BY <2>4, <4>0, <4>3 DEF Core, Same
        <4>5. [c EXCEPT !.content = @ \o Before(c.window, first)] = g
          BY <1>2, <2>2, <4>0, <4>2
        <4> QED BY <4>4, <4>5
      <3>6. Divided(s, first, opens, closes) = Again(f) BY <2>11, <3>1 DEF Divided
      <3>7. CoreDivided(c, first, opens, closes) = Again(Core(f))
        BY <2>11, <3>2, <3>5 DEF CoreDivided
      <3> QED BY <1>1, <2>6, <2>7, <3>2, <3>4, <3>6, <3>7, FollowsIs
    <2> QED BY <2>9, <2>10, <2>11
  <1>5. CASE first = 0 /\ BareJson(e)
    <2>1. PICK f : f = ToBuffer(e, 1, FALSE, TRUE) OBVIOUS
    <2>2. 1 \in 1 .. Len(e.window) + 1 BY <1>0
    <2>3. f \in Em /\ Core(f) = ToBuffer(c, 1, FALSE, TRUE) /\ Beside(f, e)
      BY <1>1, <2>1, <2>2, BufferFollows
    <2>4. Answering(e, first, opens, closes) = Again(f) BY <1>5, <2>1 DEF Answering
    <2>5. CoreAnswering(c, first, opens, closes, BareJson(c), Cut(c.window)) = Again(Core(f))
      BY <1>2, <1>5, <2>3 DEF CoreAnswering
    <2> QED BY <1>1, <2>3, <2>4, <2>5, FollowsIs
  <1>6. CASE first = 0 /\ ~BareJson(e)
    <2>1. PICK n \in 0 .. Len(e.window) : n = Releasable(e.window) BY <1>0, ReleasableIs
    <2>2. NameHeld(e.window, n) \in 0 .. n BY <1>0, <2>1, ReleasableIs
    <2>3. PICK k \in 0 .. Len(e.window) : k = NameHeld(e.window, n)
      <3>1. \A k \in 0 .. n : k \in 0 .. Len(e.window) BY <1>0, <2>1
      <3> QED BY <2>2, <3>1
    <2>4. k + 1 \in 1 .. Len(e.window) + 1 BY <1>0
    <2>5. PICK f : f = [Say(e, Before(e.window, k + 1)) EXCEPT !.window = From(@, k + 1), !.mode = "CONTENT"]
      BY SMTT(60)
    <2>6. f \in Em /\ Core(f) = Says(c, k + 1, k + 1, "CONTENT") /\ Beside(f, e)
      BY <1>0, <1>1, <2>4, <2>5, FrontFollows
    <2>7. Before(e.window, k + 1) = SubSeq(e.window, 1, k)
      <3>1. k + 1 - 1 = k BY <1>0
      <3> QED BY <3>1 DEF Before
    <2>8. PICK s : s = Say(e, SubSeq(e.window, 1, k)) OBVIOUS
    <2>9. s \in Em /\ Same(s, e) BY <1>0, <2>4, <2>7, <2>8, SpeakAny, BeforeIs
    <2>10. s.mode = "CONTENT" /\ s.window = e.window BY <2>9 DEF Same
    <2>11. f = Saying(e, k)
      <3>1. [s EXCEPT !.window = From(@, k + 1), !.mode = "CONTENT"] = [s EXCEPT !.window = From(@, k + 1)]
        BY <2>9, <2>10 DEF Em
      <3> QED BY <2>5, <2>7, <2>8, <2>10, <3>1 DEF Saying
    <2>12. Answering(e, first, opens, closes) = Waits(f) BY <1>6, <2>1, <2>3, <2>11 DEF Answering
    <2>13. Cut(c.window) = k BY <1>2, <2>1, <2>3 DEF Cut
    <2>14. CoreAnswering(c, first, opens, closes, BareJson(c), Cut(c.window)) = Waits(Says(c, k + 1, k + 1, "CONTENT"))
      BY <1>2, <1>6, <2>13 DEF CoreAnswering
    <2> QED BY <1>1, <2>6, <2>12, <2>14, FollowsIs
  <1> QED BY <1>1, <1>3, <1>4, <1>5, <1>6

\* A round makes of the core what it makes of the emitter.
LEMMA RoundFollows ==
    ASSUME NEW e \in Em, Asked(req) PROVE Follows(Round(e), CoreRound(req, Core(e)), e)
  <1>1. PICK c : c = Core(e) OBVIOUS
  <1>2. c.mode = e.mode /\ CloseHits(c) = CloseHits(e) /\ ThinkHits(c) = ThinkHits(e)
        /\ ToolHits(c) = ToolHits(e)
    BY <1>1, CoreIs, CoreHits
  <1>3. CASE e.mode = "TOOL_BUFFER"
    <2>1. Round(e) = Waits(Buffered(e)) BY <1>3 DEF Round
    <2> QED BY <1>3, <2>1, BufferedFollows
  <1>4. CASE e.mode = "REASONING"
    <2>1. Round(e) = Reasoning(e, CloseHits(e), ToolHits(e)) BY <1>4 DEF Round
    <2>2. CoreRound(req, c) = CoreReasoning(c, CloseHits(e), ToolHits(e), Releasable(c.window))
      BY <1>2, <1>4, RequestIs DEF CoreRound
    <2> QED BY <1>1, <1>4, <2>1, <2>2, ReasoningFollows
  <1>5. CASE e.mode = "CONTENT"
    <2>1. PICK first : first = FirstOf(ThinkHits(e) \union CloseHits(e) \union ToolHits(e)) OBVIOUS
    <2>2. Round(e) = Answering(e, first, ThinkHits(e), CloseHits(e)) BY <1>5, <2>1 DEF Round
    <2>3. CoreRound(req, c) = CoreAnswering(c, first, ThinkHits(e), CloseHits(e), BareJson(c), Cut(c.window))
      BY <1>2, <1>5, <2>1, RequestIs DEF CoreRound
    <2> QED BY <1>1, <1>5, <2>1, <2>2, <2>3, AnsweringFollows
  <1> QED BY <1>3, <1>4, <1>5 DEF Em, Modes

\* The parts of a core.
LEMMA CoresAre ==
    ASSUME NEW c \in Cores
    PROVE  /\ c.window \in Text /\ Len(c.window) \in Nat /\ c.toolBuffer \in Text
           /\ c.content \in Text /\ c.reasoning \in Text /\ c.mode \in Modes
           /\ c.fromReasoning \in BOOLEAN /\ c.fallback \in BOOLEAN /\ c.checkedPrefix \in BOOLEAN
           /\ c = [mode |-> c.mode, window |-> c.window, toolBuffer |-> c.toolBuffer,
                   content |-> c.content, reasoning |-> c.reasoning,
                   fromReasoning |-> c.fromReasoning, fallback |-> c.fallback,
                   checkedPrefix |-> c.checkedPrefix]
  <1>1. c.window \in Text BY DEF Cores
  <1> QED BY <1>1, TextIs DEF Cores

\* Two cores are one when all their parts are.
LEMMA CoresSame ==
    ASSUME NEW c \in Cores, NEW d \in Cores,
           c.mode = d.mode, c.window = d.window, c.toolBuffer = d.toolBuffer,
           c.content = d.content, c.reasoning = d.reasoning, c.fromReasoning = d.fromReasoning,
           c.fallback = d.fallback, c.checkedPrefix = d.checkedPrefix
    PROVE  c = d
  BY CoresAre

\* What thinking, saying and the tool buffer make of a core.
LEMMA ThinksIs ==
    ASSUME NEW c \in Cores, NEW i \in 1 .. Len(c.window) + 1, NEW j \in 1 .. Len(c.window) + 1,
           NEW mode \in Modes
    PROVE  LET d == Thinks(c, i, j, mode)
           IN  /\ d \in Cores /\ d.mode = mode /\ d.window = From(c.window, j)
               /\ d.toolBuffer = c.toolBuffer /\ d.content = c.content
               /\ d.reasoning = c.reasoning \o Before(c.window, i)
               /\ d.fromReasoning = c.fromReasoning /\ d.fallback = c.fallback
               /\ d.checkedPrefix = c.checkedPrefix
  <1>1. c.window \in Text /\ Len(c.window) \in Nat /\ c.reasoning \in Text BY CoresAre
  <1>2. j \in Nat /\ j >= 1 BY <1>1
  <1>3. PICK rest \in Text : rest = From(c.window, j) BY <1>1, <1>2, FromIs
  <1>4. Before(c.window, i) \in Text BY <1>1, BeforeIs
  <1>5. PICK u \in Text : u = c.reasoning \o Before(c.window, i) BY <1>1, <1>4, CatIs
  <1>6. Thinks(c, i, j, mode) = [c EXCEPT !.reasoning = u, !.window = rest, !.mode = mode]
    BY <1>3, <1>5 DEF Thinks
  <1> QED BY <1>3, <1>5, <1>6 DEF Cores

\* The core whose text up to a place is said, and is gone on with from another.
LEMMA SaysIs ==
    ASSUME NEW c \in Cores, NEW i \in 1 .. Len(c.window) + 1, NEW j \in 1 .. Len(c.window) + 1,
           NEW mode \in Modes
    PROVE  LET d == Says(c, i, j, mode)
           IN  /\ d \in Cores /\ d.mode = mode /\ d.window = From(c.window, j)
               /\ d.toolBuffer = c.toolBuffer /\ d.reasoning = c.reasoning
               /\ d.content = c.content \o Before(c.window, i)
               /\ d.fromReasoning = c.fromReasoning /\ d.fallback = c.fallback
               /\ d.checkedPrefix = c.checkedPrefix
  <1>1. c.window \in Text /\ Len(c.window) \in Nat /\ c.content \in Text BY CoresAre
  <1>2. j \in Nat /\ j >= 1 BY <1>1
  <1>3. PICK rest \in Text : rest = From(c.window, j) BY <1>1, <1>2, FromIs
  <1>4. Before(c.window, i) \in Text BY <1>1, BeforeIs
  <1>5. PICK u \in Text : u = c.content \o Before(c.window, i) BY <1>1, <1>4, CatIs
  <1>6. Says(c, i, j, mode) = [c EXCEPT !.content = u, !.window = rest, !.mode = mode]
    BY <1>3, <1>5 DEF Says
  <1> QED BY <1>3, <1>5, <1>6 DEF Cores

\* The core whose text is said or thought up to a place, before its buffer is opened.
LEMMA SpokenIs ==
    ASSUME NEW c \in Cores, NEW i \in 1 .. Len(c.window) + 1
    PROVE  /\ LET d == [c EXCEPT !.reasoning = @ \o Before(c.window, i)]
              IN  /\ d \in Cores /\ d.window = c.window /\ d.content = c.content
                  /\ d.reasoning = c.reasoning \o Before(c.window, i)
                  /\ d.fallback = c.fallback /\ d.checkedPrefix = c.checkedPrefix
           /\ LET d == [c EXCEPT !.content = @ \o Before(c.window, i)]
              IN  /\ d \in Cores /\ d.window = c.window /\ d.reasoning = c.reasoning
                  /\ d.content = c.content \o Before(c.window, i)
                  /\ d.fallback = c.fallback /\ d.checkedPrefix = c.checkedPrefix
  <1>1. c.window \in Text /\ c.content \in Text /\ c.reasoning \in Text BY CoresAre
  <1>2. Before(c.window, i) \in Text BY <1>1, BeforeIs
  <1>3. PICK u \in Text : u = c.content \o Before(c.window, i) BY <1>1, <1>2, CatIs
  <1>4. PICK v \in Text : v = c.reasoning \o Before(c.window, i) BY <1>1, <1>2, CatIs
  <1> QED BY <1>3, <1>4 DEF Cores

\* The core whose tool buffer is opened at a place.
LEMMA OpenedIs ==
    ASSUME NEW c \in Cores, NEW j \in 1 .. Len(c.window) + 1, NEW before \in BOOLEAN,
           NEW fallback \in BOOLEAN
    PROVE  LET d == ToBuffer(c, j, before, fallback)
           IN  /\ d \in Cores /\ d.mode = "TOOL_BUFFER" /\ d.window = <<>>
               /\ d.toolBuffer = From(c.window, j) /\ d.content = c.content
               /\ d.reasoning = c.reasoning /\ d.fromReasoning = before
               /\ c.fallback => d.fallback
               /\ fallback => d.fallback
               /\ ~c.fallback /\ ~fallback => ~d.fallback
               /\ d.checkedPrefix = c.checkedPrefix
  <1>1. c.window \in Text /\ Len(c.window) \in Nat /\ c.fallback \in BOOLEAN BY CoresAre
  <1>2. j \in Nat /\ j >= 1 BY <1>1
  <1>3. PICK rest \in Text : rest = From(c.window, j) BY <1>1, <1>2, FromIs
  <1>4. PICK b \in BOOLEAN : b = (c.fallback \/ fallback) BY <1>1
  <1>5. <<>> \in Text /\ "TOOL_BUFFER" \in Modes BY EmptySeq DEF Text, Modes
  <1>6. ToBuffer(c, j, before, fallback) =
           [c EXCEPT !.toolBuffer = rest, !.window = <<>>, !.mode = "TOOL_BUFFER",
                     !.fromReasoning = before, !.fallback = b]
    BY <1>3, <1>4 DEF ToBuffer
  <1>7. PICK d : d = ToBuffer(c, j, before, fallback) OBVIOUS
  <1>8. /\ d \in Cores /\ d.mode = "TOOL_BUFFER" /\ d.window = <<>>
        /\ d.toolBuffer = rest /\ d.content = c.content
        /\ d.reasoning = c.reasoning /\ d.fromReasoning = before
        /\ d.fallback = b /\ d.checkedPrefix = c.checkedPrefix
    BY <1>3, <1>4, <1>5, <1>6, <1>7 DEF Cores
  <1> QED BY <1>1, <1>3, <1>4, <1>7, <1>8

\* What is behind an open tool buffer goes there.
Took(c) == [c EXCEPT !.toolBuffer = @ \o c.window, !.window = <<>>]

\* The core whose tool buffer takes the window.
LEMMA TookIs ==
    ASSUME NEW c \in Cores
    PROVE  /\ Took(c) \in Cores /\ Took(c).mode = c.mode /\ Took(c).window = <<>>
           /\ Took(c).toolBuffer = c.toolBuffer \o c.window /\ Took(c).content = c.content
           /\ Took(c).reasoning = c.reasoning /\ Took(c).fromReasoning = c.fromReasoning
           /\ Took(c).fallback = c.fallback /\ Took(c).checkedPrefix = c.checkedPrefix
  <1>1. c.window \in Text /\ c.toolBuffer \in Text BY CoresAre
  <1>2. PICK u \in Text : u = c.toolBuffer \o c.window BY <1>1, CatIs
  <1>3. <<>> \in Text BY EmptySeq DEF Text
  <1>4. Took(c) = [c EXCEPT !.toolBuffer = u, !.window = <<>>] BY <1>2 DEF Took
  <1> QED BY <1>2, <1>3, <1>4 DEF Cores

\* How much is left to look at.
Size(c) == IF c.mode = "TOOL_BUFFER" THEN 0
           ELSE Len(c.window) + IF c.checkedPrefix THEN 1 ELSE 2

\* A leading <think> is dropped from a core's window.
LEMMA DroppedIs ==
    ASSUME NEW c \in Cores
    PROVE  LET d == PrefixDropped(c)
               i == FirstBlack(c.window)
           IN  /\ d \in Cores /\ d.mode = c.mode /\ d.toolBuffer = c.toolBuffer
               /\ d.content = c.content /\ d.reasoning = c.reasoning
               /\ d.fromReasoning = c.fromReasoning /\ d.fallback = c.fallback
               /\ d.checkedPrefix = TRUE
               /\ \E j \in 1 .. Len(c.window) + 1 : d.window = From(c.window, j)
               /\ d.window = IF i \in At(c.window, ThinkOpen) THEN From(c.window, i + 2) ELSE c.window
  <1>1. c.window \in Text /\ Len(c.window) \in Nat BY CoresAre
  <1>2. PICK i : i = FirstBlack(c.window) OBVIOUS
  <1>3. i \in 1 .. Len(c.window) + 1 BY <1>1, <1>2, FirstBlackIs
  <1>4. Len(ThinkOpen) = 2 BY DEF ThinkOpen
  <1>5. PICK w : w = IF i \in At(c.window, ThinkOpen) THEN From(c.window, i + 2) ELSE c.window
    OBVIOUS
  <1>6. \E j \in 1 .. Len(c.window) + 1 : w = From(c.window, j)
    <2>1. CASE i \in At(c.window, ThinkOpen)
      <3>1. i \in 1 .. Len(c.window) - 1
        <4>1. "o1" \in Symbol /\ "o2" \in Symbol BY DEF Symbol
        <4> QED BY <1>1, <2>1, <4>1, AtIs DEF ThinkOpen
      <3>2. i + 2 \in 1 .. Len(c.window) + 1 BY <1>1, <3>1
      <3> QED BY <1>5, <2>1, <3>2
    <2>2. CASE i \notin At(c.window, ThinkOpen)
      <3>1. 1 \in 1 .. Len(c.window) + 1 BY <1>1
      <3>2. From(c.window, 1) = c.window
        <4>1. c.window \in Seq(Symbol) BY <1>1 DEF Text
        <4> QED BY <4>1 DEF From
      <3> QED BY <1>5, <2>2, <3>1, <3>2
    <2> QED BY <2>1, <2>2
  <1>7. w \in Text
    <2>1. PICK j \in 1 .. Len(c.window) + 1 : w = From(c.window, j) BY <1>6
    <2>2. j \in Nat /\ j >= 1 BY <1>1
    <2> QED BY <1>1, <2>1, <2>2, FromIs
  <1>8. PrefixDropped(c) = [c EXCEPT !.checkedPrefix = TRUE, !.window = w]
    BY <1>2, <1>4, <1>5 DEF PrefixDropped
  <1>9. PICK d : d = PrefixDropped(c) OBVIOUS
  <1>10. /\ d \in Cores /\ d.mode = c.mode /\ d.toolBuffer = c.toolBuffer
         /\ d.content = c.content /\ d.reasoning = c.reasoning
         /\ d.fromReasoning = c.fromReasoning /\ d.fallback = c.fallback
         /\ d.checkedPrefix = TRUE /\ d.window = w
    BY <1>7, <1>8, <1>9 DEF Cores
  <1> QED BY <1>2, <1>5, <1>6, <1>9, <1>10

\* Every core is an emitter's.
LEMMA CoreOf == ASSUME NEW c \in Cores PROVE \E e \in Em : Core(e) = c
  <1>1. PICK n \in Em : n = Emitter(FALSE) BY EmitterIs
  <1>2. PICK e : e = [n EXCEPT !.mode = c.mode, !.window = c.window, !.toolBuffer = c.toolBuffer,
                               !.content = c.content, !.reasoning = c.reasoning,
                               !.fromReasoning = c.fromReasoning, !.fallback = c.fallback,
                               !.checkedPrefix = c.checkedPrefix]
    OBVIOUS
  <1>3. e \in Em BY <1>2, CoresAre DEF Em
  <1>4. /\ e.mode = c.mode /\ e.window = c.window /\ e.toolBuffer = c.toolBuffer
        /\ e.content = c.content /\ e.reasoning = c.reasoning
        /\ e.fromReasoning = c.fromReasoning /\ e.fallback = c.fallback
        /\ e.checkedPrefix = c.checkedPrefix
    BY <1>2 DEF Em
  <1>5. Core(e) = c BY <1>3, <1>4, CoreIs, CoresSame
  <1> QED BY <1>3, <1>5

\* The least of some numbers is the one that is below all.
LEMMA MinWhich ==
    ASSUME NEW A \in SUBSET Nat, NEW i \in A, \A j \in A : i <= j PROVE Min(A) = i
  <1>1. Min(A) \in A /\ Min(A) \in Nat /\ Min(A) <= i BY MinIs
  <1>2. i \in Nat /\ i <= Min(A) BY <1>1
  <1> QED BY <1>1, <1>2

\* The delimiters a core's window is searched for while it reasons, and while it
\* answers.
Closers(c) == CloseHits(c) \union ToolHits(c)
Hits(c) == ThinkHits(c) \union CloseHits(c) \union ToolHits(c)

\* i is the first of them.
FirstIn(i, hits) == i \in hits /\ \A j \in hits : i <= j

\* Delimiters are in the window, and those of different kinds at different places.
LEMMA CorePlaces ==
    ASSUME NEW c \in Cores
    PROVE  /\ CloseHits(c) \in SUBSET Nat /\ ThinkHits(c) \in SUBSET Nat /\ ToolHits(c) \in SUBSET Nat
           /\ \A i \in CloseHits(c) : /\ i \in 1 .. Len(c.window) - 1 /\ i + 2 \in 1 .. Len(c.window) + 1
                                      /\ c.window[i] = "c1" /\ c.window[i + 1] = "c2"
           /\ \A i \in ThinkHits(c) : /\ i \in 1 .. Len(c.window) - 1 /\ i + 2 \in 1 .. Len(c.window) + 1
                                      /\ c.window[i] = "o1" /\ c.window[i + 1] = "o2"
           /\ \A i \in ToolHits(c) : i \in 1 .. Len(c.window) /\ c.window[i] \in {"t1", "i1", "n"}
           /\ \A i \in Hits(c) : i \in 1 .. Len(c.window) /\ i \in 1 .. Len(c.window) + 1 /\ i \in Nat
  <1>1. c.window \in Text /\ Len(c.window) \in Nat BY CoresAre
  <1>2. PICK n \in Nat : n = Len(c.window) BY <1>1
  <1>3. \A i \in 1 .. n - 1 : i \in 1 .. n + 1 /\ i + 2 \in 1 .. n + 1 /\ i \in 1 .. n OBVIOUS
  <1>4. "o1" \in Symbol /\ "o2" \in Symbol /\ "c1" \in Symbol /\ "c2" \in Symbol BY DEF Symbol
  <1>5. /\ CloseHits(c) \in SUBSET Nat
        /\ \A i \in CloseHits(c) : i \in 1 .. n - 1 /\ c.window[i] = "c1" /\ c.window[i + 1] = "c2"
    BY <1>1, <1>2, <1>4, AtIs DEF CloseHits, ThinkClose
  <1>6. /\ ThinkHits(c) \in SUBSET Nat
        /\ \A i \in ThinkHits(c) : i \in 1 .. n - 1 /\ c.window[i] = "o1" /\ c.window[i + 1] = "o2"
    BY <1>1, <1>2, <1>4, AtIs DEF ThinkHits, ThinkOpen
  <1>7. \A i \in ToolHits(c) : i \in 1 .. n /\ c.window[i] \in {"t1", "i1", "n"}
    <2> SUFFICES ASSUME NEW i \in ToolHits(c) PROVE i \in 1 .. n /\ c.window[i] \in {"t1", "i1", "n"}
      OBVIOUS
    <2>1. i \in ToolStarts(c.window) BY DEF ToolHits
    <2>2. CASE i \in At(c.window, ToolOpen) BY <1>1, <1>2, <1>3, <2>2, ToolsAt
    <2>3. CASE i \in Where(c.window, "i1") BY <1>1, <1>2, <2>3, WhereIs
    <2>4. CASE i \in {m \in {NameStart(c.window, k) : k \in At(c.window, ArgKeyOpen)} : c.window[m] = "n"}
      <3>1. PICK k \in At(c.window, ArgKeyOpen) : i = NameStart(c.window, k) BY <2>4
      <3>2. k \in 1 .. n - 1 BY <1>1, <1>2, <3>1, KeysAt
      <3>3. k \in Nat /\ k >= 1 BY <3>2
      <3>4. i \in 1 .. k BY <1>1, <3>1, <3>3, NameStartIs
      <3>5. i \in 1 .. n BY <3>2, <3>4
      <3> QED BY <2>4, <3>5
    <2> QED BY <2>1, <2>2, <2>3, <2>4 DEF ToolStarts
  <1>8. \A i \in 1 .. n : i \in Nat /\ i \in 1 .. n + 1 OBVIOUS
  <1>9. ToolHits(c) \in SUBSET Nat BY <1>7, <1>8
  <1> QED BY <1>2, <1>3, <1>5, <1>6, <1>7, <1>8, <1>9 DEF Hits

\* What a round does, by what it meets.
LEMMA RoundWhen ==
    ASSUME NEW c \in Cores
    PROVE  /\ c.mode = "TOOL_BUFFER" => CoreRound(req, c) = Waits(Took(c))
           /\ c.mode = "REASONING" /\ ~c.checkedPrefix /\ PrefixOpen(c) => CoreRound(req, c) = Waits(c)
           /\ c.mode = "REASONING" /\ ~c.checkedPrefix /\ ~PrefixOpen(c) =>
                 CoreRound(req, c) = Again(PrefixDropped(c))
           /\ c.mode = "REASONING" /\ c.checkedPrefix =>
                 /\ \A i \in CloseHits(c) : FirstIn(i, Closers(c)) =>
                       CoreRound(req, c) = Again(Thinks(c, i, i + 2, "CONTENT"))
                 /\ \A i \in ToolHits(c) : FirstIn(i, Closers(c)) =>
                       CoreRound(req, c) = Again(ToBuffer([c EXCEPT !.reasoning = @ \o Before(c.window, i)],
                                                     i, TRUE, FALSE))
                 /\ Closers(c) = {} =>
                       CoreRound(req, c) = Waits(Thinks(c, Releasable(c.window) + 1,
                                                   Releasable(c.window) + 1, "REASONING"))
           /\ c.mode = "CONTENT" =>
                 /\ \A i \in ThinkHits(c) : FirstIn(i, Hits(c)) =>
                       CoreRound(req, c) = Again(Says(c, i, i + 2, "REASONING"))
                 /\ \A i \in CloseHits(c) : FirstIn(i, Hits(c)) =>
                       CoreRound(req, c) = Again(Says(c, i, i + 2, "CONTENT"))
                 /\ \A i \in ToolHits(c) : FirstIn(i, Hits(c)) =>
                       CoreRound(req, c) = Again(ToBuffer([c EXCEPT !.content = @ \o Before(c.window, i)],
                                                     i, FALSE, FALSE))
                 /\ Hits(c) = {} /\ BareJson(c) => CoreRound(req, c) = Again(ToBuffer(c, 1, FALSE, TRUE))
                 /\ Hits(c) = {} /\ ~BareJson(c) =>
                       CoreRound(req, c) = Waits(Says(c, Cut(c.window) + 1, Cut(c.window) + 1, "CONTENT"))
  <1> DEFINE opens  == ThinkHits(c)
             closes == CloseHits(c)
             tools  == ToolHits(c)
  <1>1. c.mode = "TOOL_BUFFER" => CoreRound(req, c) = Waits(Took(c))
    BY RequestIs DEF CoreRound, Took
  <1>2. ASSUME c.mode = "REASONING"
        PROVE  CoreRound(req, c) = CoreReasoning(c, closes, tools, Releasable(c.window))
    BY <1>2, RequestIs DEF CoreRound
  <1>3. c.mode = "REASONING" /\ ~c.checkedPrefix /\ PrefixOpen(c) => CoreRound(req, c) = Waits(c)
    BY <1>2 DEF CoreReasoning
  <1>4. c.mode = "REASONING" /\ ~c.checkedPrefix /\ ~PrefixOpen(c) =>
           CoreRound(req, c) = Again(PrefixDropped(c))
    BY <1>2 DEF CoreReasoning
  <1>5. ASSUME c.mode = "REASONING", c.checkedPrefix
        PROVE  /\ \A i \in closes : FirstIn(i, Closers(c)) =>
                     CoreRound(req, c) = Again(Thinks(c, i, i + 2, "CONTENT"))
               /\ \A i \in tools : FirstIn(i, Closers(c)) =>
                     CoreRound(req, c) = Again(ToBuffer([c EXCEPT !.reasoning = @ \o Before(c.window, i)],
                                                   i, TRUE, FALSE))
               /\ Closers(c) = {} =>
                     CoreRound(req, c) = Waits(Thinks(c, Releasable(c.window) + 1,
                                                 Releasable(c.window) + 1, "REASONING"))
    <2>1. CoreRound(req, c) = CoreReasoning(c, closes, tools, Releasable(c.window)) BY <1>2, <1>5
    <2>2. ASSUME NEW i \in closes, FirstIn(i, Closers(c))
          PROVE  CoreRound(req, c) = Again(Thinks(c, i, i + 2, "CONTENT"))
      <3>1. Min(closes) = i BY <2>2, MinWhich, CorePlaces DEF FirstIn, Closers
      <3>2. \A t \in tools : i < t
        <4> SUFFICES ASSUME NEW t \in tools PROVE i < t OBVIOUS
        <4>1. i <= t BY <2>2 DEF FirstIn, Closers
        <4>2. c.window[i] = "c1" /\ c.window[t] \in {"t1", "i1", "n"} BY CorePlaces
        <4>3. i \in Nat /\ t \in Nat BY CorePlaces
        <4> QED BY <4>1, <4>2, <4>3
      <3> QED BY <1>5, <2>1, <3>1, <3>2 DEF CoreReasoning
    <2>3. ASSUME NEW i \in tools, FirstIn(i, Closers(c))
          PROVE  CoreRound(req, c) = Again(ToBuffer([c EXCEPT !.reasoning = @ \o Before(c.window, i)],
                                               i, TRUE, FALSE))
      <3>1. Min(tools) = i BY <2>3, MinWhich, CorePlaces DEF FirstIn, Closers
      <3>2. ~(closes # {} /\ \A t \in tools : Min(closes) < t)
        <4> SUFFICES ASSUME closes # {}, \A t \in tools : Min(closes) < t PROVE FALSE OBVIOUS
        <4>1. Min(closes) \in closes BY CorePlaces, MinIs
        <4>2. i <= Min(closes) /\ Min(closes) < i BY <2>3, <4>1 DEF FirstIn, Closers
        <4>3. i \in Nat /\ Min(closes) \in Nat BY <4>1, CorePlaces
        <4> QED BY <4>2, <4>3
      <3> QED BY <1>5, <2>1, <3>1, <3>2 DEF CoreReasoning
    <2>4. ASSUME Closers(c) = {}
          PROVE  CoreRound(req, c) = Waits(Thinks(c, Releasable(c.window) + 1,
                                             Releasable(c.window) + 1, "REASONING"))
      <3>1. closes = {} /\ tools = {} BY <2>4 DEF Closers
      <3> QED BY <1>5, <2>1, <3>1 DEF CoreReasoning
    <2> QED BY <2>2, <2>3, <2>4
  <1>6. ASSUME c.mode = "CONTENT"
        PROVE  /\ \A i \in opens : FirstIn(i, Hits(c)) =>
                     CoreRound(req, c) = Again(Says(c, i, i + 2, "REASONING"))
               /\ \A i \in closes : FirstIn(i, Hits(c)) =>
                     CoreRound(req, c) = Again(Says(c, i, i + 2, "CONTENT"))
               /\ \A i \in tools : FirstIn(i, Hits(c)) =>
                     CoreRound(req, c) = Again(ToBuffer([c EXCEPT !.content = @ \o Before(c.window, i)],
                                                   i, FALSE, FALSE))
               /\ Hits(c) = {} /\ BareJson(c) => CoreRound(req, c) = Again(ToBuffer(c, 1, FALSE, TRUE))
               /\ Hits(c) = {} /\ ~BareJson(c) =>
                     CoreRound(req, c) = Waits(Says(c, Cut(c.window) + 1, Cut(c.window) + 1, "CONTENT"))
    <2>1. CoreRound(req, c) = CoreAnswering(c, FirstOf(Hits(c)), opens, closes, BareJson(c), Cut(c.window))
      BY <1>6, RequestIs DEF CoreRound, Hits
    <2>2. ASSUME NEW i \in Hits(c), FirstIn(i, Hits(c))
          PROVE  CoreRound(req, c) = CoreDivided(c, i, opens, closes)
      <3>1. Hits(c) \in SUBSET Nat /\ i \in 1 .. Len(c.window) /\ Len(c.window) \in Nat
        BY CorePlaces, CoresAre DEF Hits
      <3>2. FirstOf(Hits(c)) = i BY <2>2, <3>1, MinWhich DEF FirstIn, FirstOf
      <3>3. i > 0 BY <3>1
      <3> QED BY <2>1, <3>2, <3>3 DEF CoreAnswering
    <2>3. \A i \in opens : i \notin closes /\ i \notin tools BY CorePlaces
    <2>4. \A i \in closes : i \notin opens /\ i \notin tools BY CorePlaces
    <2>5. \A i \in tools : i \notin closes /\ i \notin opens BY CorePlaces
    <2>6. \A i \in opens : FirstIn(i, Hits(c)) => CoreRound(req, c) = Again(Says(c, i, i + 2, "REASONING"))
      BY <2>2 DEF CoreDivided, Hits
    <2>7. \A i \in closes : FirstIn(i, Hits(c)) => CoreRound(req, c) = Again(Says(c, i, i + 2, "CONTENT"))
      BY <2>2, <2>4 DEF CoreDivided, Hits
    <2>8. \A i \in tools : FirstIn(i, Hits(c)) =>
             CoreRound(req, c) = Again(ToBuffer([c EXCEPT !.content = @ \o Before(c.window, i)],
                                           i, FALSE, FALSE))
      BY <2>2, <2>5 DEF CoreDivided, Hits
    <2>9. Hits(c) = {} => FirstOf(Hits(c)) = 0 BY DEF FirstOf
    <2>10. /\ Hits(c) = {} /\ BareJson(c) => CoreRound(req, c) = Again(ToBuffer(c, 1, FALSE, TRUE))
           /\ Hits(c) = {} /\ ~BareJson(c) =>
                 CoreRound(req, c) = Waits(Says(c, Cut(c.window) + 1, Cut(c.window) + 1, "CONTENT"))
      <3>1. ~(0 > 0) OBVIOUS
      <3>2. Hits(c) = {} => CoreRound(req, c) = CoreAnswering(c, 0, opens, closes, BareJson(c), Cut(c.window))
        BY <2>1, <2>9
      <3>3. BareJson(c) => CoreAnswering(c, 0, opens, closes, BareJson(c), Cut(c.window)) = Again(ToBuffer(c, 1, FALSE, TRUE))
        BY <3>1 DEF CoreAnswering
      <3>4. ~BareJson(c) =>
               CoreAnswering(c, 0, opens, closes, BareJson(c), Cut(c.window)) =
                  Waits(Says(c, Cut(c.window) + 1, Cut(c.window) + 1, "CONTENT"))
        BY <3>1 DEF CoreAnswering
      <3> QED BY <3>2, <3>3, <3>4
    <2> QED BY <2>6, <2>7, <2>8, <2>10
  <1> QED BY <1>1, <1>3, <1>4, <1>5, <1>6

\* One of these is met, or nothing is.
LEMMA FirstMet ==
    ASSUME NEW c \in Cores
    PROVE  /\ Closers(c) = {} \/ \E i \in Closers(c) : FirstIn(i, Closers(c))
           /\ Hits(c) = {} \/ \E i \in Hits(c) : FirstIn(i, Hits(c))
  <1>1. \A A \in SUBSET Nat : A # {} => \E i \in A : FirstIn(i, A) BY LeastNumber DEF FirstIn
  <1>2. Closers(c) \in SUBSET Nat /\ Hits(c) \in SUBSET Nat BY CorePlaces DEF Closers, Hits
  <1> QED BY <1>1, <1>2

\* Two outcomes of a round.
LEMMA Outcomes ==
    ASSUME NEW c, NEW d
    PROVE  /\ Again(c).em = c /\ Again(c).again = TRUE
           /\ Waits(c).em = c /\ Waits(c).again = FALSE
           /\ Again(c) # Waits(d)
           /\ Again(c) = Again(d) => c = d
           /\ Waits(c) = Waits(d) => c = d
  <1>1. Again(c).em = c /\ Again(c).again = TRUE /\ Again(d).em = d BY DEF Again
  <1>2. Waits(c).em = c /\ Waits(c).again = FALSE /\ Waits(d).em = d /\ Waits(d).again = FALSE
    BY DEF Waits
  <1>3. Again(c) # Waits(d)
    <2>1. Again(c).again # Waits(d).again BY <1>1, <1>2
    <2> QED BY <2>1
  <1> QED BY <1>1, <1>2, <1>3

\* The size by mode.
LEMMA SizeIs ==
    ASSUME NEW c
    PROVE  /\ c.mode = "TOOL_BUFFER" => Size(c) = 0
           /\ c.mode # "TOOL_BUFFER" /\ c.checkedPrefix => Size(c) = Len(c.window) + 1
           /\ c.mode # "TOOL_BUFFER" /\ ~c.checkedPrefix => Size(c) = Len(c.window) + 2
  BY DEF Size

\* A round of a core: it waits, or goes on with less to look at.
LEMMA CoreStep ==
    ASSUME NEW c \in Cores, Asked(req)
    PROVE  /\ Size(c) \in Nat
           /\ \E d \in Cores :
                 /\ c.fallback => d.fallback
                 /\ \/ CoreRound(req, c) = Waits(d)
                    \/ CoreRound(req, c) = Again(d) /\ Size(d) < Size(c)
  <1>0. /\ Len(c.window) \in Nat /\ c.window \in Text /\ c.mode \in Modes
        /\ c.checkedPrefix \in BOOLEAN /\ c.fallback \in BOOLEAN BY CoresAre
  <1>1. Size(c) \in Nat /\ (c.mode # "TOOL_BUFFER" => Size(c) >= 1 /\ Size(c) > Len(c.window))
    BY <1>0, SizeIs
  <1>2. req.vocabulary.stop \in BOOLEAN /\ "CONTENT" \in Modes /\ "REASONING" \in Modes
    BY DEF Asked, Modes
  <1> DEFINE Step(d) == /\ c.fallback => d.fallback
                        /\ \/ CoreRound(req, c) = Waits(d)
                           \/ CoreRound(req, c) = Again(d) /\ Size(d) < Size(c)
  <1>3. CASE c.mode = "TOOL_BUFFER"
    <2>1. CoreRound(req, c) = Waits(Took(c)) BY <1>3, RoundWhen
    <2> QED BY <1>1, <2>1, TookIs
  <1>4. CASE c.mode = "REASONING" /\ ~c.checkedPrefix
    <2>1. CASE PrefixOpen(c)
      <3>1. CoreRound(req, c) = Waits(c) BY <1>4, <2>1, RoundWhen
      <3> QED BY <1>1, <3>1
    <2>2. CASE ~PrefixOpen(c)
      <3>1. CoreRound(req, c) = Again(PrefixDropped(c)) BY <1>4, <2>2, RoundWhen
      <3>2. PICK d \in Cores : /\ d = PrefixDropped(c) /\ d.mode = c.mode /\ d.fallback = c.fallback
                               /\ d.checkedPrefix = TRUE
                               /\ \E j \in 1 .. Len(c.window) + 1 : d.window = From(c.window, j)
        BY DroppedIs
      <3>3. Len(d.window) <= Len(c.window) /\ Len(d.window) \in Nat
        <4>1. PICK j \in 1 .. Len(c.window) + 1 : d.window = From(c.window, j) BY <3>2
        <4>2. j \in Nat /\ j >= 1 BY <1>0
        <4> QED BY <1>0, <3>2, <4>1, <4>2, FromIs, CoresAre
      <3>4. Size(d) < Size(c) BY <1>0, <1>4, <3>2, <3>3, SizeIs
      <3> QED BY <1>1, <3>1, <3>2, <3>4
    <2> QED BY <2>1, <2>2
  <1>5. ASSUME NEW d \in Cores, d.mode # "TOOL_BUFFER", d.checkedPrefix = c.checkedPrefix,
               d.fallback = c.fallback, c.mode # "TOOL_BUFFER",
               NEW i \in 1 .. Len(c.window) - 1, d.window = From(c.window, i + 2),
               CoreRound(req, c) = Again(d)
        PROVE  Step(d)
    <2>1. i + 2 \in Nat /\ i + 2 >= 1 /\ i + 2 <= Len(c.window) + 1 BY <1>0
    <2>2. Len(d.window) = Len(c.window) - (i + 2) + 1 BY <1>0, <1>5, <2>1, FromIs
    <2>0. d.window \in Text /\ Len(d.window) \in Nat BY CoresAre
    <2>3. Len(d.window) < Len(c.window) BY <1>0, <2>0, <2>2
    <2> QED BY <1>0, <1>5, <2>0, <2>3, SizeIs
  <1>6. ASSUME NEW d \in Cores, d.mode = "TOOL_BUFFER", c.fallback => d.fallback,
               c.mode # "TOOL_BUFFER", CoreRound(req, c) = Again(d)
        PROVE  Step(d)
    <2>1. Size(d) = 0 BY <1>6 DEF Size
    <2> QED BY <1>1, <1>6, <2>1
  <1>7. CASE c.mode = "REASONING" /\ c.checkedPrefix
    <2>1. CASE Closers(c) = {}
      <3>1. PICK k \in 0 .. Len(c.window) : k = Releasable(c.window) BY <1>0, <1>2, ReleasableIs
      <3>2. CoreRound(req, c) = Waits(Thinks(c, k + 1, k + 1, "REASONING"))
        BY <1>7, <2>1, <3>1, RoundWhen
      <3>3. k + 1 \in 1 .. Len(c.window) + 1 BY <1>0
      <3> QED BY <1>1, <1>2, <3>2, <3>3, ThinksIs
    <2>2. CASE Closers(c) # {}
      <3>1. PICK i \in Closers(c) : FirstIn(i, Closers(c)) BY <2>2, FirstMet
      <3>2. CASE i \in CloseHits(c)
        <4>1. CoreRound(req, c) = Again(Thinks(c, i, i + 2, "CONTENT"))
          BY <1>7, <3>1, <3>2, RoundWhen
        <4>2. i \in 1 .. Len(c.window) - 1 /\ i + 2 \in 1 .. Len(c.window) + 1 BY <3>2, CorePlaces
        <4>3. i \in 1 .. Len(c.window) + 1 BY <1>0, <4>2
        <4>4. PICK d \in Cores : /\ d = Thinks(c, i, i + 2, "CONTENT") /\ d.mode = "CONTENT"
                                 /\ d.checkedPrefix = c.checkedPrefix /\ d.fallback = c.fallback
                                 /\ d.window = From(c.window, i + 2)
          BY ZenonT(40), <1>2, <4>2, <4>3, ThinksIs
        <4>5. d.mode # "TOOL_BUFFER" BY <4>4
        <4>6. Step(d) BY <1>5, <1>7, <4>1, <4>2, <4>4, <4>5
        <4> QED BY <1>1, <4>6
      <3>3. CASE i \in ToolHits(c)
        <4>1. i \in 1 .. Len(c.window) + 1 BY <1>0, <3>3, CorePlaces
        <4>2. PICK s \in Cores : /\ s = [c EXCEPT !.reasoning = @ \o Before(c.window, i)]
                                 /\ s.window = c.window /\ s.fallback = c.fallback
          BY <4>1, SpokenIs
        <4>3. PICK d \in Cores : /\ d = ToBuffer(s, i, TRUE, FALSE) /\ d.mode = "TOOL_BUFFER"
                                 /\ s.fallback => d.fallback
          BY ZenonT(60), <4>1, <4>2, OpenedIs
        <4>4. d.mode = "TOOL_BUFFER" /\ (c.fallback => d.fallback) BY <4>2, <4>3
        <4>5. CoreRound(req, c) = Again(d) BY <1>7, <3>1, <3>3, <4>2, <4>3, RoundWhen
        <4>6. Step(d) BY <1>6, <1>7, <4>4, <4>5
        <4> QED BY <1>1, <4>6
      <3> QED BY <3>2, <3>3 DEF Closers
    <2> QED BY <2>1, <2>2
  <1>8. CASE c.mode = "CONTENT"
    <2>1. CASE Hits(c) = {} /\ BareJson(c)
      <3>1. 1 \in 1 .. Len(c.window) + 1 BY <1>0
      <3>2. PICK d \in Cores : d = ToBuffer(c, 1, FALSE, TRUE) BY <3>1, OpenedIs
      <3>3. d.mode = "TOOL_BUFFER" /\ (c.fallback => d.fallback) BY <3>1, <3>2, OpenedIs
      <3>4. CoreRound(req, c) = Again(d) BY <1>8, <2>1, <3>2, RoundWhen
      <3>5. Step(d) BY <1>6, <1>8, <3>3, <3>4
      <3> QED BY <1>1, <3>5
    <2>2. CASE Hits(c) = {} /\ ~BareJson(c)
      <3>1. PICK n \in 0 .. Len(c.window) : n = Releasable(c.window) BY <1>0, <1>2, ReleasableIs
      <3>2. Cut(c.window) \in 0 .. n BY <1>0, <1>2, <3>1, ReleasableIs DEF Cut
      <3>3. PICK k \in 0 .. Len(c.window) : k = Cut(c.window)
        <4>1. \A k \in 0 .. n : k \in 0 .. Len(c.window) BY <1>0, <3>1
        <4> QED BY <3>2, <4>1
      <3>4. CoreRound(req, c) = Waits(Says(c, k + 1, k + 1, "CONTENT"))
        BY <1>8, <2>2, <3>3, RoundWhen
      <3>5. k + 1 \in 1 .. Len(c.window) + 1 BY <1>0
      <3> QED BY <1>1, <1>2, <3>4, <3>5, SaysIs
    <2>3. CASE Hits(c) # {}
      <3>1. PICK i \in Hits(c) : FirstIn(i, Hits(c)) BY <2>3, FirstMet
      <3>2. i \in 1 .. Len(c.window) + 1 BY CorePlaces
      <3>3. ASSUME NEW mode \in {"CONTENT", "REASONING"}, i \in 1 .. Len(c.window) - 1,
                   i + 2 \in 1 .. Len(c.window) + 1,
                   CoreRound(req, c) = Again(Says(c, i, i + 2, mode))
            PROVE  \E d \in Cores : Step(d)
        <4>1. mode \in Modes BY <1>2
        <4>2. PICK d \in Cores : d = Says(c, i, i + 2, mode) BY <3>2, <3>3, <4>1, SaysIs
        <4>3. /\ d.mode = mode /\ d.checkedPrefix = c.checkedPrefix /\ d.fallback = c.fallback
              /\ d.window = From(c.window, i + 2)
          BY ZenonT(40), <3>2, <3>3, <4>1, <4>2, SaysIs
        <4>4. d.mode # "TOOL_BUFFER" BY <4>3
        <4>5. Step(d) BY <1>5, <1>8, <3>3, <4>2, <4>3, <4>4
        <4> QED BY <4>5
      <3>4. CASE i \in ThinkHits(c)
        <4>1. CoreRound(req, c) = Again(Says(c, i, i + 2, "REASONING"))
          BY <1>8, <3>1, <3>4, RoundWhen
        <4> QED BY <1>1, <3>3, <3>4, <4>1, CorePlaces
      <3>5. CASE i \in CloseHits(c)
        <4>1. CoreRound(req, c) = Again(Says(c, i, i + 2, "CONTENT")) BY <1>8, <3>1, <3>5, RoundWhen
        <4> QED BY <1>1, <3>3, <3>5, <4>1, CorePlaces
      <3>6. CASE i \in ToolHits(c)
        <4>1. PICK s \in Cores : /\ s = [c EXCEPT !.content = @ \o Before(c.window, i)]
                                 /\ s.window = c.window /\ s.fallback = c.fallback
          BY <3>2, SpokenIs
        <4>2. PICK d \in Cores : /\ d = ToBuffer(s, i, FALSE, FALSE) /\ d.mode = "TOOL_BUFFER"
                                 /\ s.fallback => d.fallback
          BY ZenonT(60), <3>2, <4>1, OpenedIs
        <4>3. d.mode = "TOOL_BUFFER" /\ (c.fallback => d.fallback) BY <4>1, <4>2
        <4>4. CoreRound(req, c) = Again(d) BY <1>8, <3>1, <3>6, <4>1, <4>2, RoundWhen
        <4>5. Step(d) BY <1>6, <1>8, <4>3, <4>4
        <4> QED BY <1>1, <4>5
      <3> QED BY <3>4, <3>5, <3>6 DEF Hits
    <2> QED BY <2>1, <2>2, <2>3
  <1> QED BY <1>0, <1>3, <1>4, <1>7, <1>8 DEF Modes

\* f[0], ..., f[n] are rounds from c on, each going on to the next, and the last of
\* them waits with r.
Trace(q, f, n, c, r) ==
    /\ n \in Nat /\ f[0] = c /\ \A m \in 0 .. n : f[m] \in Cores
    /\ \A m \in 0 .. n - 1 : CoreRound(q, f[m]) = Again(f[m + 1])
    /\ CoreRound(q, f[n]) = Waits(r)

\* The rounds of c end with r.
Comes(q, c, r) == \E f, n : Trace(q, f, n, c, r)

\* A trace that goes on at least once goes on from the second round.
LEMMA TraceTail ==
    ASSUME NEW f, NEW n, NEW c, NEW r, Trace(req, f, n, c, r)
    PROVE  /\ n = 0 => CoreRound(req, c) = Waits(r)
           /\ n # 0 => /\ CoreRound(req, c) = Again(f[1]) /\ f[1] \in Cores
                       /\ Trace(req, [m \in 0 .. n - 1 |-> f[m + 1]], n - 1, f[1], r)
  <1>1. n \in Nat BY DEF Trace
  <1>2. n = 0 => CoreRound(req, c) = Waits(r) BY DEF Trace
  <1>3. ASSUME n # 0
        PROVE  /\ CoreRound(req, c) = Again(f[1]) /\ f[1] \in Cores
               /\ Trace(req, [m \in 0 .. n - 1 |-> f[m + 1]], n - 1, f[1], r)
    <2>1. 0 \in 0 .. n - 1 /\ 0 + 1 = 1 /\ 1 \in 0 .. n /\ n - 1 \in Nat /\ n - 1 + 1 = n
          /\ n - 1 \in 0 .. n - 1
      BY <1>1, <1>3
    <2>2. CoreRound(req, c) = Again(f[1]) /\ f[1] \in Cores BY <2>1 DEF Trace
    <2> DEFINE g == [m \in 0 .. n - 1 |-> f[m + 1]]
    <2>3. g[0] = f[1] /\ g[n - 1] = f[n] BY <2>1
    <2>4. \A m \in 0 .. n - 1 : g[m] \in Cores
      <3> SUFFICES ASSUME NEW m \in 0 .. n - 1 PROVE g[m] \in Cores OBVIOUS
      <3>1. m + 1 \in 0 .. n BY <1>1
      <3> QED BY <3>1 DEF Trace
    <2>5. \A m \in 0 .. n - 1 - 1 : CoreRound(req, g[m]) = Again(g[m + 1])
      <3> SUFFICES ASSUME NEW m \in 0 .. n - 1 - 1 PROVE CoreRound(req, g[m]) = Again(g[m + 1])
        OBVIOUS
      <3>1. m \in 0 .. n - 1 /\ m + 1 \in 0 .. n - 1 BY <1>1
      <3>2. CoreRound(req, f[m + 1]) = Again(f[m + 1 + 1]) BY <3>1 DEF Trace
      <3> QED BY <3>1, <3>2
    <2>6. CoreRound(req, g[n - 1]) = Waits(r) BY <2>3 DEF Trace
    <2> HIDE DEF g
    <2>7. Trace(req, g, n - 1, f[1], r) BY <2>1, <2>3, <2>4, <2>5, <2>6 DEF Trace
    <2> QED BY <2>2, <2>7 DEF g
  <1> QED BY <1>2, <1>3

\* Where the rounds of c lead there is one end.
LEMMA ComesOnce ==
    ASSUME NEW c, NEW r, NEW s, Comes(req, c, r), Comes(req, c, s) PROVE r = s
  <1> DEFINE Differs(n) == \E b, f, g, k, q, t : Trace(req, f, n, b, q) /\ Trace(req, g, k, b, t) /\ q # t
             A == {n \in Nat : Differs(n)}
  <1>1. ASSUME A # {} PROVE FALSE
    <2>1. A \in SUBSET Nat OBVIOUS
    <2>2. PICK n \in A : \A j \in A : n <= j
      <3> HIDE DEF A
      <3> QED BY <1>1, <2>1, LeastNumber
    <2>3. n \in Nat /\ Differs(n) BY <2>2
    <2>4. PICK b, f, g, k, q, t : Trace(req, f, n, b, q) /\ Trace(req, g, k, b, t) /\ q # t BY <2>3
    <2>5. CASE n = 0
      <3>1. CoreRound(req, b) = Waits(q) BY <2>4, <2>5, TraceTail
      <3>2. k # 0 => CoreRound(req, b) = Again(g[1])
        <4>1. Trace(req, g, k, b, t) BY <2>4
        <4> QED BY ONLY <4>1, TraceTail
      <3>3a. k = 0
        <4>1. PICK y : y = g[1] OBVIOUS
        <4>2. Waits(q) # Again(y) BY Outcomes
        <4> QED BY <3>1, <3>2, <4>1, <4>2
      <3>3. CoreRound(req, b) = Waits(t) BY <2>4, <3>3a, TraceTail
      <3> QED BY ZenonT(40), <2>4, <3>1, <3>3, Outcomes
    <2>6. CASE n # 0
      <3>1. PICK x : x = f[1] OBVIOUS
      <3>2. CoreRound(req, b) = Again(x) BY <2>4, <2>6, <3>1, TraceTail
      <3>3. k # 0
        <4>1. k = 0 => CoreRound(req, b) = Waits(t) BY <2>4, TraceTail
        <4>2. Waits(t) # Again(x) BY Outcomes
        <4> QED BY <3>2, <4>1, <4>2
      <3>4. CoreRound(req, b) = Again(g[1]) BY <2>4, <3>3, TraceTail
      <3>5. g[1] = x BY <3>2, <3>4, Outcomes
      <3>6. PICK f2 : f2 = [m \in 0 .. n - 1 |-> f[m + 1]] OBVIOUS
      <3>7. PICK g2 : g2 = [m \in 0 .. k - 1 |-> g[m + 1]] OBVIOUS
      <3>8. Trace(req, f2, n - 1, x, q) BY <2>4, <2>6, <3>1, <3>6, TraceTail
      <3>9. Trace(req, g2, k - 1, x, t) BY <2>4, <3>3, <3>5, <3>7, TraceTail
      <3>10. Differs(n - 1) BY <2>4, <3>8, <3>9
      <3>11. n - 1 \in Nat /\ ~(n <= n - 1) BY <2>3, <2>6
      <3>12. n - 1 \in A BY <3>10, <3>11
      <3> QED BY <2>2, <3>11, <3>12
    <2> QED BY <2>5, <2>6
  <1>2. PICK f, n : Trace(req, f, n, c, r) BY DEF Comes
  <1>3. PICK g, k : Trace(req, g, k, c, s) BY DEF Comes
  <1>4. n \in Nat BY <1>2 DEF Trace
  <1>5. ASSUME r # s PROVE FALSE
    <2>1. Differs(n) BY <1>2, <1>3, <1>5
    <2>2. n \in A BY <1>4, <2>1
    <2> QED BY <1>1, <2>2
  <1> QED BY <1>5

\* Nothing beside the core is changed on the way.
LEMMA BesideOn ==
    ASSUME NEW c, NEW d, NEW e, Beside(d, e), Beside(c, d) PROVE Beside(c, e)
  BY DEF Beside

\* The loop over a window goes on until a round waits.
LEMMA ProcessComes ==
    ASSUME Asked(req), NEW e \in Em
    PROVE  LET p == Process(e)
           IN  p \in Em /\ Beside(p, e) /\ Comes(req, Core(e), Core(p))
  <1>1. Len(e.window) \in Nat BY EmTexts
  <1>2. PICK rounds \in Nat : rounds = Len(e.window) + 3 BY <1>1
  <1> DEFINE f == CHOOSE f : Rounds(f, e, rounds)
  <1>3. Rounds(f, e, rounds) BY RoundsExist
  <1>4. Process(e) = f[rounds].em BY <1>2 DEF Process, Rounds
  <1> HIDE DEF f
  <1>5. /\ f[0] = Again(e)
        /\ \A m \in 1 .. rounds : f[m] = IF f[m - 1].again THEN Round(f[m - 1].em) ELSE f[m - 1]
    BY <1>3 DEF Rounds
  <1> DEFINE Good(m) == /\ f[m].em \in Em /\ Beside(f[m].em, e) /\ f[m].again \in BOOLEAN
                        /\ f[m].again => Size(Core(f[m].em)) + m <= Size(Core(e))
             Bad == {m \in 0 .. rounds : ~Good(m)}
  <1>6. Core(e) \in Cores BY CoreIs
  <1>7. Size(Core(e)) \in Nat /\ Size(Core(e)) <= Len(e.window) + 2
    <2>1. Core(e).window = e.window /\ Core(e).checkedPrefix \in BOOLEAN BY <1>6, CoreIs, CoresAre
    <2> QED BY <1>1, <1>6, <2>1, CoreStep, SizeIs
  <1>8. ASSUME NEW m \in 1 .. rounds, Good(m - 1), f[m - 1].again
        PROVE  /\ Good(m)
               /\ CoreRound(req, Core(f[m - 1].em)) =
                     IF f[m].again THEN Again(Core(f[m].em)) ELSE Waits(Core(f[m].em))
    <2>1. PICK l : l = f[m - 1] OBVIOUS
    <2>2. l.em \in Em /\ Beside(l.em, e) /\ Size(Core(l.em)) + (m - 1) <= Size(Core(e))
      BY <1>8, <2>1
    <2>3. f[m] = Round(l.em) BY <1>5, <1>8, <2>1
    <2>4. PICK r : r = Round(l.em) OBVIOUS
    <2>5. r.em \in Em /\ Beside(r.em, l.em)
          /\ CoreRound(req, Core(l.em)) = [em |-> Core(r.em), again |-> r.again]
      BY <2>2, <2>4, RoundFollows DEF Follows
    <2>6. PICK c \in Cores : c = Core(l.em) BY <2>2, CoreIs
    <2>7. PICK d \in Cores : CoreRound(req, c) = Waits(d) \/ (CoreRound(req, c) = Again(d) /\ Size(d) < Size(c))
      BY CoreStep
    <2>8. CoreRound(req, c).em = Core(r.em) /\ CoreRound(req, c).again = r.again BY <2>5, <2>6
    <2>9. Size(c) \in Nat /\ Size(d) \in Nat /\ m \in Nat BY CoreStep
    <2>10. Beside(r.em, e) BY <2>2, <2>5, BesideOn
    <2>11. CASE CoreRound(req, c) = Waits(d)
      <3>1. r.again = FALSE /\ Core(r.em) = d BY <2>8, <2>11, Outcomes
      <3> QED BY <2>1, <2>3, <2>4, <2>5, <2>6, <2>10, <2>11, <3>1
    <2>12. CASE CoreRound(req, c) = Again(d) /\ Size(d) < Size(c)
      <3>1. r.again = TRUE /\ Core(r.em) = d BY <2>8, <2>12, Outcomes
      <3>2. Size(d) + m <= Size(Core(e)) BY <1>7, <2>2, <2>6, <2>9, <2>12
      <3> QED BY <2>1, <2>3, <2>4, <2>5, <2>6, <2>10, <2>12, <3>1, <3>2
    <2> QED BY <2>7, <2>11, <2>12
  <1>9. Good(0)
    <2>1. f[0].em = e /\ f[0].again = TRUE BY <1>5, Outcomes
    <2>2. Beside(e, e) BY DEF Beside
    <2>3. PICK k \in Nat : k = Size(Core(e)) BY <1>7
    <2>4. Size(Core(f[0].em)) + 0 <= Size(Core(e)) BY <2>1, <2>3
    <2> QED BY <2>1, <2>2, <2>4
  <1>10. \A m \in 0 .. rounds : Good(m)
    <2> SUFFICES ASSUME Bad # {} PROVE FALSE OBVIOUS
    <2>1. Bad \in SUBSET Nat OBVIOUS
    <2>2. PICK m \in Bad : \A j \in Bad : m <= j
      <3> HIDE DEF Bad
      <3> QED BY <2>1, LeastNumber
    <2>3. m \in 1 .. rounds /\ ~Good(m) BY <1>9, <2>2
    <2>4. m - 1 \in 0 .. rounds /\ ~(m <= m - 1) BY <2>3
    <2>5. Good(m - 1)
      <3> HIDE DEF Good
      <3> QED BY <2>2, <2>4
    <2>6. CASE f[m - 1].again BY <1>8, <2>3, <2>5, <2>6
    <2>7. CASE ~f[m - 1].again
      <3>1. f[m] = f[m - 1] BY <1>5, <2>3, <2>7
      <3> QED BY <2>3, <2>5, <2>7, <3>1
    <2> QED BY <2>6, <2>7
  <1> DEFINE Rest == {m \in 0 .. rounds : ~f[m].again}
  <1>11. rounds \in Rest
    <2>1. rounds \in 0 .. rounds OBVIOUS
    <2>2. Good(rounds) BY <1>10, <2>1
    <2>3. PICK c \in Cores : c = Core(f[rounds].em) BY <2>2, CoreIs
    <2>4. Size(c) \in Nat BY CoreStep
    <2>5. ASSUME f[rounds].again PROVE FALSE
      <3>1. Size(c) + rounds <= Size(Core(e)) BY <2>2, <2>3, <2>5
      <3> QED BY <1>1, <1>2, <1>7, <2>4, <3>1
    <2> QED BY <2>1, <2>5
  <1>12. PICK n \in Rest : \A j \in Rest : n <= j
    <2>1. Rest \in SUBSET Nat OBVIOUS
    <2> HIDE DEF Rest
    <2> QED BY <1>11, <2>1, LeastNumber
  <1>13. n \in 1 .. rounds /\ ~f[n].again
    <2>1. f[0].again = TRUE BY <1>5, Outcomes
    <2> QED BY <1>12, <2>1
  <1>14. \A m \in 0 .. n - 1 : m \in 0 .. rounds /\ f[m].again
    <2> SUFFICES ASSUME NEW m \in 0 .. n - 1 PROVE m \in 0 .. rounds /\ f[m].again OBVIOUS
    <2>1. m \in 0 .. rounds /\ ~(n <= m) BY <1>13
    <2> QED BY <1>12, <2>1
  <1>15. \A m \in n .. rounds : f[m] = f[n]
    <2> DEFINE B == {m \in n .. rounds : f[m] # f[n]}
    <2> SUFFICES ASSUME B # {} PROVE FALSE OBVIOUS
    <2>1. B \in SUBSET Nat BY <1>13
    <2>2. PICK m \in B : \A j \in B : m <= j
      <3> HIDE DEF B
      <3> QED BY <2>1, LeastNumber
    <2>3. m \in 1 .. rounds /\ m - 1 \in n .. rounds /\ ~(m <= m - 1) BY <1>13, <2>2
    <2>4. f[m - 1] = f[n] BY <2>2, <2>3
    <2>5. f[m] = f[m - 1] BY <1>5, <1>13, <2>3, <2>4
    <2> QED BY <2>2, <2>4, <2>5
  <1>16. Process(e) = f[n].em BY <1>4, <1>13, <1>15
  <1>17. Good(n) BY <1>10, <1>13
  <1> DEFINE g == [m \in 0 .. n - 1 |-> Core(f[m].em)]
  <1>18. Trace(req, g, n - 1, Core(e), Core(f[n].em))
    <2>1. n - 1 \in Nat /\ 0 \in 0 .. n - 1 /\ n - 1 \in 0 .. n - 1 BY <1>13
    <2>2. g[0] = Core(e) BY <1>5, <2>1, Outcomes
    <2>3. \A m \in 0 .. n - 1 : g[m] \in Cores
      <3> SUFFICES ASSUME NEW m \in 0 .. n - 1 PROVE g[m] \in Cores OBVIOUS
      <3>1. Good(m) BY <1>10, <1>14
      <3> QED BY <3>1, CoreIs
    <2>4. \A m \in 0 .. n - 1 :
             CoreRound(req, g[m]) = IF f[m + 1].again THEN Again(Core(f[m + 1].em))
                               ELSE Waits(Core(f[m + 1].em))
      <3> SUFFICES ASSUME NEW m \in 0 .. n - 1
                   PROVE  CoreRound(req, g[m]) = IF f[m + 1].again THEN Again(Core(f[m + 1].em))
                                            ELSE Waits(Core(f[m + 1].em))
        OBVIOUS
      <3>1. m + 1 \in 1 .. rounds /\ m + 1 - 1 = m BY <1>13
      <3>2. Good(m) /\ f[m].again BY <1>10, <1>14
      <3>3. PICK k : k = m + 1 OBVIOUS
      <3>4. k \in 1 .. rounds /\ k - 1 = m BY <3>1, <3>3
      <3>5. Good(k - 1) /\ f[k - 1].again
        <4> HIDE DEF Good
        <4> QED BY <3>2, <3>4
      <3>6. CoreRound(req, Core(f[k - 1].em)) =
               IF f[k].again THEN Again(Core(f[k].em)) ELSE Waits(Core(f[k].em))
        <4> HIDE DEF Good
        <4> QED BY <1>8, <3>4, <3>5
      <3> QED BY <3>3, <3>4, <3>6
    <2>5. \A m \in 0 .. n - 1 - 1 : CoreRound(req, g[m]) = Again(g[m + 1])
      <3> SUFFICES ASSUME NEW m \in 0 .. n - 1 - 1 PROVE CoreRound(req, g[m]) = Again(g[m + 1])
        OBVIOUS
      <3>1. m \in 0 .. n - 1 /\ m + 1 \in 0 .. n - 1 BY <1>13
      <3>2. f[m + 1].again BY <1>14, <3>1
      <3>3. g[m + 1] = Core(f[m + 1].em) BY <3>1
      <3> QED BY <2>4, <3>1, <3>2, <3>3
    <2>6. CoreRound(req, g[n - 1]) = Waits(Core(f[n].em))
      <3>1. n - 1 + 1 = n BY <1>13
      <3> QED BY <1>13, <2>1, <2>4, <3>1
    <2> HIDE DEF g
    <2> QED BY <2>1, <2>2, <2>3, <2>5, <2>6 DEF Trace
  <1>19. Comes(req, Core(e), Core(f[n].em))
    <2> HIDE DEF g
    <2> QED BY <1>18 DEF Comes
  <1> QED BY <1>16, <1>17, <1>19

\* What the rounds of a core come to.
Left(q, c) == CHOOSE r : Comes(q, c, r)

\* It is the core of what the loop makes of the emitter, and that of the next round.
LEMMA LeftIs ==
    ASSUME Asked(req), NEW c \in Cores
    PROVE  /\ Left(req, c) \in Cores
           /\ \A d : CoreRound(req, c) = Again(d) => d \in Cores /\ Left(req, c) = Left(req, d)
           /\ \A d : CoreRound(req, c) = Waits(d) => d \in Cores /\ Left(req, c) = d
           /\ \A e \in Em : Core(e) = c => Core(Process(e)) = Left(req, c)
  <1>1. ASSUME NEW e \in Em, Core(e) = c
        PROVE  Core(Process(e)) = Left(req, c) /\ Comes(req, c, Left(req, c)) /\ Left(req, c) \in Cores
    <2>1. Process(e) \in Em /\ Comes(req, c, Core(Process(e))) BY <1>1, ProcessComes
    <2>2. Comes(req, c, Left(req, c)) BY <2>1 DEF Left
    <2>3. Left(req, c) = Core(Process(e)) BY <2>1, <2>2, ComesOnce
    <2> QED BY <2>1, <2>2, <2>3, CoreIs
  <1>2. Comes(req, c, Left(req, c)) /\ Left(req, c) \in Cores BY <1>1, CoreOf
  <1>3. PICK f, n : Trace(req, f, n, c, Left(req, c)) BY <1>2 DEF Comes
  <1>4. ASSUME NEW d, CoreRound(req, c) = Again(d) PROVE d \in Cores /\ Left(req, c) = Left(req, d)
    <2>1. n # 0
      <3>1. PICK x : x = Left(req, c) OBVIOUS
      <3>2. n = 0 => CoreRound(req, c) = Waits(x) BY <1>3, <3>1, TraceTail
      <3>3. Waits(x) # Again(d) BY Outcomes
      <3> QED BY <1>4, <3>2, <3>3
    <2>2. d = f[1] /\ f[1] \in Cores
      <3>1. PICK x : x = f[1] OBVIOUS
      <3>2. PICK y : y = Left(req, c) OBVIOUS
      <3>3. CoreRound(req, c) = Again(x) /\ x \in Cores BY <1>3, <2>1, <3>1, <3>2, TraceTail
      <3>4. x = d BY ZenonT(40), <1>4, <3>3, Outcomes
      <3> QED BY <3>1, <3>3, <3>4
    <2>3. PICK g : g = [m \in 0 .. n - 1 |-> f[m + 1]] OBVIOUS
    <2>4. Trace(req, g, n - 1, d, Left(req, c)) BY <1>3, <2>1, <2>2, <2>3, TraceTail
    <2>5. Comes(req, d, Left(req, c)) BY <2>4 DEF Comes
    <2>6. Comes(req, d, Left(req, d)) BY <2>5 DEF Left
    <2> QED BY <2>2, <2>5, <2>6, ComesOnce
  <1>5. ASSUME NEW d, CoreRound(req, c) = Waits(d) PROVE d \in Cores /\ Left(req, c) = d
    <2>1. n = 0
      <3>1. PICK x : x = f[1] OBVIOUS
      <3>2. PICK y : y = Left(req, c) OBVIOUS
      <3>3. n # 0 => CoreRound(req, c) = Again(x) BY <1>3, <3>1, <3>2, TraceTail
      <3>4. Waits(d) # Again(x) BY Outcomes
      <3> QED BY <1>5, <3>3, <3>4
    <2>2. CoreRound(req, c) = Waits(Left(req, c)) BY <1>3, <2>1, TraceTail
    <2> QED BY ZenonT(40), <1>2, <1>5, <2>2, Outcomes
  <1> QED BY <1>1, <1>2, <1>4, <1>5

\* The text a token adds, behind half a character that waited.
TokenAdds(tail, piece) ==
    LET joined == tail \o piece
    IN  Sanitized(SubSeq(joined, 1, Len(joined) - Len(TailOf(joined))))

\* t is e with a token's text in its window, before anything is done about it.
TakenBy(t, e, piece) ==
    /\ t \in Em /\ t.raw = e.raw \o TokenAdds(e.tail, piece)
    /\ t.window = e.window \o TokenAdds(e.tail, piece)
    /\ t.tail = TailOf(e.tail \o piece) /\ t.pieces = Append(e.pieces, piece)
    /\ t.count = e.count + 1 /\ t.suppress = e.suppress /\ t.calls = e.calls
    /\ t.firstContent = IF CountsAsContent(e, piece) THEN e.count ELSE e.firstContent
    /\ t.mode = e.mode /\ t.stopHit = FALSE /\ t.toolBuffer = e.toolBuffer
    /\ t.content = e.content /\ t.reasoning = e.reasoning
    /\ t.fromReasoning = e.fromReasoning /\ (e.fallback <=> t.fallback)
    /\ (e.checkedPrefix <=> t.checkedPrefix)
    /\ Core(t) = [Core(e) EXCEPT !.window = @ \o TokenAdds(e.tail, piece)]

\* The text of a token is one, and so is what waits behind it.
LEMMA TokenAddsIs ==
    ASSUME NEW e, Plainly(e), NEW piece \in Text, Unwrapped(piece)
    PROVE  /\ TokenAdds(e.tail, piece) \in Text /\ Unwrapped(TokenAdds(e.tail, piece))
           /\ TailOf(e.tail \o piece) \in {<<>>, <<"u1">>} /\ TailOf(e.tail \o piece) \in Text
           /\ e.tail \in Text
  <1>1. PICK tail \in {<<>>, <<"u1">>} : tail = e.tail BY DEF Plainly
  <1>2. tail \in Text
    <2>1. "u1" \in Symbol BY DEF Symbol
    <2>2. <<"u1">> \in Text BY <2>1, Short DEF Text
    <2>3. <<>> \in Text BY <2>2, CatIs
    <2> QED BY <1>1, <2>2, <2>3
  <1> QED BY <1>1, <1>2, PieceIs DEF TokenAdds

\* A token's text is taken.
LEMMA TokenIs ==
    ASSUME NEW e \in Em, Plainly(e), ~e.stopHit, NEW piece \in Text, Unwrapped(piece)
    PROVE  \E t : TakenBy(t, e, piece) /\ EmitToken(e, piece) = Advanced(t)
  <1>1. PICK text \in Text : text = TokenAdds(e.tail, piece) BY TokenAddsIs
  <1>2. PICK rest \in Text : rest = TailOf(e.tail \o piece) BY TokenAddsIs
  <1>3. PICK raw \in Text : raw = e.raw \o text BY CatIs, EmTexts
  <1>4. PICK window \in Text : window = e.window \o text BY CatIs, EmTexts
  <1>5. PICK pieces \in Seq(Text) : pieces = Append(e.pieces, piece)
    <2>1. e.pieces \in Seq(Text) BY DEF Em
    <2> QED BY <2>1, AppendProperties
  <1>6. PICK count \in Nat : count = e.count + 1
    <2>1. e.count \in Nat BY DEF Em
    <2> QED BY <2>1
  <1>7. PICK first \in Int : first = IF CountsAsContent(e, piece) THEN e.count ELSE e.firstContent
    <2>1. e.count \in Nat /\ e.firstContent \in Int BY DEF Em
    <2>2. PICK n \in Nat : n = e.count BY <2>1
    <2>3. n \in Int OBVIOUS
    <2> QED BY <2>1, <2>2, <2>3
  <1> DEFINE t == [e EXCEPT !.firstContent = first, !.count = count, !.tail = rest, !.raw = raw,
                            !.window = window, !.pieces = pieces]
  <1>8. EmitToken(e, piece) = Advanced(t)
    BY <1>1, <1>2, <1>3, <1>4, <1>5, <1>6, <1>7 DEF EmitToken, TokenAdds
  <1>9. t \in Em BY DEF Em
  <1>10. /\ t.firstContent = first /\ t.count = count /\ t.tail = rest /\ t.raw = raw
         /\ t.window = window /\ t.pieces = pieces /\ t.mode = e.mode /\ t.stopHit = e.stopHit
         /\ t.toolBuffer = e.toolBuffer /\ t.calls = e.calls /\ t.suppress = e.suppress
    BY DEF Em
  <1>11. /\ t.content = e.content /\ t.reasoning = e.reasoning
         /\ t.fromReasoning = e.fromReasoning /\ t.fallback = e.fallback
         /\ t.checkedPrefix = e.checkedPrefix
    BY DEF Em
  <1>12. e.stopHit = FALSE BY EmTexts
  <1> HIDE DEF t
  <1>13. Core(t) = [Core(e) EXCEPT !.window = @ \o text]
    <2>1. PICK c : c = [mode |-> e.mode, window |-> window, toolBuffer |-> e.toolBuffer,
                        content |-> e.content, reasoning |-> e.reasoning,
                        fromReasoning |-> e.fromReasoning,
                        fallback |-> e.fallback, checkedPrefix |-> e.checkedPrefix]
      OBVIOUS
    <2>2. Core(t) = c BY <1>10, <1>11, <2>1 DEF Core
    <2>3. [Core(e) EXCEPT !.window = @ \o text] = [Core(e) EXCEPT !.window = window]
      BY <1>4 DEF Core
    <2>4. [Core(e) EXCEPT !.window = window] = c BY <2>1 DEF Core
    <2> QED BY <2>2, <2>3, <2>4
  <1>14. TakenBy(t, e, piece)
    BY <1>1, <1>2, <1>3, <1>4, <1>5, <1>6, <1>7, <1>9, <1>10, <1>11, <1>12, <1>13 DEF TakenBy
  <1> QED BY <1>8, <1>14

\* At a stop sequence, what is in front of it is said or thought.
StopsIn(r, window) == IF r.vocabulary.stop THEN At(window, Stop) ELSE {}
Halt(r, c) ==
    LET front == Before(c.window, Min(StopsIn(r, c.window)))
    IN  IF c.mode = "REASONING" THEN [c EXCEPT !.reasoning = @ \o front, !.window = <<>>]
        ELSE [c EXCEPT !.content = @ \o front, !.window = <<>>]

\* What is in front of it is a text.
LEMMA HaltIs ==
    ASSUME NEW c \in Cores, NEW front \in Text,
           front = Before(c.window, Min(StopHits(c.window)))
    PROVE  LET h == Halt(req, c)
           IN  /\ h \in Cores /\ h.mode = c.mode /\ h.window = <<>> /\ h.toolBuffer = c.toolBuffer
               /\ h.content = IF c.mode = "REASONING" THEN c.content ELSE c.content \o front
               /\ h.reasoning = IF c.mode = "REASONING" THEN c.reasoning \o front ELSE c.reasoning
               /\ h.fromReasoning = c.fromReasoning /\ h.fallback = c.fallback
               /\ h.checkedPrefix = c.checkedPrefix
  <1>1. PICK u \in Text : u = c.reasoning \o front BY CoresAre, CatIs
  <1>2. PICK v \in Text : v = c.content \o front BY CoresAre, CatIs
  <1>3. <<>> \in Text BY CatIs
  <1>4. CASE c.mode = "REASONING"
    <2>1. Halt(req, c) = [c EXCEPT !.reasoning = u, !.window = <<>>]
      BY <1>1, <1>4 DEF Halt, StopsIn, StopHits
    <2> QED BY <1>1, <1>3, <1>4, <2>1 DEF Cores
  <1>5. CASE c.mode # "REASONING"
    <2>1. Halt(req, c) = [c EXCEPT !.content = v, !.window = <<>>]
      BY <1>2, <1>5 DEF Halt, StopsIn, StopHits
    <2> QED BY <1>2, <1>3, <1>5, <2>1 DEF Cores
  <1> QED BY <1>4, <1>5

\* f is what an emitter becomes at a stop sequence.
HaltedBy(f, e) ==
    /\ f \in Em /\ f.stopHit = TRUE /\ Core(f) = Halt(req, Core(e)) /\ f.tail = e.tail
    /\ f.suppress = e.suppress /\ f.raw = e.raw /\ f.calls = e.calls /\ f.count = e.count
    /\ f.pieces = e.pieces /\ f.firstContent = e.firstContent /\ f.mode = e.mode

\* All that a stop sequence leaves alone, whatever format it is told in.
LEMMA StoppedBy ==
    ASSUME Asked(req), NEW e \in Em, StopHits(e.window) # {}
    PROVE  HaltedBy(Stopped(e), e)
  <1>1. e.window \in Text /\ Len(e.window) \in Nat BY EmTexts
  <1>2. PICK front \in Text : front = InFront(e)
    <2>1. At(e.window, Stop) # {} /\ StopHits(e.window) = At(e.window, Stop) BY DEF StopHits
    <2>2. PICK i : i = Min(StopHits(e.window)) OBVIOUS
    <2>3. i \in At(e.window, Stop) BY <1>1, <2>1, <2>2, StopAt, MinIs
    <2>4. i \in 1 .. Len(e.window) + 1 BY <1>1, <2>3, StopAt
    <2> QED BY <1>1, <2>2, <2>4, BeforeIs DEF InFront
  <1>3. front = Before(Core(e).window, Min(StopHits(Core(e).window))) BY <1>2, CoreIs DEF InFront
  <1>4. <<>> \in Text BY <1>1, CatIs
  <1>5. PICK ended : ended = [e EXCEPT !.window = <<>>, !.stopHit = TRUE] OBVIOUS
  <1>6. ended \in Em BY <1>4, <1>5 DEF Em
  <1>7. /\ ended.mode = e.mode /\ ended.toolBuffer = e.toolBuffer /\ ended.content = e.content
        /\ ended.reasoning = e.reasoning /\ ended.fromReasoning = e.fromReasoning
        /\ ended.fallback = e.fallback /\ ended.checkedPrefix = e.checkedPrefix
        /\ ended.window = <<>> /\ ended.stopHit = TRUE
    BY <1>5 DEF Em
  <1>8. /\ ended.tail = e.tail /\ ended.suppress = e.suppress /\ ended.raw = e.raw
        /\ ended.calls = e.calls /\ ended.count = e.count /\ ended.pieces = e.pieces
        /\ ended.firstContent = e.firstContent
    BY <1>5 DEF Em
  <1>9. e.mode \in Modes BY EmTexts
  <1>10. e.content \o front \in Text /\ e.reasoning \o front \in Text BY <1>2, EmTexts, CatIs
  <1>11. CASE e.mode # "REASONING"
    <2>1. PICK f : f = Say(ended, front) OBVIOUS
    <2>2. f \in Em /\ Same(f, ended) /\ f.content = e.content \o front /\ f.reasoning = e.reasoning
      <3>1. req.format \in ThreeFormats BY DEF Asked
      <3>2. /\ f \in Em /\ Same(f, ended) /\ f.content = ended.content \o front
            /\ f.reasoning = ended.reasoning
        BY <1>6, <2>1, <3>1, SpeakAny
      <3> QED BY <1>7, <3>2
    <2>3. Stopped(e) = f BY <1>2, <1>5, <1>11, <2>1 DEF Stopped
    <2>4. Core(f) = Halt(req, Core(e))
      <3>1. PICK h \in Cores : /\ h = Halt(req, Core(e))
                               /\ h.mode = e.mode /\ h.window = <<>> /\ h.toolBuffer = e.toolBuffer
                               /\ h.content = e.content \o front /\ h.reasoning = e.reasoning
                               /\ h.fromReasoning = e.fromReasoning /\ h.fallback = e.fallback
                               /\ h.checkedPrefix = e.checkedPrefix
        <4>1. PICK c \in Cores : c = Core(e) BY CoreIs
        <4>2. /\ c.mode = e.mode /\ c.window = e.window /\ c.toolBuffer = e.toolBuffer
              /\ c.content = e.content /\ c.reasoning = e.reasoning
              /\ c.fromReasoning = e.fromReasoning /\ c.fallback = e.fallback
              /\ c.checkedPrefix = e.checkedPrefix
          BY <4>1, CoreIs
        <4>3. front = Before(c.window, Min(StopHits(c.window))) BY <1>3, <4>1
        <4>4. PICK h : h = Halt(req, c) OBVIOUS
        <4>5. /\ h \in Cores /\ h.mode = c.mode /\ h.window = <<>> /\ h.toolBuffer = c.toolBuffer
              /\ h.content = IF c.mode = "REASONING" THEN c.content ELSE c.content \o front
              /\ h.reasoning = IF c.mode = "REASONING" THEN c.reasoning \o front ELSE c.reasoning
              /\ h.fromReasoning = c.fromReasoning /\ h.fallback = c.fallback
              /\ h.checkedPrefix = c.checkedPrefix
          BY <1>2, <4>3, <4>4, HaltIs
        <4>6. /\ h.fromReasoning = e.fromReasoning /\ h.fallback = e.fallback
              /\ h.checkedPrefix = e.checkedPrefix
          BY ONLY <4>2, <4>5
        <4> QED BY <1>11, <4>1, <4>2, <4>4, <4>5, <4>6
      <3>2. /\ Core(f) \in Cores /\ Core(f).mode = e.mode /\ Core(f).window = <<>>
            /\ Core(f).toolBuffer = e.toolBuffer /\ Core(f).content = e.content \o front
            /\ Core(f).reasoning = e.reasoning /\ Core(f).fromReasoning = e.fromReasoning
            /\ Core(f).fallback = e.fallback /\ Core(f).checkedPrefix = e.checkedPrefix
        BY <1>7, <2>2, CoreIs DEF Same
      <3> QED BY <3>1, <3>2, CoresSame
    <2>5. HaltedBy(f, e) BY <1>7, <1>8, <2>2, <2>4 DEF HaltedBy, Same
    <2> QED BY <2>3, <2>5
  <1>12. CASE e.mode = "REASONING"
    <2>1. PICK more \in Text : more = e.reasoning \o front BY <1>10
    <2>2. PICK thought : thought = [ended EXCEPT !.reasoning = more] OBVIOUS
    <2>3. thought \in Em BY <1>6, <2>1, <2>2 DEF Em
    <2>4. /\ thought.mode = e.mode /\ thought.toolBuffer = e.toolBuffer /\ thought.content = e.content
          /\ thought.reasoning = more /\ thought.fromReasoning = e.fromReasoning
          /\ thought.fallback = e.fallback /\ thought.checkedPrefix = e.checkedPrefix
          /\ thought.window = <<>> /\ thought.stopHit = TRUE
      BY <1>6, <1>7, <2>2 DEF Em
    <2>5. /\ thought.tail = e.tail /\ thought.suppress = e.suppress /\ thought.raw = e.raw
          /\ thought.calls = e.calls /\ thought.count = e.count /\ thought.pieces = e.pieces
          /\ thought.firstContent = e.firstContent
      BY <1>6, <1>8, <2>2 DEF Em
    <2>6. \E f : Stopped(e) = f /\ Kin(f, thought)
      <3>1. Stopped(e) = IF front = <<>> \/ req.format = "responses" THEN thought
                         ELSE Delta(thought, "thinking", IF req.format = "anthropic" THEN e.block ELSE 0, front)
        BY <1>2, <1>5, <1>7, <1>12, <2>1, <2>2 DEF Stopped
      <3>2. Kin(thought, thought) BY <2>3, SendKin
      <3>3. PICK index \in Nat : index = IF req.format = "anthropic" THEN e.block ELSE 0
        <4>1. e.block \in Nat BY DEF Em
        <4> QED BY <4>1
      <3>4. PICK v \in Events : v = Event("delta", "thinking", index, front)
        <4>1. Event("delta", "thinking", index, front) \in Events BY <1>2, <3>3 DEF Event, Events
        <4> QED BY <4>1
      <3>5. Kin(Send(thought, <<v>>), thought) BY <2>3, <3>4, SendKin
      <3>6. Delta(thought, "thinking", index, front) = Send(thought, <<v>>) BY <3>4 DEF Delta
      <3> QED BY <3>1, <3>2, <3>3, <3>5, <3>6
    <2>7. PICK f : Stopped(e) = f /\ Kin(f, thought) BY <2>6
    <2>8. f \in Em /\ Same(f, thought) /\ f.content = e.content /\ f.reasoning = more
      BY <2>4, <2>7 DEF Kin, Alike
    <2>9. Core(f) = Halt(req, Core(e))
      <3>1. PICK h \in Cores : /\ h = Halt(req, Core(e))
                               /\ h.mode = e.mode /\ h.window = <<>> /\ h.toolBuffer = e.toolBuffer
                               /\ h.content = e.content /\ h.reasoning = e.reasoning \o front
                               /\ h.fromReasoning = e.fromReasoning /\ h.fallback = e.fallback
                               /\ h.checkedPrefix = e.checkedPrefix
        <4>1. PICK c \in Cores : c = Core(e) BY CoreIs
        <4>2. /\ c.mode = e.mode /\ c.window = e.window /\ c.toolBuffer = e.toolBuffer
              /\ c.content = e.content /\ c.reasoning = e.reasoning
              /\ c.fromReasoning = e.fromReasoning /\ c.fallback = e.fallback
              /\ c.checkedPrefix = e.checkedPrefix
          BY <4>1, CoreIs
        <4>3. front = Before(c.window, Min(StopHits(c.window))) BY <1>3, <4>1
        <4>4. PICK h : h = Halt(req, c) OBVIOUS
        <4>5. /\ h \in Cores /\ h.mode = c.mode /\ h.window = <<>> /\ h.toolBuffer = c.toolBuffer
              /\ h.content = IF c.mode = "REASONING" THEN c.content ELSE c.content \o front
              /\ h.reasoning = IF c.mode = "REASONING" THEN c.reasoning \o front ELSE c.reasoning
              /\ h.fromReasoning = c.fromReasoning /\ h.fallback = c.fallback
              /\ h.checkedPrefix = c.checkedPrefix
          BY <1>2, <4>3, <4>4, HaltIs
        <4>6. /\ h.fromReasoning = e.fromReasoning /\ h.fallback = e.fallback
              /\ h.checkedPrefix = e.checkedPrefix
          BY ONLY <4>2, <4>5
        <4> QED BY <1>12, <4>1, <4>2, <4>4, <4>5, <4>6
      <3>2. /\ Core(f) \in Cores /\ Core(f).mode = e.mode /\ Core(f).window = <<>>
            /\ Core(f).toolBuffer = e.toolBuffer /\ Core(f).content = e.content
            /\ Core(f).reasoning = e.reasoning \o front /\ Core(f).fromReasoning = e.fromReasoning
            /\ Core(f).fallback = e.fallback /\ Core(f).checkedPrefix = e.checkedPrefix
        BY <2>1, <2>4, <2>8, CoreIs DEF Same
      <3> QED BY <3>1, <3>2, CoresSame
    <2>10. HaltedBy(f, e) BY <2>4, <2>5, <2>8, <2>9 DEF HaltedBy, Same
    <2> QED BY <2>7, <2>10
  <1> QED BY <1>11, <1>12

\* What is done about a token's text: a stop sequence ends the answer, or the window
\* is gone over.
AdvancedBy(f, t) ==
    IF t.mode # "TOOL_BUFFER" /\ StopHits(t.window) # {} THEN HaltedBy(f, t)
    ELSE f \in Em /\ Beside(f, t) /\ Core(f) = Left(req, Core(t))

\* What is done about a token's text is what AdvancedBy says.
LEMMA AdvancedIs ==
    ASSUME Asked(req), NEW t \in Em PROVE AdvancedBy(Advanced(t), t)
  <1>1. CASE t.mode # "TOOL_BUFFER" /\ StopHits(t.window) # {}
    BY <1>1, StoppedBy DEF Advanced, AdvancedBy
  <1>2. CASE ~(t.mode # "TOOL_BUFFER" /\ StopHits(t.window) # {})
    <2>1. Advanced(t) = Process(t) BY <1>2 DEF Advanced
    <2>2. PICK f : f = Process(t) OBVIOUS
    <2>3. f \in Em /\ Beside(f, t) BY <2>2, ProcessComes
    <2>4. Core(t) \in Cores BY CoreIs
    <2>5. Core(f) = Left(req, Core(t)) BY <2>2, <2>4, LeftIs
    <2> QED BY <1>2, <2>1, <2>2, <2>3, <2>5 DEF AdvancedBy
  <1> QED BY <1>1, <1>2

\* A token leaves the flag of an undeclared call alone and is among those given,
\* until a stop sequence has ended the answer.
LEMMA TokenGiven ==
    ASSUME Asked(req), NEW e \in Em, Plainly(e), NEW piece \in Text, Unwrapped(piece)
    PROVE  LET f == EmitToken(e, piece)
           IN  /\ f \in Em /\ f.suppress = e.suppress
               /\ f.pieces = IF e.stopHit THEN e.pieces ELSE Append(e.pieces, piece)
               /\ e.stopHit => f.stopHit
  <1>1. CASE e.stopHit BY <1>1 DEF EmitToken
  <1>2. CASE ~e.stopHit
    <2>1. PICK t : TakenBy(t, e, piece) /\ EmitToken(e, piece) = Advanced(t) BY <1>2, TokenIs
    <2>2. t \in Em /\ t.suppress = e.suppress /\ t.pieces = Append(e.pieces, piece)
      BY <2>1 DEF TakenBy
    <2>3. PICK f : f = Advanced(t) OBVIOUS
    <2>4. AdvancedBy(f, t) BY <2>2, <2>3, AdvancedIs
    <2>5. f \in Em /\ f.suppress = t.suppress /\ f.pieces = t.pieces
      BY <2>4 DEF AdvancedBy, HaltedBy, Beside
    <2> QED BY <1>2, <2>1, <2>2, <2>3, <2>5
  <1>3. e.stopHit \in BOOLEAN BY EmTexts
  <1> QED BY <1>1, <1>2

-----------------------------------------------------------------------------
(* Calls the request did not declare *)

\* Of tokens s, what OutsideCall, Visible and Shown have of the answer's.
OutsideIn(s, i) ==
    LET marks == {h \in 1 .. i - 1 : s[h] \in {"T", "E"}}
    IN  marks = {} \/ s[Max(marks)] = "E"

VisibleIn(s, i) == OutsideIn(s, i) /\ s[i] \notin {"T"} \union Stray \union Controls

\* What a visible token shows.
ShownPart(s) == [i \in 1 .. Len(s) |-> IF VisibleIn(s, i) THEN TokenText[s[i]] ELSE <<>>]

ShownOf(s) == FlattenSeq(ShownPart(s))

\* Is a token outside of every call, after one more?
LEMMA OutsideNext ==
    ASSUME NEW T, NEW s \in Seq(T), NEW token \in T
    PROVE  LET a == Append(s, token)
               n == Len(s)
           IN  /\ a \in Seq(T) /\ Len(a) = n + 1 /\ n \in Nat /\ a[n + 1] = token
               /\ \A i \in 1 .. n : a[i] = s[i]
               /\ \A i \in 1 .. n + 1 : OutsideIn(a, i) <=> OutsideIn(s, i)
               /\ OutsideIn(a, n + 2) <=>
                     IF token \in {"T", "E"} THEN token = "E" ELSE OutsideIn(s, n + 1)
  <1> DEFINE a == Append(s, token)
             marks(t, i) == {h \in 1 .. i - 1 : t[h] \in {"T", "E"}}
  <1>1. PICK n \in Nat : n = Len(s) BY LenProperties
  <1>2. /\ a \in Seq(T) /\ Len(a) = n + 1 /\ a[n + 1] = token
        /\ \A i \in 1 .. n : a[i] = s[i]
    BY <1>1, AppendProperties
  <1> HIDE DEF a
  <1>3. ASSUME NEW i \in 1 .. n + 1 PROVE OutsideIn(a, i) <=> OutsideIn(s, i)
    <2>1. \A h \in 1 .. i - 1 : h \in 1 .. n /\ a[h] = s[h] BY <1>2
    <2>2. marks(a, i) = marks(s, i) BY <2>1
    <2>3. marks(s, i) # {} => Max(marks(s, i)) \in 1 .. i - 1
      <3>1. marks(s, i) \in SUBSET Nat /\ \A j \in marks(s, i) : j <= n BY <1>1
      <3>2. marks(s, i) # {} => Max(marks(s, i)) \in marks(s, i)
        <4> HIDE DEF marks
        <4> QED BY <3>1, MaxIs
      <3> QED BY <3>2
    <2>4. marks(s, i) # {} => a[Max(marks(s, i))] = s[Max(marks(s, i))] BY <2>1, <2>3
    <2> QED BY <2>2, <2>4 DEF OutsideIn
  <1>4. OutsideIn(a, n + 2) <=> IF token \in {"T", "E"} THEN token = "E" ELSE OutsideIn(s, n + 1)
    <2>1. n + 2 - 1 = n + 1 /\ n + 1 - 1 = n /\ n + 1 \in 1 .. n + 1 OBVIOUS
    <2>2. PICK M : M = marks(a, n + 2) OBVIOUS
    <2>3. M = {h \in 1 .. n + 1 : a[h] \in {"T", "E"}} BY <2>1, <2>2
    <2>4. OutsideIn(a, n + 2) <=> M = {} \/ a[Max(M)] = "E" BY <2>2 DEF OutsideIn
    <2>5. CASE token \in {"T", "E"}
      <3>1. n + 1 \in M /\ M \in SUBSET Nat /\ \A j \in M : j <= n + 1 BY <1>2, <2>1, <2>3, <2>5
      <3>2. Max(M) \in M /\ n + 1 <= Max(M) BY <3>1, MaxIs
      <3>3. Max(M) = n + 1
        <4>1. PICK m \in Nat : m = Max(M) /\ m <= n + 1 /\ n + 1 <= m BY <3>1, <3>2
        <4> QED BY <4>1
      <3> QED BY <1>2, <2>4, <2>5, <3>1, <3>3
    <2>6. CASE token \notin {"T", "E"}
      <3>1. n + 1 \notin M BY <1>2, <2>3, <2>6
      <3>2. M = marks(a, n + 1)
        <4>1. marks(a, n + 1) = {h \in 1 .. n : a[h] \in {"T", "E"}} BY <2>1
        <4>2. 1 .. n + 1 = 1 .. n \union {n + 1} OBVIOUS
        <4> QED BY <2>3, <3>1, <4>1, <4>2
      <3>3. OutsideIn(a, n + 1) <=> M = {} \/ a[Max(M)] = "E" BY <3>2 DEF OutsideIn
      <3> QED BY <1>3, <2>1, <2>4, <2>6, <3>3
    <2> QED BY <2>5, <2>6
  <1> QED BY <1>1, <1>2, <1>3, <1>4 DEF a

\* The text shown is a text, and a token more shows its own if it is visible.
LEMMA ShownNext ==
    ASSUME req \in Requests, NEW s \in Seq(req.vocabulary.tokens), NEW token \in req.vocabulary.tokens
    PROVE  /\ ShownPart(s) \in Seq(Text) /\ ShownOf(s) \in Text
           /\ ShownOf(Append(s, token)) =
                 IF OutsideIn(s, Len(s) + 1) /\ token \notin {"T"} \union Stray \union Controls
                 THEN ShownOf(s) \o TokenText[token] ELSE ShownOf(s)
  <1>1. PICK n \in Nat : n = Len(s) BY LenProperties
  <1>2. PICK T : T = req.vocabulary.tokens OBVIOUS
  <1>3. PICK a \in Seq(T) : a = Append(s, token) BY <1>2, AppendProperties
  <1>4. /\ Len(a) = n + 1 /\ a[n + 1] = token /\ \A i \in 1 .. n : a[i] = s[i]
        /\ \A i \in 1 .. n + 1 : OutsideIn(a, i) <=> OutsideIn(s, i)
    BY <1>1, <1>2, <1>3, OutsideNext
  <1>5. <<>> \in Text /\ TokenText[token] \in Text BY TokenTexts, CatIs
  <1>6. ShownPart(s) \in Seq(Text) /\ Len(ShownPart(s)) = n
    <2>1. \A i \in 1 .. n : ShownPart(s)[i] \in Text
      <3> SUFFICES ASSUME NEW i \in 1 .. n PROVE ShownPart(s)[i] \in Text OBVIOUS
      <3>1. s[i] \in req.vocabulary.tokens BY <1>1, ElementOfSeq
      <3>2. TokenText[s[i]] \in Text BY <3>1, TokenTexts
      <3> QED BY <1>1, <1>5, <3>2 DEF ShownPart
    <2>2. ShownPart(s) = [i \in 1 .. n |-> ShownPart(s)[i]] BY <1>1 DEF ShownPart
    <2>3. ShownPart(s) \in [1 .. n -> Text] BY <2>1, <2>2
    <2> QED BY <2>3, SeqDef, LenProperties
  <1>7. PICK last \in Text : last = IF OutsideIn(s, n + 1) /\ token \notin {"T"} \union Stray \union Controls
                                    THEN TokenText[token] ELSE <<>>
    BY <1>5
  <1>8. ShownPart(a) = Append(ShownPart(s), last)
    <2>1. PICK p \in Seq(Text) : p = ShownPart(s) /\ Len(p) = n BY <1>6
    <2>2. /\ Append(p, last) \in Seq(Text) /\ Len(Append(p, last)) = n + 1
          /\ \A i \in 1 .. n : Append(p, last)[i] = p[i]
          /\ Append(p, last)[n + 1] = last
      BY <2>1, AppendProperties
    <2>3. \A i \in 1 .. n + 1 : ShownPart(a)[i] = IF VisibleIn(a, i) THEN TokenText[a[i]] ELSE <<>>
      BY <1>4 DEF ShownPart
    <2>4. \A i \in 1 .. n : p[i] = IF VisibleIn(s, i) THEN TokenText[s[i]] ELSE <<>>
      BY <1>1, <2>1 DEF ShownPart
    <2>5. \A i \in 1 .. n : ShownPart(a)[i] = p[i]
      <3> SUFFICES ASSUME NEW i \in 1 .. n PROVE ShownPart(a)[i] = p[i] OBVIOUS
      <3>1. i \in 1 .. n + 1 /\ a[i] = s[i] BY <1>4
      <3>2. VisibleIn(a, i) <=> VisibleIn(s, i) BY <1>4, <3>1 DEF VisibleIn
      <3> QED BY <2>3, <2>4, <3>1, <3>2
    <2>6. ShownPart(a)[n + 1] = last
      <3>1. n + 1 \in 1 .. n + 1 OBVIOUS
      <3>2. VisibleIn(a, n + 1) <=>
               OutsideIn(s, n + 1) /\ token \notin {"T"} \union Stray \union Controls
        BY <1>4, <3>1 DEF VisibleIn
      <3> QED BY <1>4, <1>7, <2>3, <3>1, <3>2
    <2>7. \A i \in 1 .. n + 1 : ShownPart(a)[i] = Append(p, last)[i]
      <3>1. \A i \in 1 .. n + 1 : i \in 1 .. n \/ i = n + 1 OBVIOUS
      <3> QED BY <2>2, <2>5, <2>6, <3>1
    <2>8. ShownPart(a) \in Seq(Text) /\ Len(ShownPart(a)) = n + 1
      <3>1. \A i \in 1 .. n + 1 : Append(p, last)[i] \in Text BY <2>2, ElementOfSeq
      <3>2. \A i \in 1 .. n + 1 : ShownPart(a)[i] \in Text BY <2>7, <3>1
      <3>3. ShownPart(a) = [i \in 1 .. n + 1 |-> ShownPart(a)[i]] BY <1>4 DEF ShownPart
      <3>4. ShownPart(a) \in [1 .. n + 1 -> Text] BY <3>2, <3>3
      <3>5. PICK m \in Nat : m = n + 1 OBVIOUS
      <3> QED BY <3>4, <3>5, SeqDef, LenProperties
    <2> QED BY <2>1, <2>2, <2>7, <2>8, SeqEqual
  <1>9. ShownOf(s) \in Text BY <1>6, FlattenType DEF ShownOf
  <1>10. ShownOf(a) = ShownOf(s) \o last BY <1>6, <1>8, FlattenAppend DEF ShownOf
  <1>11. ShownOf(s) \o <<>> = ShownOf(s) BY <1>9, CatIs
  <1> QED BY <1>1, <1>3, <1>6, <1>7, <1>9, <1>10, <1>11

\* Of the texts shown, the emitter was given all, or the first ones when a stop
\* sequence has ended the answer.
ToldSo(e, shown) ==
    LET given == FlattenSeq(e.pieces)
    IN  IF e.stopHit THEN \E rest \in Text : shown = given \o rest ELSE shown = given

\* No call the request did not declare has been given to the emitter, and whether
\* one is open it remembers.
Hides(e, s) ==
    (e.suppress <=> ~OutsideIn(s, Len(s) + 1)) /\ ToldSo(e, ShownOf(s))

\* A text more.
LEMMA GivenNext ==
    ASSUME Asked(req), NEW e \in Em, Plainly(e), NEW shown \in Text, ToldSo(e, shown),
           NEW piece \in Text, Unwrapped(piece)
    PROVE  ToldSo(EmitToken(e, piece), shown \o piece)
  <1>1. PICK f : f = EmitToken(e, piece) OBVIOUS
  <1>2. /\ f.pieces = IF e.stopHit THEN e.pieces ELSE Append(e.pieces, piece)
        /\ e.stopHit => f.stopHit
    BY <1>1, TokenGiven
  <1>3. e.pieces \in Seq(Text) BY DEF Em
  <1>4. PICK given \in Text : given = FlattenSeq(e.pieces) BY <1>3, FlattenType
  <1>5. CASE e.stopHit
    <2>1. PICK rest \in Text : shown = given \o rest BY <1>4, <1>5 DEF ToldSo
    <2>2. rest \o piece \in Text BY CatIs
    <2>3. (given \o rest) \o piece = given \o (rest \o piece) BY SMTT(60), ConcatAssociative DEF Text
    <2>4. FlattenSeq(f.pieces) = given BY <1>2, <1>4, <1>5
    <2> QED BY <1>1, <1>2, <1>5, <2>1, <2>2, <2>3, <2>4 DEF ToldSo
  <1>6. CASE ~e.stopHit
    <2>1. shown = given BY <1>4, <1>6 DEF ToldSo
    <2>2. FlattenSeq(f.pieces) = given \o piece BY <1>2, <1>3, <1>4, <1>6, FlattenAppend
    <2>3. shown \o piece = (given \o piece) \o <<>> /\ <<>> \in Text BY <2>1, CatIs
    <2> QED BY <1>1, <2>1, <2>2, <2>3 DEF ToldSo
  <1> QED BY <1>5, <1>6

\* Saying nothing of it changes nothing.
LEMMA HidesNone ==
    ASSUME NEW e \in Em, NEW shown, ToldSo(e, shown), NEW f, f.pieces = e.pieces,
           e.stopHit <=> f.stopHit
    PROVE  ToldSo(f, shown)
  BY DEF ToldSo

\* A streamed token, when the request declares no tool.
LEMMA HidesStreamed ==
    ASSUME req \in Requests, ~HasTools, NEW e, Running(req, e),
           NEW s \in Seq(req.vocabulary.tokens), Hides(e, s), NEW token \in req.vocabulary.tokens
    PROVE  Hides(Streamed(e, token), Append(s, token))
  <1>1. PICK n \in Nat : n = Len(s) BY LenProperties
  <1>2. PICK a : a = Append(s, token) OBVIOUS
  <1>3. Len(a) = n + 1 /\ (OutsideIn(a, n + 2) <=>
           IF token \in {"T", "E"} THEN token = "E" ELSE OutsideIn(s, n + 1))
    BY <1>1, <1>2, OutsideNext
  <1>4. PICK shown \in Text : shown = ShownOf(s) BY ShownNext
  <1>5. ShownOf(a) = IF OutsideIn(s, n + 1) /\ token \notin {"T"} \union Stray \union Controls
                     THEN shown \o TokenText[token] ELSE shown
    BY <1>1, <1>2, <1>4, ShownNext
  <1>6. (e.suppress <=> ~OutsideIn(s, n + 1)) /\ ToldSo(e, shown) BY <1>1, <1>4 DEF Hides
  <1>7. e \in Em BY DEF Running, Typed
  <1>8. Asked(req) BY ReqIs
  <1>9. PICK c : c = Classified(e, token) OBVIOUS
  <1>10. Running(req, c) /\ c.pieces = e.pieces BY <1>8, <1>9, ClassifiedIs
  <1>11. c \in Em /\ Plainly(c) BY <1>10 DEF Running, Typed
  <1>12. (c.suppress <=> IF e.suppress THEN token # "E" ELSE token = "T") /\ (c.stopHit <=> e.stopHit)
    BY <1>7, <1>9 DEF Classified, Em
  <1>13. c.suppress <=> ~OutsideIn(a, n + 2) BY <1>3, <1>6, <1>12
  <1>14. ToldSo(c, shown) BY <1>6, <1>7, <1>10, <1>12, HidesNone
  <1>15. Skipped(e, token) <=>
            ~(OutsideIn(s, n + 1) /\ token \notin {"T"} \union Stray \union Controls)
    BY <1>6 DEF Skipped, Suppressed
  <1>16. TokenText[token] \in Text /\ Unwrapped(TokenText[token]) BY TokenTexts
  <1>17. n + 1 + 1 = n + 2 OBVIOUS
  <1>18. CASE Skipped(e, token)
    <2>1. Streamed(e, token) = c BY <1>9, <1>18 DEF Streamed
    <2>2. ShownOf(a) = shown BY <1>5, <1>15, <1>18
    <2> QED BY <1>2, <1>3, <1>13, <1>14, <1>17, <2>1, <2>2 DEF Hides
  <1>19. CASE ~Skipped(e, token) /\ TokenText[token] = <<>>
    <2>1. Streamed(e, token) = c BY <1>9, <1>19 DEF Streamed
    <2>2. ShownOf(a) = shown BY <1>5, <1>15, <1>19, CatIs
    <2> QED BY <1>2, <1>3, <1>13, <1>14, <1>17, <2>1, <2>2 DEF Hides
  <1>20. CASE ~Skipped(e, token) /\ TokenText[token] # <<>>
    <2>1. PICK f : f = EmitToken(c, TokenText[token]) OBVIOUS
    <2>2. Streamed(e, token) = f BY <1>9, <1>20, <2>1 DEF Streamed
    <2>3. ToldSo(f, shown \o TokenText[token]) BY <1>8, <1>11, <1>14, <1>16, <2>1, GivenNext
    <2>4. ShownOf(a) = shown \o TokenText[token] BY <1>5, <1>15, <1>20
    <2>5. f.suppress = c.suppress BY <1>8, <1>11, <1>16, <2>1, TokenGiven
    <2> QED BY <1>2, <1>3, <1>13, <1>17, <2>2, <2>3, <2>4, <2>5 DEF Hides
  <1> QED BY <1>18, <1>19, <1>20

-----------------------------------------------------------------------------
(* What is kept of an answer *)

\* A core with more in its window.
Ext(c, x) == [c EXCEPT !.window = @ \o x]

\* Such a core is one.
LEMMA ExtIs ==
    ASSUME NEW c \in Cores, NEW x \in Text
    PROVE  LET d == Ext(c, x)
           IN  /\ d \in Cores /\ d.window = c.window \o x /\ d.mode = c.mode
               /\ d.toolBuffer = c.toolBuffer /\ d.content = c.content /\ d.reasoning = c.reasoning
               /\ d.fromReasoning = c.fromReasoning /\ d.fallback = c.fallback
               /\ d.checkedPrefix = c.checkedPrefix
  <1>1. PICK w \in Text : w = c.window \o x BY CoresAre, CatIs
  <1>2. Ext(c, x) = [c EXCEPT !.window = w] BY <1>1 DEF Ext
  <1> QED BY <1>1, <1>2 DEF Cores

\* At the end the window goes where the mode says.
Flush(r, c) ==
    CASE c.mode = "REASONING" -> [c EXCEPT !.reasoning = @ \o c.window, !.window = <<>>]
      [] c.mode = "CONTENT" ->
            IF r.vocabulary.tools /\ Blank(c.content) /\ Trimmed(c.window) = <<"n">>
            THEN [c EXCEPT !.toolBuffer = <<"z">>, !.mode = "TOOL_BUFFER", !.window = <<>>]
            ELSE [c EXCEPT !.content = @ \o c.window, !.window = <<>>]
      [] c.mode = "TOOL_BUFFER" -> Took(c)

\* What the end makes of a core.
LEMMA FlushIs ==
    ASSUME NEW c \in Cores
    PROVE  LET d == Flush(req, c)
           IN  /\ d \in Cores /\ d.window = <<>>
               /\ d.mode = IF c.mode = "CONTENT" /\ ZeroArgCall(c) THEN "TOOL_BUFFER" ELSE c.mode
               /\ d.toolBuffer = IF c.mode = "CONTENT" /\ ZeroArgCall(c) THEN <<"z">>
                                 ELSE IF c.mode = "TOOL_BUFFER" THEN c.toolBuffer \o c.window
                                 ELSE c.toolBuffer
               /\ d.content = IF c.mode = "CONTENT" /\ ~ZeroArgCall(c) THEN c.content \o c.window
                              ELSE c.content
               /\ d.reasoning = IF c.mode = "REASONING" THEN c.reasoning \o c.window ELSE c.reasoning
               /\ d.fromReasoning = c.fromReasoning /\ d.fallback = c.fallback
               /\ d.checkedPrefix = c.checkedPrefix
  <1>1. PICK u \in Text : u = c.reasoning \o c.window BY CoresAre, CatIs
  <1>2. PICK v \in Text : v = c.content \o c.window BY CoresAre, CatIs
  <1>3. PICK none \in Text : none = <<>> BY CatIs
  <1>4. PICK z \in Text : z = <<"z">>
    <2>1. "z" \in Symbol BY DEF Symbol
    <2> QED BY <2>1, Short DEF Text
  <1>5. c.mode \in Modes /\ "TOOL_BUFFER" \in Modes BY CoresAre DEF Modes
  <1>6. CASE c.mode = "REASONING"
    <2>1. Flush(req, c) = [c EXCEPT !.reasoning = u, !.window = none] BY <1>1, <1>3, <1>6 DEF Flush
    <2> QED BY <1>1, <1>3, <1>6, <2>1 DEF Cores
  <1>7. CASE c.mode = "CONTENT" /\ ZeroArgCall(c)
    <2>1. Flush(req, c) = [c EXCEPT !.toolBuffer = z, !.mode = "TOOL_BUFFER", !.window = none]
      BY <1>3, <1>4, <1>7 DEF Flush, ZeroArgCall, HasTools
    <2> QED BY <1>3, <1>4, <1>5, <1>7, <2>1 DEF Cores
  <1>8. CASE c.mode = "CONTENT" /\ ~ZeroArgCall(c)
    <2>1. Flush(req, c) = [c EXCEPT !.content = v, !.window = none]
      BY <1>2, <1>3, <1>8 DEF Flush, ZeroArgCall, HasTools
    <2> QED BY <1>2, <1>3, <1>8, <2>1 DEF Cores
  <1>9. CASE c.mode = "TOOL_BUFFER"
    <2>1. Flush(req, c) = Took(c) BY <1>9 DEF Flush
    <2>2. PICK d \in Cores : /\ d = Took(c) /\ d.mode = c.mode /\ d.window = <<>>
                             /\ d.toolBuffer = c.toolBuffer \o c.window /\ d.content = c.content
                             /\ d.reasoning = c.reasoning /\ d.fromReasoning = c.fromReasoning
                             /\ d.fallback = c.fallback /\ d.checkedPrefix = c.checkedPrefix
      BY TookIs
    <2> QED BY <1>9, <2>1, <2>2
  <1> QED BY <1>5, <1>6, <1>7, <1>8, <1>9 DEF Modes

\* What text the parser left over adds to the content and to the reasoning.
Mended(c, cleaned) ==
    LET close == Min(At(cleaned, ThinkClose))
    IN  IF At(cleaned, ThinkClose) # {}
        THEN <<c.content \o From(cleaned, close + Len(ThinkClose)), c.reasoning \o Before(cleaned, close)>>
        ELSE IF c.fromReasoning THEN <<c.content, c.reasoning \o cleaned>>
        ELSE <<c.content \o cleaned, c.reasoning>>

\* What a tool buffer without calls adds.
Rescued(c) ==
    IF c.fallback THEN c.content \o c.toolBuffer
    ELSE IF ~c.fromReasoning \/ TopLevelClose(c.toolBuffer) = {} THEN c.content
    ELSE c.content \o From(c.toolBuffer, Min(TopLevelClose(c.toolBuffer)) + Len(ThinkClose))

\* What is kept of an answer that ends with a core.
Outcome(c) ==
    LET mended == Mended(c, ParseToolCalls(c.toolBuffer).cleaned)
    IN  IF c.mode # "TOOL_BUFFER" \/ c.toolBuffer = <<>> THEN <<c.content, c.reasoning, {}>>
        ELSE IF Calls(c.toolBuffer) # {} THEN <<mended[1], mended[2], Calls(c.toolBuffer)>>
        ELSE <<Rescued(c), c.reasoning, {}>>

\* Of two emitters, what the end of an answer leaves alone.
Lasting(f, e) ==
    /\ f.raw = e.raw /\ f.count = e.count /\ f.pieces = e.pieces /\ (f.stopHit <=> e.stopHit)
    /\ f.mode = e.mode /\ (f.fallback <=> e.fallback)

\* Marking where the visible answer begins changes nothing else.
LEMMA Marked ==
    ASSUME NEW e \in Em, NEW first
    PROVE  LET f == [e EXCEPT !.firstContent = first]
           IN  /\ first \in Int => f \in Em
               /\ Lasting(f, e) /\ f.content = e.content /\ f.reasoning = e.reasoning
               /\ f.calls = e.calls /\ f.toolBuffer = e.toolBuffer
  BY DEF Em, Lasting

\* The first content token is one of those that were counted.
LEMMA FirstType ==
    ASSUME NEW e \in Em
    PROVE  e.count \in Int /\ e.firstContent \in Int /\ Max({0, e.count - 1}) \in Int
  <1>1. PICK n \in Nat : n = e.count BY DEF Em
  <1>2. Max({0, n - 1}) \in 0 .. n BY MaxPair
  <1>3. e.firstContent \in Int BY DEF Em
  <1> QED BY <1>1, <1>2, <1>3

\* One text said or thought.
LEMMA SpeakLasts ==
    ASSUME Asked(req), NEW e \in Em, NEW text \in Text
    PROVE  /\ LET s == Say(e, text)
              IN  /\ s \in Em /\ Lasting(s, e) /\ s.calls = e.calls /\ s.content = e.content \o text
                  /\ s.reasoning = e.reasoning /\ s.firstContent = e.firstContent
           /\ LET s == Think(e, text)
              IN  /\ s \in Em /\ Lasting(s, e) /\ s.calls = e.calls /\ s.content = e.content
                  /\ s.reasoning = e.reasoning \o text /\ s.firstContent = e.firstContent
  <1>1. req.format \in ThreeFormats BY DEF Asked
  <1>2. PICK s : s = Say(e, text) OBVIOUS
  <1>3. s \in Em /\ Same(s, e) /\ s.content = e.content \o text /\ s.reasoning = e.reasoning
    BY <1>1, <1>2, SpeakAny
  <1>4. Lasting(s, e) /\ s.calls = e.calls /\ s.firstContent = e.firstContent
    BY <1>3 DEF Same, Lasting
  <1>5. PICK t : t = Think(e, text) OBVIOUS
  <1>6. t \in Em /\ Same(t, e) /\ t.reasoning = e.reasoning \o text /\ t.content = e.content
    BY <1>1, <1>5, SpeakAny
  <1>7. Lasting(t, e) /\ t.calls = e.calls /\ t.firstContent = e.firstContent
    BY <1>6 DEF Same, Lasting
  <1> QED BY <1>2, <1>3, <1>4, <1>5, <1>6, <1>7

\* Where a </think> is in a text, the text around it.
LEMMA CloseParts ==
    ASSUME NEW text \in Text, NEW closes, closes \subseteq At(text, ThinkClose), closes # {}
    PROVE  /\ Before(text, Min(closes)) \in Text
           /\ From(text, Min(closes) + Len(ThinkClose)) \in Text
  <1>1. At(text, ThinkClose) \in SUBSET Nat
        /\ \A i \in At(text, ThinkClose) : i \in 1 .. Len(text) - 1
    <2>1. "c1" \in Symbol /\ "c2" \in Symbol BY DEF Symbol
    <2> QED BY <2>1, AtIs DEF ThinkClose
  <1>2. closes \in SUBSET Nat BY <1>1
  <1>3. PICK i : i = Min(closes) OBVIOUS
  <1>4. i \in closes BY <1>2, <1>3, MinIs
  <1>5. i \in 1 .. Len(text) - 1 /\ Len(text) \in Nat BY <1>1, <1>4, TextIs
  <1>6. i \in 1 .. Len(text) + 1 /\ i + 2 \in Nat /\ i + 2 >= 1 BY <1>5
  <1>7. Len(ThinkClose) = 2 BY DEF ThinkClose
  <1> QED BY <1>3, <1>6, <1>7, BeforeIs, FromIs

\* Text the parser left over is kept where it belongs.
LEMMA RecoveredKept ==
    ASSUME Asked(req), NEW e \in Em, NEW cleaned \in Text
    PROVE  LET f == Recovered(e, cleaned)
           IN  /\ f \in Em /\ Lasting(f, e) /\ f.calls = e.calls
               /\ <<f.content, f.reasoning>> = Mended(Core(e), cleaned)
  <1>1. PICK f : f = Recovered(e, cleaned) OBVIOUS
  <1>2. CASE At(cleaned, ThinkClose) # {}
    <2>1. PICK before \in Text : before = Before(cleaned, Min(At(cleaned, ThinkClose)))
      BY <1>2, CloseParts
    <2>2. PICK content \in Text : content = From(cleaned, Min(At(cleaned, ThinkClose)) + Len(ThinkClose))
      BY <1>2, CloseParts
    <2>3. PICK first : first = IF e.firstContent # -1 THEN e.firstContent
                               ELSE IF content = <<>> THEN e.count ELSE Max({0, e.count - 1})
      OBVIOUS
    <2>4. first \in Int BY <2>3, FirstType
    <2>5. PICK marked : marked = [e EXCEPT !.firstContent = first] OBVIOUS
    <2>6. /\ marked \in Em /\ Lasting(marked, e) /\ marked.content = e.content
          /\ marked.reasoning = e.reasoning /\ marked.calls = e.calls
      BY <2>4, <2>5, Marked
    <2>7. PICK thought : thought = Think(marked, before) OBVIOUS
    <2>8. /\ thought \in Em /\ Lasting(thought, marked) /\ thought.calls = marked.calls
          /\ thought.content = marked.content /\ thought.reasoning = marked.reasoning \o before
      BY <2>6, <2>7, SpeakLasts
    <2>9. f = Say(thought, content)
      BY <1>1, <1>2, <2>1, <2>2, <2>3, <2>5, <2>7 DEF Recovered
    <2>10. /\ f \in Em /\ Lasting(f, thought) /\ f.calls = thought.calls
           /\ f.content = thought.content \o content /\ f.reasoning = thought.reasoning
      BY <2>8, <2>9, SpeakLasts
    <2>11. Lasting(f, e) BY <2>6, <2>8, <2>10 DEF Lasting
    <2>12. Mended(Core(e), cleaned) = <<e.content \o content, e.reasoning \o before>>
      BY <1>2, <2>1, <2>2, CoreIs DEF Mended
    <2> QED BY <1>1, <2>6, <2>8, <2>10, <2>11, <2>12
  <1>3. CASE At(cleaned, ThinkClose) = {} /\ e.fromReasoning
    <2>1. f = Think(e, cleaned) BY <1>1, <1>3 DEF Recovered
    <2>2. /\ f \in Em /\ Lasting(f, e) /\ f.calls = e.calls /\ f.content = e.content
          /\ f.reasoning = e.reasoning \o cleaned
      BY <2>1, SpeakLasts
    <2>3. Mended(Core(e), cleaned) = <<e.content, e.reasoning \o cleaned>>
      BY <1>3, CoreIs DEF Mended
    <2> QED BY <1>1, <2>2, <2>3
  <1>4. CASE At(cleaned, ThinkClose) = {} /\ ~e.fromReasoning
    <2>1. f = Say(e, cleaned) BY <1>1, <1>4 DEF Recovered
    <2>2. /\ f \in Em /\ Lasting(f, e) /\ f.calls = e.calls /\ f.reasoning = e.reasoning
          /\ f.content = e.content \o cleaned
      BY <2>1, SpeakLasts
    <2>3. Mended(Core(e), cleaned) = <<e.content \o cleaned, e.reasoning>>
      BY <1>4, CoreIs DEF Mended
    <2> QED BY <1>1, <2>2, <2>3
  <1> QED BY <1>2, <1>3, <1>4

\* Telling of calls keeps what there is.
LEMMA ToolEventsKept ==
    ASSUME NEW e \in Em
    PROVE  LET f == ToolEvents(e)
           IN  /\ Lasting(f, e) /\ f.calls = e.calls /\ f.content = e.content
               /\ f.reasoning = e.reasoning
  <1>1. \E sent, kind, block :
           ToolEvents(e) \in {[e EXCEPT !.sent = sent],
                              [[e EXCEPT !.sent = sent] EXCEPT !.kind = kind, !.block = block]}
    BY ZenonT(40) DEF ToolEvents, Send
  <1>2. PICK sent, kind, block :
           ToolEvents(e) \in {[e EXCEPT !.sent = sent],
                              [[e EXCEPT !.sent = sent] EXCEPT !.kind = kind, !.block = block]}
    BY <1>1
  <1> QED BY ZenonT(40), <1>2 DEF Em, Lasting

\* What was kept aside of a call that never became one.
LEMMA SalvagedKept ==
    ASSUME Asked(req), NEW e \in Em, ~e.fallback
    PROVE  LET f == Salvaged(e)
           IN  /\ f \in Em /\ Lasting(f, e) /\ f.calls = e.calls
               /\ f.content = Rescued(Core(e)) /\ f.reasoning = e.reasoning
  <1>1. PICK f : f = Salvaged(e) OBVIOUS
  <1>2. e.content \in Text /\ e.toolBuffer \in Text BY EmTexts
  <1>3. Core(e).fallback = e.fallback BY CoreIs
  <1>4. CASE ~e.fromReasoning \/ TopLevelClose(e.toolBuffer) = {}
    <2>1. f = e BY <1>1, <1>4 DEF Salvaged
    <2>2. Rescued(Core(e)) = e.content BY <1>3, <1>4, CoreIs DEF Rescued
    <2>3. Lasting(e, e) BY DEF Lasting
    <2> QED BY <1>1, <2>1, <2>2, <2>3
  <1>5. CASE ~(~e.fromReasoning \/ TopLevelClose(e.toolBuffer) = {})
    <2>1. TopLevelClose(e.toolBuffer) \subseteq At(e.toolBuffer, ThinkClose) BY DEF TopLevelClose
    <2>2. PICK text \in Text :
             text = From(e.toolBuffer, Min(TopLevelClose(e.toolBuffer)) + Len(ThinkClose))
      BY <1>2, <1>5, <2>1, CloseParts
    <2>3. f = SaidBehind(e, text) BY <1>1, <1>5, <2>2 DEF Salvaged
    <2>4. Rescued(Core(e)) = e.content \o text BY <1>3, <1>5, <2>2, CoreIs DEF Rescued
    <2>5. CASE text = <<>>
      <3>1. f = e BY <2>3, <2>5 DEF SaidBehind
      <3>2. Lasting(e, e) BY DEF Lasting
      <3>3. e.content \o <<>> = e.content BY <1>2, CatIs
      <3> QED BY <1>1, <2>4, <2>5, <3>1, <3>2, <3>3
    <2>6. CASE text # <<>>
      <3>1. PICK first : first = IF e.firstContent # -1 THEN e.firstContent ELSE Max({0, e.count - 1})
        OBVIOUS
      <3>2. first \in Int BY <3>1, FirstType
      <3>3. PICK marked : marked = [e EXCEPT !.firstContent = first] OBVIOUS
      <3>4. /\ marked \in Em /\ Lasting(marked, e) /\ marked.content = e.content
            /\ marked.reasoning = e.reasoning /\ marked.calls = e.calls
        BY <3>2, <3>3, Marked
      <3>5. f = Say(marked, text) BY <2>3, <2>6, <3>1, <3>3 DEF SaidBehind
      <3>6. /\ f \in Em /\ Lasting(f, marked) /\ f.calls = marked.calls
            /\ f.content = marked.content \o text /\ f.reasoning = marked.reasoning
        BY <3>4, <3>5, SpeakLasts
      <3>7. Lasting(f, e) BY <3>4, <3>6 DEF Lasting
      <3> QED BY <1>1, <2>4, <3>4, <3>6, <3>7
    <2> QED BY <2>5, <2>6
  <1> QED BY <1>4, <1>5

\* What the tool buffer was, calls or text after all, is what its core says.
LEMMA ResolvedKept ==
    ASSUME Asked(req), NEW e \in Em, e.calls = {}
    PROVE  LET f == Resolved(e)
           IN  /\ Kept(f) = Outcome(Core(e)) /\ Lasting(f, e)
               /\ e.mode # "TOOL_BUFFER" => f = e
  <1>1. PICK f : f = Resolved(e) OBVIOUS
  <1>2. PICK c : /\ c = Core(e) /\ c.mode = e.mode /\ c.toolBuffer = e.toolBuffer
                 /\ c.content = e.content /\ c.reasoning = e.reasoning /\ c.fallback = e.fallback
                 /\ c.fromReasoning = e.fromReasoning
    BY CoreIs
  <1>3. e.toolBuffer \in Text /\ e.content \in Text BY EmTexts
  <1>4. CASE e.mode # "TOOL_BUFFER" \/ e.toolBuffer = <<>>
    <2>1. f = e BY <1>1, <1>4 DEF Resolved
    <2>2. Outcome(c) = <<e.content, e.reasoning, {}>> BY <1>2, <1>4 DEF Outcome
    <2>3. Kept(e) = <<e.content, e.reasoning, {}>> BY <1>4 DEF Kept
    <2>4. Lasting(e, e) BY DEF Lasting
    <2> QED BY <1>1, <1>2, <2>1, <2>2, <2>3, <2>4
  <1>5. CASE e.mode = "TOOL_BUFFER" /\ e.toolBuffer # <<>>
    <2>1. PICK parsed : parsed = ParseToolCalls(e.toolBuffer) OBVIOUS
    <2>2. parsed.calls = Calls(e.toolBuffer) /\ parsed.cleaned \in Text BY <1>3, <2>1, ParsedIs
    <2>3. f = Read(e, parsed) BY <1>1, <1>5, <2>1 DEF Resolved
    <2>4. CASE Calls(e.toolBuffer) # {}
      <3>1. PICK called : called = [e EXCEPT !.calls = parsed.calls, !.remembered = e.raw,
                                             !.reason = "tool_calls"]
        OBVIOUS
      <3>2. /\ called \in Em /\ Lasting(called, e) /\ called.content = e.content
            /\ called.reasoning = e.reasoning /\ called.calls = Calls(e.toolBuffer)
            /\ called.toolBuffer = e.toolBuffer /\ called.fromReasoning = e.fromReasoning
        <4>1. Calls(e.toolBuffer) \in SUBSET Call BY <1>3, CallsFinite
        <4>2. e.raw \in Text BY EmTexts
        <4> QED BY <2>2, <3>1, <4>1, <4>2 DEF Em, Lasting
      <3>3. PICK mended : mended = Recovered(called, parsed.cleaned) OBVIOUS
      <3>4. /\ mended \in Em /\ Lasting(mended, called) /\ mended.calls = called.calls
            /\ <<mended.content, mended.reasoning>> = Mended(Core(called), parsed.cleaned)
        BY <2>2, <3>2, <3>3, RecoveredKept
      <3>5. Mended(Core(called), parsed.cleaned) = Mended(c, parsed.cleaned)
        <4>1. PICK d : d = Core(called) /\ d.content = called.content
                       /\ d.reasoning = called.reasoning /\ d.fromReasoning = called.fromReasoning
          BY <3>2, CoreIs
        <4> QED BY <1>2, <3>2, <4>1 DEF Mended
      <3>6. f = ToolEvents(mended) BY <2>2, <2>3, <2>4, <3>1, <3>3 DEF Read
      <3>7. /\ Lasting(f, mended) /\ f.calls = mended.calls /\ f.content = mended.content
            /\ f.reasoning = mended.reasoning
        BY <3>4, <3>6, ToolEventsKept
      <3>8. Lasting(f, e) BY <3>2, <3>4, <3>7 DEF Lasting
      <3>9. Outcome(c) = <<Mended(c, parsed.cleaned)[1], Mended(c, parsed.cleaned)[2],
                           Calls(e.toolBuffer)>>
        BY <1>2, <1>5, <2>1, <2>4 DEF Outcome
      <3>10. <<f.content, f.reasoning>> = Mended(c, parsed.cleaned) BY <3>4, <3>5, <3>7
      <3>11. f.content = Mended(c, parsed.cleaned)[1] /\ f.reasoning = Mended(c, parsed.cleaned)[2]
        <4>1. PICK m : m = Mended(c, parsed.cleaned) OBVIOUS
        <4>2. <<f.content, f.reasoning>>[1] = f.content /\ <<f.content, f.reasoning>>[2] = f.reasoning
          OBVIOUS
        <4> QED BY <3>10, <4>1, <4>2
      <3>12. f.calls = Calls(e.toolBuffer) BY <3>2, <3>4, <3>7
      <3>13. Kept(f) = Outcome(c) BY <3>9, <3>11, <3>12 DEF Kept
      <3> QED BY <1>1, <1>2, <1>5, <3>8, <3>13
    <2>5. CASE Calls(e.toolBuffer) = {} /\ e.fallback
      <3>1. f = Say(e, e.toolBuffer) BY <2>2, <2>3, <2>5 DEF Read
      <3>2. /\ Lasting(f, e) /\ f.calls = e.calls /\ f.content = e.content \o e.toolBuffer
            /\ f.reasoning = e.reasoning
        BY <1>3, <3>1, SpeakLasts
      <3>3. Outcome(c) = <<e.content \o e.toolBuffer, e.reasoning, {}>>
        BY <1>2, <1>5, <2>5 DEF Outcome, Rescued
      <3>4. Kept(f) = Outcome(c) BY <3>2, <3>3 DEF Kept
      <3> QED BY <1>1, <1>2, <1>5, <3>2, <3>4
    <2>6. CASE Calls(e.toolBuffer) = {} /\ ~e.fallback
      <3>1. f = Salvaged(e) BY <2>2, <2>3, <2>6 DEF Read
      <3>2. /\ Lasting(f, e) /\ f.calls = e.calls /\ f.content = Rescued(c)
            /\ f.reasoning = e.reasoning
        BY <1>2, <2>6, <3>1, SalvagedKept
      <3>3. Outcome(c) = <<Rescued(c), e.reasoning, {}>> BY <1>2, <1>5, <2>6 DEF Outcome
      <3>4. Kept(f) = Outcome(c) BY <3>2, <3>3 DEF Kept
      <3> QED BY <1>1, <1>2, <1>5, <3>2, <3>4
    <2> QED BY <2>4, <2>5, <2>6
  <1> QED BY <1>4, <1>5

\* Half a character that waited is replaced.
LEMMA RestIs ==
    ASSUME NEW e \in Em, e.tail \in {<<>>, <<"u1">>}
    PROVE  /\ Sanitized(e.tail) \in Text /\ Len(Sanitized(e.tail)) <= 1
           /\ \A i \in 1 .. Len(Sanitized(e.tail)) : Sanitized(e.tail)[i] = "?"
  <1>1. e.tail = <<>> \/ e.tail = <<"u1">> OBVIOUS
  <1>2. "?" \in Symbol BY DEF Symbol
  <1>3. CASE e.tail = <<>>
    <2>1. Unwrapped(<<>>) /\ <<>> \in Text BY <1>3, EmTexts DEF Unwrapped
    <2>2. Sanitized(e.tail) = <<>> BY <1>3, <2>1, SanitizedIs
    <2>3. Len(<<>>) = 0 OBVIOUS
    <2> QED BY <2>1, <2>2, <2>3
  <1>4. CASE e.tail = <<"u1">>
    <2>1. e.tail \in Text /\ Len(e.tail) = 1 /\ e.tail[1] = "u1" BY <1>4, EmTexts
    <2>2. PICK s : s = Sanitized(e.tail) OBVIOUS
    <2>5. Unwrapped(e.tail) BY <2>1 DEF Unwrapped
    <2>3. s \in Text /\ Len(s) = 1 BY <2>1, <2>2, <2>5, SanitizedIs
    <2>4. s[1] = "?" BY <2>1, <2>2 DEF Sanitized
    <2> QED BY <2>2, <2>3, <2>4
  <1> QED BY <1>1, <1>3, <1>4

\* What the window still holds goes where the core says, with what waited.
LEMMA FlushedKept ==
    ASSUME Asked(req), NEW e \in Em, e.tail \in {<<>>, <<"u1">>}, e.calls = {}
    PROVE  LET f == Flushed(e)
               rest == Sanitized(e.tail)
           IN  /\ f \in Em /\ Core(f) = Flush(req, Ext(Core(e), rest)) /\ f.raw = e.raw \o rest
               /\ f.count = e.count /\ f.pieces = e.pieces /\ f.calls = {}
               /\ (f.stopHit <=> e.stopHit) /\ f.firstContent = e.firstContent
  <1>1. PICK rest \in Text : rest = Sanitized(e.tail) BY RestIs
  <1>2. PICK c \in Cores : /\ c = Core(e) /\ c.mode = e.mode /\ c.toolBuffer = e.toolBuffer
                 /\ c.content = e.content /\ c.reasoning = e.reasoning /\ (c.fallback <=> e.fallback)
                 /\ (c.fromReasoning <=> e.fromReasoning) /\ (c.checkedPrefix <=> e.checkedPrefix)
                 /\ c.window = e.window
    BY CoreIs
  <1>3. PICK d \in Cores :
               /\ d = Ext(c, rest) /\ d.window = c.window \o rest /\ d.mode = c.mode
               /\ d.toolBuffer = c.toolBuffer /\ d.content = c.content /\ d.reasoning = c.reasoning
               /\ (d.fromReasoning <=> c.fromReasoning) /\ (d.fallback <=> c.fallback)
               /\ (d.checkedPrefix <=> c.checkedPrefix)
    BY ExtIs
  <1>4. PICK g \in Cores :
           /\ g = Flush(req, d) /\ g.window = <<>>
           /\ g.mode = IF d.mode = "CONTENT" /\ ZeroArgCall(d) THEN "TOOL_BUFFER" ELSE d.mode
           /\ g.toolBuffer = IF d.mode = "CONTENT" /\ ZeroArgCall(d) THEN <<"z">>
                             ELSE IF d.mode = "TOOL_BUFFER" THEN d.toolBuffer \o d.window
                             ELSE d.toolBuffer
           /\ g.content = IF d.mode = "CONTENT" /\ ~ZeroArgCall(d) THEN d.content \o d.window
                          ELSE d.content
           /\ g.reasoning = IF d.mode = "REASONING" THEN d.reasoning \o d.window ELSE d.reasoning
           /\ (g.fromReasoning <=> d.fromReasoning) /\ (g.fallback <=> d.fallback)
           /\ (g.checkedPrefix <=> d.checkedPrefix)
    BY FlushIs
  <1>5. e.window \in Text /\ e.raw \in Text /\ e.toolBuffer \in Text /\ e.mode \in Modes BY EmTexts
  <1>6. PICK text \in Text : text = e.window \o rest BY <1>5, CatIs
  <1>7. PICK raw \in Text : raw = e.raw \o rest BY <1>5, CatIs
  <1>8. PICK none \in Text : none = <<>> BY CatIs
  <1>9. PICK z \in Text : z = <<"z">>
    <2>1. "z" \in Symbol BY DEF Symbol
    <2> QED BY <2>1, Short DEF Text
  <1>10. PICK all : all = [e EXCEPT !.tail = none, !.raw = raw, !.window = none] OBVIOUS
  <1>11. /\ all \in Em /\ all.mode = e.mode /\ all.window = none
         /\ all.toolBuffer = e.toolBuffer /\ all.raw = raw /\ all.calls = {}
         /\ all.firstContent = e.firstContent /\ all.count = e.count /\ all.pieces = e.pieces
         /\ (all.stopHit <=> e.stopHit) /\ all.content = e.content /\ all.reasoning = e.reasoning
         /\ (all.fromReasoning <=> e.fromReasoning) /\ (all.fallback <=> e.fallback)
         /\ (all.checkedPrefix <=> e.checkedPrefix)
    BY ZenonT(40), <1>7, <1>8, <1>10 DEF Em
  <1>12. ZeroArgCall([e EXCEPT !.window = text]) <=> ZeroArgCall(d)
    <2>1. PICK h : h = [e EXCEPT !.window = text] OBVIOUS
    <2>2. h.window = d.window /\ h.content = d.content BY <1>2, <1>3, <1>6, <2>1 DEF Em
    <2> QED BY <2>1, <2>2 DEF ZeroArgCall
  <1>13. PICK f : f = Flushed(e) OBVIOUS
  <1>14. f = CASE e.mode = "REASONING" -> Think(all, text)
               [] e.mode = "CONTENT" ->
                     IF ZeroArgCall(d) THEN [all EXCEPT !.toolBuffer = z, !.mode = "TOOL_BUFFER"]
                     ELSE Say(all, text)
               [] e.mode = "TOOL_BUFFER" -> [all EXCEPT !.toolBuffer = @ \o text]
    BY <1>1, <1>6, <1>7, <1>8, <1>9, <1>10, <1>12, <1>13 DEF Flushed
  <1> DEFINE Result == /\ f \in Em /\ f.window = none /\ f.mode = g.mode /\ f.toolBuffer = g.toolBuffer
               /\ f.content = g.content /\ f.reasoning = g.reasoning
               /\ (f.fromReasoning <=> all.fromReasoning) /\ (f.fallback <=> all.fallback)
               /\ (f.checkedPrefix <=> all.checkedPrefix)
               /\ f.raw = raw /\ f.count = e.count /\ f.pieces = e.pieces /\ f.calls = {}
               /\ (f.stopHit <=> e.stopHit) /\ f.firstContent = e.firstContent
  <1>15. req.format \in ThreeFormats BY DEF Asked
  <1>16. Result
    <2>1. CASE e.mode = "REASONING"
      <3>1. f = Think(all, text) BY <1>14, <2>1
      <3>2. f \in Em /\ Same(f, all) /\ f.reasoning = all.reasoning \o text /\ f.content = all.content
        BY <1>11, <1>15, <3>1, SpeakAny
      <3>3. g.reasoning = e.reasoning \o text /\ g.mode = e.mode /\ g.content = e.content
            /\ g.toolBuffer = e.toolBuffer
        BY <1>2, <1>3, <1>4, <1>6, <2>1
      <3> QED BY <1>11, <3>2, <3>3 DEF Same
    <2>2. CASE e.mode = "CONTENT" /\ ~ZeroArgCall(d)
      <3>1. f = Say(all, text) BY <1>14, <2>2
      <3>2. f \in Em /\ Same(f, all) /\ f.content = all.content \o text /\ f.reasoning = all.reasoning
        BY <1>11, <1>15, <3>1, SpeakAny
      <3>3. g.content = e.content \o text /\ g.mode = e.mode /\ g.reasoning = e.reasoning
            /\ g.toolBuffer = e.toolBuffer
        <4>1. d.mode = "CONTENT" /\ d.window = text /\ d.content = e.content /\ d.reasoning = e.reasoning
              /\ d.toolBuffer = e.toolBuffer
          BY <1>2, <1>3, <1>6, <2>2
        <4> QED BY <1>4, <2>2, <4>1
      <3> QED BY <1>11, <3>2, <3>3 DEF Same
    <2>3. CASE e.mode = "CONTENT" /\ ZeroArgCall(d)
      <3>1. f = [all EXCEPT !.toolBuffer = z, !.mode = "TOOL_BUFFER"] BY <1>14, <2>3
      <3>2. g.content = e.content /\ g.mode = "TOOL_BUFFER" /\ g.reasoning = e.reasoning
            /\ g.toolBuffer = z
        BY <1>2, <1>3, <1>4, <1>9, <2>3
      <3>3. "TOOL_BUFFER" \in Modes BY DEF Modes
      <3> QED BY ZenonT(40), <1>11, <3>1, <3>2, <3>3 DEF Em
    <2>4. CASE e.mode = "TOOL_BUFFER"
      <3>1. PICK u \in Text : u = e.toolBuffer \o text BY <1>5, CatIs
      <3>2. f = [all EXCEPT !.toolBuffer = u] BY <1>11, <1>14, <2>4, <3>1
      <3>3. g.content = e.content /\ g.mode = e.mode /\ g.reasoning = e.reasoning
            /\ g.toolBuffer = u
        BY <1>2, <1>3, <1>4, <1>6, <2>4, <3>1
      <3> QED BY ZenonT(40), <1>11, <3>2, <3>3 DEF Em
    <2> QED BY <1>5, <2>1, <2>2, <2>3, <2>4 DEF Modes
  <1>17. PICK h \in Cores :
           /\ h = Core(f) /\ h.window = f.window /\ h.mode = f.mode
           /\ h.toolBuffer = f.toolBuffer /\ h.content = f.content /\ h.reasoning = f.reasoning
           /\ (h.fromReasoning <=> f.fromReasoning) /\ (h.fallback <=> f.fallback)
           /\ (h.checkedPrefix <=> f.checkedPrefix)
    BY <1>16, CoreIs
  <1>18. h = g
    <2>1. /\ (h.fromReasoning <=> g.fromReasoning) /\ (h.fallback <=> g.fallback)
          /\ (h.checkedPrefix <=> g.checkedPrefix)
      BY <1>2, <1>3, <1>4, <1>11, <1>16, <1>17
    <2>2. h.fromReasoning = g.fromReasoning /\ h.fallback = g.fallback /\ h.checkedPrefix = g.checkedPrefix
      BY <2>1, CoresAre
    <2>3. h.window = g.window /\ h.mode = g.mode /\ h.toolBuffer = g.toolBuffer
          /\ h.content = g.content /\ h.reasoning = g.reasoning
      BY <1>4, <1>8, <1>16, <1>17
    <2> QED BY <2>2, <2>3, CoresSame
  <1> QED BY <1>1, <1>2, <1>3, <1>4, <1>7, <1>13, <1>16, <1>17, <1>18

\* The answer's end: what is kept is what its core comes to, and the texts given,
\* the raw text and the stop flag stay.
LEMMA EndKept ==
    ASSUME Asked(req), NEW e, Running(req, e), NEW capped \in BOOLEAN
    PROVE  LET f == EmitFinish(e, capped)
               rest == Sanitized(e.tail)
               g == Flush(req, Ext(Core(e), rest))
           IN  /\ Kept(f) = Outcome(g) /\ f.raw = e.raw \o rest /\ f.count = e.count
               /\ f.pieces = e.pieces /\ (f.stopHit <=> e.stopHit) /\ (f.fallback <=> g.fallback)
               /\ f.mode = g.mode
               /\ g.mode # "TOOL_BUFFER" => f.firstContent = e.firstContent
  <1>1. PICK a : a = Flushed(e) OBVIOUS
  <1>2. PICK rest : rest = Sanitized(e.tail) OBVIOUS
  <1>3. PICK g : g = Flush(req, Ext(Core(e), rest)) OBVIOUS
  <1>4. /\ a \in Em /\ Core(a) = g /\ a.raw = e.raw \o rest
        /\ a.count = e.count /\ a.pieces = e.pieces /\ a.calls = {}
        /\ (a.stopHit <=> e.stopHit) /\ a.firstContent = e.firstContent
    <2>1. e \in Em /\ Plainly(e) BY DEF Running, Typed
    <2> QED BY <1>1, <1>2, <1>3, <2>1, FlushedKept DEF Plainly
  <1>5. Settled(req, a) /\ Told(req.format, a) BY <1>1, FlushedIs
  <1>6. PICK b : b = ReasoningClosed(a) OBVIOUS
  <1>7. b \in Em /\ Alike(b, a) /\ Told(req.format, b) /\ KeptLength(b) = KeptLength(a)
    BY <1>4, <1>5, <1>6, ReasoningEnds
  <1>8. Settled(req, b)
    <2>1. Same(b, a) BY <1>7 DEF Alike
    <2> QED BY <1>5, <1>7, <2>1, SettledSame
  <1>9. Core(b) = g /\ b.raw = a.raw /\ b.count = a.count /\ b.pieces = a.pieces /\ b.calls = {}
        /\ (b.stopHit <=> a.stopHit) /\ b.firstContent = a.firstContent
    BY <1>4, <1>7 DEF Alike, Same, Core
  <1>10. b.mode = g.mode /\ (b.fallback <=> g.fallback) BY <1>7, <1>9, CoreIs
  <1>11. PICK c : c = Resolved(b) OBVIOUS
  <1>12. Done(req, c, b) BY <1>7, <1>8, <1>11, ResolvedIs
  <1>13. Kept(c) = Outcome(g) /\ Lasting(c, b) /\ (b.mode # "TOOL_BUFFER" => c = b)
    BY <1>7, <1>9, <1>11, ResolvedKept
  <1>14. PICK d : d = [c EXCEPT !.reason = Reason(c, capped)] OBVIOUS
  <1>15. Done(req, d, c) /\ IsFiniteSet(d.calls) BY <1>12, <1>14, ReasonIs DEF Done
  <1>16. Lasting(d, c) /\ Kept(d) = Kept(c) /\ d.firstContent = c.firstContent
    <2>1. c \in Em BY <1>12 DEF Done, Settled
    <2> QED BY <1>14, <2>1 DEF Em, Lasting, Kept
  <1>17. PICK f : f = Final(d) OBVIOUS
  <1>18. f \in Em /\ Alike(f, d)
    <2>1. d \in Em /\ Adds(req.format, d) /\ Shut(req.format, d) BY <1>15 DEF Done, Settled
    <2> QED BY <1>15, <1>17, <2>1, FinalIs
  <1>19. Lasting(f, d) /\ Kept(f) = Kept(d) /\ f.firstContent = d.firstContent
    BY <1>18 DEF Alike, Same, Lasting, Kept
  <1>20. EmitFinish(e, capped) = f BY <1>1, <1>6, <1>11, <1>14, <1>17 DEF EmitFinish, Finished
  <1>21. Lasting(f, b) BY <1>13, <1>16, <1>19 DEF Lasting
  <1>22. Kept(f) = Outcome(g) BY <1>13, <1>16, <1>19
  <1>23. g.mode # "TOOL_BUFFER" => f.firstContent = e.firstContent
    BY <1>4, <1>9, <1>10, <1>13, <1>16, <1>19
  <1>24. /\ f.raw = e.raw \o rest /\ f.count = e.count /\ f.pieces = e.pieces
         /\ (f.stopHit <=> e.stopHit) /\ (f.fallback <=> g.fallback) /\ f.mode = g.mode
    BY <1>4, <1>9, <1>10, <1>21 DEF Lasting
  <1> QED BY <1>2, <1>3, <1>20, <1>22, <1>23, <1>24

\* A text is the first part of itself with another behind it.
LEMMA PrefixOf ==
    ASSUME NEW s \in Text, NEW t \in Text PROVE SubSeq(s \o t, 1, Len(s)) = s
  <1>1. Len(s) \in Nat /\ Len(t) \in Nat BY TextIs
  <1>2. PICK n \in Nat : n = Len(s) BY <1>1
  <1>3. PICK u \in Text : u = s \o t BY CatIs
  <1>4. Len(u) = n + Len(t) /\ \A i \in 1 .. n : u[i] = s[i] BY <1>2, <1>3, CatIs
  <1>5. n <= Len(u) BY <1>1, <1>4
  <1>6. PICK p : p = SubSeq(u, 1, n) OBVIOUS
  <1>7. p \in Text /\ Len(p) = n /\ \A i \in 1 .. n : p[i] = u[i]
    <2>1. IF 1 <= n THEN n - 1 + 1 = n ELSE n = 0 OBVIOUS
    <2>2. n - 1 + 1 = n /\ \A i \in 1 .. n : 1 + i - 1 = i OBVIOUS
    <2> QED BY <1>5, <1>6, <2>1, <2>2, SubIs
  <1>8. \A i \in 1 .. n : p[i] = s[i] BY <1>4, <1>7
  <1> QED BY <1>2, <1>3, <1>6, <1>7, <1>8, SeqEqual DEF Text

\* Of a streamed answer with undeclared tools, all that is shown has been given.
Hidden ==
    req.stream /\ ~HasTools =>
        /\ pc # "done" => Hides(em, tokens)
        /\ ToldSo(em, ShownOf(tokens))

\* At the beginning nothing is shown and no call open.
LEMMA HiddenInit == Init => Hidden
  <1> SUFFICES ASSUME Init, req.stream, ~HasTools PROVE Hides(em, tokens) BY DEF Hidden, Hides
  <1>1. req \in Requests /\ em = Started(Emitter(req.thinking)) /\ tokens = <<>> BY DEF Init
  <1>2. em.pieces = <<>> BY <1>1, StartedIs
  <1>3. em.suppress = FALSE /\ em.stopHit = FALSE
    <2>1. PICK e : e = Emitter(req.thinking) OBVIOUS
    <2>2. e.suppress = FALSE /\ e.stopHit = FALSE BY <2>1 DEF Emitter
    <2>3. e \in Em BY <1>1, <2>1, EmitterIs DEF Requests
    <2>4. em = Started(e) BY <1>1, <2>1
    <2>5. em \in {e, Send(e, <<Event("open", e.kind, 0, <<>>)>>),
                  [Send(e, <<Event("open", "text", 0, <<>>)>>) EXCEPT !.messageOpen = TRUE]}
      BY <2>4 DEF Started
    <2> QED BY <2>2, <2>3, <2>5 DEF Send, Em
  <1>4. FlattenSeq(em.pieces) = <<>> BY <1>2, FlattenNone
  <1>5. ShownOf(tokens) = <<>>
    <2>1. Len(tokens) = 0 /\ 1 .. 0 = {} BY <1>1
    <2>2. ShownPart(tokens) = <<>> BY <2>1 DEF ShownPart
    <2> QED BY <2>2, FlattenNone DEF ShownOf
  <1>6. OutsideIn(tokens, Len(tokens) + 1)
    <2>1. Len(tokens) + 1 - 1 = 0 /\ 1 .. 0 = {} BY <1>1
    <2> QED BY <2>1 DEF OutsideIn
  <1> QED BY <1>3, <1>4, <1>5, <1>6 DEF Hides, ToldSo

\* A step of a streamed answer goes on so.
LEMMA HiddenStep == IInv /\ Hidden /\ [Next]_vars => Hidden'
  <1> SUFFICES ASSUME IInv, Hidden, [Next]_vars, req'.stream, ~HasTools'
               PROVE  (pc' # "done" => Hides(em', tokens')) /\ ToldSo(em', ShownOf(tokens'))
    BY DEF Hidden, Hides, ToldSo, ShownOf, ShownPart, VisibleIn, OutsideIn
  <1> USE DEF IInv
  <1>1. req' = req BY DEF Next, OnToken, EndStream, EndWhole, vars
  <1>2. req.stream /\ ~HasTools BY <1>1 DEF HasTools
  <1>3. Asked(req) BY ReqIs
  <1>4. CASE OnToken
    <2>1. PICK token \in req.vocabulary.tokens : tokens' = Append(tokens, token) /\ em' = Streamed(em, token)
      BY <1>2, <1>4 DEF OnToken
    <2>2. Running(req, em) /\ Hides(em, tokens) BY <1>2, <1>4 DEF OnToken, Hidden
    <2>3. Hides(Streamed(em, token), Append(tokens, token)) BY <1>2, <2>2, HidesStreamed
    <2>4. Hides(em', tokens') BY <2>1, <2>3
    <2> QED BY <2>4 DEF Hides
  <1>5. CASE EndStream
    <2>1. PICK capped \in BOOLEAN : em' = EmitFinish(em, capped) BY <1>5 DEF EndStream
    <2>2. Running(req, em) /\ Hides(em, tokens) /\ tokens' = tokens /\ pc' = "done"
      BY <1>2, <1>5 DEF EndStream, Hidden
    <2>3. PICK f : f = EmitFinish(em, capped) OBVIOUS
    <2>4. f.pieces = em.pieces /\ (f.stopHit <=> em.stopHit)
      BY <1>3, <2>2, <2>3, EndKept
    <2>5. ToldSo(f, ShownOf(tokens)) BY <2>2, <2>4 DEF Hides, ToldSo
    <2> QED BY <2>1, <2>2, <2>3, <2>5
  <1>6. CASE EndWhole BY <1>2, <1>6 DEF EndWhole
  <1>7. CASE UNCHANGED vars
    <2>1. em' = em /\ tokens' = tokens /\ pc' = pc BY <1>7 DEF vars
    <2> QED BY <1>2, <2>1 DEF Hidden
  <1> QED BY <1>4, <1>5, <1>6, <1>7 DEF Next

\* Of a tool call the request did not declare nothing is given to the emitter of a
\* streamed answer, and all that is around it is, up to a stop sequence.
THEOREM UndeclaredIsHidden == Spec => []UndeclaredHidden
  <1>1. IInv /\ Hidden => UndeclaredHidden
    <2> SUFFICES ASSUME IInv, Hidden, req.stream, ~HasTools
                 PROVE  LET given == Given(Len(em.pieces))
                        IN  given = IF em.stopHit THEN SubSeq(Shown, 1, Len(given)) ELSE Shown
      BY DEF UndeclaredHidden
    <2>1. PICK shown : shown = ShownOf(tokens) OBVIOUS
    <2>2. Shown = shown
      <3>1. \A i : Visible(i) = VisibleIn(tokens, i)
        BY DEF Visible, VisibleIn, OutsideCall, OutsideIn
      <3> QED BY <2>1, <3>1 DEF Shown, ShownOf, ShownPart
    <2>3. em \in Em BY RunningOrOver DEF Running, Typed, Over, Settled
    <2>4. em.pieces \in Seq(Text) BY <2>3 DEF Em
    <2>5. PICK given : given = FlattenSeq(em.pieces) OBVIOUS
    <2>6. Given(Len(em.pieces)) = given
      <3>1. SubSeq(em.pieces, 1, Len(em.pieces)) = em.pieces BY <2>4
      <3> QED BY <2>5, <3>1 DEF Given
    <2>7. given \in Text BY <2>4, <2>5, FlattenType
    <2>8. IF em.stopHit THEN \E rest \in Text : shown = given \o rest ELSE shown = given
      BY <2>1, <2>5 DEF Hidden, ToldSo
    <2>9. CASE em.stopHit
      <3>1. PICK rest \in Text : shown = given \o rest BY <2>8, <2>9
      <3>2. SubSeq(given \o rest, 1, Len(given)) = given BY <2>7, PrefixOf
      <3> QED BY <2>2, <2>6, <2>9, <3>1, <3>2
    <2> QED BY <2>2, <2>6, <2>8, <2>9
  <1>2. Init => Hidden BY HiddenInit
  <1>3. IInv /\ Hidden /\ [Next]_vars => Hidden' BY HiddenStep
  <1> QED BY <1>1, <1>2, <1>3, Invariance, PTL DEF Spec

-----------------------------------------------------------------------------
(* What a window is searched for *)

\* At least one symbol is held back.
LEMMA HoldbackIs ==
    ASSUME req.vocabulary.stop \in BOOLEAN PROVE Holdback \in Nat /\ Holdback >= 1
  <1>1. SyntaxHoldback = 1
    <2>1. Len(ToolOpen) = 2 BY DEF ToolOpen
    <2> QED BY <2>1 DEF SyntaxHoldback
  <1>2. StopHoldback = IF req.vocabulary.stop THEN 3 ELSE 0
    <2>1. Len(Stop) = 3 BY DEF Stop
    <2> QED BY <2>1 DEF StopHoldback
  <1> DEFINE A == {SyntaxHoldback, StopHoldback}
  <1>3. A \in SUBSET Nat /\ A # {} /\ (\A j \in A : j <= 3) /\ 3 \in Nat BY <1>1, <1>2
  <1> HIDE DEF A
  <1>4. Max(A) \in A /\ Max(A) \in Nat /\ \A j \in A : j <= Max(A) BY <1>3, MaxIs
  <1>5. 1 <= Max(A) BY <1>1, <1>4 DEF A
  <1> QED BY <1>4, <1>5 DEF Holdback, A

\* An identifier begins where nothing of one is in front.
LEMMA NameBegins ==
    ASSUME NEW text \in Text, NEW i \in Nat, i >= 1, i <= Len(text) + 1
    PROVE  /\ NameStart(text, i) = 1 \/ text[NameStart(text, i) - 1] # "n"
           /\ \A m \in 1 .. i : (\A x \in m .. i - 1 : text[x] = "n") /\ (m = 1 \/ text[m - 1] # "n")
                 => NameStart(text, i) = m
  <1>1. PICK s : s = NameStart(text, i) OBVIOUS
  <1>2. s \in 1 .. i /\ \A x \in s .. i - 1 : text[x] = "n" BY <1>1, NameStartIs
  <1>3. \A m \in 1 .. i : (\A x \in m .. i - 1 : text[x] = "n") => s <= m
    <2> DEFINE A == {m \in 1 .. i : \A x \in m .. i - 1 : text[x] = "n"}
    <2>1. A \in SUBSET Nat OBVIOUS
    <2>2. s = Min(A) BY <1>1 DEF NameStart
    <2>3. s \in A BY <1>2
    <2>4. \A j \in A : s <= j
      <3> HIDE DEF A
      <3> QED BY <2>1, <2>2, <2>3, MinIs
    <2> QED BY <2>4
  <1>4. s = 1 \/ text[s - 1] # "n"
    <2> SUFFICES ASSUME s # 1, text[s - 1] = "n" PROVE FALSE OBVIOUS
    <2>1. s - 1 \in 1 .. i /\ ~(s <= s - 1) BY <1>2
    <2>2. \A x \in s - 1 .. i - 1 : x = s - 1 \/ x \in s .. i - 1 BY <1>2
    <2>3. \A x \in s - 1 .. i - 1 : text[x] = "n" BY <1>2, <2>2
    <2> QED BY <1>3, <2>1, <2>3
  <1>5. ASSUME NEW m \in 1 .. i, \A x \in m .. i - 1 : text[x] = "n", m = 1 \/ text[m - 1] # "n"
        PROVE  s = m
    <2>1. s <= m BY <1>3, <1>5
    <2>2. ASSUME s < m PROVE FALSE
      <3>1. m # 1 /\ m - 1 \in s .. i - 1 BY <1>2, <2>2
      <3> QED BY <1>2, <1>5, <3>1
    <2> QED BY <1>2, <2>1, <2>2
  <1> QED BY <1>1, <1>4, <1>5

\* A name that an argument follows, from its first symbol.
NameWith(text, i, k) ==
    /\ i < k /\ k < Len(text) /\ text[k] = "k1" /\ text[k + 1] = "k2"
    /\ \A x \in i .. k - 1 : text[x] = "n"
    /\ i = 1 \/ text[i - 1] # "n"

\* What a tool call begins with.
Opens(text, i) ==
    \/ i < Len(text) /\ text[i] = "t1" /\ text[i + 1] = "t2"
    \/ text[i] = "i1"
    \/ \E k \in 1 .. Len(text) : NameWith(text, i, k)

\* A tool call begins nowhere else.
LEMMA ToolStartsAre ==
    ASSUME NEW text \in Text
    PROVE  \A i : i \in ToolStarts(text) <=> i \in 1 .. Len(text) /\ Opens(text, i)
  <1>1. PICK n \in Nat : n = Len(text) BY TextIs
  <1>2. "t1" \in Symbol /\ "t2" \in Symbol /\ "k1" \in Symbol /\ "k2" \in Symbol BY DEF Symbol
  <1>3. \A i : i \in At(text, ToolOpen) <=> i \in 1 .. n - 1 /\ text[i] = "t1" /\ text[i + 1] = "t2"
    BY <1>1, <1>2, AtIs DEF ToolOpen
  <1>4. \A i : i \in At(text, ArgKeyOpen) <=> i \in 1 .. n - 1 /\ text[i] = "k1" /\ text[i + 1] = "k2"
    BY <1>1, <1>2, AtIs DEF ArgKeyOpen
  <1>5. \A i : i \in Where(text, "i1") <=> i \in 1 .. n /\ text[i] = "i1" BY <1>1, WhereIs
  <1>6. ASSUME NEW i
        PROVE  i \in {m \in {NameStart(text, k) : k \in At(text, ArgKeyOpen)} : text[m] = "n"}
                  <=> i \in 1 .. n /\ \E k \in 1 .. n : NameWith(text, i, k)
    <2>1. ASSUME NEW k \in At(text, ArgKeyOpen), i = NameStart(text, k), text[i] = "n"
          PROVE  i \in 1 .. n /\ k \in 1 .. n /\ NameWith(text, i, k)
      <3>1. k \in 1 .. n - 1 /\ text[k] = "k1" /\ text[k + 1] = "k2" BY <1>4
      <3>2. k \in Nat /\ k >= 1 /\ k <= n + 1 BY <3>1
      <3>3. i \in 1 .. k /\ (\A x \in i .. k - 1 : text[x] = "n") BY <2>1, <3>2, NameStartIs
      <3>4. i = 1 \/ text[i - 1] # "n" BY <1>1, <2>1, <3>2, NameBegins
      <3>5. i # k BY <2>1, <3>1
      <3> QED BY <1>1, <3>1, <3>3, <3>4, <3>5 DEF NameWith
    <2>2. ASSUME i \in 1 .. n, NEW k \in 1 .. n, NameWith(text, i, k)
          PROVE  k \in At(text, ArgKeyOpen) /\ i = NameStart(text, k) /\ text[i] = "n"
      <3>1. i < k /\ k < n /\ text[k] = "k1" /\ text[k + 1] = "k2"
            /\ (\A x \in i .. k - 1 : text[x] = "n") /\ (i = 1 \/ text[i - 1] # "n")
        BY <1>1, <2>2 DEF NameWith
      <3>2. k \in At(text, ArgKeyOpen) BY <1>4, <3>1
      <3>3. k \in Nat /\ k >= 1 /\ k <= n + 1 /\ i \in 1 .. k /\ i \in i .. k - 1 BY <2>2, <3>1
      <3>4. NameStart(text, k) = i BY <1>1, <3>1, <3>3, NameBegins
      <3> QED BY <3>1, <3>2, <3>3, <3>4
    <2> QED BY <2>1, <2>2
  <1>7. ASSUME NEW i PROVE i \in ToolStarts(text) <=> i \in 1 .. n /\ Opens(text, i)
    <2>1. i \in ToolStarts(text) <=>
             \/ i \in 1 .. n - 1 /\ text[i] = "t1" /\ text[i + 1] = "t2"
             \/ i \in 1 .. n /\ text[i] = "i1"
             \/ i \in 1 .. n /\ \E k \in 1 .. n : NameWith(text, i, k)
      BY <1>3, <1>5, <1>6 DEF ToolStarts
    <2>2. i \in 1 .. n - 1 <=> i \in 1 .. n /\ i < n OBVIOUS
    <2> QED BY <1>1, <2>1, <2>2 DEF Opens
  <1> QED BY <1>1, <1>7

\* Where an argument follows an identifier, a tool call begins.
LEMMA NameOpens ==
    ASSUME NEW text \in Text, NEW k \in 2 .. Len(text) - 1, text[k] = "k1", text[k + 1] = "k2",
           text[k - 1] = "n"
    PROVE  NameWith(text, NameStart(text, k), k) /\ NameStart(text, k) \in ToolStarts(text)
  <1>1. PICK n \in Nat : n = Len(text) BY TextIs
  <1>2. k \in Nat /\ k >= 1 /\ k <= n + 1 /\ k < n BY <1>1
  <1>3. PICK s : s = NameStart(text, k) OBVIOUS
  <1>4. s \in 1 .. k /\ \A x \in s .. k - 1 : text[x] = "n" BY <1>2, <1>3, NameStartIs
  <1>5. s = 1 \/ text[s - 1] # "n" BY <1>1, <1>2, <1>3, NameBegins
  <1>6. s # k
    <2>1. k # 1 BY <1>1
    <2> QED BY <1>5, <2>1
  <1>7. s < k /\ s \in 1 .. n /\ k \in 1 .. n BY <1>2, <1>4, <1>6
  <1>8. NameWith(text, s, k) BY <1>1, <1>2, <1>4, <1>5, <1>7 DEF NameWith
  <1>9. s \in ToolStarts(text) BY <1>1, <1>7, <1>8, ToolStartsAre DEF Opens
  <1> QED BY <1>3, <1>8, <1>9

\* Where delimiters of two symbols are.
LEMMA PairsAre ==
    ASSUME NEW text \in Text
    PROVE  /\ \A i : i \in At(text, ThinkOpen) <=>
                        i \in 1 .. Len(text) - 1 /\ text[i] = "o1" /\ text[i + 1] = "o2"
           /\ \A i : i \in At(text, ThinkClose) <=>
                        i \in 1 .. Len(text) - 1 /\ text[i] = "c1" /\ text[i + 1] = "c2"
  <1>1. "o1" \in Symbol /\ "o2" \in Symbol /\ "c1" \in Symbol /\ "c2" \in Symbol BY DEF Symbol
  <1> QED BY <1>1, AtIs DEF ThinkOpen, ThinkClose

\* What is behind the first r symbols of a text.
LEMMA Behind ==
    ASSUME NEW text \in Text, NEW r \in 0 .. Len(text)
    PROVE  LET t == From(text, r + 1)
           IN  /\ t \in Text /\ Len(t) = Len(text) - r
               /\ \A x \in 1 .. Len(text) - r : t[x] = text[r + x]
  <1>1. PICK n \in Nat : n = Len(text) BY TextIs
  <1>2. r + 1 \in Nat /\ r + 1 >= 1 /\ r + 1 <= n + 1 /\ n - (r + 1) + 1 = n - r BY <1>1
  <1>3. PICK t : t = From(text, r + 1) OBVIOUS
  <1>4. t \in Text /\ Len(t) = n - r /\ \A x \in 1 .. n - r : t[x] = text[r + 1 + x - 1]
    <2>1. PICK i \in Nat : i = r + 1 /\ i >= 1 /\ i <= n + 1 /\ n - i + 1 = n - r BY <1>2
    <2>2. t = From(text, i) BY <1>3, <2>1
    <2>3. t \in Text /\ Len(t) = n - i + 1 /\ \A x \in 1 .. n - i + 1 : t[x] = text[i + x - 1]
      BY <1>1, <2>1, <2>2, FromIs
    <2> QED BY <2>1, <2>3
  <1>5. \A x \in 1 .. n - r : r + 1 + x - 1 = r + x BY <1>1
  <1> QED BY <1>1, <1>3, <1>4, <1>5

\* A window without delimiters has none when its front is gone.
LEMMA SuffixNone ==
    ASSUME NEW w \in Text, NEW r \in 0 .. Len(w)
    PROVE  LET t == From(w, r + 1)
           IN  /\ At(w, ThinkOpen) = {} => At(t, ThinkOpen) = {}
               /\ At(w, ThinkClose) = {} => At(t, ThinkClose) = {}
               /\ ToolStarts(w) = {} => ToolStarts(t) = {}
  <1>1. PICK n \in Nat : n = Len(w) BY TextIs
  <1>2. PICK t \in Text : /\ t = From(w, r + 1) /\ Len(t) = n - r
                          /\ \A x \in 1 .. n - r : t[x] = w[r + x]
    BY <1>1, Behind
  <1>3. \A i \in 1 .. n - r - 1 : /\ i \in 1 .. n - r /\ i + 1 \in 1 .. n - r
                                  /\ r + (i + 1) = (r + i) + 1 /\ r + i \in 1 .. n - 1
    BY <1>1
  <1>4. \A i \in At(t, ThinkOpen) : r + i \in At(w, ThinkOpen)
    <2> SUFFICES ASSUME NEW i \in At(t, ThinkOpen) PROVE r + i \in At(w, ThinkOpen) OBVIOUS
    <2>1. i \in 1 .. n - r - 1 /\ t[i] = "o1" /\ t[i + 1] = "o2" BY <1>2, PairsAre
    <2>2. r + i \in 1 .. n - 1 /\ w[r + i] = "o1" /\ w[(r + i) + 1] = "o2" BY <1>2, <1>3, <2>1
    <2> QED BY <1>1, <2>2, PairsAre
  <1>5. \A i \in At(t, ThinkClose) : r + i \in At(w, ThinkClose)
    <2> SUFFICES ASSUME NEW i \in At(t, ThinkClose) PROVE r + i \in At(w, ThinkClose) OBVIOUS
    <2>1. i \in 1 .. n - r - 1 /\ t[i] = "c1" /\ t[i + 1] = "c2" BY <1>2, PairsAre
    <2>2. r + i \in 1 .. n - 1 /\ w[r + i] = "c1" /\ w[(r + i) + 1] = "c2" BY <1>2, <1>3, <2>1
    <2> QED BY <1>1, <2>2, PairsAre
  <1>6. ASSUME NEW i \in ToolStarts(t) PROVE ToolStarts(w) # {}
    <2>1. i \in 1 .. n - r /\ Opens(t, i) BY <1>2, ToolStartsAre
    <2>2. r + i \in 1 .. n BY <1>1, <2>1
    <2>3. CASE i < n - r /\ t[i] = "t1" /\ t[i + 1] = "t2"
      <3>1. i \in 1 .. n - r - 1 BY <1>1, <2>1, <2>3
      <3>2. r + i < n /\ w[r + i] = "t1" /\ w[(r + i) + 1] = "t2" BY <1>1, <1>2, <1>3, <2>3, <3>1
      <3> QED BY <1>1, <2>2, <3>2, ToolStartsAre DEF Opens
    <2>4. CASE t[i] = "i1"
      <3>1. w[r + i] = "i1" BY <1>2, <2>1, <2>4
      <3> QED BY <1>1, <2>2, <3>1, ToolStartsAre DEF Opens
    <2>5. CASE \E k \in 1 .. n - r : NameWith(t, i, k)
      <3>1. PICK k \in 1 .. n - r : NameWith(t, i, k) BY <2>5
      <3>2. i < k /\ k < n - r /\ t[k] = "k1" /\ t[k + 1] = "k2" /\ \A x \in i .. k - 1 : t[x] = "n"
        BY <1>2, <3>1 DEF NameWith
      <3>3. k - 1 \in i .. k - 1 /\ k - 1 \in 1 .. n - r /\ k \in 1 .. n - r - 1 BY <1>1, <2>1, <3>2
      <3>4. t[k - 1] = "n" BY <3>2, <3>3
      <3>5. w[r + k] = "k1" /\ w[(r + k) + 1] = "k2" /\ w[r + (k - 1)] = "n"
        BY <1>2, <1>3, <3>2, <3>3, <3>4
      <3>6. r + (k - 1) = (r + k) - 1 /\ r + k \in 2 .. n - 1 BY <1>1, <2>1, <3>2
      <3> QED BY <1>1, <3>5, <3>6, NameOpens
    <2> QED BY <1>2, <2>1, <2>3, <2>4, <2>5 DEF Opens
  <1> QED BY <1>2, <1>4, <1>5, <1>6

\* What is held back stays so until more comes.
LEMMA CutAgain ==
    ASSUME NEW w \in Text, req.vocabulary.stop \in BOOLEAN, NameLimit \in Nat
    PROVE  /\ Releasable(From(w, Releasable(w) + 1)) = 0
           /\ Cut(From(w, Cut(w) + 1)) = 0
           /\ Releasable(w) \in 0 .. Len(w) /\ Cut(w) \in 0 .. Releasable(w)
  <1>1. PICK n \in Nat : n = Len(w) BY TextIs
  <1>2. PICK h \in Nat : h = Holdback /\ h >= 1 BY HoldbackIs
  <1>3. PICK r : r = Releasable(w) OBVIOUS
  <1>4. r \in 0 .. n /\ NameHeld(w, r) \in 0 .. r BY <1>1, <1>3, ReleasableIs
  <1>5. r = IF n > h THEN SafeLen(w, n - h) ELSE 0 BY <1>1, <1>2, <1>3 DEF Releasable
  \* Where the window is cut at r, that of the rest and what is left of a name.
  <1>6. \/ r = 0 /\ (n <= h \/ (n = h + 1 /\ w[1] = "u1"))
        \/ r = n - h
        \/ r = n - h - 1 /\ w[r + 1] = "u1"
    <2>1. CASE n <= h BY <1>5, <2>1
    <2>2. CASE n > h /\ w[n - h] = "u1"
      <3>1. n - h > 0 /\ n - h < n BY <1>2, <2>2
      <3>2. r = n - h - 1 BY <1>1, <1>5, <2>2, <3>1 DEF SafeLen
      <3>3. r + 1 = n - h BY <3>2
      <3> QED BY <2>2, <3>2, <3>3
    <2>3. CASE n > h /\ w[n - h] # "u1"
      <3>1. r = n - h BY <1>5, <2>3 DEF SafeLen
      <3> QED BY <3>1
    <2> QED BY <2>1, <2>2, <2>3
  <1>7. ASSUME NEW cut \in 0 .. r, \A x \in cut + 1 .. r : w[x] = "n",
               NEW t \in Text, t = From(w, cut + 1)
        PROVE  Releasable(t) = r - cut
    <2>1. Len(t) = n - cut /\ \A x \in 1 .. n - cut : t[x] = w[cut + x]
      <3>1. cut \in 0 .. n BY <1>4
      <3> QED BY <1>1, <1>7, <3>1, Behind
    <2>2. PICK d \in Nat : d = r - cut BY <1>4
    <2>3. PICK m \in Nat : m = Len(t) /\ m = n - cut BY <2>1, <1>7, TextIs
    <2>4. Releasable(t) = IF m > h THEN SafeLen(t, m - h) ELSE 0 BY <1>2, <2>3 DEF Releasable
    <2>5. CASE r = n - h
      <3>1. m - h = d BY <2>2, <2>3, <2>5
      <3>2. CASE d = 0
        <4>1. ~(m > h) BY <3>1, <3>2
        <4> QED BY <2>2, <2>4, <3>2, <4>1
      <3>3. CASE d # 0
        <4>1. m > h /\ d > 0 /\ d \in 1 .. n - cut /\ cut + d = r /\ r \in cut + 1 .. r
          BY <1>1, <1>2, <1>4, <2>2, <2>5, <3>1, <3>3
        <4>2. t[d] = "n" BY <1>7, <2>1, <4>1
        <4>3. SafeLen(t, d) = d BY <4>2 DEF SafeLen
        <4> QED BY <2>2, <2>4, <3>1, <4>1, <4>3
      <3> QED BY <3>2, <3>3
    <2>6. CASE (r = n - h - 1 /\ w[r + 1] = "u1") \/ (r = 0 /\ n = h + 1 /\ w[1] = "u1")
      <3>1. r = n - h - 1 /\ w[r + 1] = "u1" BY <1>2, <2>6
      <3>2. m - h = d + 1 /\ m > h /\ d + 1 < m /\ d + 1 > 0 /\ cut + (d + 1) = r + 1 /\ d + 1 \in 1 .. n - cut
        BY <1>1, <1>2, <1>4, <2>2, <2>3, <3>1
      <3>3. t[d + 1] = "u1" BY <2>1, <3>1, <3>2
      <3>4. SafeLen(t, d + 1) = d
        <4>1. d + 1 - 1 = d OBVIOUS
        <4> QED BY <2>3, <3>2, <3>3, <4>1 DEF SafeLen
      <3> QED BY <2>2, <2>4, <3>2, <3>4
    <2>7. CASE r = 0 /\ n <= h
      <3>1. cut = 0 /\ m = n BY <2>3, <2>7
      <3> QED BY <2>4, <2>7, <3>1
    <2> QED BY <1>6, <2>5, <2>6, <2>7
  <1>8. Releasable(From(w, r + 1)) = 0
    <2>1. r \in 0 .. r /\ r + 1 .. r = {} /\ r - r = 0 BY <1>4
    <2>2. PICK t \in Text : t = From(w, r + 1) BY <1>1, <1>4, Behind
    <2>3. Releasable(t) = r - r BY <1>7, <2>1, <2>2
    <2> QED BY <2>1, <2>2, <2>3
  <1>9. Cut(From(w, Cut(w) + 1)) = 0
    <2>1. PICK s : s = NameStart(w, r + 1) OBVIOUS
    <2>2. r + 1 \in Nat /\ r + 1 >= 1 BY <1>4
    <2>3. s \in 1 .. r + 1 /\ \A x \in s .. (r + 1) - 1 : w[x] = "n" BY <2>1, <2>2, NameStartIs
    <2>4. PICK k \in Nat : k = r + 1 - s BY <1>4, <2>3
    <2>5. Cut(w) = IF HasTools /\ k < NameLimit THEN r - k ELSE r
      BY <1>3, <2>1, <2>4 DEF Cut, NameHeld
    <2>6. CASE HasTools /\ k < NameLimit
      <3>1. PICK cut \in 0 .. r : cut = r - k BY <1>4, <2>3, <2>4
      <3>2. cut + 1 = s /\ (r + 1) - 1 = r /\ r - cut = k BY <1>4, <2>3, <2>4, <3>1
      <3>3. PICK t \in Text : t = From(w, cut + 1)
        <4>1. cut \in 0 .. n BY <1>4
        <4> QED BY <1>1, <4>1, Behind
      <3>4. Releasable(t) = k
        <4>1. \A x \in cut + 1 .. r : w[x] = "n" BY <2>3, <3>2
        <4> QED BY <1>7, <3>2, <3>3, <4>1
      <3>5. \A x \in 1 .. (k + 1) - 1 : t[x] = "n"
        <4>1. \A x \in 1 .. n - cut : t[x] = w[cut + x]
          <5>1. cut \in 0 .. n BY <1>4
          <5> QED BY <1>1, <3>3, <5>1, Behind
        <4>2. \A x \in 1 .. (k + 1) - 1 : x \in 1 .. n - cut /\ cut + x \in s .. (r + 1) - 1
          BY <1>4, <2>3, <2>4, <3>1
        <4> QED BY <2>3, <4>1, <4>2
      <3>6. NameStart(t, k + 1) = 1
        <4>1. k \in 0 .. Len(t) BY <3>3, <3>4, ReleasableIs
        <4>2. k + 1 \in Nat /\ k + 1 >= 1 /\ k + 1 <= Len(t) + 1 /\ 1 \in 1 .. k + 1
          BY <4>1, <3>3, TextIs
        <4> QED BY <3>3, <3>5, <4>2, NameBegins
      <3>7. k + 1 - 1 = k /\ k - k = 0 OBVIOUS
      <3>8. Cut(t) = 0 BY <2>6, <3>4, <3>6, <3>7 DEF Cut, NameHeld
      <3> QED BY <2>5, <2>6, <3>1, <3>3, <3>8
    <2>7. CASE ~(HasTools /\ k < NameLimit)
      <3>1. PICK t \in Text : t = From(w, r + 1) BY <1>1, <1>4, Behind
      <3>2. Releasable(t) = 0 BY <1>8, <3>1
      <3>3. Cut(t) = 0
        <4>1. NameHeld(t, 0) \in 0 .. 0 BY <3>1, <3>2, ReleasableIs
        <4>2. \A x \in 0 .. 0 : x = 0 OBVIOUS
        <4> QED BY <3>2, <4>1, <4>2 DEF Cut
      <3> QED BY <2>5, <2>7, <3>1, <3>3
    <2> QED BY <2>6, <2>7
  <1>10. Cut(w) \in 0 .. r BY <1>3, <1>4 DEF Cut
  <1> QED BY <1>1, <1>3, <1>4, <1>8, <1>9, <1>10

\* Nothing is in front of the first place, and everything behind it.
LEMMA FirstPlace ==
    ASSUME NEW text \in Text
    PROVE  Before(text, 1) = <<>> /\ From(text, 1) = text /\ 1 \in 1 .. Len(text) + 1
  <1>1. PICK n \in Nat : n = Len(text) BY TextIs
  <1>2. 1 - 1 = 0 /\ 1 \in 1 .. n + 1 BY <1>1
  <1>3. Before(text, 1) = <<>> BY <1>2 DEF Before
  <1>4. From(text, 1) = text BY DEF From, Text
  <1> QED BY <1>1, <1>2, <1>3, <1>4

\* A core that waited waits when nothing comes.
LEMMA WaitsAgain ==
    ASSUME Asked(req), NEW c \in Cores, NEW d, CoreRound(req, c) = Waits(d)
    PROVE  d \in Cores /\ CoreRound(req, d) = Waits(d)
  <1>1. PICK w \in Text : /\ w = c.window /\ c.content \in Text /\ c.mode \in Modes
                          /\ c.toolBuffer \in Text /\ c.reasoning \in Text
    BY CoresAre
  <1>2. req.vocabulary.stop \in BOOLEAN /\ NameLimit \in Nat BY EmitterAssumption DEF Asked
  <1>3. PICK none \in Text : none = <<>> /\ (\A t \in Text : t \o none = t) BY CatIs
  <1>4. CASE c.mode = "TOOL_BUFFER"
    <2>1. d = Took(c)
      <3>1. PICK x : x = Took(c) OBVIOUS
      <3>2. CoreRound(req, c) = Waits(x) BY <1>4, <3>1, RoundWhen
      <3> QED BY <3>1, <3>2, Outcomes
    <2>2. PICK e \in Cores : /\ e = Took(c) /\ e.mode = c.mode /\ e.window = none
             /\ e.toolBuffer = c.toolBuffer \o c.window
      BY <1>3, TookIs
    <2>3. PICK f \in Cores : /\ f = Took(e) /\ f.mode = e.mode /\ f.window = none
             /\ f.toolBuffer = e.toolBuffer \o e.window /\ f.content = e.content
             /\ f.reasoning = e.reasoning /\ f.fromReasoning = e.fromReasoning
             /\ f.fallback = e.fallback /\ f.checkedPrefix = e.checkedPrefix
      BY <1>3, TookIs
    <2>4. e.toolBuffer \in Text BY CoresAre
    <2>5. f = e
      <3>1. e.toolBuffer \o e.window = e.toolBuffer BY <1>3, <2>2, <2>4
      <3>2. f.toolBuffer = e.toolBuffer /\ f.window = e.window BY <2>2, <2>3, <3>1
      <3> QED BY <2>3, <3>2, CoresSame
    <2>6. CoreRound(req, e) = Waits(Took(e)) BY <1>4, <2>2, RoundWhen
    <2> QED BY <2>1, <2>2, <2>3, <2>5, <2>6
  <1>5. CASE c.mode = "REASONING" /\ ~c.checkedPrefix
    <2>1. PrefixOpen(c)
      <3>1. PICK x : x = PrefixDropped(c) OBVIOUS
      <3>2. ~PrefixOpen(c) => CoreRound(req, c) = Again(x) BY <1>5, <3>1, RoundWhen
      <3>3. Again(x) # Waits(d) BY Outcomes
      <3> QED BY <3>2, <3>3
    <2>2. CoreRound(req, c) = Waits(c) BY <1>5, <2>1, RoundWhen
    <2>3. d = c BY ZenonT(40), <2>2, Outcomes
    <2> QED BY <2>2, <2>3
  <1>6. CASE c.mode = "REASONING" /\ c.checkedPrefix
    <2>1. PICK r : r = Releasable(w) OBVIOUS
    <2>2. Closers(c) = {}
      <3> SUFFICES ASSUME Closers(c) # {} PROVE FALSE OBVIOUS
      <3>1. PICK i \in Closers(c) : FirstIn(i, Closers(c)) BY FirstMet
      <3>2. \E x : CoreRound(req, c) = Again(x) BY <1>6, <3>1, RoundWhen DEF Closers
      <3>3. PICK x : CoreRound(req, c) = Again(x) BY <3>2
      <3>4. Again(x) # Waits(d) BY Outcomes
      <3> QED BY <3>3, <3>4
    <2>3. d = Thinks(c, r + 1, r + 1, "REASONING")
      <3>1. PICK x : x = Thinks(c, r + 1, r + 1, "REASONING") OBVIOUS
      <3>2. CoreRound(req, c) = Waits(x) BY <1>1, <1>6, <2>1, <2>2, <3>1, RoundWhen
      <3> QED BY ZenonT(40), <3>1, <3>2, Outcomes
    <2>4. r \in 0 .. Len(w) /\ Releasable(From(w, r + 1)) = 0 BY <1>1, <1>2, <2>1, CutAgain
    <2>5. r + 1 \in 1 .. Len(w) + 1 BY <2>4, <1>1, TextIs
    <2>6. PICK e \in Cores : /\ e = d /\ e.mode = "REASONING" /\ e.window = From(w, r + 1)
             /\ e.checkedPrefix = c.checkedPrefix
      BY <1>1, <2>3, <2>5, ThinksIs DEF Modes
    <2>7. Closers(e) = {}
      <3>1. At(e.window, ThinkClose) = {}
        BY <1>1, <2>2, <2>4, <2>6, SuffixNone DEF Closers, CloseHits
      <3>2. HasTools => ToolStarts(e.window) = {}
        BY <1>1, <2>2, <2>4, <2>6, SuffixNone DEF Closers, ToolHits
      <3> QED BY <3>1, <3>2 DEF Closers, CloseHits, ToolHits
    <2>8. Releasable(e.window) = 0 BY <2>4, <2>6
    <2>9. 0 + 1 = 1 OBVIOUS
    <2>10. CoreRound(req, e) = Waits(Thinks(e, 1, 1, "REASONING"))
      <3>1. PICK k : k = Releasable(e.window) OBVIOUS
      <3>2. e.mode = "REASONING" /\ e.checkedPrefix BY <1>6, <2>6
      <3>3. CoreRound(req, e) = Waits(Thinks(e, k + 1, k + 1, "REASONING"))
        BY <2>7, <3>1, <3>2, RoundWhen
      <3>4. k + 1 = 1 BY <2>8, <3>1
      <3> QED BY <3>3, <3>4
    <2>11. Before(e.window, 1) = none /\ From(e.window, 1) = e.window /\ 1 \in 1 .. Len(e.window) + 1
           /\ e.reasoning \in Text
      BY <1>3, CoresAre, FirstPlace
    <2>12. PICK f \in Cores :
              /\ f = Thinks(e, 1, 1, "REASONING") /\ f.mode = "REASONING"
              /\ f.window = From(e.window, 1) /\ f.toolBuffer = e.toolBuffer /\ f.content = e.content
              /\ f.reasoning = e.reasoning \o Before(e.window, 1)
              /\ f.fromReasoning = e.fromReasoning /\ f.fallback = e.fallback
              /\ f.checkedPrefix = e.checkedPrefix
      BY <2>11, ThinksIs DEF Modes
    <2>13. f = e
      <3>1. e.reasoning \o none = e.reasoning BY <1>3, <2>11
      <3>2. f.reasoning = e.reasoning /\ f.window = e.window /\ f.mode = e.mode
        BY <2>6, <2>11, <2>12, <3>1
      <3> QED BY <2>12, <3>2, CoresSame
    <2> QED BY <2>6, <2>10, <2>12, <2>13
  <1>7. CASE c.mode = "CONTENT"
    <2>1. PICK r : r = Cut(w) OBVIOUS
    <2>2. Hits(c) = {} /\ ~BareJson(c)
      <3> SUFFICES ASSUME Hits(c) # {} \/ BareJson(c) PROVE FALSE OBVIOUS
      <3>1. Hits(c) = {} \/ \E i \in Hits(c) : FirstIn(i, Hits(c)) BY FirstMet
      <3>2. \E x : CoreRound(req, c) = Again(x)
        <4>1. CASE Hits(c) = {} BY <1>7, <4>1, RoundWhen
        <4>2. CASE Hits(c) # {}
          <5>1. PICK i \in Hits(c) : FirstIn(i, Hits(c)) BY <3>1, <4>2
          <5> QED BY <1>7, <5>1, RoundWhen DEF Hits
        <4> QED BY <4>1, <4>2
      <3>3. PICK x : CoreRound(req, c) = Again(x) BY <3>2
      <3>4. Again(x) # Waits(d) BY Outcomes
      <3> QED BY <3>3, <3>4
    <2>3. d = Says(c, r + 1, r + 1, "CONTENT")
      <3>1. PICK x : x = Says(c, r + 1, r + 1, "CONTENT") OBVIOUS
      <3>2. CoreRound(req, c) = Waits(x) BY <1>1, <1>7, <2>1, <2>2, <3>1, RoundWhen
      <3> QED BY <3>1, <3>2, Outcomes
    <2>4. r \in 0 .. Len(w) /\ Cut(From(w, r + 1)) = 0
      <3>1. Cut(From(w, r + 1)) = 0 /\ Releasable(w) \in 0 .. Len(w) /\ r \in 0 .. Releasable(w)
        BY <1>1, <1>2, <2>1, CutAgain
      <3>2. PICK n \in Nat : n = Len(w) BY <1>1, TextIs
      <3> QED BY <3>1, <3>2
    <2>5. r + 1 \in 1 .. Len(w) + 1 BY <2>4, <1>1, TextIs
    <2>6. PICK e \in Cores : /\ e = d /\ e.mode = "CONTENT" /\ e.window = From(w, r + 1)
             /\ e.content = c.content \o Before(w, r + 1)
      BY ZenonT(40), <1>1, <2>3, <2>5, SaysIs DEF Modes
    <2>7. Hits(e) = {}
      <3>1. At(e.window, ThinkClose) = {} /\ At(e.window, ThinkOpen) = {}
        BY <1>1, <2>2, <2>4, <2>6, SuffixNone DEF Hits, CloseHits, ThinkHits
      <3>2. HasTools => ToolStarts(e.window) = {}
        BY <1>1, <2>2, <2>4, <2>6, SuffixNone DEF Hits, ToolHits
      <3> QED BY <3>1, <3>2 DEF Hits, CloseHits, ToolHits, ThinkHits
    <2>8. ~BareJson(e)
      <3> SUFFICES ASSUME BareJson(e) PROVE FALSE OBVIOUS
      <3>1. HasTools /\ Blank(e.content) /\ ~Blank(e.window)
            /\ e.window[FirstBlack(e.window)] \in {"b", "j"}
        BY DEF BareJson
      <3>2. PICK n \in Nat : n = Len(w) BY <1>1, TextIs
      <3>3. e.window \in Text /\ Len(e.window) = n - r /\ \A x \in 1 .. n - r : e.window[x] = w[r + x]
        BY <2>4, <2>6, <3>2, Behind
      <3>4. PICK front \in Text : /\ front = Before(w, r + 1) /\ Len(front) = r
                                  /\ \A x \in 1 .. r : front[x] = w[x]
        <4>1. PICK i \in 1 .. Len(w) + 1 : i = r + 1 /\ i - 1 = r BY <2>4, <2>5
        <4>2. PICK front : front = Before(w, i) OBVIOUS
        <4>3. front \in Text /\ Len(front) = i - 1 /\ \A x \in 1 .. i - 1 : front[x] = w[x]
          BY <4>2, BeforeIs
        <4> QED BY <4>1, <4>2, <4>3
      <3>5. PICK k \in Nat : k = Len(c.content) BY <1>1, TextIs
      <3>6. /\ Len(e.content) = k + r /\ (\A x \in 1 .. k : e.content[x] = c.content[x])
            /\ \A x \in 1 .. r : e.content[k + x] = front[x]
        <4>1. PICK said \in Text : said = c.content BY <1>1
        <4>2. e.content = said \o front BY <2>6, <3>4, <4>1
        <4>3. PICK sum : sum = said \o front OBVIOUS
        <4>4. /\ Len(sum) = Len(said) + Len(front)
              /\ \A x \in 1 .. Len(said) : sum[x] = said[x]
              /\ \A x \in 1 .. Len(front) : sum[Len(said) + x] = front[x]
          BY <4>3, CatIs
        <4>5. Len(front) = r /\ Len(said) = k BY <3>4, <3>5, <4>1
        <4>6. e.content = sum BY <4>2, <4>3
        <4> QED BY <4>1, <4>4, <4>5, <4>6
      <3>7. \A x \in 1 .. k + r : e.content[x] = "w" BY <3>1, <3>6 DEF Blank
      <3>8. Blank(c.content)
        <4>1. \A x \in 1 .. k : x \in 1 .. k + r BY <2>4, <3>2
        <4> QED BY <3>5, <3>6, <3>7, <4>1 DEF Blank
      <3>9. \A x \in 1 .. r : w[x] = "w"
        <4>1. \A x \in 1 .. r : k + x \in 1 .. k + r BY <2>4, <3>2
        <4> QED BY <3>4, <3>6, <3>7, <4>1
      <3>10. PICK i \in Nat : /\ i = FirstBlack(e.window) /\ i \in 1 .. n - r + 1
                              /\ (\A x \in 1 .. i - 1 : e.window[x] = "w")
                              /\ (i <= n - r => e.window[i] # "w")
        <4>1. Len(e.window) = n - r /\ n - r \in Nat BY <2>4, <3>2, <3>3
        <4>2. PICK t \in Text : t = e.window BY <3>3
        <4>3. PICK i : i = FirstBlack(t) OBVIOUS
        <4>4. i \in 1 .. Len(t) + 1 /\ (\A x \in 1 .. i - 1 : t[x] = "w") /\ (i <= Len(t) => t[i] # "w")
          BY <4>3, FirstBlackIs
        <4>5. i \in Nat BY <4>1, <4>2, <4>4
        <4> QED BY <4>1, <4>2, <4>3, <4>4, <4>5
      <3>11. i <= n - r
        <4>1. CASE i = n - r + 1
          <5>1. \A x \in 1 .. n - r : x \in 1 .. i - 1 BY <4>1, <2>4, <3>2
          <5>2. Blank(e.window) BY <3>3, <3>10, <5>1 DEF Blank
          <5> QED BY <3>1, <5>2
        <4> QED BY <3>10, <4>1, <2>4, <3>2
      <3>12. w[r + i] = e.window[i] /\ r + i \in 1 .. n BY <2>4, <3>2, <3>3, <3>10, <3>11
      <3>13. FirstBlack(w) = r + i
        <4>1. \A x \in 1 .. r + i - 1 : x \in 1 .. r \/ (x - r \in 1 .. i - 1 /\ x - r \in 1 .. n - r /\ r + (x - r) = x)
          BY <2>4, <3>2, <3>10, <3>11
        <4>2. \A x \in 1 .. r + i - 1 : w[x] = "w" BY <3>3, <3>9, <3>10, <4>1
        <4>3. PICK j \in Nat : /\ j = FirstBlack(w) /\ j \in 1 .. n + 1
                               /\ (\A x \in 1 .. j - 1 : w[x] = "w") /\ (j <= n => w[j] # "w")
          <5>1. PICK j : j = FirstBlack(w) OBVIOUS
          <5>2. j \in 1 .. n + 1 /\ (\A x \in 1 .. j - 1 : w[x] = "w") /\ (j <= n => w[j] # "w")
            BY <3>2, <5>1, FirstBlackIs
          <5>3. j \in Nat BY <3>2, <5>2
          <5> QED BY <5>1, <5>2, <5>3
        <4>4. ~(j < r + i)
          <5>1. j < r + i => j \in 1 .. r + i - 1 /\ j <= n BY <2>4, <3>2, <3>10, <3>11, <4>3
          <5> QED BY <4>2, <4>3, <5>1
        <4>5. ~(r + i < j)
          <5>1. r + i < j => r + i \in 1 .. j - 1 BY <2>4, <3>2, <3>12, <4>3
          <5>2. w[r + i] # "w" BY <3>10, <3>11, <3>12
          <5> QED BY <4>3, <5>1, <5>2
        <4> QED BY <2>4, <3>2, <3>10, <4>3, <4>4, <4>5
      <3>14. ~Blank(w) BY <3>2, <3>10, <3>11, <3>12 DEF Blank
      <3>15. BareJson(c) BY <1>1, <3>1, <3>8, <3>10, <3>12, <3>13, <3>14 DEF BareJson
      <3> QED BY <2>2, <3>15
    <2>9. 0 + 1 = 1 OBVIOUS
    <2>10. CoreRound(req, e) = Waits(Says(e, 1, 1, "CONTENT"))
      <3>1. Cut(e.window) = 0 BY <2>4, <2>6
      <3>2. PICK k : k = Cut(e.window) OBVIOUS
      <3>3. CoreRound(req, e) = Waits(Says(e, k + 1, k + 1, "CONTENT"))
        BY <2>6, <2>7, <2>8, <3>2, RoundWhen
      <3>4. k + 1 = 1 BY <3>1, <3>2
      <3> QED BY <3>3, <3>4
    <2>11. Before(e.window, 1) = none /\ From(e.window, 1) = e.window /\ 1 \in 1 .. Len(e.window) + 1
           /\ e.content \in Text
      BY <1>3, CoresAre, FirstPlace
    <2>12. PICK f \in Cores :
              /\ f = Says(e, 1, 1, "CONTENT") /\ f.mode = "CONTENT"
              /\ f.window = From(e.window, 1) /\ f.toolBuffer = e.toolBuffer /\ f.reasoning = e.reasoning
              /\ f.content = e.content \o Before(e.window, 1)
              /\ f.fromReasoning = e.fromReasoning /\ f.fallback = e.fallback
              /\ f.checkedPrefix = e.checkedPrefix
      BY <2>11, SaysIs DEF Modes
    <2>13. f = e
      <3>1. e.content \o none = e.content BY <1>3, <2>11
      <3>2. f.content = e.content /\ f.window = e.window /\ f.mode = e.mode
        BY <2>6, <2>11, <2>12, <3>1
      <3> QED BY <2>12, <3>2, CoresSame
    <2> QED BY <2>6, <2>10, <2>12, <2>13
  <1> QED BY <1>1, <1>4, <1>5, <1>6, <1>7 DEF Modes

\* What the rounds of a core come to waits.
LEMMA LeftWaits ==
    ASSUME Asked(req), NEW c \in Cores
    PROVE  /\ CoreRound(req, Left(req, c)) = Waits(Left(req, c)) /\ Left(req, Left(req, c)) = Left(req, c)
  <1>1. PICK e \in Em : Core(e) = c BY CoreOf
  <1>2. Comes(req, c, Core(Process(e))) /\ Core(Process(e)) = Left(req, c)
    BY <1>1, ProcessComes, LeftIs
  <1>3. PICK f, n : Trace(req, f, n, c, Left(req, c)) BY <1>2 DEF Comes
  <1>4. f[n] \in Cores /\ CoreRound(req, f[n]) = Waits(Left(req, c)) BY <1>3 DEF Trace
  <1>5. PICK d : d = Left(req, c) OBVIOUS
  <1>6. d \in Cores /\ CoreRound(req, d) = Waits(d) BY <1>4, <1>5, WaitsAgain
  <1>7. Left(req, d) = d BY <1>6, LeftIs
  <1> QED BY <1>5, <1>6, <1>7

-----------------------------------------------------------------------------
(* Streamed or not *)

\* Two emitters that end alike.
Twin(d, e) == Core(d) = Core(e) /\ d.tail = e.tail /\ (d.stopHit <=> e.stopHit)

\* Until a stop sequence, nothing but more text makes the window's loop go on.
Rested(e) == ~e.stopHit => Left(req, Core(e)) = Core(e)

\* A new emitter has rested.
LEMMA StartRests ==
    ASSUME Asked(req), NEW thinking \in BOOLEAN PROVE Rested(Emitter(thinking))
  <1>1. PICK e \in Em : e = Emitter(thinking) /\ e.window = <<>> /\ e.mode # "TOOL_BUFFER"
                        /\ e.checkedPrefix = FALSE
    <2>1. Emitter(thinking).checkedPrefix = FALSE BY DEF Emitter
    <2> QED BY <2>1, EmitterIs
  <1>2. PICK c \in Cores : c = Core(e) /\ c.window = <<>> /\ c.mode # "TOOL_BUFFER" /\ c.checkedPrefix = FALSE
    BY <1>1, CoreIs
  <1>3. <<>> \in Text /\ Len(<<>>) = 0 /\ 1 .. 0 = {}
    <2>1. c.window \in Text BY CoresAre
    <2> QED BY <1>2, <2>1
  <1>4. c.mode \in Modes BY CoresAre
  <1>5. CoreRound(req, c) = Waits(c)
    <2>1. CASE c.mode = "REASONING"
      <3>1. FirstBlack(c.window) > Len(c.window)
        <4>1. FirstBlack(<<>>) \in 1 .. 0 + 1 BY <1>3, FirstBlackIs
        <4> QED BY <1>2, <1>3, <4>1
      <3>2. PrefixOpen(c) BY <3>1 DEF PrefixOpen
      <3> QED BY <1>2, <2>1, <3>2, RoundWhen
    <2>2. CASE c.mode = "CONTENT"
      <3>1. Hits(c) = {}
        <4> SUFFICES ASSUME NEW i \in Hits(c) PROVE FALSE OBVIOUS
        <4>1. i \in 1 .. Len(c.window) BY CorePlaces
        <4> QED BY <1>2, <1>3, <4>1
      <3>2. Blank(c.window) BY <1>2, <1>3 DEF Blank
      <3>3. ~BareJson(c) BY <3>2 DEF BareJson
      <3>4. PICK k : k = Cut(c.window) OBVIOUS
      <3>5. k = 0
        <4>1. k \in 0 .. Releasable(<<>>) /\ Releasable(<<>>) \in 0 .. 0
          BY <1>2, <1>3, <3>4, CutAgain, EmitterAssumption DEF Asked
        <4>2. \A x \in 0 .. 0 : x = 0 OBVIOUS
        <4> QED BY <4>1, <4>2
      <3>6. CoreRound(req, c) = Waits(Says(c, k + 1, k + 1, "CONTENT"))
        BY <2>2, <3>1, <3>3, <3>4, RoundWhen
      <3>7. k + 1 = 1 BY <3>5
      <3>8. Before(c.window, 1) = <<>> /\ From(c.window, 1) = c.window /\ 1 \in 1 .. Len(c.window) + 1
        BY <1>2, <1>3, FirstPlace
      <3>9. PICK f \in Cores :
              /\ f = Says(c, 1, 1, "CONTENT") /\ f.mode = "CONTENT"
              /\ f.window = From(c.window, 1) /\ f.toolBuffer = c.toolBuffer /\ f.reasoning = c.reasoning
              /\ f.content = c.content \o Before(c.window, 1)
              /\ f.fromReasoning = c.fromReasoning /\ f.fallback = c.fallback
              /\ f.checkedPrefix = c.checkedPrefix
        BY ZenonT(40), <3>8, SaysIs DEF Modes
      <3>10. c.content \o <<>> = c.content BY CoresAre, CatIs
      <3>11. f.content = c.content /\ f.window = c.window /\ f.mode = c.mode
        BY <2>2, <3>8, <3>9, <3>10
      <3>12. f = c BY <3>9, <3>11, CoresSame
      <3> QED BY <3>6, <3>7, <3>9, <3>12
    <2> QED BY <1>2, <1>4, <2>1, <2>2 DEF Modes
  <1>6. Left(req, c) = c BY <1>5, LeftIs
  <1> QED BY <1>1, <1>2, <1>6 DEF Rested

\* A token keeps two emitters alike, and leaves each rested.
LEMMA TwinToken ==
    ASSUME Asked(req), NEW d \in Em, Plainly(d), NEW e \in Em, Plainly(e), Twin(d, e), Rested(d),
           NEW piece \in Text, Unwrapped(piece)
    PROVE  Twin(EmitToken(d, piece), EmitToken(e, piece)) /\ Rested(EmitToken(d, piece))
  <1>1. d.stopHit \in BOOLEAN /\ e.stopHit \in BOOLEAN BY EmTexts
  <1>2. CASE d.stopHit
    <2>1. EmitToken(d, piece) = d /\ EmitToken(e, piece) = e BY <1>2 DEF EmitToken, Twin
    <2> QED BY <2>1
  <1>3. CASE ~d.stopHit
    <2>1. PICK t : TakenBy(t, d, piece) /\ EmitToken(d, piece) = Advanced(t) BY <1>3, TokenIs
    <2>2. PICK u : TakenBy(u, e, piece) /\ EmitToken(e, piece) = Advanced(u)
      BY <1>3, TokenIs DEF Twin
    <2>3. t \in Em /\ u \in Em BY <2>1, <2>2 DEF TakenBy
    <2>4. Core(t) = Core(u) /\ t.tail = u.tail /\ t.stopHit = FALSE /\ u.stopHit = FALSE
      BY <2>1, <2>2 DEF TakenBy, Twin
    <2>5. t.window = u.window /\ t.mode = u.mode BY <2>3, <2>4, CoreIs
    <2>6. PICK f : f = Advanced(t) /\ AdvancedBy(f, t) BY <2>3, AdvancedIs
    <2>7. PICK g : g = Advanced(u) /\ AdvancedBy(g, u) BY <2>3, AdvancedIs
    <2>8. CASE t.mode # "TOOL_BUFFER" /\ StopHits(t.window) # {}
      <3>1. HaltedBy(f, t) /\ HaltedBy(g, u) BY <2>5, <2>6, <2>7, <2>8 DEF AdvancedBy
      <3>2. Twin(f, g) /\ Rested(f) BY <2>4, <3>1 DEF HaltedBy, Twin, Rested
      <3> QED BY <2>1, <2>2, <2>6, <2>7, <3>2
    <2>9. CASE ~(t.mode # "TOOL_BUFFER" /\ StopHits(t.window) # {})
      <3>1. Beside(f, t) /\ Core(f) = Left(req, Core(t)) /\ Beside(g, u) /\ Core(g) = Left(req, Core(u))
        BY <2>5, <2>6, <2>7, <2>9 DEF AdvancedBy
      <3>2. Twin(f, g) BY <2>4, <3>1 DEF Beside, Twin
      <3>3. Core(t) \in Cores BY <2>3, CoreIs
      <3>4. Left(req, Left(req, Core(t))) = Left(req, Core(t)) BY <3>3, LeftWaits
      <3>5. Rested(f) BY <3>1, <3>4 DEF Rested
      <3> QED BY <2>1, <2>2, <2>6, <2>7, <3>2, <3>5
    <2> QED BY <2>8, <2>9
  <1> QED BY <1>1, <1>2, <1>3

\* A token without a text changes nothing of how an answer ends.
LEMMA TwinNone ==
    ASSUME Asked(req), NEW e, Running(req, e), Rested(e)
    PROVE  Twin(EmitToken(e, <<>>), e)
  <1>1. e \in Em /\ Plainly(e) /\ Watched(req, e) /\ Typed(e) BY DEF Running, Typed
  <1>2. CASE e.stopHit BY <1>2 DEF EmitToken, Twin
  <1>3. CASE ~e.stopHit
    <2>1. PICK none \in Text : none = <<>> /\ Unwrapped(none) /\ (\A t \in Text : t \o none = t)
      <3>1. Unwrapped(<<>>) BY DEF Unwrapped
      <3>2. e.raw \in Text BY <1>1, EmTexts
      <3>3. <<>> \in Text BY DEF Text
      <3>4. \A t \in Text : t \o <<>> = t BY CatIs
      <3> QED BY <3>1, <3>3, <3>4
    <2>2. PICK t : TakenBy(t, e, none) /\ EmitToken(e, none) = Advanced(t)
      BY <1>1, <1>3, <2>1, TokenIs
    <2>3. e.tail \in Text /\ e.window \in Text /\ e.raw \in Text BY <1>1, EmTexts
    <2>4. e.tail \o none = e.tail BY <2>1, <2>3
    <2>5. TailOf(e.tail) = e.tail BY <1>1, <2>1, TailIs DEF Plainly
    <2>6. TokenAdds(e.tail, none) = none
      <3>1. Len(e.tail) - Len(e.tail) = 0 BY <2>3, TextIs
      <3>2. SubSeq(e.tail, 1, 0) = <<>> OBVIOUS
      <3>3. Sanitized(<<>>) = <<>> BY <2>1, SanitizedIs
      <3> QED BY <2>1, <2>4, <2>5, <3>1, <3>2, <3>3 DEF TokenAdds
    <2>7. /\ t \in Em /\ t.window = e.window /\ t.tail = e.tail /\ t.mode = e.mode /\ t.stopHit = FALSE
          /\ Core(t) = [Core(e) EXCEPT !.window = @ \o none]
      BY <2>1, <2>2, <2>3, <2>4, <2>5, <2>6 DEF TakenBy
    <2>8. Core(t) = Core(e)
      <3>1. Core(e).window = e.window /\ Core(e) \in Cores BY <1>1, CoreIs
      <3>2. e.window \o none = e.window BY <2>1, <2>3
      <3>3. Core(t) = [Core(e) EXCEPT !.window = e.window] BY <2>7, <3>1, <3>2
      <3> QED BY <3>1, <3>3 DEF Cores
    <2>9. t.mode = "TOOL_BUFFER" \/ StopHits(t.window) = {}
      <3> SUFFICES ASSUME t.mode # "TOOL_BUFFER", NEW x \in StopHits(t.window) PROVE FALSE OBVIOUS
      <3>1. req.vocabulary.stop /\ x \in At(e.window, Stop) BY <2>7 DEF StopHits
      <3>2. Watching(e) BY <1>1, <1>3, <2>7, <3>1 DEF Watched
      <3>3. e.window \o none = e.window /\ e.raw \o none = e.raw BY <2>1, <2>3
      <3>4. \A y \in At(e.window, Stop) : Gone(e) + y \in At(e.raw, Stop)
        <4>1. Len(e.window) <= Len(e.raw) BY <1>1 DEF Typed
        <4>2. \A y \in At(e.window \o none, Stop) : Gone(e) + y \in At(e.raw \o none, Stop)
          BY <1>1, <3>2, <4>1, StopSeen
        <4> QED BY <3>3, <4>2
      <3>5. At(e.raw, Stop) = {} BY <3>2 DEF Watching
      <3> QED BY <3>1, <3>4, <3>5
    <2>10. PICK f : f = Advanced(t) /\ AdvancedBy(f, t) BY <2>7, AdvancedIs
    <2>11. Beside(f, t) /\ Core(f) = Left(req, Core(t)) BY <2>9, <2>10 DEF AdvancedBy
    <2>12. Core(f) = Core(e) BY <1>3, <2>8, <2>11 DEF Rested
    <2>13. f.tail = e.tail /\ f.stopHit = FALSE BY <2>7, <2>11 DEF Beside
    <2> QED BY <1>3, <2>1, <2>2, <2>10, <2>12, <2>13 DEF Twin
  <1>4. e.stopHit \in BOOLEAN BY <1>1, EmTexts
  <1> QED BY <1>2, <1>3, <1>4

\* Nor does telling what it is.
LEMMA TwinClassified ==
    ASSUME NEW e \in Em, NEW token
    PROVE  LET c == Classified(e, token)
           IN  /\ Twin(c, e) /\ (Rested(e) => Rested(c)) /\ (Plainly(e) => Plainly(c)) /\ c \in Em
               /\ c.suppress <=> ~HasTools /\ IF e.suppress THEN token # "E" ELSE token = "T"
  <1>1. PICK s \in BOOLEAN : s <=> ~HasTools /\ IF e.suppress THEN token # "E" ELSE token = "T"
    OBVIOUS
  <1>2. PICK c : c = Classified(e, token) OBVIOUS
  <1>3. c = [e EXCEPT !.suppress = s] BY <1>1, <1>2 DEF Classified
  <1>4. /\ c \in Em /\ c.suppress = s /\ c.tail = e.tail /\ c.stopHit = e.stopHit /\ Core(c) = Core(e)
        /\ c.window = e.window /\ c.toolBuffer = e.toolBuffer /\ c.calls = e.calls
    BY <1>3 DEF Em, Core
  <1> QED BY <1>1, <1>2, <1>4 DEF Twin, Rested, Plainly

\* An emitter being fed later, and one the same tokens are streamed to.
Pair(r, l, e) ==
    /\ Running(r, l.em) /\ Running(r, e) /\ Twin(l.em, e) /\ Rested(l.em)
    /\ l.again \in BOOLEAN
    /\ l.again => (l.em.suppress <=> e.suppress)
    /\ ~l.again => l.em.stopHit

\* A token given to both keeps them a pair.
LEMMA PairFed ==
    ASSUME req \in Requests, NEW l, NEW e, Pair(req, l, e), NEW token \in req.vocabulary.tokens
    PROVE  Pair(req, Fed(l, token), Streamed(e, token))
  <1>1. Asked(req) BY ReqIs
  <1>2. PICK d : d = l.em /\ Running(req, d) /\ Rested(d) /\ Twin(d, e) BY DEF Pair
  <1>3. Running(req, e) BY DEF Pair
  <1>4. d \in Em /\ Plainly(d) /\ e \in Em /\ Plainly(e) BY <1>2, <1>3 DEF Running, Typed
  <1>5. PICK c : c = Classified(d, token) OBVIOUS
  <1>6. PICK g : g = Classified(e, token) OBVIOUS
  <1>7. Twin(c, d) /\ Rested(c) /\ Plainly(c) /\ c \in Em
        /\ (c.suppress <=> ~HasTools /\ IF d.suppress THEN token # "E" ELSE token = "T")
    BY <1>2, <1>4, <1>5, TwinClassified
  <1>8. Twin(g, e) /\ Plainly(g) /\ g \in Em
        /\ (g.suppress <=> ~HasTools /\ IF e.suppress THEN token # "E" ELSE token = "T")
    BY <1>4, <1>6, TwinClassified
  <1>9. Twin(c, g) BY <1>2, <1>7, <1>8 DEF Twin
  <1>10. Running(req, c) /\ Running(req, g) BY <1>1, <1>2, <1>3, <1>5, <1>6, ClassifiedIs
  <1>11. PICK piece \in Text : piece = TokenText[token] /\ Unwrapped(piece) BY TokenTexts
  <1>12. PICK f : f = EmitToken(c, piece) OBVIOUS
  <1>13. PICK h : h = Streamed(e, token) OBVIOUS
  <1>14. Running(req, h) BY <1>3, <1>13, StreamedIs
  <1>15. Running(req, f) BY <1>1, <1>10, <1>11, <1>12, EmitTokenIs
  <1>16. h = IF Skipped(e, token) \/ piece = <<>> THEN g ELSE EmitToken(g, piece)
    BY <1>6, <1>11, <1>13 DEF Streamed
  <1>17. CASE ~l.again
    <2>1. d.stopHit BY <1>2, <1>17 DEF Pair
    <2>2. Fed(l, token) = l BY <1>17 DEF Fed
    <2>3. g.stopHit BY <1>2, <1>8, <2>1 DEF Twin
    <2>4. EmitToken(g, piece) = g BY <2>3 DEF EmitToken
    <2>5. h = g BY <1>16, <2>4
    <2>6. Twin(d, g) BY <1>2, <1>8 DEF Twin
    <2>7. Twin(l.em, h) BY <1>2, <2>5, <2>6
    <2> QED BY <1>13, <1>14, <1>17, <2>2, <2>7 DEF Pair
  <1>18. CASE l.again
    <2>1. d.suppress <=> e.suppress BY <1>2, <1>18 DEF Pair
    <2>2. c.suppress <=> g.suppress BY <1>7, <1>8, <2>1
    <2>3. Skipped(e, token) <=> Skipped(d, token) BY <2>1 DEF Skipped, Suppressed
    <2>4. PICK k : k = Fed(l, token) OBVIOUS
    <2>5. k = IF Skipped(d, token) THEN Again(c)
              ELSE IF f.stopHit /\ token \notin Tags THEN Waits(f) ELSE Again(f)
      BY <1>2, <1>5, <1>11, <1>12, <1>18, <2>4 DEF Fed
    <2>6. CASE Skipped(d, token)
      <3>1. k = Again(c) /\ h = g BY <1>16, <2>3, <2>5, <2>6
      <3>2. k.em = c /\ k.again = TRUE BY <3>1 DEF Again
      <3>3. Twin(k.em, h) /\ Running(req, k.em) /\ Rested(k.em) /\ (k.em.suppress <=> h.suppress)
        BY <1>7, <1>9, <1>10, <2>2, <3>1, <3>2
      <3> QED BY <1>13, <1>14, <2>4, <3>2, <3>3 DEF Pair
    <2>7. CASE ~Skipped(d, token)
      <3>1. k.em = f /\ k.again \in BOOLEAN /\ (~k.again => f.stopHit)
        <4>1. f \in Em BY <1>15 DEF Running, Typed
        <4> QED BY <2>5, <2>7, <4>1 DEF Again, Waits
      <3>2. PICK u : u = EmitToken(g, piece) OBVIOUS
      <3>3. Twin(f, u) /\ Rested(f) BY <1>1, <1>7, <1>8, <1>9, <1>11, <1>12, <3>2, TwinToken
      <3>4. f.suppress = c.suppress /\ u.suppress = g.suppress
        BY <1>1, <1>7, <1>8, <1>11, <1>12, <3>2, TokenGiven
      <3>5. Twin(f, h) /\ (f.suppress <=> h.suppress)
        <4>1. CASE piece = <<>>
          <5>1. h = g BY <1>16, <4>1
          <5>2. Twin(f, c) BY <1>1, <1>7, <1>10, <1>12, <4>1, TwinNone
          <5>3. Twin(f, g) BY <1>9, <5>2 DEF Twin
          <5> QED BY <2>2, <3>4, <5>1, <5>3
        <4>2. CASE piece # <<>>
          <5>1. h = u BY <1>16, <2>3, <2>7, <3>2, <4>2
          <5> QED BY <2>2, <3>3, <3>4, <5>1
        <4> QED BY <4>1, <4>2
      <3>6. Running(req, k.em) /\ Twin(k.em, h) /\ Rested(k.em) /\ (k.em.suppress <=> h.suppress)
            /\ (~k.again => k.em.stopHit)
        BY <1>15, <3>1, <3>3, <3>5
      <3> QED BY <1>13, <1>14, <2>4, <3>1, <3>6 DEF Pair
    <2> QED BY <2>6, <2>7
  <1> QED BY <1>17, <1>18 DEF Pair

\* The loop of StreamedAll.
Passes(f, e, fed, n) ==
    f = [m \in 0 .. n |-> IF m = 0 THEN e ELSE Streamed(f[m - 1], fed[m])]

\* It has its values.
LEMMA PassesExist ==
    ASSUME NEW e, NEW fed, NEW count \in Nat
    PROVE  \E f : Passes(f, e, fed, count)
  <1> DEFINE Has(n) == \E f : Passes(f, e, fed, n)
             A == {n \in 0 .. count : ~Has(n)}
  <1>1. Has(0)
    <2> DEFINE f == [m \in 0 .. 0 |-> e]
    <2>1. \A m \in 0 .. 0 : m = 0 OBVIOUS
    <2>2. f = [m \in 0 .. 0 |-> IF m = 0 THEN e ELSE Streamed(f[m - 1], fed[m])] BY <2>1
    <2> QED BY <2>2 DEF Passes
  <1> HIDE DEF Has
  <1>2. ASSUME A # {} PROVE FALSE
    <2>1. A \in SUBSET Nat OBVIOUS
    <2>2. PICK n \in A : \A j \in A : n <= j BY <1>2, <2>1, LeastNumber
    <2>3. n \in 1 .. count /\ n \in Nat /\ ~Has(n) BY <1>1, <2>2
    <2>4. n - 1 \in 0 .. count /\ ~(n <= n - 1) BY <2>3
    <2>5. Has(n - 1) BY <2>2, <2>4
    <2>6. PICK f : Passes(f, e, fed, n - 1) BY <2>5 DEF Has
    <2> DEFINE last == Streamed(f[n - 1], fed[n])
               g == [m \in 0 .. n |-> IF m = n THEN last ELSE f[m]]
    <2>7. ASSUME NEW m \in 0 .. n
          PROVE  g[m] = IF m = 0 THEN e ELSE Streamed(g[m - 1], fed[m])
      <3>1. m # 0 => m - 1 \in 0 .. n - 1 /\ m - 1 \in 0 .. n /\ m - 1 # n BY <2>3
      <3>2. m # 0 => g[m - 1] = f[m - 1] BY <3>1
      <3>3. CASE m = n
        <4>1. g[m] = last /\ m # 0 BY <2>3, <3>3
        <4> QED BY <4>1, <3>2, <3>3
      <3>4. CASE m # n
        <4>1. g[m] = f[m] /\ m \in 0 .. n - 1 BY <2>3, <3>4
        <4>2. f[m] = IF m = 0 THEN e ELSE Streamed(f[m - 1], fed[m])
          BY <2>6, <4>1 DEF Passes
        <4> QED BY <3>2, <4>1, <4>2
      <3> QED BY <3>3, <3>4
    <2>8. g = [m \in 0 .. n |-> g[m]] OBVIOUS
    <2> HIDE DEF g, last
    <2>9. g = [m \in 0 .. n |-> IF m = 0 THEN e ELSE Streamed(g[m - 1], fed[m])]
      BY <2>7, <2>8
    <2> QED BY <2>3, <2>9 DEF Passes, Has
  <1>3. Has(count) BY <1>2
  <1> QED BY <1>3 DEF Has

\* Fed later or streamed, the same tokens leave two emitters alike.
LEMMA PairAll ==
    ASSUME req \in Requests, NEW e, Pair(req, Again(e), e),
           NEW fed \in Seq(req.vocabulary.tokens)
    PROVE  LET d == Replayed(e, fed)
               s == StreamedAll(e, fed)
           IN  Running(req, d) /\ Running(req, s) /\ Twin(d, s)
  <1>1. PICK count \in Nat : count = Len(fed) BY LenProperties
  <1> DEFINE f == CHOOSE f : Feeds(f, e, fed, count)
             g == CHOOSE g : Passes(g, e, fed, count)
  <1>2. Feeds(f, e, fed, count) BY FeedsExist
  <1>3. Replayed(e, fed) = f[count].em BY <1>1 DEF Replayed, Feeds
  <1>4. Passes(g, e, fed, count) BY PassesExist
  <1>5. StreamedAll(e, fed) = g[count] BY <1>1 DEF StreamedAll, Passes
  <1> HIDE DEF f, g
  <1>6. \A i \in 1 .. count : fed[i] \in req.vocabulary.tokens BY <1>1, ElementOfSeq
  <1> DEFINE Good(m) == Pair(req, f[m], g[m])
             A == {m \in 0 .. count : ~Good(m)}
  <1>7. ASSUME A # {} PROVE FALSE
    <2> HIDE DEF Good
    <2>1. A \in SUBSET Nat OBVIOUS
    <2>2. PICK m \in A : \A j \in A : m <= j BY <1>7, <2>1, LeastNumber
    <2>3. m \in 0 .. count /\ m \in Nat /\ ~Good(m) BY <2>2
    <2>4. f[m] = IF m = 0 THEN Again(e) ELSE Fed(f[m - 1], fed[m]) BY <1>2, <2>3 DEF Feeds
    <2>5. g[m] = IF m = 0 THEN e ELSE Streamed(g[m - 1], fed[m]) BY <1>4, <2>3 DEF Passes
    <2>6. CASE m = 0
      <3>1. f[m] = Again(e) /\ g[m] = e BY <2>4, <2>5, <2>6
      <3> QED BY <2>3, <3>1 DEF Good
    <2>7. CASE m # 0
      <3>1. m - 1 \in 0 .. count /\ ~(m <= m - 1) /\ m \in 1 .. count BY <2>3, <2>7
      <3>2. Good(m - 1) BY <2>2, <3>1
      <3>3. PICK k \in Nat : k = m - 1 BY <2>3, <3>1
      <3>4. Pair(req, f[k], g[k]) BY <3>2, <3>3 DEF Good
      <3>5. Pair(req, Fed(f[k], fed[m]), Streamed(g[k], fed[m])) BY <1>6, <3>1, <3>4, PairFed
      <3> QED BY <2>3, <2>4, <2>5, <2>7, <3>3, <3>5 DEF Good
    <2> QED BY <2>6, <2>7
  <1> HIDE DEF Good
  <1>8. count \in 0 .. count BY <1>1
  <1>9. Good(count) BY <1>7, <1>8
  <1>10. Pair(req, f[count], g[count]) BY <1>9 DEF Good
  <1> QED BY <1>3, <1>5, <1>10 DEF Pair

\* A new emitter, and itself.
LEMMA PairStart ==
    ASSUME req \in Requests, req.format = "openai"
    PROVE  Pair(req, Again(Emitter(req.thinking)), Emitter(req.thinking))
  <1>1. PICK e : e = Emitter(req.thinking) OBVIOUS
  <1>2. Asked(req) /\ req.thinking \in BOOLEAN BY ReqIs DEF Requests
  <1>3. Running(req, e) BY <1>1, StartedIs
  <1>4. Rested(e) BY <1>1, <1>2, StartRests
  <1>5. Twin(e, e) BY DEF Twin
  <1>6. PICK l : l = Again(e) OBVIOUS
  <1>7. l.em = e /\ l.again = TRUE BY <1>6 DEF Again
  <1>8. Running(req, l.em) /\ Rested(l.em) /\ Twin(l.em, e) /\ (l.em.suppress <=> e.suppress)
    BY <1>3, <1>4, <1>5, <1>7
  <1> QED BY <1>1, <1>3, <1>6, <1>7, <1>8 DEF Pair

\* Two emitters that are alike end alike.
LEMMA TwinKept ==
    ASSUME Asked(req), NEW d, Running(req, d), NEW e, Running(req, e), Twin(d, e),
           NEW capped \in BOOLEAN
    PROVE  Kept(EmitFinish(d, capped)) = Kept(EmitFinish(e, capped))
  <1>1. PICK g : g = Flush(req, Ext(Core(d), Sanitized(d.tail))) OBVIOUS
  <1>2. g = Flush(req, Ext(Core(e), Sanitized(e.tail))) BY <1>1 DEF Twin
  <1>3. Kept(EmitFinish(d, capped)) = Outcome(g) BY <1>1, EndKept
  <1>4. Kept(EmitFinish(e, capped)) = Outcome(g) BY <1>2, EndKept
  <1> QED BY <1>3, <1>4

\* Of an emitter, what decides how an answer goes on and ends.
Image(e) == [core |-> Core(e), tail |-> e.tail, stopHit |-> e.stopHit, suppress |-> e.suppress]

\* What a streamed token makes of it.
Streams(r, x, token) ==
    LET suppress == ~r.vocabulary.tools /\ IF x.suppress THEN token # "E" ELSE token = "T"
        skipped  == \/ ~r.vocabulary.tools /\ (x.suppress \/ token \in {"T"} \union Stray)
                    \/ token \in Controls
        text     == TokenText[token]
        c        == Ext(x.core, TokenAdds(x.tail, text))
    IN  IF skipped \/ text = <<>> \/ x.stopHit THEN [x EXCEPT !.suppress = suppress]
        ELSE IF c.mode # "TOOL_BUFFER" /\ StopsIn(r, c.window) # {}
        THEN [core |-> Halt(r, c), tail |-> TailOf(x.tail \o text), stopHit |-> TRUE,
              suppress |-> suppress]
        ELSE [core |-> Left(r, c), tail |-> TailOf(x.tail \o text), stopHit |-> FALSE,
              suppress |-> suppress]

\* h[0], h[1], ... are what the tokens make of x, one after another.
GoesSo(r, h, x, fed) ==
    h = [m \in 0 .. Len(fed) |-> IF m = 0 THEN x ELSE Streams(r, h[m - 1], fed[m])]

\* What is kept when the answer ends there.
EndOf(r, x) == Outcome(Flush(r, Ext(x.core, Sanitized(x.tail))))

\* The request declares tools or not.
LEMMA HasToolsIs == req.vocabulary.tools = HasTools BY DEF HasTools

\* A streamed token does that.
LEMMA StreamedImage ==
    ASSUME req \in Requests, NEW e, Running(req, e), NEW token \in req.vocabulary.tokens
    PROVE  Image(Streamed(e, token)) = Streams(req, Image(e), token)
  <1>1. Asked(req) BY ReqIs
  <1>2. e \in Em /\ Plainly(e) BY DEF Running, Typed
  <1>3. PICK x : x = Image(e) OBVIOUS
  <1>4. x = [core |-> Core(e), tail |-> e.tail, stopHit |-> e.stopHit, suppress |-> e.suppress]
    BY <1>3 DEF Image
  <1>5. PICK piece \in Text : piece = TokenText[token] /\ Unwrapped(piece) BY TokenTexts
  <1>6. PICK s \in BOOLEAN : s = (~HasTools /\ IF x.suppress THEN token # "E" ELSE token = "T")
    BY <1>1, <1>2, <1>4 DEF HasTools, Asked, Em
  <1>7. PICK g : g = Classified(e, token) OBVIOUS
  <1>8. g = [e EXCEPT !.suppress = s] BY <1>4, <1>6, <1>7 DEF Classified
  <1>9. g \in Em /\ Plainly(g) /\ g.suppress = s /\ Core(g) = Core(e) /\ g.tail = e.tail
        /\ g.stopHit = e.stopHit
    <2>1. g \in Em /\ g.suppress = s /\ Core(g) = Core(e) /\ g.tail = e.tail /\ g.stopHit = e.stopHit
      BY <1>2, <1>8 DEF Em, Core
    <2>2. Plainly(g) BY <1>2, <1>7, TwinClassified
    <2> QED BY <2>1, <2>2
  <1>10. Image(g) = [x EXCEPT !.suppress = s] BY <1>4, <1>9 DEF Image
  <1>11. PICK h : h = Streamed(e, token) OBVIOUS
  <1>12. h = IF Skipped(e, token) \/ piece = <<>> THEN g ELSE EmitToken(g, piece)
    BY <1>5, <1>7, <1>11 DEF Streamed
  <1>13. Skipped(e, token) <=> \/ ~HasTools /\ (x.suppress \/ token \in {"T"} \union Stray)
                               \/ token \in Controls
    BY <1>4 DEF Skipped, Suppressed
  <1>14. PICK c : c = Ext(x.core, TokenAdds(x.tail, piece)) OBVIOUS
  <1>15. Streams(req, x, token) =
           IF Skipped(e, token) \/ piece = <<>> \/ x.stopHit THEN [x EXCEPT !.suppress = s]
           ELSE IF c.mode # "TOOL_BUFFER" /\ StopsIn(req, c.window) # {}
           THEN [core |-> Halt(req, c), tail |-> TailOf(x.tail \o piece), stopHit |-> TRUE,
                 suppress |-> s]
           ELSE [core |-> Left(req, c), tail |-> TailOf(x.tail \o piece), stopHit |-> FALSE,
                 suppress |-> s]
    BY <1>5, <1>6, <1>13, <1>14, HasToolsIs DEF Streams
  <1>16. CASE Skipped(e, token) \/ piece = <<>> BY <1>3, <1>10, <1>11, <1>12, <1>15, <1>16
  <1>17. CASE ~(Skipped(e, token) \/ piece = <<>>) /\ e.stopHit
    <2>1. h = g BY <1>9, <1>12, <1>17 DEF EmitToken
    <2>2. x.stopHit BY <1>4, <1>17
    <2>3. Streams(req, x, token) = [x EXCEPT !.suppress = s] BY <1>15, <2>2
    <2> QED BY <1>3, <1>10, <1>11, <2>1, <2>3
  <1>18. CASE ~(Skipped(e, token) \/ piece = <<>>) /\ ~e.stopHit
    <2>1. PICK t : TakenBy(t, g, piece) /\ h = Advanced(t)
      BY <1>1, <1>5, <1>9, <1>12, <1>18, TokenIs
    <2>2. PICK f : f = Advanced(t) /\ AdvancedBy(f, t) /\ t \in Em
      <3>1. t \in Em BY <2>1 DEF TakenBy
      <3> QED BY <1>1, <3>1, AdvancedIs
    <2>3. Core(t) = c /\ t.tail = TailOf(x.tail \o piece) /\ t.suppress = s /\ t.stopHit = FALSE
      BY <1>4, <1>9, <1>14, <2>1 DEF TakenBy, Ext
    <2>4. t.window = c.window /\ t.mode = c.mode BY <2>2, <2>3, CoreIs
    <2>5. StopsIn(req, c.window) = StopHits(t.window) BY <2>4 DEF StopsIn, StopHits
    <2>6. CASE c.mode # "TOOL_BUFFER" /\ StopsIn(req, c.window) # {}
      <3>1. HaltedBy(f, t) BY <2>2, <2>4, <2>5, <2>6 DEF AdvancedBy
      <3>2. Image(f) = [core |-> Halt(req, c), tail |-> TailOf(x.tail \o piece), stopHit |-> TRUE,
                        suppress |-> s]
        BY <2>3, <3>1 DEF HaltedBy, Image
      <3> QED BY <1>3, <1>4, <1>11, <1>15, <1>18, <2>1, <2>2, <2>6, <3>2
    <2>7. CASE ~(c.mode # "TOOL_BUFFER" /\ StopsIn(req, c.window) # {})
      <3>1. Beside(f, t) /\ Core(f) = Left(req, c) BY <2>2, <2>3, <2>4, <2>5, <2>7 DEF AdvancedBy
      <3>2. Image(f) = [core |-> Left(req, c), tail |-> TailOf(x.tail \o piece), stopHit |-> FALSE,
                        suppress |-> s]
        BY <2>3, <3>1 DEF Beside, Image
      <3> QED BY <1>3, <1>4, <1>11, <1>15, <1>18, <2>1, <2>2, <2>7, <3>2
    <2> QED BY <2>6, <2>7
  <1>19. e.stopHit \in BOOLEAN BY <1>2, EmTexts
  <1> QED BY <1>16, <1>17, <1>18, <1>19

\* So do all the tokens, and what is kept follows.
LEMMA StreamedKept ==
    ASSUME req \in Requests, NEW e, Running(req, e), NEW fed \in Seq(req.vocabulary.tokens)
    PROVE  /\ \E h : GoesSo(req, h, Image(e), fed)
           /\ \A h : GoesSo(req, h, Image(e), fed) =>
                        Kept(EmitFinish(StreamedAll(e, fed), FALSE)) = EndOf(req, h[Len(fed)])
  <1>1. PICK count \in Nat : count = Len(fed) BY LenProperties
  <1>2. Asked(req) BY ReqIs
  <1> DEFINE g == CHOOSE g : Passes(g, e, fed, count)
  <1>3. Passes(g, e, fed, count) BY PassesExist
  <1>4. StreamedAll(e, fed) = g[count] BY <1>1 DEF StreamedAll, Passes
  <1> HIDE DEF g
  <1>5. \A i \in 1 .. count : fed[i] \in req.vocabulary.tokens BY <1>1, ElementOfSeq
  <1>6. \A m \in 0 .. count : g[m] = IF m = 0 THEN e ELSE Streamed(g[m - 1], fed[m])
    BY <1>3 DEF Passes
  <1> DEFINE Good(m) == Running(req, g[m])
             A == {m \in 0 .. count : ~Good(m)}
  <1>7. ASSUME A # {} PROVE FALSE
    <2> HIDE DEF Good
    <2>1. A \in SUBSET Nat OBVIOUS
    <2>2. PICK m \in A : \A j \in A : m <= j BY <1>7, <2>1, LeastNumber
    <2>3. m \in 0 .. count /\ m \in Nat /\ ~Good(m) BY <2>2
    <2>4. CASE m = 0 BY <1>6, <2>3, <2>4 DEF Good
    <2>5. CASE m # 0
      <3>1. m - 1 \in 0 .. count /\ ~(m <= m - 1) /\ m \in 1 .. count BY <2>3, <2>5
      <3>2. Running(req, g[m - 1]) BY <2>2, <3>1 DEF Good
      <3>3. Running(req, Streamed(g[m - 1], fed[m])) BY <1>5, <3>1, <3>2, StreamedIs
      <3> QED BY <1>6, <2>3, <2>5, <3>3 DEF Good
    <2> QED BY <2>4, <2>5
  <1>8. \A m \in 0 .. count : Running(req, g[m]) BY <1>7
  <1> HIDE DEF Good
  <1>9. \A m \in 0 .. count : Image(g[m]) = IF m = 0 THEN Image(e) ELSE Streams(req, Image(g[m - 1]), fed[m])
    <2> SUFFICES ASSUME NEW m \in 0 .. count
                 PROVE  Image(g[m]) = IF m = 0 THEN Image(e) ELSE Streams(req, Image(g[m - 1]), fed[m])
      OBVIOUS
    <2>1. CASE m = 0 BY <1>6, <2>1
    <2>2. CASE m # 0
      <3>1. m - 1 \in 0 .. count /\ m \in 1 .. count BY <2>2
      <3>2. PICK d : d = g[m - 1] /\ Running(req, d) BY <1>8, <3>1
      <3>3. Image(Streamed(d, fed[m])) = Streams(req, Image(d), fed[m])
        BY <1>5, <3>1, <3>2, StreamedImage
      <3> QED BY <1>6, <2>2, <3>2, <3>3
    <2> QED BY <2>1, <2>2
  <1>10. \E h : GoesSo(req, h, Image(e), fed)
    <2> DEFINE h == [m \in 0 .. count |-> Image(g[m])]
    <2>1. \A m \in 0 .. count : m # 0 => m - 1 \in 0 .. count OBVIOUS
    <2>2. \A m \in 0 .. count : h[m] = IF m = 0 THEN Image(e) ELSE Streams(req, h[m - 1], fed[m])
      BY <1>9, <2>1
    <2>3. h = [m \in 0 .. count |-> h[m]] OBVIOUS
    <2> HIDE DEF h
    <2>4. h = [m \in 0 .. count |-> IF m = 0 THEN Image(e) ELSE Streams(req, h[m - 1], fed[m])]
      BY <2>2, <2>3
    <2> QED BY <1>1, <2>4 DEF GoesSo
  <1>11. ASSUME NEW h, GoesSo(req, h, Image(e), fed)
         PROVE  Kept(EmitFinish(StreamedAll(e, fed), FALSE)) = EndOf(req, h[Len(fed)])
    <2>1. \A m \in 0 .. count : h[m] = IF m = 0 THEN Image(e) ELSE Streams(req, h[m - 1], fed[m])
      BY <1>1, <1>11 DEF GoesSo
    <2> DEFINE Same2(m) == h[m] = Image(g[m])
               B == {m \in 0 .. count : ~Same2(m)}
    <2>2. ASSUME B # {} PROVE FALSE
      <3> HIDE DEF Same2
      <3>1. B \in SUBSET Nat OBVIOUS
      <3>2. PICK m \in B : \A j \in B : m <= j BY <2>2, <3>1, LeastNumber
      <3>3. m \in 0 .. count /\ m \in Nat /\ ~Same2(m) BY <3>2
      <3>4. CASE m = 0 BY <1>9, <2>1, <3>3, <3>4 DEF Same2
      <3>5. CASE m # 0
        <4>1. m - 1 \in 0 .. count /\ ~(m <= m - 1) BY <3>3, <3>5
        <4>2. h[m - 1] = Image(g[m - 1]) BY <3>2, <4>1 DEF Same2
        <4> QED BY <1>9, <2>1, <3>3, <3>5, <4>2 DEF Same2
      <3> QED BY <3>4, <3>5
    <2>3. count \in 0 .. count BY <1>1
    <2>4. h[count] = Image(g[count]) BY <2>2, <2>3
    <2>5. PICK d : d = g[count] /\ Running(req, d) BY <1>8, <2>3
    <2>6. Kept(EmitFinish(d, FALSE)) = Outcome(Flush(req, Ext(Core(d), Sanitized(d.tail))))
      BY <1>2, <2>5, EndKept
    <2>7. PICK x : x = Image(d) OBVIOUS
    <2>8. x.core = Core(d) /\ x.tail = d.tail BY <2>7 DEF Image
    <2>9. Kept(EmitFinish(d, FALSE)) = EndOf(req, x) BY <2>6, <2>8 DEF EndOf
    <2> QED BY <1>1, <1>4, <2>4, <2>5, <2>7, <2>9
  <1> QED BY <1>10, <1>11

\* While an answer that is not streamed is generated, its emitter only remembers
\* whether a call the request did not declare is open; once it is done, what is kept
\* is what streaming its tokens comes to.
Remembering ==
    ~req.stream =>
        IF pc = "done"
        THEN req.vocabulary.tools \/ OutsideIn(tokens, Len(tokens) + 1) =>
                \E h : /\ GoesSo(req, h, Image(Emitter(req.thinking)), tokens)
                       /\ Kept(em) = EndOf(req, h[Len(tokens)])
        ELSE /\ em = [Emitter(req.thinking) EXCEPT !.suppress = em.suppress]
             /\ em.suppress <=> ~req.vocabulary.tools /\ ~OutsideIn(tokens, Len(tokens) + 1)

\* At the beginning there is none.
LEMMA RememberingInit == Init => Remembering
  <1> SUFFICES ASSUME Init, ~req.stream PROVE Remembering BY DEF Remembering
  <1>1. em = Emitter(req.thinking) /\ tokens = <<>> /\ pc # "done" BY DEF Init
  <1>2. em.suppress = FALSE BY <1>1 DEF Emitter
  <1>3. em = [Emitter(req.thinking) EXCEPT !.suppress = em.suppress] BY ZenonT(40), <1>1, <1>2 DEF Emitter
  <1>4. OutsideIn(tokens, Len(tokens) + 1)
    <2>1. Len(tokens) + 1 - 1 = 0 /\ 1 .. 0 = {} BY <1>1
    <2> QED BY <2>1 DEF OutsideIn
  <1> QED BY <1>1, <1>2, <1>3, <1>4 DEF Remembering

\* A token is remembered so, and the end gives what streaming would have given.
LEMMA RememberingStep == IInv /\ Remembering /\ [Next]_vars => Remembering'
  <1> SUFFICES ASSUME IInv, Remembering, [Next]_vars, ~req'.stream PROVE Remembering'
    BY DEF Remembering
  <1>1. req' = req BY DEF Next, OnToken, EndStream, EndWhole, vars
  <1>2. ~req.stream /\ (HasTools' <=> HasTools) BY <1>1 DEF HasTools
  <1>3. req \in Requests /\ req.format = "openai" /\ tokens \in Seq(req.vocabulary.tokens)
    BY <1>2 DEF IInv
  <1>4. Asked(req) /\ req.thinking \in BOOLEAN BY <1>3, ReqIs DEF Requests
  <1>5. PICK e \in Em : e = Emitter(req.thinking) /\ e.suppress = FALSE
    <2>1. Emitter(req.thinking).suppress = FALSE BY DEF Emitter
    <2> QED BY <1>4, <2>1, EmitterIs
  <1>6. CASE OnToken
    <2>1. PICK token \in req.vocabulary.tokens :
            tokens' = Append(tokens, token) /\ em' = Classified(em, token) /\ pc' # "done"
      BY <1>2, <1>6 DEF OnToken
    <2>2. em = [e EXCEPT !.suppress = em.suppress]
          /\ (em.suppress <=> ~HasTools /\ ~OutsideIn(tokens, Len(tokens) + 1))
      BY <1>2, <1>5, <1>6, HasToolsIs DEF OnToken, Remembering
    <2>3. Running(req, em) BY <1>6 DEF OnToken, IInv
    <2>4. em \in Em BY <2>3 DEF Running, Typed
    <2>5. em'.suppress <=> ~HasTools /\ IF em.suppress THEN token # "E" ELSE token = "T"
      BY <2>1, <2>4, TwinClassified
    <2>6. PICK s : em' = [em EXCEPT !.suppress = s] BY <2>1 DEF Classified
    <2>7. em' = [e EXCEPT !.suppress = em'.suppress]
      <3>1. em' = [e EXCEPT !.suppress = s] BY <1>5, <2>2, <2>6 DEF Em
      <3>2. em'.suppress = s BY <1>5, <3>1 DEF Em
      <3> QED BY <3>1, <3>2
    <2>8. OutsideIn(tokens', Len(tokens') + 1) <=>
            IF token \in {"T", "E"} THEN token = "E" ELSE OutsideIn(tokens, Len(tokens) + 1)
      <3>1. PICK a : a = Append(tokens, token) OBVIOUS
      <3>2. PICK n \in Nat : n = Len(tokens) BY <1>3, LenProperties
      <3>3. Len(a) = n + 1 /\ (OutsideIn(a, n + 2) <=>
              IF token \in {"T", "E"} THEN token = "E" ELSE OutsideIn(tokens, n + 1))
        BY <1>3, <3>1, <3>2, OutsideNext
      <3>4. Len(a) + 1 = n + 2 BY <3>3
      <3> QED BY <2>1, <3>1, <3>2, <3>3, <3>4
    <2>9. em'.suppress <=> ~HasTools /\ ~OutsideIn(tokens', Len(tokens') + 1)
      BY <2>2, <2>5, <2>8
    <2> QED BY <1>1, <1>5, <2>1, <2>7, <2>9, HasToolsIs DEF Remembering
  <1>7. CASE EndStream BY <1>2, <1>7 DEF EndStream
  <1>8. CASE EndWhole
    <2>1. pc = "generate" /\ em' = EmitFinish(Replayed(em, tokens), FALSE) /\ tokens' = tokens /\ pc' = "done"
      BY <1>8 DEF EndWhole
    <2>2. em = [e EXCEPT !.suppress = em.suppress]
          /\ (em.suppress <=> ~HasTools /\ ~OutsideIn(tokens, Len(tokens) + 1))
      BY <1>2, <1>5, <2>1, HasToolsIs DEF Remembering
    <2>3. ASSUME HasTools \/ OutsideIn(tokens, Len(tokens) + 1)
          PROVE  \E h : /\ GoesSo(req, h, Image(e), tokens)
                        /\ Kept(em') = EndOf(req, h[Len(tokens)])
      <3>1. em.suppress <=> FALSE BY <2>2, <2>3
      <3>2. em.suppress = FALSE
        <4>1. Running(req, em) BY <2>1 DEF IInv
        <4>2. em \in Em BY <4>1 DEF Running, Typed
        <4>3. em.suppress \in BOOLEAN BY <4>2 DEF Em
        <4> QED BY <3>1, <4>3
      <3>3. em = e
        <4>1. em = [e EXCEPT !.suppress = FALSE] BY <2>2, <3>2
        <4> QED BY <1>5, <4>1 DEF Em
      <3>4. Pair(req, Again(e), e) /\ Running(req, e) BY <1>3, <1>5, PairStart DEF Pair
      <3>5. PICK d : d = Replayed(e, tokens) OBVIOUS
      <3>6. PICK s : s = StreamedAll(e, tokens) OBVIOUS
      <3>7. Running(req, d) /\ Running(req, s) /\ Twin(d, s) BY <1>3, <3>4, <3>5, <3>6, PairAll
      <3>8. Kept(EmitFinish(d, FALSE)) = Kept(EmitFinish(s, FALSE)) BY <1>4, <3>7, TwinKept
      <3>9. PICK h : GoesSo(req, h, Image(e), tokens) BY <1>3, <3>4, StreamedKept
      <3>10. Kept(EmitFinish(s, FALSE)) = EndOf(req, h[Len(tokens)])
        BY <1>3, <3>4, <3>6, <3>9, StreamedKept
      <3> QED BY <2>1, <3>3, <3>5, <3>8, <3>9, <3>10
    <2> QED BY <1>1, <1>5, <2>1, <2>3, HasToolsIs DEF Remembering
  <1>9. CASE UNCHANGED vars
    <2>1. req' = req /\ em' = em /\ tokens' = tokens /\ pc' = pc BY <1>9 DEF vars
    <2> QED BY <2>1 DEF Remembering
  <1> QED BY <1>6, <1>7, <1>8, <1>9 DEF Next

\* An answer is the same whether it is streamed or not: fed token by token or all at
\* once, the emitter keeps the same text, thinking and calls, unless the answer ends
\* within a call the request did not declare.
THEOREM ReplayIsSame == Spec => []ReplaySame
  <1>1. IInv /\ Remembering => ReplaySame
    <2> SUFFICES ASSUME IInv, Remembering, pc = "done", ~req.stream,
                        HasTools \/ OutsideCall(Len(tokens) + 1)
                 PROVE  Kept(em) = KeptStreamed
      BY DEF ReplaySame
    <2>1. OutsideCall(Len(tokens) + 1) <=> OutsideIn(tokens, Len(tokens) + 1)
      BY DEF OutsideCall, OutsideIn
    <2>2. PICK e : e = Emitter(req.thinking) OBVIOUS
    <2>3. PICK h : GoesSo(req, h, Image(e), tokens) /\ Kept(em) = EndOf(req, h[Len(tokens)])
      BY <2>1, <2>2, HasToolsIs DEF Remembering
    <2>4. req \in Requests /\ req.format = "openai" /\ tokens \in Seq(req.vocabulary.tokens)
      BY DEF IInv
    <2>5. Running(req, e) BY <2>2, <2>4, StartedIs
    <2>6. Kept(EmitFinish(StreamedAll(e, tokens), FALSE)) = EndOf(req, h[Len(tokens)])
      BY <2>3, <2>4, <2>5, StreamedKept
    <2> QED BY <2>2, <2>3, <2>6 DEF KeptStreamed
  <1>2. Init => Remembering BY RememberingInit
  <1>3. IInv /\ Remembering /\ [Next]_vars => Remembering' BY RememberingStep
  <1> QED BY <1>1, <1>2, <1>3, Invariance, PTL DEF Spec

-----------------------------------------------------------------------------
(* Where the thinking ends *)

\* No <think> is behind a </think>.
Once(text) == \A o \in At(text, ThinkOpen), i \in At(text, ThinkClose) : o < i

\* The window is the end of the text.
EndsWith(text, window) ==
    /\ Len(window) <= Len(text)
    /\ \A x \in 1 .. Len(window) : window[x] = text[Len(text) - Len(window) + x]

\* Of an answer without tools that began by thinking: while it thinks no </think> has
\* left the window, and when it no longer does, one has.
Thoughtful(c, raw) ==
    /\ c \in Cores /\ c.mode # "TOOL_BUFFER" /\ EndsWith(raw, c.window)
    /\ c.mode = "REASONING" =>
          /\ \A i \in At(raw, ThinkClose) : i > Len(raw) - Len(c.window)
          /\ c.window = <<>> /\ raw # <<>> => raw[Len(raw)] # "c1"
    /\ c.mode = "CONTENT" => \E i \in At(raw, ThinkClose) : i < Len(raw) - Len(c.window)

\* A window that is the end of a text still is when its front is gone, and has its
\* delimiters where the text has them.
LEMMA EndsFrom ==
    ASSUME NEW raw \in Text, NEW w \in Text, EndsWith(raw, w), NEW k \in 0 .. Len(w)
    PROVE  LET t == From(w, k + 1)
               g == Len(raw) - Len(w)
           IN  /\ t \in Text /\ Len(t) = Len(w) - k /\ EndsWith(raw, t)
               /\ Len(raw) - Len(t) = g + k /\ g \in Nat
               /\ \A i \in At(raw, ThinkClose) : i > g => i - g \in At(w, ThinkClose)
               /\ \A i \in At(w, ThinkClose) : g + i \in At(raw, ThinkClose)
               /\ \A i \in At(w, ThinkOpen) : g + i \in At(raw, ThinkOpen)
  <1>1. PICK n \in Nat : n = Len(raw) BY TextIs
  <1>2. PICK m \in Nat : m = Len(w) /\ m <= n BY <1>1, TextIs DEF EndsWith
  <1>3. PICK g \in Nat : g = n - m /\ g + m = n
    <2>1. n - m \in Nat /\ n - m + m = n BY <1>2
    <2> QED BY <2>1
  <1>4. \A x \in 1 .. m : w[x] = raw[g + x] BY <1>1, <1>2, <1>3 DEF EndsWith
  <1>5. PICK t \in Text : t = From(w, k + 1) /\ Len(t) = m - k /\ \A x \in 1 .. m - k : t[x] = w[k + x]
    BY <1>2, Behind
  <1>6. k \in 0 .. m BY <1>2
  <1>7. EndsWith(raw, t) /\ n - Len(t) = g + k
    <2>1. m - k \in Nat /\ n - (m - k) = g + k /\ m - k <= n BY <1>2, <1>3, <1>6
    <2>2. \A x \in 1 .. m - k : t[x] = raw[n - (m - k) + x]
      <3> SUFFICES ASSUME NEW x \in 1 .. m - k PROVE t[x] = raw[n - (m - k) + x] OBVIOUS
      <3>1. k + x \in 1 .. m BY <1>6
      <3>2. t[x] = raw[g + (k + x)] BY <1>4, <1>5, <3>1
      <3>3. g + (k + x) = n - (m - k) + x BY <1>3, <1>6
      <3> QED BY <3>2, <3>3
    <2> QED BY <1>1, <1>5, <2>1, <2>2 DEF EndsWith
  <1>8. ASSUME NEW i \in At(raw, ThinkClose), i > g PROVE i - g \in At(w, ThinkClose)
    <2>1. i \in 1 .. n - 1 /\ raw[i] = "c1" /\ raw[i + 1] = "c2" BY <1>1, PairsAre
    <2>2. PICK j \in Nat : j = i - g /\ g + j = i
      <3>1. i - g \in Nat /\ g + (i - g) = i BY <1>8, <2>1
      <3> QED BY <3>1
    <2>3. j \in 1 .. m - 1 /\ j + 1 \in 1 .. m /\ j \in 1 .. m /\ g + (j + 1) = i + 1
      BY <1>3, <1>8, <2>1, <2>2
    <2>4. w[j] = "c1" /\ w[j + 1] = "c2" BY <1>4, <2>1, <2>2, <2>3
    <2> QED BY <1>2, <2>2, <2>3, <2>4, PairsAre
  <1>9. \A i : i \in 1 .. m - 1 => i \in 1 .. m /\ i + 1 \in 1 .. m /\ g + (i + 1) = g + i + 1
                                   /\ g + i \in 1 .. n - 1
    BY <1>3
  <1>10. ASSUME NEW i \in At(w, ThinkClose) PROVE g + i \in At(raw, ThinkClose)
    <2>1. i \in 1 .. m - 1 /\ w[i] = "c1" /\ w[i + 1] = "c2" BY <1>2, PairsAre
    <2>2. raw[g + i] = "c1" /\ raw[g + i + 1] = "c2" BY <1>4, <1>9, <2>1
    <2> QED BY <1>1, <1>9, <2>1, <2>2, PairsAre
  <1>11. ASSUME NEW i \in At(w, ThinkOpen) PROVE g + i \in At(raw, ThinkOpen)
    <2>1. i \in 1 .. m - 1 /\ w[i] = "o1" /\ w[i + 1] = "o2" BY <1>2, PairsAre
    <2>2. raw[g + i] = "o1" /\ raw[g + i + 1] = "o2" BY <1>4, <1>9, <2>1
    <2> QED BY <1>1, <1>9, <2>1, <2>2, PairsAre
  <1> QED BY <1>1, <1>2, <1>3, <1>5, <1>7, <1>8, <1>10, <1>11

\* Without tools there is no call to find.
LEMMA NoTools ==
    ASSUME ~HasTools, NEW c \in Cores
    PROVE  /\ ToolHits(c) = {} /\ Closers(c) = CloseHits(c) /\ ~BareJson(c)
           /\ Hits(c) = ThinkHits(c) \union CloseHits(c) /\ ~ZeroArgCall(c)
           /\ CloseHits(c) = At(c.window, ThinkClose) /\ ThinkHits(c) = At(c.window, ThinkOpen)
  BY DEF ToolHits, Closers, BareJson, Hits, ZeroArgCall, CloseHits, ThinkHits

\* A window keeps at least one symbol when some of it is thought.
LEMMA KeepsOne ==
    ASSUME NEW w \in Text, req.vocabulary.stop \in BOOLEAN
    PROVE  Releasable(w) \in 0 .. Len(w) /\ (w # <<>> => Releasable(w) < Len(w))
  <1>1. PICK n \in Nat : n = Len(w) /\ (w = <<>> <=> n = 0) BY TextIs
  <1>2. PICK h \in Nat : h = Holdback /\ h >= 1 BY HoldbackIs
  <1>3. Releasable(w) = IF n > h THEN SafeLen(w, n - h) ELSE 0 BY <1>1, <1>2 DEF Releasable
  <1>4. CASE n > h
    <2>1. PICK k \in Nat : k = n - h /\ k >= 1 /\ k < n
      <3>1. n - h \in Nat /\ n - h >= 1 /\ n - h < n BY <1>2, <1>4
      <3> QED BY <3>1
    <2>2. SafeLen(w, k) \in {k, k - 1} BY DEF SafeLen
    <2>3. k \in 0 .. n /\ k - 1 \in 0 .. n /\ k < n /\ k - 1 < n BY <2>1
    <2> QED BY <1>1, <1>3, <1>4, <2>1, <2>2, <2>3
  <1>5. CASE ~(n > h)
    <2>1. Releasable(w) = 0 /\ 0 \in 0 .. n /\ (n # 0 => 0 < n) BY <1>3, <1>5
    <2> QED BY <1>1, <2>1
  <1> QED BY <1>4, <1>5

\* A window from which a delimiter that is there was taken, and all in front of it.
LEMMA TakenOut ==
    ASSUME NEW raw \in Text, NEW w \in Text, EndsWith(raw, w), NEW i \in 1 .. Len(w) - 1
    PROVE  /\ EndsWith(raw, From(w, i + 2)) /\ Len(From(w, i + 2)) \in Nat
           /\ Len(raw) - Len(From(w, i + 2)) = (Len(raw) - Len(w)) + i + 1
  <1>1. PICK m \in Nat : m = Len(w) BY TextIs
  <1>2. i \in Nat /\ i + 1 \in 0 .. m /\ (i + 1) + 1 = i + 2 BY <1>1
  <1>3. PICK k \in Nat : k = i + 1 BY <1>2
  <1>4. k \in 0 .. Len(w) /\ i + 2 = k + 1 BY <1>1, <1>2, <1>3
  <1>5. PICK t : t = From(w, k + 1) OBVIOUS
  <1>6. t \in Text /\ EndsWith(raw, t) /\ Len(raw) - Len(t) = (Len(raw) - Len(w)) + k
        /\ Len(raw) - Len(w) \in Nat
    BY <1>4, <1>5, EndsFrom
  <1>7. PICK g \in Nat : g = Len(raw) - Len(w) BY <1>6
  <1>8. g + k = g + i + 1 BY <1>3
  <1>9. t = From(w, i + 2) /\ Len(t) \in Nat BY <1>4, <1>5, <1>6, TextIs
  <1> QED BY <1>6, <1>7, <1>8, <1>9

\* A round keeps thinking what is thinking: the first </think> in the window ends it,
\* and where none is the window waits.
LEMMA ThinkRound ==
    ASSUME Asked(req), ~HasTools, NameLimit \in Nat, NEW raw \in Text, Once(raw),
           NEW c, Thoughtful(c, raw), NEW d
    PROVE  /\ CoreRound(req, c) = Again(d) => Thoughtful(d, raw)
           /\ CoreRound(req, c) = Waits(d) =>
                 Thoughtful(d, raw) /\ (d.mode = "REASONING" => At(raw, ThinkClose) = {})
  <1>1. c \in Cores /\ c.mode \in {"REASONING", "CONTENT"} /\ EndsWith(raw, c.window)
    <2>1. c \in Cores /\ c.mode # "TOOL_BUFFER" /\ EndsWith(raw, c.window) BY DEF Thoughtful
    <2>2. c.mode \in Modes BY <2>1, CoresAre
    <2> QED BY <2>1, <2>2 DEF Modes
  <1>2. PICK w \in Text : w = c.window BY <1>1, CoresAre
  <1>3. PICK m \in Nat : m = Len(w) /\ (w = <<>> <=> m = 0) BY TextIs
  <1>4. PICK n \in Nat : n = Len(raw) BY TextIs
  <1>5. PICK g \in Nat : g = n - m
    <2>1. m <= n BY <1>1, <1>2, <1>3, <1>4 DEF EndsWith
    <2>2. n - m \in Nat BY <2>1
    <2> QED BY <2>2
  <1>6. /\ \A i \in At(raw, ThinkClose) : i > g => i - g \in At(w, ThinkClose)
        /\ \A i \in At(w, ThinkClose) : g + i \in At(raw, ThinkClose)
        /\ \A i \in At(w, ThinkOpen) : g + i \in At(raw, ThinkOpen)
    <2>1. 0 \in 0 .. Len(w) BY <1>3
    <2> QED BY ZenonT(40), <1>1, <1>2, <1>3, <1>4, <1>5, <2>1, EndsFrom
  <1>7. /\ ToolHits(c) = {} /\ Closers(c) = CloseHits(c) /\ ~BareJson(c)
        /\ Hits(c) = ThinkHits(c) \union CloseHits(c)
        /\ CloseHits(c) = At(w, ThinkClose) /\ ThinkHits(c) = At(w, ThinkOpen)
    BY <1>1, <1>2, NoTools
  <1>8. At(raw, ThinkClose) \in SUBSET Nat /\ At(w, ThinkClose) \in SUBSET Nat
    <2>1. \A i : i \in At(raw, ThinkClose) => i \in 1 .. Len(raw) - 1 BY PairsAre
    <2>2. \A i : i \in At(w, ThinkClose) => i \in 1 .. Len(w) - 1 BY PairsAre
    <2> QED BY <2>1, <2>2
  <1>9. req.vocabulary.stop \in BOOLEAN BY DEF Asked
  <1>10. CASE c.mode = "REASONING" /\ ~c.checkedPrefix /\ PrefixOpen(c)
    <2>1. CoreRound(req, c) = Waits(c) BY <1>1, <1>10, RoundWhen
    <2>2. At(w, ThinkClose) = {}
      <3>1. FirstBlack(w) \in 1 .. m + 1 /\ \A x \in 1 .. FirstBlack(w) - 1 : w[x] = "w"
        BY <1>3, FirstBlackIs
      <3>2. FirstBlack(w) >= m BY <1>2, <1>3, <1>10, <3>1 DEF PrefixOpen
      <3>3. \A x \in 1 .. m - 1 : w[x] = "w" BY <3>1, <3>2
      <3>4. \A i : i \in At(w, ThinkClose) => i \in 1 .. m - 1 /\ w[i] = "c1" BY <1>3, PairsAre
      <3> QED BY <3>3, <3>4
    <2>3. At(raw, ThinkClose) = {}
      <3>1. \A i \in At(raw, ThinkClose) : i > g BY <1>2, <1>3, <1>4, <1>5, <1>10 DEF Thoughtful
      <3> QED BY <1>6, <2>2, <3>1
    <2>4. CoreRound(req, c) = Waits(d) => d = c BY <2>1, Outcomes
    <2>5. CoreRound(req, c) # Again(d) BY <2>1, Outcomes
    <2> QED BY <2>3, <2>4, <2>5
  <1>11. CASE c.mode = "REASONING" /\ ~c.checkedPrefix /\ ~PrefixOpen(c)
    <2>1. PICK p : p = PrefixDropped(c) OBVIOUS
    <2>2. CoreRound(req, c) = Again(p) BY <1>1, <1>11, <2>1, RoundWhen
    <2>3. PICK i : i = FirstBlack(w) OBVIOUS
    <2>4. /\ p \in Cores /\ p.mode = "REASONING"
          /\ p.window = IF i \in At(w, ThinkOpen) THEN From(w, i + 2) ELSE w
      BY <1>1, <1>2, <1>11, <2>1, <2>3, DroppedIs
    <2>5. CASE i \notin At(w, ThinkOpen)
      <3>1. p.window = c.window BY <1>2, <2>4, <2>5
      <3>2. Thoughtful(p, raw) BY <1>1, <1>11, <2>4, <3>1 DEF Thoughtful
      <3>3. CoreRound(req, c) # Waits(d) BY ZenonT(40), <2>2, Outcomes
      <3>4. CoreRound(req, c) = Again(d) => d = p BY ZenonT(40), <2>2, Outcomes
      <3> QED BY <3>2, <3>3, <3>4
    <2>6. CASE i \in At(w, ThinkOpen)
      <3>1. i \in 1 .. m - 1 /\ i \in Nat /\ w[i] = "o1" /\ w[i + 1] = "o2" BY <1>3, <2>6, PairsAre
      <3>2. p.window = From(w, i + 2) BY <2>4, <2>6
      <3>3. EndsWith(raw, p.window) /\ Len(raw) - Len(p.window) = g + i + 1 /\ Len(p.window) \in Nat
        <4>1. i \in 1 .. Len(c.window) - 1 /\ p.window = From(c.window, i + 2)
          BY <1>2, <1>3, <3>1, <3>2
        <4>2. g = Len(raw) - Len(c.window) BY <1>2, <1>3, <1>4, <1>5
        <4>3. p \in Cores /\ i \in Nat BY <2>4, <3>1
        <4>5. EndsWith(raw, w) /\ i \in 1 .. Len(w) - 1 /\ p.window = From(w, i + 2) /\ c.window = w
          BY <1>1, <1>2, <1>3, <3>1, <3>2
        <4>4. /\ EndsWith(raw, p.window) /\ Len(p.window) \in Nat
              /\ Len(raw) - Len(p.window) = (Len(raw) - Len(c.window)) + i + 1
          <5>1. EndsWith(raw, From(w, i + 2)) /\ Len(From(w, i + 2)) \in Nat
                /\ Len(raw) - Len(From(w, i + 2)) = (Len(raw) - Len(w)) + i + 1
            BY SMTT(60), <4>5, TakenOut
          <5> QED BY <4>5, <5>1
        <4> QED BY <4>2, <4>4
      <3>4. ASSUME NEW h \in At(raw, ThinkClose) PROVE h > g + i + 1
        <4>1. h > g BY <1>2, <1>3, <1>4, <1>5, <1>11 DEF Thoughtful
        <4>2. h \in Nat BY <1>8
        <4>3. PICK j \in Nat : j = h - g /\ j \in At(w, ThinkClose) BY <1>6, <4>1, <4>2
        <4>4. j \in 1 .. m - 1 /\ w[j] = "c1" BY <1>3, <4>3, PairsAre
        <4>5. \A x \in 1 .. i - 1 : w[x] = "w" BY <2>3, FirstBlackIs
        <4>6. j # i /\ j # i + 1 /\ ~(j \in 1 .. i - 1) BY <3>1, <4>4, <4>5
        <4>7. j > i + 1 BY <3>1, <4>4, <4>6
        <4>8. j = h - g /\ j > i + 1 => h > g + i + 1 BY <3>1, <4>2
        <4> QED BY <4>3, <4>7, <4>8
      <3>5. p.window = <<>> => raw[Len(raw)] # "c1"
        <4>1. ASSUME p.window = <<>> PROVE raw[n] # "c1"
          <5>1. Len(p.window) = 0 BY <4>1
          <5>2. n = g + i + 1 /\ n = g + m BY <1>4, <1>5, <3>3, <5>1
          <5>3. m = i + 1 /\ m \in 1 .. m BY <3>1, <5>2
          <5>4. w[m] = raw[n - m + m] BY <1>1, <1>2, <1>3, <1>4, <5>3 DEF EndsWith
          <5>5. n - m + m = n OBVIOUS
          <5> QED BY <3>1, <5>3, <5>4, <5>5
        <4> QED BY <1>4, <4>1
      <3>6. Thoughtful(p, raw) BY <2>4, <3>3, <3>4, <3>5 DEF Thoughtful
      <3>7. CoreRound(req, c) # Waits(d) BY <2>2, Outcomes
      <3>8. CoreRound(req, c) = Again(d) => d = p BY ZenonT(40), <2>2, Outcomes
      <3> QED BY <3>6, <3>7, <3>8
    <2> QED BY <2>5, <2>6
  <1>12. CASE c.mode = "REASONING" /\ c.checkedPrefix /\ CloseHits(c) # {}
    <2>1. PICK i \in CloseHits(c) : FirstIn(i, Closers(c)) BY <1>1, <1>7, <1>12, FirstMet
    <2>2. PICK p : p = Thinks(c, i, i + 2, "CONTENT") OBVIOUS
    <2>3. CoreRound(req, c) = Again(p) BY <1>1, <1>12, <2>1, <2>2, RoundWhen
    <2>4. i \in 1 .. Len(c.window) - 1 /\ i + 2 \in 1 .. Len(c.window) + 1
          /\ i \in 1 .. Len(c.window) + 1 /\ i \in Nat
      <3>1. i \in 1 .. Len(c.window) - 1 /\ i + 2 \in 1 .. Len(c.window) + 1
        BY <1>1, <2>1, CorePlaces
      <3> QED BY <1>2, <1>3, <3>1
    <2>5. "CONTENT" \in Modes BY DEF Modes
    <2>6. p \in Cores /\ p.mode = "CONTENT" /\ p.window = From(c.window, i + 2)
      BY <1>1, <2>2, <2>4, <2>5, ThinksIs
    <2>7. EndsWith(raw, p.window) /\ Len(raw) - Len(p.window) = g + i + 1
      <3>1. g = Len(raw) - Len(c.window) BY <1>2, <1>3, <1>4, <1>5
      <3>2. p \in Cores /\ p.window = From(c.window, i + 2) BY <2>6
      <3>4. EndsWith(raw, w) /\ i \in 1 .. Len(w) - 1 /\ p.window = From(w, i + 2) /\ c.window = w
        BY <1>1, <1>2, <2>4, <3>2
      <3>3. /\ EndsWith(raw, p.window)
            /\ Len(raw) - Len(p.window) = (Len(raw) - Len(c.window)) + i + 1
        <4>1. EndsWith(raw, From(w, i + 2))
              /\ Len(raw) - Len(From(w, i + 2)) = (Len(raw) - Len(w)) + i + 1
          BY SMTT(60), <3>4, TakenOut
        <4> QED BY <3>4, <4>1
      <3> QED BY <3>1, <3>3
    <2>8. g + i \in At(raw, ThinkClose) /\ g + i < g + i + 1 BY <1>6, <1>7, <2>1, <2>4
    <2>9. Thoughtful(p, raw) BY <2>6, <2>7, <2>8 DEF Thoughtful
    <2>10. CoreRound(req, c) # Waits(d) BY ZenonT(40), <2>3, Outcomes
    <2>11. CoreRound(req, c) = Again(d) => d = p BY ZenonT(40), <2>3, Outcomes
    <2> QED BY <2>9, <2>10, <2>11
  <1>13. CASE c.mode = "REASONING" /\ c.checkedPrefix /\ CloseHits(c) = {}
    <2>1. PICK out : out = Releasable(w) OBVIOUS
    <2>2. out \in 0 .. m /\ (w # <<>> => out < m) BY <1>3, <1>9, <2>1, KeepsOne
    <2>3. PICK p : p = Thinks(c, out + 1, out + 1, "REASONING") OBVIOUS
    <2>4. CoreRound(req, c) = Waits(p) BY <1>1, <1>2, <1>7, <1>13, <2>1, <2>3, RoundWhen
    <2>5. out + 1 \in 1 .. Len(c.window) + 1 BY <1>2, <1>3, <2>2
    <2>6. "REASONING" \in Modes BY DEF Modes
    <2>7. p \in Cores /\ p.mode = "REASONING" /\ p.window = From(w, out + 1)
      BY <1>1, <1>2, <2>3, <2>5, <2>6, ThinksIs
    <2>8. EndsWith(raw, p.window) /\ Len(p.window) = m - out
      BY SMTT(60), <1>1, <1>2, <1>3, <2>2, <2>7, EndsFrom
    <2>9. At(raw, ThinkClose) = {}
      <3>1. \A i \in At(raw, ThinkClose) : i > g BY <1>2, <1>3, <1>4, <1>5, <1>13 DEF Thoughtful
      <3> QED BY <1>6, <1>7, <1>13, <3>1
    <2>10. p.window = <<>> => c.window = <<>>
      <3>1. p.window = <<>> => m - out = 0 BY <2>8
      <3> QED BY <1>2, <1>3, <2>2, <3>1
    <2>11. Thoughtful(p, raw) BY <1>13, <2>7, <2>8, <2>9, <2>10 DEF Thoughtful
    <2>12. CoreRound(req, c) # Again(d) BY <2>4, Outcomes
    <2>13. CoreRound(req, c) = Waits(d) => d = p BY <2>4, Outcomes
    <2> QED BY <2>9, <2>11, <2>12, <2>13
  <1>14. CASE c.mode = "CONTENT" /\ Hits(c) # {}
    <2>1. PICK i \in Hits(c) : FirstIn(i, Hits(c)) BY <1>1, <1>14, FirstMet
    <2>2. PICK h \in At(raw, ThinkClose) : h < g BY <1>2, <1>3, <1>4, <1>5, <1>14 DEF Thoughtful
    <2>3. i \notin ThinkHits(c)
      <3>1. ASSUME i \in ThinkHits(c) PROVE FALSE
        <4>1. g + i \in At(raw, ThinkOpen) BY <1>6, <1>7, <3>1
        <4>2. g + i < h BY <2>2, <4>1 DEF Once
        <4>3. i \in 1 .. Len(c.window) - 1 BY <1>1, <3>1, CorePlaces
        <4>4. i \in Nat /\ h \in Nat BY <1>2, <1>3, <1>8, <2>2, <4>3
        <4> QED BY <2>2, <4>2, <4>4
      <3> QED BY <3>1
    <2>4. i \in CloseHits(c) BY <1>7, <2>1, <2>3
    <2>5. PICK p : p = Says(c, i, i + 2, "CONTENT") OBVIOUS
    <2>6. CoreRound(req, c) = Again(p) BY <1>1, <1>14, <2>1, <2>4, <2>5, RoundWhen
    <2>7. i \in 1 .. Len(c.window) - 1 /\ i + 2 \in 1 .. Len(c.window) + 1
          /\ i \in 1 .. Len(c.window) + 1 /\ i \in Nat
      <3>1. i \in 1 .. Len(c.window) - 1 /\ i + 2 \in 1 .. Len(c.window) + 1
        BY <1>1, <2>4, CorePlaces
      <3> QED BY <1>2, <1>3, <3>1
    <2>8. "CONTENT" \in Modes BY DEF Modes
    <2>9. p \in Cores /\ p.mode = "CONTENT" /\ p.window = From(c.window, i + 2)
      BY <1>1, <2>5, <2>7, <2>8, SaysIs
    <2>10. EndsWith(raw, p.window) /\ Len(raw) - Len(p.window) = g + i + 1
      <3>1. g = Len(raw) - Len(c.window) BY <1>2, <1>3, <1>4, <1>5
      <3>2. p \in Cores /\ p.window = From(c.window, i + 2) BY <2>9
      <3>4. EndsWith(raw, w) /\ i \in 1 .. Len(w) - 1 /\ p.window = From(w, i + 2) /\ c.window = w
        BY <1>1, <1>2, <2>7, <3>2
      <3>3. /\ EndsWith(raw, p.window)
            /\ Len(raw) - Len(p.window) = (Len(raw) - Len(c.window)) + i + 1
        <4>1. EndsWith(raw, From(w, i + 2))
              /\ Len(raw) - Len(From(w, i + 2)) = (Len(raw) - Len(w)) + i + 1
          BY SMTT(60), <3>4, TakenOut
        <4> QED BY <3>4, <4>1
      <3> QED BY <3>1, <3>3
    <2>11. g + i \in At(raw, ThinkClose) /\ g + i < g + i + 1 BY <1>6, <1>7, <2>4, <2>7
    <2>12. Thoughtful(p, raw) BY <2>9, <2>10, <2>11 DEF Thoughtful
    <2>13. CoreRound(req, c) # Waits(d) BY ZenonT(40), <2>6, Outcomes
    <2>14. CoreRound(req, c) = Again(d) => d = p BY ZenonT(40), <2>6, Outcomes
    <2> QED BY <2>12, <2>13, <2>14
  <1>15. CASE c.mode = "CONTENT" /\ Hits(c) = {}
    <2>1. PICK cut : cut = Cut(w) OBVIOUS
    <2>2. cut \in 0 .. m
      <3>1. Releasable(w) \in 0 .. m /\ cut \in 0 .. Releasable(w) BY <1>3, <1>9, <2>1, CutAgain
      <3> QED BY <3>1
    <2>3. PICK p : p = Says(c, cut + 1, cut + 1, "CONTENT") OBVIOUS
    <2>4. CoreRound(req, c) = Waits(p) BY <1>1, <1>2, <1>7, <1>15, <2>1, <2>3, RoundWhen
    <2>5. cut + 1 \in 1 .. Len(c.window) + 1 BY <1>2, <1>3, <2>2
    <2>6. "CONTENT" \in Modes BY DEF Modes
    <2>7. p \in Cores /\ p.mode = "CONTENT" /\ p.window = From(w, cut + 1)
      BY <1>1, <1>2, <2>3, <2>5, <2>6, SaysIs
    <2>8. EndsWith(raw, p.window) /\ Len(raw) - Len(p.window) = g + cut
      <3>1. EndsWith(raw, w) /\ cut \in 0 .. Len(w) BY <1>1, <1>2, <1>3, <2>2
      <3>2. g = Len(raw) - Len(w) BY <1>3, <1>4, <1>5
      <3> QED BY <2>7, <3>1, <3>2, EndsFrom
    <2>9. PICK h \in At(raw, ThinkClose) : h < g BY <1>2, <1>3, <1>4, <1>5, <1>15 DEF Thoughtful
    <2>10. h \in Nat /\ h < g + cut BY <1>8, <2>2, <2>9
    <2>11. Thoughtful(p, raw) BY <2>7, <2>8, <2>9, <2>10 DEF Thoughtful
    <2>12. CoreRound(req, c) # Again(d) BY <2>4, Outcomes
    <2>13. CoreRound(req, c) = Waits(d) => d = p BY <2>4, Outcomes
    <2> QED BY <2>7, <2>11, <2>12, <2>13
  <1> QED BY <1>1, <1>10, <1>11, <1>12, <1>13, <1>14, <1>15

\* So do all its rounds.
LEMMA ThinkLeft ==
    ASSUME Asked(req), ~HasTools, NameLimit \in Nat, NEW raw \in Text, Once(raw),
           NEW c, Thoughtful(c, raw)
    PROVE  /\ Thoughtful(Left(req, c), raw)
           /\ Left(req, c).mode = "REASONING" => At(raw, ThinkClose) = {}
  <1>1. c \in Cores BY DEF Thoughtful
  <1>2. PICK e \in Em : Core(e) = c BY <1>1, CoreOf
  <1>3. Comes(req, c, Core(Process(e))) /\ Core(Process(e)) = Left(req, c)
    BY <1>1, <1>2, ProcessComes, LeftIs
  <1>4. PICK f, n : Trace(req, f, n, c, Left(req, c)) BY <1>3 DEF Comes
  <1>5. /\ n \in Nat /\ f[0] = c /\ CoreRound(req, f[n]) = Waits(Left(req, c))
        /\ \A m \in 0 .. n - 1 : CoreRound(req, f[m]) = Again(f[m + 1])
    BY <1>4 DEF Trace
  <1> DEFINE A == {m \in 0 .. n : ~Thoughtful(f[m], raw)}
  <1>6. ASSUME A # {} PROVE FALSE
    <2>1. A \in SUBSET Nat BY <1>5
    <2>2. PICK m \in A : \A j \in A : m <= j BY <1>6, <2>1, LeastNumber
    <2>3. m \in 0 .. n /\ m \in Nat /\ ~Thoughtful(f[m], raw) BY <1>5, <2>2
    <2>4. m # 0 BY <1>5, <2>3
    <2>5. PICK k \in Nat : k = m - 1 /\ k + 1 = m /\ k \in 0 .. n - 1 /\ k \in 0 .. n /\ ~(m <= k)
      <3>1. m - 1 \in Nat /\ (m - 1) + 1 = m /\ m - 1 \in 0 .. n - 1 /\ m - 1 \in 0 .. n /\ ~(m <= m - 1)
        BY <1>5, <2>3, <2>4
      <3> QED BY <3>1
    <2>6. Thoughtful(f[k], raw) BY <2>2, <2>5
    <2>7. CoreRound(req, f[k]) = Again(f[m]) BY <1>5, <2>5
    <2>8. Thoughtful(f[m], raw) BY <2>6, <2>7, ThinkRound
    <2> QED BY <2>3, <2>8
  <1>7. n \in 0 .. n BY <1>5
  <1>8. Thoughtful(f[n], raw) BY <1>6, <1>7
  <1> QED BY <1>5, <1>8, ThinkRound

\* The symbols of the think tags.
TagSymbols == {"o1", "o2", "c1", "c2"}

\* A raw text, and what waits behind it, have them where the texts given have.
Reads(raw, tail, given) ==
    /\ raw \in Text /\ tail \in {<<>>, <<"u1">>} /\ given \in Text
    /\ Len(given) = Len(raw) + Len(tail)
    /\ \A sym \in TagSymbols : \A i \in 1 .. Len(given) :
          given[i] = sym <=> i <= Len(raw) /\ raw[i] = sym

\* Then the tags are at the same places.
LEMMA ReadsTags ==
    ASSUME NEW raw, NEW tail, NEW given, Reads(raw, tail, given)
    PROVE  At(raw, ThinkOpen) = At(given, ThinkOpen) /\ At(raw, ThinkClose) = At(given, ThinkClose)
  <1>1. PICK n \in Nat : n = Len(raw) BY TextIs DEF Reads
  <1>2. PICK m \in Nat : m = Len(given) /\ n <= m
    <2>1. Len(given) \in Nat /\ Len(given) = n + Len(tail) BY <1>1, TextIs DEF Reads
    <2>2. Len(tail) \in {0, 1} BY DEF Reads
    <2> QED BY <2>1, <2>2
  <1>3. raw \in Text /\ given \in Text BY DEF Reads
  <1>4. ASSUME NEW a \in TagSymbols, NEW b \in TagSymbols, NEW i
        PROVE  i \in 1 .. n - 1 /\ raw[i] = a /\ raw[i + 1] = b
               <=> i \in 1 .. m - 1 /\ given[i] = a /\ given[i + 1] = b
    <2>1. \A j \in 1 .. m : (given[j] = a <=> j <= n /\ raw[j] = a)
                            /\ (given[j] = b <=> j <= n /\ raw[j] = b)
      BY <1>1, <1>2 DEF Reads
    <2>2. i \in 1 .. n - 1 => i \in 1 .. m /\ i + 1 \in 1 .. m /\ i \in 1 .. m - 1 /\ i <= n /\ i + 1 <= n
      BY <1>2
    <2>3. i \in 1 .. m - 1 => i \in 1 .. m /\ i + 1 \in 1 .. m /\ (i + 1 <= n => i \in 1 .. n - 1)
      BY <1>2
    <2> QED BY <2>1, <2>2, <2>3
  <1>5. "o1" \in TagSymbols /\ "o2" \in TagSymbols /\ "c1" \in TagSymbols /\ "c2" \in TagSymbols
    BY DEF TagSymbols
  <1>6. \A i : i \in At(raw, ThinkOpen) <=> i \in At(given, ThinkOpen)
    BY SMTT(60), <1>1, <1>2, <1>3, <1>4, <1>5, PairsAre
  <1>7. \A i : i \in At(raw, ThinkClose) <=> i \in At(given, ThinkClose)
    BY SMTT(60), <1>1, <1>2, <1>3, <1>4, <1>5, PairsAre
  <1>8. /\ At(raw, ThinkOpen) \subseteq Nat /\ At(given, ThinkOpen) \subseteq Nat
        /\ At(raw, ThinkClose) \subseteq Nat /\ At(given, ThinkClose) \subseteq Nat
    <2>1. \A t \in Text : \A i : i \in At(t, ThinkOpen) \/ i \in At(t, ThinkClose) => i \in Nat
      BY PairsAre
    <2> QED BY <1>3, <2>1
  <1> QED BY <1>6, <1>7, <1>8

\* A token more is read so.
LEMMA ReadsOn ==
    ASSUME NEW raw, NEW tail, NEW given, Reads(raw, tail, given), NEW piece \in Text, Unwrapped(piece)
    PROVE  Reads(raw \o TokenAdds(tail, piece), TailOf(tail \o piece), given \o piece)
  <1>1. raw \in Text /\ given \in Text /\ tail \in {<<>>, <<"u1">>} BY DEF Reads
  <1>2. tail \in Text /\ Unwrapped(tail)
    <2>1. "u1" \in Symbol BY DEF Symbol
    <2>2. <<"u1">> \in Text BY <2>1, Short DEF Text
    <2>3. <<>> \in Text BY <2>2, CatIs
    <2> QED BY <1>1, <2>2, <2>3 DEF Unwrapped
  <1>3. PICK n \in Nat : n = Len(raw) BY <1>1, TextIs
  <1>4. PICK p \in Nat : p = Len(piece) BY TextIs
  <1>5. PICK k \in Nat : k = Len(tail) BY <1>2, TextIs
  <1>6. PICK joined \in Text : joined = tail \o piece /\ Len(joined) = k + p
                               /\ (\A i \in 1 .. k : joined[i] = tail[i])
                               /\ \A i \in 1 .. p : joined[k + i] = piece[i]
    <2>1. PICK t \in Text : t = tail \o piece BY <1>2, CatIs
    <2>2. /\ Len(t) = Len(tail) + Len(piece) /\ \A i \in 1 .. Len(tail) : t[i] = tail[i]
          /\ \A i \in 1 .. Len(piece) : t[Len(tail) + i] = piece[i]
      <3>1. tail \in Text /\ piece \in Text BY <1>2
      <3>2. /\ Len(tail \o piece) = Len(tail) + Len(piece)
            /\ \A i \in 1 .. Len(tail) : (tail \o piece)[i] = tail[i]
            /\ \A i \in 1 .. Len(piece) : (tail \o piece)[Len(tail) + i] = piece[i]
        BY SMTT(60), <3>1, CatIs
      <3> QED BY <2>1, <3>2
    <2> QED BY <1>4, <1>5, <2>1, <2>2
  <1>7. Unwrapped(joined)
    <2>1. ASSUME NEW i \in 1 .. k + p PROVE joined[i] # "z"
      <3>1. CASE i \in 1 .. k BY <1>2, <1>5, <1>6, <3>1 DEF Unwrapped
      <3>2. CASE ~(i \in 1 .. k)
        <4>1. i - k \in 1 .. p /\ k + (i - k) = i BY <3>2
        <4> QED BY <1>4, <1>6, <4>1 DEF Unwrapped
      <3> QED BY <3>1, <3>2
    <2> QED BY <1>6, <2>1 DEF Unwrapped
  <1>8. PICK rest \in Text : rest = TailOf(joined) /\ rest \in {<<>>, <<"u1">>} BY <1>7, TailIs
  <1>9. PICK q \in Nat : q = Len(rest) /\ q <= k + p BY ZenonT(40), <1>6, <1>7, <1>8, TailIs, TextIs
  <1>10. PICK f \in Nat : f = k + p - q /\ f + q = k + p
    <2>1. k + p - q \in Nat /\ (k + p - q) + q = k + p BY <1>9
    <2> QED BY <2>1
  <1>11. PICK front \in Text : front = SubSeq(joined, 1, f) /\ Len(front) = f
                               /\ \A i \in 1 .. f : front[i] = joined[i]
    <2>1. f \in Int /\ f <= Len(joined) /\ 1 \in Nat /\ 1 >= 1 BY <1>6, <1>9, <1>10
    <2>2. /\ SubSeq(joined, 1, f) \in Text
          /\ Len(SubSeq(joined, 1, f)) = IF 1 <= f THEN f - 1 + 1 ELSE 0
          /\ \A i \in 1 .. f - 1 + 1 : SubSeq(joined, 1, f)[i] = joined[1 + i - 1]
      BY <2>1, SubIs
    <2>3. (IF 1 <= f THEN f - 1 + 1 ELSE 0) = f /\ f - 1 + 1 = f /\ \A i \in 1 .. f : 1 + i - 1 = i
      OBVIOUS
    <2> QED BY <2>2, <2>3
  <1>12. PICK adds \in Text : adds = TokenAdds(tail, piece) /\ adds = Sanitized(front)
    <2>1. TokenAdds(tail, piece) = Sanitized(front)
      BY <1>6, <1>8, <1>9, <1>10, <1>11 DEF TokenAdds
    <2>2. Unwrapped(front)
      <3>1. \A i \in 1 .. f : i \in 1 .. Len(joined) BY <1>6, <1>10
      <3> QED BY <1>7, <1>11, <3>1 DEF Unwrapped
    <2> QED BY <2>1, <2>2, SanitizedIs
  <1>13. Len(adds) = f /\ \A i \in 1 .. f, sym \in TagSymbols : adds[i] = sym <=> joined[i] = sym
    <2>1. adds = [i \in 1 .. f |-> IF \/ front[i] = "u1" /\ (i = f \/ front[i + 1] # "u2")
                                      \/ front[i] = "u2" /\ (i = 1 \/ front[i - 1] # "u1")
                                   THEN "?" ELSE front[i]]
      BY <1>11, <1>12 DEF Sanitized
    <2>2. Len(adds) = f BY <2>1
    <2>3. \A sym \in TagSymbols : sym # "?" /\ sym # "u1" /\ sym # "u2" BY DEF TagSymbols
    <2> QED BY <1>11, <2>1, <2>2, <2>3
  <1>14. PICK more \in Text : more = raw \o adds /\ Len(more) = n + f
                              /\ (\A i \in 1 .. n : more[i] = raw[i])
                              /\ \A i \in 1 .. f : more[n + i] = adds[i]
    <2>1. PICK t \in Text : t = raw \o adds BY <1>1, CatIs
    <2>2. /\ Len(t) = Len(raw) + Len(adds) /\ \A i \in 1 .. Len(raw) : t[i] = raw[i]
          /\ \A i \in 1 .. Len(adds) : t[Len(raw) + i] = adds[i]
      <3>1. raw \in Text /\ adds \in Text BY <1>1
      <3>2. /\ Len(raw \o adds) = Len(raw) + Len(adds)
            /\ \A i \in 1 .. Len(raw) : (raw \o adds)[i] = raw[i]
            /\ \A i \in 1 .. Len(adds) : (raw \o adds)[Len(raw) + i] = adds[i]
        BY SMTT(60), <3>1, CatIs
      <3> QED BY <2>1, <3>2
    <2> QED BY <1>3, <1>13, <2>1, <2>2
  <1>15. Len(given) = n + k BY <1>3, <1>5 DEF Reads
  <1>16. PICK both \in Text : both = given \o piece /\ Len(both) = n + k + p
                              /\ (\A i \in 1 .. n + k : both[i] = given[i])
                              /\ \A i \in 1 .. p : both[n + k + i] = piece[i]
    <2>1. PICK t \in Text : t = given \o piece BY <1>1, CatIs
    <2>2. /\ Len(t) = Len(given) + Len(piece) /\ \A i \in 1 .. Len(given) : t[i] = given[i]
          /\ \A i \in 1 .. Len(piece) : t[Len(given) + i] = piece[i]
      <3>1. given \in Text /\ piece \in Text BY <1>1
      <3>2. /\ Len(given \o piece) = Len(given) + Len(piece)
            /\ \A i \in 1 .. Len(given) : (given \o piece)[i] = given[i]
            /\ \A i \in 1 .. Len(piece) : (given \o piece)[Len(given) + i] = piece[i]
        BY SMTT(60), <3>1, CatIs
      <3> QED BY <2>1, <3>2
    <2>3. PICK m \in Nat : m = Len(given) /\ m = n + k BY <1>15
    <2>4. /\ Len(t) = m + p /\ \A i \in 1 .. m : t[i] = given[i]
          /\ \A i \in 1 .. p : t[m + i] = piece[i]
      BY <1>4, <2>2, <2>3
    <2>5. Len(t) = n + k + p BY <2>3, <2>4
    <2>6. \A i \in 1 .. n + k : t[i] = given[i] BY <2>3, <2>4
    <2>7. \A i \in 1 .. p : t[n + k + i] = piece[i] BY <2>3, <2>4
    <2> QED BY <2>1, <2>5, <2>6, <2>7
  <1>17. Len(both) = Len(more) + Len(rest) BY <1>9, <1>10, <1>14, <1>16
  <1>18. ASSUME NEW sym \in TagSymbols, NEW i \in 1 .. Len(both)
         PROVE  both[i] = sym <=> i <= Len(more) /\ more[i] = sym
    <2>1. sym # "u1" BY DEF TagSymbols
    <2>2. i \in 1 .. n + k + p BY <1>16
    <2>3. CASE i <= n
      <3>1. i \in 1 .. n + k /\ i \in 1 .. n BY <2>2, <2>3
      <3>2. given[i] = sym <=> i <= n /\ raw[i] = sym BY <1>3, <1>15, <3>1 DEF Reads
      <3> QED BY <1>14, <1>16, <2>3, <3>1, <3>2
    <2>4. CASE n < i /\ i <= n + k
      <3>1. i \in 1 .. n + k /\ ~(i <= n) BY <2>2, <2>4
      <3>2. given[i] # sym BY <1>3, <1>15, <3>1 DEF Reads
      <3>3. PICK j \in Nat : j = i - n /\ n + j = i /\ j \in 1 .. k
        <4>1. i - n \in Nat /\ n + (i - n) = i /\ i - n \in 1 .. k BY <2>2, <2>4
        <4> QED BY <4>1
      <3>4. joined[j] = "u1"
        <4>1. k # 0 BY <3>3
        <4>2. tail = <<"u1">> BY <1>1, <1>5, <4>1
        <4>3. k = 1 /\ tail[1] = "u1" BY <1>5, <4>2
        <4> QED BY <1>6, <3>3, <4>3
      <3>5. i <= n + f => j \in 1 .. f BY <3>3
      <3>6. i <= n + f => more[i] # sym BY <1>13, <1>14, <2>1, <3>3, <3>4, <3>5
      <3> QED BY <1>14, <1>16, <3>1, <3>2, <3>6
    <2>5. CASE n + k < i
      <3>1. PICK j \in Nat : j = i - n - k /\ n + k + j = i /\ j \in 1 .. p
        <4>1. i - n - k \in Nat /\ n + k + (i - n - k) = i /\ i - n - k \in 1 .. p BY <2>2, <2>5
        <4> QED BY <4>1
      <3>2. both[i] = joined[k + j] BY <1>6, <1>16, <3>1
      <3>3. n + (k + j) = i /\ k + j \in 1 .. k + p BY <3>1
      <3>4. i <= n + f => k + j \in 1 .. f BY <3>3
      <3>5. i <= n + f => (more[i] = sym <=> joined[k + j] = sym)
        <4>1. i <= n + f => more[i] = adds[k + j] BY <1>14, <3>3, <3>4
        <4> QED BY <1>13, <3>4, <4>1
      <3>6. ~(i <= n + f) => joined[k + j] = "u1"
        <4>1. ASSUME ~(i <= n + f) PROVE joined[k + j] = "u1"
          <5>1. q # 0 BY <1>10, <3>3, <4>1
          <5>2. rest = <<"u1">> BY <1>8, <1>9, <5>1
          <5>3. joined[Len(joined)] = "u1" 
            <6>1. <<"u1">> # <<>> OBVIOUS
            <6> QED BY <1>8, <5>2, <6>1 DEF TailOf
          <5>4. q = 1 BY <1>9, <5>2
          <5>5. k + j = k + p BY <1>10, <3>1, <3>3, <4>1, <5>4
          <5> QED BY <1>6, <5>3, <5>5
        <4> QED BY <4>1
      <3> QED BY <1>14, <2>1, <3>2, <3>5, <3>6
    <2> QED BY <2>2, <2>3, <2>4, <2>5
  <1>19. rest = TailOf(tail \o piece) BY <1>6, <1>8
  <1>20. more = raw \o TokenAdds(tail, piece) BY <1>12, <1>14
  <1>21. Reads(more, rest, both) BY <1>8, <1>14, <1>16, <1>17, <1>18 DEF Reads
  <1> QED BY <1>16, <1>19, <1>20, <1>21

\* Behind a text, its tags stay, and those of what comes are there too.
LEMMA TagsOn ==
    ASSUME NEW s \in Text, NEW t \in Text
    PROVE  /\ At(s, ThinkOpen) \subseteq At(s \o t, ThinkOpen)
           /\ At(s, ThinkClose) \subseteq At(s \o t, ThinkClose)
           /\ \A i \in At(t, ThinkOpen) : Len(s) + i \in At(s \o t, ThinkOpen)
           /\ \A i \in At(s \o t, ThinkClose) :
                 i \in At(s, ThinkClose) \/ i > Len(s) \/ (i = Len(s) /\ s # <<>> /\ s[i] = "c1")
  <1>1. PICK n \in Nat : n = Len(s) /\ (s = <<>> <=> n = 0) BY TextIs
  <1>2. PICK m \in Nat : m = Len(t) BY TextIs
  <1>3. PICK u \in Text : u = s \o t BY ZenonT(40), CatIs
  <1>4. Len(u) = n + m /\ (\A i \in 1 .. n : u[i] = s[i]) /\ \A i \in 1 .. m : u[n + i] = t[i]
    <2>1. Len(u) = Len(s) + Len(t) /\ (\A i \in 1 .. Len(s) : u[i] = s[i])
          /\ \A i \in 1 .. Len(t) : u[Len(s) + i] = t[i]
      BY <1>3, CatIs
    <2> QED BY <1>1, <1>2, <2>1
  <1>5. \A i : i \in 1 .. n - 1 => i \in 1 .. n /\ i + 1 \in 1 .. n /\ i \in 1 .. n + m - 1 OBVIOUS
  <1>6. At(s, ThinkOpen) \subseteq At(u, ThinkOpen) BY <1>1, <1>4, <1>5, PairsAre
  <1>7. At(s, ThinkClose) \subseteq At(u, ThinkClose) BY <1>1, <1>4, <1>5, PairsAre
  <1>8. ASSUME NEW i \in At(t, ThinkOpen) PROVE n + i \in At(u, ThinkOpen)
    <2>1. i \in 1 .. m - 1 /\ t[i] = "o1" /\ t[i + 1] = "o2" BY <1>2, PairsAre
    <2>2. i \in 1 .. m /\ i + 1 \in 1 .. m /\ n + i \in 1 .. n + m - 1 /\ n + (i + 1) = n + i + 1
      BY <2>1
    <2>3. u[n + i] = "o1" /\ u[n + i + 1] = "o2" BY <1>4, <2>1, <2>2
    <2>4. PICK j \in Nat : j = n + i BY <2>1
    <2>5. j \in 1 .. Len(u) - 1 /\ u[j] = "o1" /\ u[j + 1] = "o2" BY <1>4, <2>2, <2>3, <2>4
    <2>6. j \in At(u, ThinkOpen) BY <2>5, PairsAre
    <2> QED BY <2>4, <2>6
  <1>9. ASSUME NEW i \in Nat, i \in At(u, ThinkClose)
        PROVE  i \in At(s, ThinkClose) \/ i > n \/ (i = n /\ n # 0 /\ s[n] = "c1")
    <2>1. i \in 1 .. n + m - 1 /\ u[i] = "c1" /\ u[i + 1] = "c2" BY <1>4, <1>9, PairsAre
    <2>2. ASSUME i < n PROVE i \in At(s, ThinkClose)
      <3>1. i \in 1 .. n - 1 /\ i \in 1 .. n /\ i + 1 \in 1 .. n BY <2>1, <2>2
      <3>2. s[i] = "c1" /\ s[i + 1] = "c2" BY <1>4, <2>1, <3>1
      <3> QED BY <1>1, <3>1, <3>2, PairsAre
    <2>3. ASSUME i = n PROVE n # 0 /\ s[n] = "c1"
      <3>1. n \in 1 .. n /\ n # 0 BY <2>1, <2>3
      <3> QED BY <1>4, <2>1, <2>3, <3>1
    <2>4. i < n \/ i = n \/ i > n OBVIOUS
    <2>5. CASE i < n BY <2>2, <2>5
    <2>6. CASE i = n BY <2>3, <2>6
    <2>7. CASE i > n BY <2>7
    <2> QED BY <2>4, <2>5, <2>6, <2>7
  <1>10. \A i \in At(u, ThinkClose) : i \in Nat BY PairsAre
  <1> QED BY <1>1, <1>3, <1>6, <1>7, <1>8, <1>9, <1>10

\* What is the first part of a text has no <think> behind a </think> when it has not.
LEMMA OnceBefore ==
    ASSUME NEW s \in Text, NEW t \in Text, Once(s \o t) PROVE Once(s)
  BY TagsOn DEF Once

\* As long as a text without an end of the thinking is thought about, more of it is.
LEMMA ThoughtMore ==
    ASSUME NEW raw \in Text, NEW c, Thoughtful(c, raw),
           c.mode = "REASONING" => At(raw, ThinkClose) = {}, NEW x \in Text
    PROVE  Thoughtful(Ext(c, x), raw \o x)
  <1>1. c \in Cores /\ c.mode # "TOOL_BUFFER" /\ EndsWith(raw, c.window) BY DEF Thoughtful
  <1>2. PICK w \in Text : w = c.window BY <1>1, CoresAre
  <1>3. PICK m \in Nat : m = Len(w) /\ (w = <<>> <=> m = 0) BY TextIs
  <1>4. PICK n \in Nat : n = Len(raw) /\ (raw = <<>> <=> n = 0) BY TextIs
  <1>5. PICK p \in Nat : p = Len(x) /\ (x = <<>> <=> p = 0) BY TextIs
  <1>6. PICK d : d = Ext(c, x) OBVIOUS
  <1>7. d \in Cores /\ d.window = w \o x /\ d.mode = c.mode BY <1>1, <1>2, <1>6, ExtIs
  <1>8. PICK v \in Text : v = w \o x BY CatIs
  <1>9. Len(v) = m + p /\ (\A i \in 1 .. m : v[i] = w[i]) /\ \A i \in 1 .. p : v[m + i] = x[i]
    <2>1. Len(v) = Len(w) + Len(x) /\ (\A i \in 1 .. Len(w) : v[i] = w[i])
          /\ \A i \in 1 .. Len(x) : v[Len(w) + i] = x[i]
      BY <1>8, CatIs
    <2> QED BY <1>3, <1>5, <2>1
  <1>10. PICK u \in Text : u = raw \o x BY CatIs
  <1>11. Len(u) = n + p /\ (\A i \in 1 .. n : u[i] = raw[i]) /\ \A i \in 1 .. p : u[n + i] = x[i]
    <2>1. Len(u) = Len(raw) + Len(x) /\ (\A i \in 1 .. Len(raw) : u[i] = raw[i])
          /\ \A i \in 1 .. Len(x) : u[Len(raw) + i] = x[i]
      BY <1>10, CatIs
    <2> QED BY <1>4, <1>5, <2>1
  <1>12. m <= n /\ \A i \in 1 .. m : w[i] = raw[n - m + i] BY <1>1, <1>2, <1>3, <1>4 DEF EndsWith
  <1>13. EndsWith(u, v)
    <2>1. m + p <= n + p BY <1>12
    <2>2. ASSUME NEW i \in 1 .. m + p PROVE v[i] = u[(n + p) - (m + p) + i]
      <3>1. (n + p) - (m + p) + i = n - m + i OBVIOUS
      <3>2. CASE i \in 1 .. m
        <4>1. n - m + i \in 1 .. n BY <1>12, <3>2
        <4> QED BY <1>9, <1>11, <1>12, <3>1, <3>2, <4>1
      <3>3. CASE ~(i \in 1 .. m)
        <4>1. PICK j \in Nat : j = i - m /\ m + j = i /\ j \in 1 .. p
          <5>1. i - m \in 1 .. p /\ m + (i - m) = i /\ i - m \in Nat BY <3>3
          <5> QED BY <5>1
        <4>2. (n + p) - (m + p) + i = n + j BY <4>1
        <4>3. v[m + j] = u[n + j] BY <1>9, <1>11, <4>1
        <4> QED BY <4>1, <4>2, <4>3
      <3> QED BY <3>2, <3>3
    <2> QED BY <1>9, <1>11, <2>1, <2>2 DEF EndsWith
  <1>14. Len(u) - Len(v) = n - m
    <2>1. (n + p) - (m + p) = n - m OBVIOUS
    <2> QED BY <1>9, <1>11, <2>1
  <1>15. CASE c.mode = "REASONING"
    <2>1. At(raw, ThinkClose) = {} BY <1>15
    <2>2. w = <<>> /\ raw # <<>> => raw[n] # "c1" BY <1>2, <1>4, <1>15 DEF Thoughtful
    <2>3. ASSUME NEW i \in At(u, ThinkClose) PROVE i > n - m
      <3>1. i > n \/ (i = n /\ raw # <<>> /\ raw[n] = "c1") BY <1>4, <1>10, <2>1, TagsOn
      <3>2. i \in Nat BY PairsAre
      <3>3. CASE m = 0
        <4>1. i > n BY <1>3, <2>2, <3>1, <3>3
        <4> QED BY <3>2, <3>3, <4>1
      <3>4. CASE m # 0
        <4>1. i >= n BY <3>1, <3>2
        <4> QED BY <3>2, <3>4, <4>1
      <3> QED BY <3>3, <3>4
    <2>4. ASSUME v = <<>>, u # <<>> PROVE u[Len(u)] # "c1"
      <3>1. Len(v) = 0 BY <2>4
      <3>2. m = 0 /\ p = 0 BY <1>9, <3>1
      <3>3. Len(u) = n /\ n # 0 BY <1>11, <2>4, <3>2, TextIs
      <3>4. n \in 1 .. n BY <3>3
      <3> QED BY <1>3, <1>4, <1>11, <2>2, <3>2, <3>3, <3>4
    <2>5. d.mode = "REASONING" BY <1>7, <1>15
    <2> QED BY <1>6, <1>7, <1>8, <1>10, <1>13, <1>14, <2>3, <2>4, <2>5 DEF Thoughtful
  <1>16. CASE c.mode # "REASONING"
    <2>1. c.mode = "CONTENT"
      <3>1. c.mode \in Modes BY <1>1, CoresAre
      <3> QED BY <1>1, <1>16, <3>1 DEF Modes
    <2>2. PICK i \in At(raw, ThinkClose) : i < n - m BY <1>2, <1>3, <1>4, <2>1 DEF Thoughtful
    <2>3. i \in At(u, ThinkClose) BY <1>10, TagsOn
    <2>4. d.mode = "CONTENT" BY <1>7, <2>1
    <2> QED BY <1>6, <1>7, <1>8, <1>10, <1>13, <1>14, <2>2, <2>3, <2>4 DEF Thoughtful
  <1> QED BY <1>15, <1>16

\* The first texts given stay the first when another comes.
LEMMA GivenFirst ==
    ASSUME NEW pieces \in Seq(Text), NEW piece \in Text
    PROVE  LET a == Append(pieces, piece)
               n == Len(pieces)
           IN  /\ a \in Seq(Text) /\ Len(a) = n + 1 /\ n \in Nat
               /\ \A m \in Int : m <= n => SubSeq(a, 1, m) = SubSeq(pieces, 1, m)
               /\ SubSeq(a, 1, n) = pieces /\ SubSeq(a, 1, n + 1) = a /\ SubSeq(pieces, 1, n) = pieces
  <1>1. PICK n \in Nat : n = Len(pieces) BY LenProperties
  <1>2. PICK a : a = Append(pieces, piece) OBVIOUS
  <1>3. a \in Seq(Text) /\ Len(a) = n + 1 /\ \A i \in 1 .. n : a[i] = pieces[i]
    BY <1>1, <1>2, AppendProperties
  <1>4. ASSUME NEW m \in Int, m <= n PROVE SubSeq(a, 1, m) = SubSeq(pieces, 1, m)
    <2>1. \A i \in 1 .. m : a[i] = pieces[i] BY <1>3, <1>4
    <2>2. SubSeq(a, 1, m) = [i \in 1 .. m |-> a[i]]
      BY <1>3, <1>4
    <2>3. SubSeq(pieces, 1, m) = [i \in 1 .. m |-> pieces[i]]
      BY <1>1, <1>4
    <2> QED BY <2>1, <2>2, <2>3
  <1>5. SubSeq(pieces, 1, n) = pieces BY <1>1, SubSeqFull
  <1>6. SubSeq(a, 1, n + 1) = a BY <1>3, SubSeqFull
  <1>7. SubSeq(a, 1, n) = pieces BY <1>4, <1>5
  <1> QED BY <1>1, <1>2, <1>3, <1>4, <1>5, <1>6, <1>7

\* The thinking ends in the n-th of the texts.
EndsAt(pieces, n) ==
    /\ At(FlattenSeq(SubSeq(pieces, 1, n)), ThinkClose) # {}
    /\ At(FlattenSeq(SubSeq(pieces, 1, n - 1)), ThinkClose) = {}

\* Of an answer without tools that began by thinking, and does not start to again: as
\* long as it thinks no </think> has come, when it has just ended the last text had one,
\* and the first content token comes behind the text that had it.
Counted(e) ==
    /\ Reads(e.raw, e.tail, FlattenSeq(e.pieces))
    /\ Once(e.raw) =>
          /\ ~e.stopHit =>
                /\ Thoughtful(Core(e), e.raw)
                /\ e.mode = "REASONING" => At(e.raw, ThinkClose) = {}
                /\ e.mode = "CONTENT" /\ e.firstContent < 0 => EndsAt(e.pieces, e.count)
          /\ e.mode # "TOOL_BUFFER"
          /\ e.firstContent >= 0 => EndsAt(e.pieces, e.firstContent)

\* Where the thinking ended among the first texts stays when another comes.
LEMMA EndsAtOn ==
    ASSUME NEW pieces \in Seq(Text), NEW piece \in Text, NEW n \in Int, n <= Len(pieces),
           EndsAt(pieces, n)
    PROVE  EndsAt(Append(pieces, piece), n)
  <1>1. PICK a : a = Append(pieces, piece) OBVIOUS
  <1>2. PICK m \in Int : m = n - 1 /\ m <= n
    <2>1. n - 1 \in Int /\ n - 1 <= n OBVIOUS
    <2> QED BY <2>1
  <1>3. m <= Len(pieces)
    <2>1. PICK k \in Nat : k = Len(pieces) BY LenProperties
    <2> QED BY <1>2, <2>1
  <1>4. SubSeq(a, 1, n) = SubSeq(pieces, 1, n) /\ SubSeq(a, 1, m) = SubSeq(pieces, 1, m)
    BY <1>1, <1>3, GivenFirst
  <1> QED BY <1>1, <1>2, <1>4 DEF EndsAt

\* A token keeps the count right.
LEMMA CountedToken ==
    ASSUME Asked(req), ~HasTools, NameLimit \in Nat, NEW e, Running(req, e), Counted(e),
           NEW piece \in Text, Unwrapped(piece)
    PROVE  Counted(EmitToken(e, piece))
  <1>1. e \in Em /\ Plainly(e) /\ e.firstContent \in -1 .. e.count /\ e.count = Len(e.pieces)
    BY DEF Running, Typed
  <1>2. e.pieces \in Seq(Text) /\ e.raw \in Text /\ e.tail \in Text /\ e.mode \in Modes
    <2>1. e.pieces \in Seq(Text) BY <1>1 DEF Em
    <2> QED BY <1>1, <2>1, EmTexts
  <1>3. PICK n \in Nat : n = e.count /\ n = Len(e.pieces) BY <1>1, <1>2, LenProperties
  <1>4. PICK first \in Int : first = e.firstContent /\ first <= n BY <1>1, <1>3
  <1>5. CASE e.stopHit
    <2>1. EmitToken(e, piece) = e BY <1>5 DEF EmitToken
    <2> QED BY <2>1
  <1>6. CASE ~e.stopHit
    <2>1. PICK t : TakenBy(t, e, piece) /\ EmitToken(e, piece) = Advanced(t) BY <1>1, <1>6, TokenIs
    <2>2. PICK adds \in Text : adds = TokenAdds(e.tail, piece) BY <1>1, TokenAddsIs
    <2>3. /\ t \in Em /\ t.raw = e.raw \o adds /\ t.tail = TailOf(e.tail \o piece)
          /\ t.pieces = Append(e.pieces, piece) /\ t.count = e.count + 1
          /\ t.firstContent = IF CountsAsContent(e, piece) THEN e.count ELSE e.firstContent
          /\ t.mode = e.mode /\ t.stopHit = FALSE /\ Core(t) = Ext(Core(e), adds)
      BY <2>1, <2>2 DEF TakenBy, Ext
    <2>4. PICK given \in Text : given = FlattenSeq(e.pieces) BY <1>2, FlattenType
    <2>5. FlattenSeq(t.pieces) = given \o piece BY <1>2, <2>3, <2>4, FlattenAppend
    <2>6. Reads(e.raw, e.tail, given) BY <2>4 DEF Counted
    <2>7. Reads(t.raw, t.tail, given \o piece) BY <2>2, <2>3, <2>6, ReadsOn
    <2>8. PICK f : f = Advanced(t) /\ AdvancedBy(f, t) BY <2>3, AdvancedIs
    <2>9. /\ f \in Em /\ f.raw = t.raw /\ f.tail = t.tail /\ f.pieces = t.pieces
          /\ f.count = t.count /\ (f.mode # "TOOL_BUFFER" => f.firstContent = t.firstContent)
      BY <2>8 DEF AdvancedBy, HaltedBy, Beside
    <2>10. Reads(f.raw, f.tail, FlattenSeq(f.pieces)) BY <2>5, <2>7, <2>9
    <2>11. ASSUME Once(f.raw)
           PROVE  /\ ~f.stopHit =>
                        /\ Thoughtful(Core(f), f.raw)
                        /\ f.mode = "REASONING" => At(f.raw, ThinkClose) = {}
                        /\ f.mode = "CONTENT" /\ f.firstContent < 0 => EndsAt(f.pieces, f.count)
                  /\ f.mode # "TOOL_BUFFER"
                  /\ f.firstContent >= 0 => EndsAt(f.pieces, f.firstContent)
      <3>1. PICK raw \in Text : raw = e.raw \o adds BY <1>2, CatIs
      <3>2. Once(raw) /\ f.raw = raw /\ t.raw = raw BY <2>3, <2>9, <2>11, <3>1
      <3>3. Once(e.raw) BY <1>2, <3>1, <3>2, OnceBefore
      <3>4. PICK c : c = Core(e) /\ c \in Cores /\ c.mode = e.mode BY <1>1, CoreIs
      <3>5. /\ Thoughtful(c, e.raw) /\ (e.mode = "REASONING" => At(e.raw, ThinkClose) = {})
            /\ e.mode = "CONTENT" /\ e.firstContent < 0 => EndsAt(e.pieces, e.count)
            /\ e.mode # "TOOL_BUFFER" /\ (e.firstContent >= 0 => EndsAt(e.pieces, e.firstContent))
        BY <1>6, <3>3, <3>4 DEF Counted
      <3>6. Thoughtful(Core(t), raw)
        <4>1. Thoughtful(Ext(c, adds), e.raw \o adds) BY <1>2, <3>4, <3>5, ThoughtMore
        <4> QED BY <2>3, <3>1, <3>4, <4>1
      <3>7. t.firstContent >= 0 => EndsAt(t.pieces, t.firstContent)
        <4>1. CASE CountsAsContent(e, piece)
          <5>1. e.firstContent < 0 /\ e.mode = "CONTENT" /\ t.firstContent = n
            BY <1>3, <2>3, <4>1 DEF CountsAsContent
          <5>2. EndsAt(e.pieces, n) BY <1>3, <3>5, <5>1
          <5>3. EndsAt(Append(e.pieces, piece), n) BY <1>2, <1>3, <5>2, EndsAtOn
          <5> QED BY <2>3, <5>1, <5>3
        <4>2. CASE ~CountsAsContent(e, piece)
          <5>1. t.firstContent = first BY <1>4, <2>3, <4>2
          <5>2. ASSUME first >= 0 PROVE EndsAt(Append(e.pieces, piece), first)
            <6>1. EndsAt(e.pieces, first) BY <1>4, <3>5, <5>2
            <6> QED BY <1>2, <1>3, <1>4, <6>1, EndsAtOn
          <5> QED BY <2>3, <5>1, <5>2
        <4> QED BY <4>1, <4>2
      <3>8. ASSUME e.mode = "CONTENT" PROVE t.firstContent >= 0
        <4>1. PICK i : i \in At(e.raw, ThinkClose) BY <3>4, <3>5, <3>8 DEF Thoughtful
        <4>2. i \in At(given, ThinkClose) /\ i \in At(raw, ThinkClose)
          BY <1>2, <2>6, <3>1, <4>1, ReadsTags, TagsOn
        <4>3. PICK k \in Nat : k = Len(given) BY TextIs
        <4>4. i \in 1 .. k - 1 BY <4>2, <4>3, PairsAre
        <4>5. At(piece, ThinkOpen) = {}
          <5>1. ASSUME NEW o \in At(piece, ThinkOpen) PROVE FALSE
            <6>1. k + o \in At(given \o piece, ThinkOpen) BY <4>3, <5>1, TagsOn
            <6>2. k + o \in At(raw, ThinkOpen) BY <2>7, <3>2, <6>1, ReadsTags
            <6>3. k + o < i BY <3>2, <4>2, <6>2 DEF Once
            <6>4. o \in 1 .. Len(piece) - 1 /\ Len(piece) \in Nat BY PairsAre, TextIs
            <6> QED BY <4>4, <6>3, <6>4
          <5> QED BY <5>1
        <4>6. CASE e.firstContent < 0
          <5>1. t.firstContent = n BY <1>3, <2>3, <3>8, <4>5, <4>6 DEF CountsAsContent
          <5> QED BY <5>1
        <4>7. CASE ~(e.firstContent < 0)
          <5>1. ~CountsAsContent(e, piece) BY <4>7 DEF CountsAsContent
          <5>2. t.firstContent = first /\ ~(first < 0) BY <1>4, <2>3, <4>7, <5>1
          <5> QED BY <5>2
        <4> QED BY <4>6, <4>7
      <3>9. CASE t.mode # "TOOL_BUFFER" /\ StopHits(t.window) # {}
        <4>1. HaltedBy(f, t) BY <2>8, <3>9 DEF AdvancedBy
        <4>2. f.stopHit = TRUE /\ f.mode = e.mode /\ f.firstContent = t.firstContent
          BY <2>3, <4>1 DEF HaltedBy
        <4> QED BY <2>9, <3>5, <3>7, <4>2
      <3>10. CASE ~(t.mode # "TOOL_BUFFER" /\ StopHits(t.window) # {})
        <4>1. Core(f) = Left(req, Core(t)) /\ f.stopHit = FALSE
          BY <2>3, <2>8, <3>10 DEF AdvancedBy, Beside
        <4>2. PICK d : d = Core(f) /\ d.mode = f.mode BY <2>9, CoreIs
        <4>3. Thoughtful(d, raw) /\ (d.mode = "REASONING" => At(raw, ThinkClose) = {})
          BY <3>2, <3>6, <4>1, <4>2, ThinkLeft
        <4>4. f.mode # "TOOL_BUFFER" BY <4>2, <4>3 DEF Thoughtful
        <4>5. f.firstContent = t.firstContent BY <2>9, <4>4
        <4>6. ASSUME f.mode = "CONTENT", f.firstContent < 0 PROVE EndsAt(f.pieces, f.count)
          <5>1. e.mode = "REASONING"
            <6>1. t.firstContent \in Int BY <2>3 DEF Em
            <6>2. ~(t.firstContent >= 0) BY <4>5, <4>6, <6>1
            <6> QED BY <1>2, <3>5, <3>8, <6>2 DEF Modes
          <5>2. At(given, ThinkClose) = {} BY <2>6, <3>5, <5>1, ReadsTags
          <5>3. At(raw, ThinkClose) # {} BY <4>2, <4>3, <4>6 DEF Thoughtful
          <5>4. At(given \o piece, ThinkClose) # {} BY <2>7, <3>2, <5>3, ReadsTags
          <5>5. PICK m \in Nat : m = n + 1 /\ m - 1 = n
            <6>1. n + 1 \in Nat /\ (n + 1) - 1 = n OBVIOUS
            <6> QED BY <6>1
          <5>6. SubSeq(f.pieces, 1, m) = f.pieces /\ SubSeq(f.pieces, 1, n) = e.pieces /\ f.count = m
            <6>1. PICK a : a = Append(e.pieces, piece) OBVIOUS
            <6>2. PICK k : k = Len(e.pieces) OBVIOUS
            <6>3. SubSeq(a, 1, k) = e.pieces /\ SubSeq(a, 1, k + 1) = a
              BY <1>2, <6>1, <6>2, GivenFirst
            <6>4. f.pieces = a /\ f.count = m /\ k = n BY <1>3, <2>3, <2>9, <5>5, <6>1, <6>2
            <6> QED BY <5>5, <6>3, <6>4
          <5>7. FlattenSeq(f.pieces) = given \o piece BY <2>5, <2>9
          <5> QED BY <2>4, <5>2, <5>4, <5>5, <5>6, <5>7 DEF EndsAt
        <4> QED BY <2>9, <3>2, <3>7, <4>2, <4>3, <4>4, <4>5, <4>6
      <3> QED BY <3>9, <3>10
    <2>12. Counted(f) BY <2>10, <2>11 DEF Counted
    <2> QED BY <2>1, <2>8, <2>12
  <1> QED BY <1>5, <1>6

\* So does what leaves all of this alone.
LEMMA CountedSame ==
    ASSUME NEW e, Counted(e), NEW f, Core(f) = Core(e), f.raw = e.raw, f.tail = e.tail,
           f.pieces = e.pieces, f.count = e.count, f.stopHit = e.stopHit, f.mode = e.mode,
           f.firstContent = e.firstContent
    PROVE  Counted(f)
  BY DEF Counted

\* Telling what a token is leaves all of this alone.
LEMMA CountedClassified ==
    ASSUME NEW e, Counted(e), NEW token PROVE Counted(Classified(e, token))
  <1>1. PICK c : c = Classified(e, token) OBVIOUS
  <1>2. PICK s : c = [e EXCEPT !.suppress = s] BY <1>1 DEF Classified
  <1>3. /\ c.raw = e.raw /\ c.tail = e.tail /\ c.pieces = e.pieces /\ c.count = e.count
        /\ c.stopHit = e.stopHit /\ c.mode = e.mode /\ c.firstContent = e.firstContent
        /\ c.window = e.window /\ c.toolBuffer = e.toolBuffer /\ c.content = e.content
        /\ c.reasoning = e.reasoning /\ c.fromReasoning = e.fromReasoning
        /\ c.fallback = e.fallback /\ c.checkedPrefix = e.checkedPrefix
    BY <1>2
  <1>4. Core(c) = Core(e) BY <1>3 DEF Core
  <1> QED BY <1>1, <1>3, <1>4, CountedSame

\* A streamed token.
LEMMA CountedStreamed ==
    ASSUME req \in Requests, ~HasTools, NEW e, Running(req, e), Counted(e),
           NEW token \in req.vocabulary.tokens
    PROVE  Counted(Streamed(e, token))
  <1>1. Asked(req) /\ NameLimit \in Nat BY ReqIs, EmitterAssumption
  <1>2. PICK c : c = Classified(e, token) OBVIOUS
  <1>3. Running(req, c) /\ Counted(c) BY <1>1, <1>2, ClassifiedIs, CountedClassified
  <1>4. PICK piece \in Text : piece = TokenText[token] /\ Unwrapped(piece) BY TokenTexts
  <1>5. PICK f : f = EmitToken(c, piece) OBVIOUS
  <1>6. Counted(f) BY <1>1, <1>3, <1>4, <1>5, CountedToken
  <1>7. Streamed(e, token) = c \/ Streamed(e, token) = f BY <1>2, <1>4, <1>5 DEF Streamed
  <1> QED BY <1>3, <1>6, <1>7

\* A token fed later.
LEMMA CountedFed ==
    ASSUME req \in Requests, ~HasTools, NEW l, Running(req, l.em), Counted(l.em),
           NEW token \in req.vocabulary.tokens
    PROVE  Counted(Fed(l, token).em)
  <1>1. Asked(req) /\ NameLimit \in Nat BY ReqIs, EmitterAssumption
  <1>2. PICK e : e = l.em /\ Running(req, e) /\ Counted(e) OBVIOUS
  <1>3. PICK c : c = Classified(e, token) OBVIOUS
  <1>4. Running(req, c) /\ Counted(c) BY <1>1, <1>2, <1>3, ClassifiedIs, CountedClassified
  <1>5. PICK piece \in Text : piece = TokenText[token] /\ Unwrapped(piece) BY TokenTexts
  <1>6. PICK f : f = EmitToken(c, piece) OBVIOUS
  <1>7. Counted(f) BY <1>1, <1>4, <1>5, <1>6, CountedToken
  <1>8. Fed(l, token) = l \/ Fed(l, token).em = c \/ Fed(l, token).em = f
    BY <1>2, <1>3, <1>5, <1>6 DEF Fed, Again, Waits
  <1>9. Fed(l, token).em \in {e, c, f} BY <1>2, <1>8
  <1> QED BY <1>2, <1>4, <1>7, <1>9

\* All tokens, fed at once.
LEMMA CountedReplayed ==
    ASSUME req \in Requests, ~HasTools, NEW e, Running(req, e), e.pieces = <<>>, Counted(e),
           NEW fed \in Seq(req.vocabulary.tokens)
    PROVE  Counted(Replayed(e, fed))
  <1>1. PICK count \in Nat : count = Len(fed) BY LenProperties
  <1> DEFINE f == CHOOSE f : Feeds(f, e, fed, count)
  <1>2. Feeds(f, e, fed, count) BY FeedsExist
  <1>3. Replayed(e, fed) = f[count].em BY <1>1 DEF Replayed, Feeds
  <1> HIDE DEF f
  <1>4. \A i \in 1 .. count : fed[i] \in req.vocabulary.tokens BY <1>1, ElementOfSeq
  <1> DEFINE Good(m) == Running(req, f[m].em) /\ Len(f[m].em.pieces) <= m /\ Counted(f[m].em)
             A == {m \in 0 .. count : ~Good(m)}
  <1>5. ASSUME A # {} PROVE FALSE
    <2> HIDE DEF Good
    <2>1. A \in SUBSET Nat OBVIOUS
    <2>2. PICK m \in A : \A j \in A : m <= j BY <1>5, <2>1, LeastNumber
    <2>3. m \in 0 .. count /\ m \in Nat /\ ~Good(m) BY <2>2
    <2>4. f[m] = IF m = 0 THEN Again(e) ELSE Fed(f[m - 1], fed[m]) BY <1>2, <2>3 DEF Feeds
    <2>5. CASE m = 0
      <3>1. f[m].em = e BY <2>4, <2>5 DEF Again
      <3>2. Len(<<>>) <= 0 OBVIOUS
      <3> QED BY <2>3, <2>5, <3>1, <3>2 DEF Good
    <2>6. CASE m # 0
      <3>1. m - 1 \in 0 .. count /\ ~(m <= m - 1) /\ m \in 1 .. count BY <2>3, <2>6
      <3>2. Good(m - 1) BY <2>2, <3>1
      <3>3. PICK k \in Nat : k = m - 1 /\ k + 1 = m BY <2>3, <3>1
      <3> DEFINE l == f[k]
      <3>4. Running(req, l.em) /\ Len(l.em.pieces) <= k /\ Counted(l.em) BY <3>2, <3>3 DEF Good
      <3>5. Running(req, Fed(l, fed[m]).em) /\ Len(Fed(l, fed[m]).em.pieces) <= k + 1
        BY <1>4, <3>1, <3>4, FedIs
      <3>6. Counted(Fed(l, fed[m]).em) BY <1>4, <3>1, <3>4, CountedFed
      <3> QED BY <2>3, <2>4, <2>6, <3>3, <3>5, <3>6 DEF Good
    <2> QED BY <2>5, <2>6
  <1> HIDE DEF Good
  <1>6. Good(count) BY <1>5
  <1> QED BY <1>3, <1>6 DEF Good

\* A new emitter that begins by thinking, and its first event.
LEMMA CountedStarted ==
    ASSUME NEW e, e = Emitter(TRUE) PROVE Counted(e) /\ Counted(Started(e))
  <1>1. e \in Em BY EmitterIs
  <1>2. /\ e.window = <<>> /\ e.raw = <<>> /\ e.tail = <<>> /\ e.pieces = <<>>
        /\ e.firstContent = -1 /\ e.stopHit = FALSE /\ e.mode = "REASONING"
    BY DEF Emitter
  <1>3. PICK none \in Text : none = <<>> /\ Len(none) = 0 /\ 1 .. 0 = {}
    <2>1. <<>> \in Text /\ Len(<<>>) = 0 /\ 1 .. 0 = {} BY EmptySeq DEF Text
    <2> QED BY <2>1
  <1>4. Reads(none, none, none) BY <1>3 DEF Reads
  <1>5. At(none, ThinkClose) = {}
    <2>1. \A i : i \in At(none, ThinkClose) => i \in 1 .. 0 - 1 BY <1>3, PairsAre
    <2> QED BY <2>1
  <1>6. PICK c : c = Core(e) /\ c \in Cores /\ c.window = none /\ c.mode = "REASONING"
    BY ZenonT(40), <1>1, <1>2, <1>3, CoreIs
  <1>7. EndsWith(none, none) BY <1>3 DEF EndsWith
  <1>8. Thoughtful(c, none) BY <1>3, <1>5, <1>6, <1>7 DEF Thoughtful
  <1>9. Counted(e)
    <2>1. FlattenSeq(e.pieces) = none BY <1>2, <1>3, FlattenNone
    <2>2. Reads(e.raw, e.tail, FlattenSeq(e.pieces)) BY <1>2, <1>3, <1>4, <2>1
    <2>3. Thoughtful(Core(e), e.raw) /\ At(e.raw, ThinkClose) = {} BY <1>2, <1>3, <1>5, <1>6, <1>8
    <2>4. ~(e.firstContent >= 0)
      <3>1. e.firstContent = 0 - 1
        <4>1. -1 = 0 - 1 OBVIOUS
        <4>2. e.firstContent = -1 BY <1>2
        <4> QED BY <4>1, <4>2
      <3>2. ~(0 - 1 >= 0) OBVIOUS
      <3> QED BY <3>1, <3>2
    <2> QED BY <1>2, <2>2, <2>3, <2>4 DEF Counted
  <1>10. PICK s : s = Started(e) OBVIOUS
  <1>11. s \in {e, Send(e, <<Event("open", e.kind, 0, <<>>)>>),
                [Send(e, <<Event("open", "text", 0, <<>>)>>) EXCEPT !.messageOpen = TRUE]}
    BY <1>10 DEF Started
  <1>12. /\ s.raw = e.raw /\ s.tail = e.tail /\ s.pieces = e.pieces /\ s.count = e.count
         /\ s.stopHit = e.stopHit /\ s.mode = e.mode /\ s.firstContent = e.firstContent
         /\ s.window = e.window /\ s.toolBuffer = e.toolBuffer /\ s.content = e.content
         /\ s.reasoning = e.reasoning /\ s.fromReasoning = e.fromReasoning
         /\ s.fallback = e.fallback /\ s.checkedPrefix = e.checkedPrefix
    BY ZenonT(40), <1>1, <1>11 DEF Send, Em
  <1>13. Core(s) = Core(e) BY <1>12 DEF Core
  <1> QED BY <1>9, <1>10, <1>12, <1>13, CountedSame

\* While such an answer is generated the count is right, and when it is done the first
\* content token still is the one behind the end of the thinking.
Counting ==
    req.thinking /\ ~req.vocabulary.tools =>
        /\ pc # "done" => Counted(em)
        /\ pc = "done" /\ Once(em.raw) /\ em.firstContent >= 0 => EndsAt(em.pieces, em.firstContent)

\* At the beginning nothing is counted.
LEMMA CountingInit == Init => Counting
  <1> SUFFICES ASSUME Init, req.thinking, ~req.vocabulary.tools PROVE Counted(em)
    BY DEF Counting, Init
  <1>1. req.thinking = TRUE BY DEF Init, Requests
  <1>2. PICK e : e = Emitter(TRUE) OBVIOUS
  <1>3. em \in {e, Started(e)} BY <1>1, <1>2 DEF Init
  <1> QED BY <1>2, <1>3, CountedStarted

\* The answer's end leaves the count alone.
LEMMA CountedEnd ==
    ASSUME Asked(req), ~HasTools, NEW e, Running(req, e), Counted(e), NEW capped \in BOOLEAN,
           NEW f, f = EmitFinish(e, capped), Once(f.raw), f.firstContent >= 0
    PROVE  EndsAt(f.pieces, f.firstContent)
  <1>1. e \in Em /\ Plainly(e) BY DEF Running, Typed
  <1>0. e.tail \in {<<>>, <<"u1">>} BY <1>1 DEF Plainly
  <1>2. PICK rest \in Text : rest = Sanitized(e.tail) BY <1>0, <1>1, RestIs
  <1>3. PICK c : c = Core(e) /\ c \in Cores /\ c.mode = e.mode BY <1>1, CoreIs
  <1>4. PICK x : x = Ext(c, rest) /\ x \in Cores /\ x.mode = e.mode BY <1>3, ExtIs
  <1>5. PICK g : g = Flush(req, x) OBVIOUS
  <1>6. g.mode = e.mode BY <1>4, <1>5, FlushIs, NoTools
  <1>7. /\ f.raw = e.raw \o rest /\ f.pieces = e.pieces
        /\ g.mode # "TOOL_BUFFER" => f.firstContent = e.firstContent
    BY <1>2, <1>3, <1>4, <1>5, EndKept
  <1>8. Once(e.raw) BY <1>1, <1>7, EmTexts, OnceBefore
  <1>9. e.mode # "TOOL_BUFFER" /\ (e.firstContent >= 0 => EndsAt(e.pieces, e.firstContent))
    BY <1>8 DEF Counted
  <1> QED BY <1>6, <1>7, <1>9

\* A step keeps the count.
LEMMA CountingStep == IInv /\ Counting /\ [Next]_vars => Counting'
  <1> SUFFICES ASSUME IInv, Counting, [Next]_vars, req'.thinking, ~req'.vocabulary.tools
               PROVE  /\ pc' # "done" => Counted(em')
                      /\ pc' = "done" /\ Once(em'.raw) /\ em'.firstContent >= 0 =>
                            EndsAt(em'.pieces, em'.firstContent)
    BY DEF Counting
  <1>1. req' = req BY DEF Next, OnToken, EndStream, EndWhole, vars
  <1>2. req.thinking /\ ~req.vocabulary.tools /\ ~HasTools BY <1>1 DEF HasTools
  <1>3. req \in Requests /\ tokens \in Seq(req.vocabulary.tokens) BY DEF IInv
  <1>4. Asked(req) BY <1>3, ReqIs
  <1>5. CASE OnToken
    <2>1. PICK token \in req.vocabulary.tokens :
            /\ em' = IF req.stream THEN Streamed(em, token) ELSE Classified(em, token)
            /\ pc' # "done"
      BY <1>5 DEF OnToken
    <2>2. Running(req, em) /\ Counted(em) BY <1>2, <1>5 DEF OnToken, IInv, Counting
    <2>3. Counted(Streamed(em, token)) BY <1>2, <1>3, <2>2, CountedStreamed
    <2>4. Counted(Classified(em, token)) BY <2>2, CountedClassified
    <2> QED BY <2>1, <2>3, <2>4
  <1>6. CASE EndStream
    <2>1. PICK capped \in BOOLEAN : em' = EmitFinish(em, capped) BY <1>6 DEF EndStream
    <2>2. Running(req, em) /\ Counted(em) /\ pc' = "done"
      BY <1>2, <1>6 DEF EndStream, IInv, Counting
    <2> QED BY <1>2, <1>4, <2>1, <2>2, CountedEnd
  <1>7. CASE EndWhole
    <2>1. ~req.stream /\ pc # "done" /\ pc' = "done" /\ em' = EmitFinish(Replayed(em, tokens), FALSE)
      BY <1>7 DEF EndWhole
    <2>2. Running(req, em) /\ Counted(em) /\ em.pieces = <<>> BY <1>2, <2>1 DEF IInv, Counting
    <2>3. PICK d : d = Replayed(em, tokens) OBVIOUS
    <2>4. Running(req, d) /\ Counted(d)
      BY <1>2, <1>3, <2>2, <2>3, ReplayedIs, CountedReplayed
    <2> QED BY <1>2, <1>4, <2>1, <2>3, <2>4, CountedEnd
  <1>8. CASE UNCHANGED vars
    <2>1. em' = em /\ pc' = pc BY <1>8 DEF vars
    <2> QED BY <1>2, <2>1 DEF Counting
  <1> QED BY <1>5, <1>6, <1>7, <1>8 DEF Next

\* The tokens counted as thinking of an answer without tools are those up to the one
\* that ended it, however the tokens cut the tags, streamed or fed at once, unless it
\* starts to think again.
THEOREM ThinkingIsCounted == Spec => []ThinkingCounted
  <1>1. IInv /\ Counting => ThinkingCounted
    <2> SUFFICES ASSUME IInv, Counting, req.thinking, ~HasTools, em.firstContent >= 0, Once(em.raw)
                 PROVE  EndsAt(em.pieces, em.firstContent)
      BY DEF ThinkingCounted, Once, EndsAt, Given
    <2>1. ~req.vocabulary.tools BY DEF HasTools
    <2>2. CASE pc # "done"
      <3>1. Counted(em) BY <2>1, <2>2 DEF Counting
      <3> QED BY <3>1 DEF Counted
    <2>3. CASE pc = "done" BY <2>1, <2>3 DEF Counting
    <2> QED BY <2>2, <2>3
  <1>2. Init => Counting BY CountingInit
  <1>3. IInv /\ Counting /\ [Next]_vars => Counting' BY CountingStep
  <1> QED BY <1>1, <1>2, <1>3, Invariance, PTL DEF Spec

=============================================================================
