----------------------------- MODULE ToolParser -----------------------------
(***************************************************************************)
(* Recognising tool calls in the text of an answer (tool_parser.cpp).      *)
(*                                                                         *)
(* A text is a sequence of symbols.  A delimiter that the tokens of an     *)
(* answer may cut in two has two symbols; what is never looked into is one:*)
(*   p   plain text             w   white space                            *)
(*   n   a declared tool's name; several of them are an identifier that    *)
(*       names no tool                                                     *)
(*   o1 o2  <think>             c1 c2  </think>                            *)
(*   t1 t2  <function_calls>    f   </function_calls>                      *)
(*   k1 k2  <arg_key>           v   K</arg_key><arg_value>V</arg_value>    *)
(*   i1  <invoke name="tool">   i2  </invoke>                              *)
(*   j   a JSON object that names a declared tool                          *)
(*   b   an opening brace that is never closed                             *)
(*   z   <tool_call>name</tool_call>, as the emitter writes it             *)
(*   q   a double quote                                                    *)
(* Of the parser's patterns the two of Laguna, the block of invokes and    *)
(* JSON lines, and the bare JSON sweep are here; they run in this order.   *)
(***************************************************************************)
EXTENDS Integers, Sequences, FiniteSets, FiniteSetsExt, SequencesExt

\* These, and those SseEmitter adds.
Symbol == {"p", "w", "n", "o1", "o2", "c1", "c2", "t1", "t2", "f", "k1", "k2", "v", "i1", "i2",
           "j", "b", "z", "q", "s1", "s2", "s3", "u1", "u2", "?", "T", "E", "K"}

ToolOpen == <<"t1", "t2">>
ArgKeyOpen == <<"k1", "k2">>

\* Where a delimiter occurs in a text.
At(text, d) == {i \in 1 .. Len(text) - Len(d) + 1 : SubSeq(text, i, i + Len(d) - 1) = d}
Where(text, sym) == {i \in 1 .. Len(text) : text[i] = sym}

Blank(text) == \A i \in 1 .. Len(text) : text[i] = "w"
FirstBlack(text) == Min({i \in 1 .. Len(text) + 1 : i > Len(text) \/ text[i] # "w"})
From(text, i) == SubSeq(text, i, Len(text))
Before(text, i) == SubSeq(text, 1, i - 1)
Trimmed(text) ==
    IF Blank(text) THEN <<>>
    ELSE SubSeq(text, FirstBlack(text), Max({i \in 1 .. Len(text) : text[i] # "w"}))

-----------------------------------------------------------------------------
(* While the answer streams *)

\* Back over the identifier in front of a position.
NameStart(text, i) == Min({m \in 1 .. i : \A x \in m .. i - 1 : text[x] = "n"})

\* find_tool_syntax_start: an opener, or the name in front of an <arg_key>.
ToolStarts(text) ==
    At(text, ToolOpen) \union Where(text, "i1") \union
    {m \in {NameStart(text, i) : i \in At(text, ArgKeyOpen)} : text[m] = "n"}

\* tool_syntax_holdback: all but the last symbol of the longest opener.
SyntaxHoldback == Len(ToolOpen) - 1

-----------------------------------------------------------------------------
(* When it has ended *)

Overlaps(spans, i) == \E s \in spans : s[1] <= i /\ i <= s[2]

\* Leftmost, shortest matches of an opener and a closer, one behind the other.
Matches(opens, closes) ==
    {s \in opens \X closes :
        /\ s[1] < s[2]
        /\ ~\E c \in closes : s[1] < c /\ c < s[2]
        /\ \A o \in opens : o < s[1] => \E c \in closes : o < c /\ c < s[1]}

\* The first symbol behind a position that is not white space.
NextBlack(text, i) == i + FirstBlack(From(text, i + 1))

\* Where the arguments that begin with an <arg_key> end.  It pairs with the next
\* closing tags wherever they are; another pair follows when only white space is
\* in between, which is taken out even if that one is never closed.
ArgsEnd(text, key) ==
    LET closes    == {i \in Where(text, "v") : i >= key}
        Another(i) == NextBlack(text, i) \in At(text, ArgKeyOpen)
        last      == Min({i \in closes : ~Another(i) \/ i = Max(closes)})
    IN  IF closes = {} THEN 0
        ELSE IF Another(last) THEN NextBlack(text, last) - 1 ELSE last

\* Pattern 8 with its wrapper stripped: NAME<arg_key>... from left to right; a
\* key within the arguments of an earlier name begins nothing.
Laguna(text) ==
    LET keys  == {k \in At(text, ArgKeyOpen) : NameStart(text, k) < k /\ ArgsEnd(text, k) > 0}
        outer == {k \in keys : \A h \in keys : h < k => ArgsEnd(text, h) < k}
    IN  {<<NameStart(text, k), ArgsEnd(text, k)>> : k \in {k \in outer : k - NameStart(text, k) = 1}}

Wrapped(text) == {<<i, i>> : i \in Where(text, "z")}

InvokeSpans(text) == Matches(Where(text, "i1"), Where(text, "i2"))

\* Wrong on purpose: JSON inside an invoke counts a second time.
JsonAlways(text, spans) == Where(text, "j")

\* JSON nested in an invoke envelope belongs to it.
JsonOutside(text, spans) == {i \in Where(text, "j") : ~Overlaps(spans, i)}

\* The body of an invoke is one object or nothing.
InvokeCalls(text, block) ==
    {s \in Matches(Where(text, "i1") \cap (block[1] .. block[2]),
                   Where(text, "i2") \cap (block[1] .. block[2])) :
        Trimmed(SubSeq(text, s[1] + 1, s[2] - 1)) \in {<<>>, <<"j">>}}

\* Pattern 4d, one block: its calls, each with the span it takes out of the
\* text; all of the block where it holds nothing else.
Taken(text, block, calls) ==
    LET clean == \A i \in block[1] + 2 .. block[2] - 1 : text[i] = "w" \/ Overlaps(calls, i)
    IN  {[at |-> c[1], span |-> IF clean THEN block ELSE c] : c \in calls}

BlockCalls(text, block) ==
    Taken(text, block,
          InvokeCalls(text, block) \union
          {<<i, i>> : i \in {x \in JsonOutside(text, InvokeSpans(text)) :
                                block[1] < x /\ x < block[2]}})

Own(spans) == {[at |-> s[1], span |-> s] : s \in spans}
SpansOf(calls) == {c.span : c \in calls}

Patterns8(text) == Own(Wrapped(text) \union Laguna(text))

Pattern4d(text, done) ==
    UNION {BlockCalls(text, block) :
              block \in {s \in Matches(At(text, ToolOpen), Where(text, "f")) :
                            ~Overlaps(SpansOf(done), s[1])}}

\* The bare JSON sweep.
Pattern6(text, done) ==
    Own({<<i, i>> : i \in {x \in JsonOutside(text, InvokeSpans(text)) : ~Overlaps(SpansOf(done), x)}})

\* One sweep behind the other, each seeing the spans of those before.
WithBlocks(text, done) == done \union Pattern4d(text, done)
WithBareJson(text, done) == done \union Pattern6(text, done)
Calls(text) == WithBareJson(text, WithBlocks(text, Patterns8(text)))

\* parse_tool_calls: the calls, each with its place in the text, and what is left
\* of the text without their spans.
Parsed(text, calls) ==
    LET left == [i \in 1 .. Len(text) |->
                    IF Overlaps(SpansOf(calls), i) THEN <<>> ELSE <<text[i]>>]
    IN  [calls |-> calls,
         cleaned |-> IF calls = {} THEN text ELSE Trimmed(FlattenSeq(left))]

ParseToolCalls(text) == Parsed(text, Calls(text))

-----------------------------------------------------------------------------
(* What is read once *)

\* The text a call is read from.
Extent(text, c) ==
    IF text[c.at] = "i1" THEN <<c.at, Min({x \in Where(text, "i2") : x > c.at})>>
    ELSE IF c.span[1] = c.at THEN c.span ELSE <<c.at, c.at>>

\* Of two calls one lies in front of the other, and so does what it takes out of
\* the text, unless both take out the block they are in.
Apart(text, calls) ==
    \A c, d \in calls : c # d =>
        \E x, y \in {c, d} :
            /\ Extent(text, x)[2] < Extent(text, y)[1]
            /\ (x.span = y.span \/ x.span[2] < y.span[1])

\* Do the arguments of a bare name begin within a block?
ArgsInBlock(text) ==
    \E s \in Laguna(text), block \in Matches(At(text, ToolOpen), Where(text, "f")) :
        block[1] < s[1] /\ s[1] < block[2]

=============================================================================
