----------------------------- MODULE SseEmitter -----------------------------
(***************************************************************************)
(* Turning the tokens of one answer into the events of one of three        *)
(* streaming protocols: SseEmitter (sse_emitter.cpp), and the two ways     *)
(* http_server.cpp feeds it, token by token while the answer streams or    *)
(* all at once when the client did not ask for a stream.                   *)
(*                                                                         *)
(* Texts are sequences of the symbols of ToolParser, and                   *)
(*   s1 s2 s3  the stop sequence      u1 u2  one character of two bytes    *)
(*   ?         the replacement character                                   *)
(***************************************************************************)
EXTENDS ToolParser

CONSTANTS
    Vocabularies, \* records: tokens the model may draw, tools and stop declared
    TokenText,    \* the text of a token
    Tags,         \* think markers
    Controls,     \* control markers and end-of-sequence tokens
    Ends,         \* of these, the end-of-sequence tokens
    Formats,      \* "openai", "anthropic", "responses"
    NameLimit,    \* identifier symbols held back for a Laguna name
    MaxTokens     \* bound: the cap of an answer

\* The formats are the three of ApiFormat; no token writes a wrapped name, which
\* only the emitter does.
ASSUME EmitterAssumption ==
    /\ Formats \subseteq {"openai", "anthropic", "responses"}
    /\ \A v \in Vocabularies :
          /\ v.tools \in BOOLEAN /\ v.stop \in BOOLEAN
          /\ \A token \in v.tokens : TokenText[token] \in Seq(Symbol \ {"z"})
    /\ NameLimit \in Nat /\ MaxTokens \in Nat

VARIABLES
    req,    \* the request
    em,     \* the emitter
    tokens, \* result.tokens
    pc      \* "generate", "finish" or "done"

vars == <<req, em, tokens, pc>>

ThinkOpen == <<"o1", "o2">>
ThinkClose == <<"c1", "c2">>
Stop == <<"s1", "s2", "s3">>

Requests == [format : Formats, vocabulary : Vocabularies, thinking : BOOLEAN, stream : BOOLEAN]

HasTools == req.vocabulary.tools
StopHoldback == IF req.vocabulary.stop THEN Len(Stop) ELSE 0

Event(type, kind, index, text) == [type |-> type, kind |-> kind, index |-> index, text |-> text]

\* A new emitter.  pieces is history: the texts it was given.
Emitter(thinking) ==
    [mode |-> IF thinking THEN "REASONING" ELSE "CONTENT",
     kind |-> IF thinking THEN "thinking" ELSE "text",
     window |-> <<>>, tail |-> <<>>, toolBuffer |-> <<>>,
     fromReasoning |-> FALSE, fallback |-> FALSE, suppress |-> FALSE,
     content |-> <<>>, reasoning |-> <<>>, raw |-> <<>>, calls |-> {}, remembered |-> <<>>,
     checkedPrefix |-> FALSE, firstContent |-> -1, count |-> 0, stopHit |-> FALSE,
     block |-> 0, reasoningOpen |-> FALSE, messageOpen |-> FALSE, outputIndex |-> 0,
     reason |-> "stop", sent |-> <<>>, pieces |-> <<>>]

Send(e, events) == [e EXCEPT !.sent = @ \o events]

-----------------------------------------------------------------------------
(* Items and blocks *)

\* emit_start; a message item waits until the answer has left <think>.
Started(e) ==
    IF req.format = "anthropic" THEN Send(e, <<Event("open", e.kind, 0, <<>>)>>)
    ELSE IF req.format = "responses" /\ ~req.thinking
    THEN [Send(e, <<Event("open", "text", 0, <<>>)>>) EXCEPT !.messageOpen = TRUE]
    ELSE e

\* Wrong on purpose: the next block takes over the number of the last.
SwitchedInPlace(e, kind) ==
    IF e.kind = kind THEN e
    ELSE [Send(e, <<Event("close", e.kind, e.block, <<>>), Event("open", kind, e.block, <<>>)>>)
            EXCEPT !.kind = kind]

\* Anthropic: close the open block and open one of the other kind.
Switched(e, kind) ==
    IF e.kind = kind THEN e
    ELSE [Send(e, <<Event("close", e.kind, e.block, <<>>),
                    Event("open", kind, e.block + 1, <<>>)>>)
            EXCEPT !.kind = kind, !.block = @ + 1]

\* Wrong on purpose: the index is not given up.
ReasoningClosedInPlace(e) ==
    IF ~e.reasoningOpen THEN e
    ELSE [Send(e, <<Event("close", "thinking", e.outputIndex, e.reasoning)>>)
            EXCEPT !.reasoningOpen = FALSE]

\* close_responses_reasoning_item
ReasoningClosed(e) ==
    IF ~e.reasoningOpen THEN e
    ELSE [Send(e, <<Event("close", "thinking", e.outputIndex, e.reasoning)>>)
            EXCEPT !.reasoningOpen = FALSE, !.outputIndex = @ + 1]

MessageOpened(e) ==
    IF e.messageOpen THEN e
    ELSE [Send(e, <<Event("open", "text", e.outputIndex, <<>>)>>) EXCEPT !.messageOpen = TRUE]

ReasoningOpened(e) ==
    IF e.reasoningOpen THEN e
    ELSE [Send(e, <<Event("open", "thinking", e.outputIndex, <<>>)>>) EXCEPT !.reasoningOpen = TRUE]

Delta(e, kind, index, text) == Send(e, <<Event("delta", kind, index, text)>>)

\* emit_content_delta
ContentDelta(e, text) ==
    LET s == Switched(e, "text")
        m == MessageOpened(ReasoningClosed(e))
    IN  IF text = <<>> THEN e
        ELSE CASE req.format = "anthropic" -> Delta(s, "text", s.block, text)
               [] req.format = "responses" -> Delta(m, "text", m.outputIndex, text)
               [] req.format = "openai" -> Delta(e, "text", 0, text)

\* emit_reasoning_delta
ReasoningDelta(e, text) ==
    LET s == Switched(e, "thinking")
        m == ReasoningOpened(e)
    IN  IF text = <<>> THEN e
        ELSE CASE req.format = "anthropic" -> Delta(s, "thinking", s.block, text)
               [] req.format = "responses" -> Delta(m, "thinking", m.outputIndex, text)
               [] req.format = "openai" -> Delta(e, "thinking", 0, text)

\* Every caller adds to the accumulated text first.
Say(e, text) == ContentDelta([e EXCEPT !.content = @ \o text], text)
Think(e, text) == ReasoningDelta([e EXCEPT !.reasoning = @ \o text], text)

-----------------------------------------------------------------------------
(* Bytes *)

\* utf8_sanitize: half a character becomes the replacement character.
Sanitized(text) ==
    [i \in 1 .. Len(text) |->
        IF \/ text[i] = "u1" /\ (i = Len(text) \/ text[i + 1] # "u2")
           \/ text[i] = "u2" /\ (i = 1 \/ text[i - 1] # "u1")
        THEN "?" ELSE text[i]]

\* Wrong on purpose: whole characters are held back with it.
TailRun(text) == IF Where(text, "u1") = {} THEN <<>> ELSE From(text, Min(Where(text, "u1")))

\* The incomplete end of a piece waits for the next one.
TailOf(text) == IF text # <<>> /\ text[Len(text)] = "u1" THEN <<"u1">> ELSE <<>>

\* Wrong on purpose: a character may be cut.
SafeLenAny(text, n) == n

\* utf8_safe_len
SafeLen(text, n) == IF n > 0 /\ n < Len(text) /\ text[n] = "u1" THEN n - 1 ELSE n

-----------------------------------------------------------------------------
(* The window *)

\* Wrong on purpose: the stop sequence is left out.
HoldbackSyntax == SyntaxHoldback

Holdback == Max({SyntaxHoldback, StopHoldback})

\* Wrong on purpose: one symbol too many goes out.
ReleasableMore(text) ==
    IF Len(text) > Holdback THEN SafeLen(text, Len(text) - Holdback + 1) ELSE 0

\* How much of the window can be part of no delimiter any more.
Releasable(text) ==
    IF Len(text) > Holdback THEN SafeLen(text, Len(text) - Holdback) ELSE 0

\* An identifier at the end of that may be a name whose <arg_key> is to come.
NameHeld(text, cut) ==
    LET run == cut + 1 - NameStart(text, cut + 1)
    IN  IF HasTools /\ run < NameLimit THEN cut - run ELSE cut

ThinkHits(e) == At(e.window, ThinkOpen)
CloseHits(e) == At(e.window, ThinkClose)
ToolHits(e) == IF HasTools THEN ToolStarts(e.window) ELSE {}

StopHits(window) ==
    IF req.vocabulary.stop THEN At(window, Stop) ELSE {}

\* Wrong on purpose: with the stop sequence.
InFrontThrough(e) == SubSeq(e.window, 1, Min(StopHits(e.window)) + Len(Stop) - 1)

InFront(e) == Before(e.window, Min(StopHits(e.window)))

\* Wrong on purpose: what was thought in front is kept but never sent.
StoppedSilent(e) ==
    LET ended == [e EXCEPT !.window = <<>>, !.stopHit = TRUE]
    IN  IF e.mode # "REASONING" THEN Say(ended, InFront(e))
        ELSE [ended EXCEPT !.reasoning = @ \o InFront(e)]

\* What is in front of the stop sequence still goes out; while reasoning, not
\* through ReasoningDelta, and to a Responses client not at all.
Stopped(e) ==
    LET pre   == InFront(e)
        ended == [e EXCEPT !.window = <<>>, !.stopHit = TRUE]
    IN  IF e.mode # "REASONING" THEN Say(ended, pre)
        ELSE LET thought == [ended EXCEPT !.reasoning = @ \o pre]
             IN  IF pre = <<>> \/ req.format = "responses" THEN thought
                 ELSE Delta(thought, "thinking", IF req.format = "anthropic" THEN e.block ELSE 0, pre)

\* Everything goes to the buffer until the end; the first content token is the
\* one behind a </think> that follows a closed block.
Buffered(e) ==
    LET full  == e.toolBuffer \o e.window
        ends  == Where(full, "f")
        close == {i \in At(full, ThinkClose) : i > Min(ends)}
        after == From(full, Min(close) + Len(ThinkClose))
        seen  == e.fromReasoning /\ e.firstContent < 0 /\ ends # {} /\ close # {}
    IN  [e EXCEPT !.toolBuffer = full, !.window = <<>>,
                  !.firstContent = IF ~seen THEN @
                                   ELSE IF Blank(after) THEN e.count ELSE e.count - 1]

\* Symbols that are longer than <think> by themselves.
Long == {"f", "v", "i1", "i2", "j", "z"}

\* A leading <think> is dropped, once enough of the window is there to tell.
PrefixOpen(e) ==
    LET i == FirstBlack(e.window)
    IN  i > Len(e.window) \/ (i = Len(e.window) /\ e.window[i] \notin Long)
PrefixDropped(e) ==
    LET i == FirstBlack(e.window)
    IN  [e EXCEPT !.checkedPrefix = TRUE,
                  !.window = IF i \in At(@, ThinkOpen) THEN From(@, i + Len(ThinkOpen)) ELSE @]

ToBuffer(e, i, fromReasoning, fallback) ==
    [e EXCEPT !.toolBuffer = From(e.window, i), !.window = <<>>, !.mode = "TOOL_BUFFER",
              !.fromReasoning = fromReasoning, !.fallback = @ \/ fallback]

\* </think> ends the reasoning.
Thought(e, i) ==
    [Think(e, Before(e.window, i)) EXCEPT !.window = From(e.window, i + Len(ThinkClose)),
                                          !.mode = "CONTENT"]

\* Of the window, what is in front of the cut goes out.
Thinking(e, cut) == [Think(e, SubSeq(e.window, 1, cut)) EXCEPT !.window = From(@, cut + 1)]
Saying(e, cut) == [Say(e, SubSeq(e.window, 1, cut)) EXCEPT !.window = From(@, cut + 1)]

FirstOf(hits) == IF hits = {} THEN 0 ELSE Min(hits)

\* Answer text that starts with a brace may be a call without any delimiter.
BareJson(e) ==
    HasTools /\ Blank(e.content) /\ ~Blank(e.window) /\ e.window[FirstBlack(e.window)] \in {"b", "j"}

\* The loop over the window goes on, or what is left of it waits for more.
Again(e) == [em |-> e, again |-> TRUE]
Waits(e) == [em |-> e, again |-> FALSE]

\* While reasoning, only a </think> in front of any tool call ends it as such.
Reasoning(e, closes, tools) ==
    IF ~e.checkedPrefix THEN IF PrefixOpen(e) THEN Waits(e) ELSE Again(PrefixDropped(e))
    ELSE IF closes # {} /\ \A t \in tools : Min(closes) < t
         THEN Again(Thought(e, Min(closes)))
    ELSE IF tools # {}
         THEN Again(ToBuffer(ReasoningClosed(Think(e, Before(e.window, Min(tools)))),
                             Min(tools), TRUE, FALSE))
    ELSE Waits(Thinking(e, Releasable(e.window)))

\* The first delimiter in the answer's text decides what becomes of the rest.
Divided(said, first, opens, closes) ==
    IF first \in opens
    THEN Again([said EXCEPT !.window = From(@, first + Len(ThinkOpen)), !.mode = "REASONING"])
    ELSE IF first \in closes
    THEN Again([said EXCEPT !.window = From(@, first + Len(ThinkClose))])
    ELSE Again(ToBuffer(said, first, FALSE, FALSE))

Answering(e, first, opens, closes) ==
    IF first > 0 THEN Divided(Say(e, Before(e.window, first)), first, opens, closes)
    ELSE IF BareJson(e) THEN Again(ToBuffer(e, 1, FALSE, TRUE))
    ELSE Waits(Saying(e, NameHeld(e.window, Releasable(e.window))))

\* One round of the loop of emit_token over the window.
Round(e) ==
    CASE e.mode = "TOOL_BUFFER" -> Waits(Buffered(e))
      [] e.mode = "REASONING" -> Reasoning(e, CloseHits(e), ToolHits(e))
      [] e.mode = "CONTENT" ->
            Answering(e, FirstOf(ThinkHits(e) \union CloseHits(e) \union ToolHits(e)),
                      ThinkHits(e), CloseHits(e))

\* The loop.  A round that is not the last takes a delimiter from the window,
\* looks at a leading <think> or opens the tool buffer.
Process(e) ==
    LET rounds == Len(e.window) + 3
        loop[n \in 0 .. rounds] ==
            IF n = 0 THEN Again(e)
            ELSE LET l == loop[n - 1] IN IF l.again THEN Round(l.em) ELSE l
    IN  loop[rounds].em

-----------------------------------------------------------------------------
(* A token *)

\* Wrong on purpose: the mode is not looked at.
CountsAsContentAnyMode(e, piece) == e.firstContent < 0 /\ At(piece, ThinkOpen) = {}

\* Is this the first token of the visible answer?
CountsAsContent(e, piece) ==
    e.firstContent < 0 /\ e.mode = "CONTENT" /\ At(piece, ThinkOpen) = {}

\* A stop sequence comes before everything else.
Advanced(e) ==
    IF e.mode # "TOOL_BUFFER" /\ StopHits(e.window) # {} THEN Stopped(e) ELSE Process(e)

\* emit_token
EmitToken(e, piece) ==
    LET joined == e.tail \o piece
        tail   == TailOf(joined)
        text   == Sanitized(SubSeq(joined, 1, Len(joined) - Len(tail)))
    IN  IF e.stopHit THEN e
        ELSE Advanced([e EXCEPT !.firstContent = IF CountsAsContent(e, piece) THEN e.count ELSE @,
                                !.count = @ + 1, !.tail = tail, !.raw = @ \o text,
                                !.window = @ \o text, !.pieces = Append(@, piece)])

Stray == {"E", "K"}

\* Wrong on purpose: only the delimiters themselves are taken out.
SuppressedTagOnly(e, token) == ~HasTools /\ token \in {"T"} \union Stray

\* suppress_undeclared_tool_protocol_token: T opens, E closes, K is stray.
Suppressed(e, token) == ~HasTools /\ (e.suppress \/ token \in {"T"} \union Stray)

\* classify_generated_token: is there a text to emit?  It remembers an open call.
Skipped(e, token) == Suppressed(e, token) \/ token \in Controls

\* Wrong on purpose: the end of the call does not end it.
ClassifiedForGood(e, token) ==
    [e EXCEPT !.suppress = ~HasTools /\ (e.suppress \/ token = "T")]

Classified(e, token) ==
    [e EXCEPT !.suppress = ~HasTools /\ IF e.suppress THEN token # "E" ELSE token = "T"]

\* on_token of a streamed answer; an empty text is not emitted.
Streamed(e, token) ==
    LET c == Classified(e, token)
    IN  IF Skipped(e, token) \/ TokenText[token] = <<>> THEN c ELSE EmitToken(c, TokenText[token])

\* feed_non_streaming_tokens: a token once more, on the same emitter.  Behind a
\* stop sequence nothing is fed; only a think marker does not look at the flag.
Fed(l, token) ==
    LET c == Classified(l.em, token)
        f == EmitToken(c, TokenText[token])
    IN  IF ~l.again THEN l
        ELSE IF Skipped(l.em, token) THEN Again(c)
        ELSE IF f.stopHit /\ token \notin Tags THEN Waits(f)
        ELSE Again(f)

Replayed(e, fed) ==
    LET loop[n \in 0 .. Len(fed)] ==
            IF n = 0 THEN Again(e) ELSE Fed(loop[n - 1], fed[n])
    IN  loop[Len(fed)].em

-----------------------------------------------------------------------------
(* The end of the answer *)

\* find_top_level_think_close: outside quotes and behind every opened tool tag.
Quoted(text, i) == Cardinality(Where(Before(text, i), "q")) % 2 = 1

\* A closing tag takes the latest opening one of its name from the stack, and all
\* above it.
Nested(stack, tag) ==
    LET opener == IF tag = "f" THEN "t1" ELSE "i1"
        same   == {x \in 1 .. Len(stack) : stack[x] = opener}
    IN  IF tag \in {"t1", "i1"} THEN Append(stack, tag)
        ELSE IF same = {} THEN stack ELSE Before(stack, Max(same))

\* The tool tags open in front of a position.
OpenTags(text, i) ==
    LET tags == SelectSeq([x \in 1 .. i - 1 |-> x],
                          LAMBDA x : /\ ~Quoted(text, x)
                                     /\ \/ x \in At(text, ToolOpen)
                                        \/ text[x] \in {"f", "i1", "i2"})
    IN  FoldLeft(Nested, <<>>, [x \in 1 .. Len(tags) |-> text[tags[x]]])

TopLevelClose(text) ==
    {i \in At(text, ThinkClose) : ~Quoted(text, i) /\ OpenTags(text, i) = <<>>}

\* A zero-argument call may be the bare name of a tool and nothing else.
ZeroArgCall(e) == HasTools /\ Blank(e.content) /\ Trimmed(e.window) = <<"n">>

\* What the window still holds.
Flushed(e) ==
    LET rest == Sanitized(e.tail)
        all  == [e EXCEPT !.tail = <<>>, !.raw = @ \o rest, !.window = <<>>]
        text == e.window \o rest
    IN  CASE e.mode = "REASONING" -> Think(all, text)
          [] e.mode = "CONTENT" ->
                IF ZeroArgCall([e EXCEPT !.window = text])
                THEN [all EXCEPT !.toolBuffer = <<"z">>, !.mode = "TOOL_BUFFER"]
                ELSE Say(all, text)
          [] e.mode = "TOOL_BUFFER" -> [all EXCEPT !.toolBuffer = @ \o text]

\* Text the parser left over goes where it belongs.
Recovered(e, cleaned) ==
    LET close   == Min(At(cleaned, ThinkClose))
        content == From(cleaned, close + Len(ThinkClose))
        marked  == [e EXCEPT !.firstContent =
                       IF @ # -1 THEN @ ELSE IF content = <<>> THEN e.count ELSE Max({0, e.count - 1})]
    IN  IF At(cleaned, ThinkClose) # {} THEN Say(Think(marked, Before(cleaned, close)), content)
        ELSE IF e.fromReasoning THEN Think(e, cleaned)
        ELSE Say(e, cleaned)

CallEvents == <<"open", "delta", "close">>

\* Anthropic closes the open block and gives every call one of its own; the
\* other formats name the item the calls belong to.
ToolEvents(e) ==
    LET n == Cardinality(e.calls)
    IN  IF req.format = "anthropic"
        THEN [Send(e, <<Event("close", e.kind, e.block, <<>>)>>
                      \o [i \in 1 .. 3 * n |-> Event(CallEvents[((i - 1) % 3) + 1], "tool",
                                                     e.block + 1 + ((i - 1) \div 3), <<>>)])
                EXCEPT !.kind = "", !.block = @ + n]
        ELSE Send(e, [i \in 1 .. n |-> Event("call", "tool", IF req.format = "responses" THEN e.outputIndex ELSE i, <<>>)])

\* Text behind a tool call that never became one.
SaidBehind(e, text) ==
    IF text = <<>> THEN e
    ELSE Say([e EXCEPT !.firstContent = IF @ # -1 THEN @ ELSE Max({0, e.count - 1})], text)

Salvaged(e) ==
    IF ~e.fromReasoning \/ TopLevelClose(e.toolBuffer) = {} THEN e
    ELSE SaidBehind(e, From(e.toolBuffer, Min(TopLevelClose(e.toolBuffer)) + Len(ThinkClose)))

\* What the tool buffer was.
Read(e, parsed) ==
    IF parsed.calls # {}
    THEN ToolEvents(Recovered([e EXCEPT !.calls = parsed.calls, !.remembered = e.raw,
                                        !.reason = "tool_calls"], parsed.cleaned))
    ELSE IF e.fallback THEN Say(e, e.toolBuffer)
    ELSE Salvaged(e)

Resolved(e) ==
    IF e.mode # "TOOL_BUFFER" \/ e.toolBuffer = <<>> THEN e
    ELSE Read(e, ParseToolCalls(e.toolBuffer))

Reason(e, capped) ==
    IF e.reason = "stop" /\ ~e.stopHit /\ capped THEN "length" ELSE e.reason

\* The last events of each format.  Of the items of a Responses answer, the
\* reasoning item has been closed before.
ItemsDone(e) ==
    LET base == IF e.reasoning = <<>> THEN 0 ELSE 1
        n    == Cardinality(e.calls)
    IN  IF n > 0 THEN [i \in 1 .. n |-> Event("close", "tool", base + i - 1, <<>>)]
        ELSE IF e.messageOpen THEN <<Event("close", "text", base, e.content)>> ELSE <<>>

Final(e) ==
    CASE req.format = "anthropic" ->
            Send(e, (IF e.kind = "" THEN <<>> ELSE <<Event("close", e.kind, e.block, <<>>)>>)
                    \o <<Event("done", e.reason, 0, <<>>)>>)
      [] req.format = "responses" ->
            Send(e, ItemsDone(e) \o <<Event("done", e.reason, 0, e.content)>>)
      [] req.format = "openai" -> Send(e, <<Event("done", e.reason, 0, <<>>)>>)

\* emit_finish
Finished(e, capped) == Final([e EXCEPT !.reason = Reason(e, capped)])
EmitFinish(e, capped) == Finished(Resolved(ReasoningClosed(Flushed(e))), capped)

-----------------------------------------------------------------------------
Init ==
    /\ req \in Requests
    /\ ~req.stream => req.format = "openai"
    /\ em = IF req.stream THEN Started(Emitter(req.thinking)) ELSE Emitter(req.thinking)
    /\ tokens = <<>>
    /\ pc = "generate"

\* Has the model ended its answer?
Ended == tokens # <<>> /\ Last(tokens) \in Ends

\* The backend's next token; on_token answers whether generation goes on.
OnToken ==
    /\ pc = "generate" /\ Len(tokens) < MaxTokens /\ ~Ended
    /\ \E token \in req.vocabulary.tokens :
          /\ tokens' = Append(tokens, token)
          /\ em' = IF req.stream THEN Streamed(em, token) ELSE Classified(em, token)
          /\ pc' = IF em'.stopHit /\ token \notin Tags /\ ~Skipped(em, token) THEN "finish" ELSE "generate"
    /\ UNCHANGED req

\* Generation ends: by itself, at its cap, or because on_token said so.
EndStream ==
    /\ req.stream /\ pc \in {"generate", "finish"}
    /\ em' = EmitFinish(em, Len(tokens) = MaxTokens /\ ~Ended)
    /\ pc' = "done"
    /\ UNCHANGED <<req, tokens>>

\* An answer that was not streamed is fed to the emitter now.
EndWhole ==
    /\ ~req.stream /\ pc = "generate"
    /\ em' = EmitFinish(Replayed(em, tokens), FALSE)
    /\ pc' = "done"
    /\ UNCHANGED <<req, tokens>>

Next == OnToken \/ EndStream \/ EndWhole

Spec == Init /\ [][Next]_vars

-----------------------------------------------------------------------------
(* Properties *)

Modes == {"CONTENT", "REASONING", "TOOL_BUFFER"}

TypeOK ==
    /\ em.mode \in Modes /\ em.kind \in {"text", "thinking", ""}
    /\ em.firstContent \in -1 .. em.count
    /\ em.count = Len(em.pieces) /\ em.count <= Len(tokens)
    /\ em.mode # "TOOL_BUFFER" => em.toolBuffer = <<>>
    /\ Len(em.window) <= Len(em.raw) /\ Len(em.tail) <= 1

Sent(i) == em.sent[i]
Indices(type, i) == {Sent(h).index : h \in {x \in 1 .. i : Sent(x).type = type}}

\* Was the block or item of this event opened as one of its kind?  What was
\* thought in front of a stop sequence goes to whichever block is open.
OfItsKind(i) ==
    \/ \E h \in 1 .. i - 1 : Sent(h) = Event("open", Sent(i).kind, Sent(i).index, <<>>)
    \/ em.stopHit /\ Sent(i).kind = "thinking"

\* Anthropic: at every event the blocks are numbered in the order they were
\* opened, at most one is open, a delta goes to the open one and is of its kind,
\* and at the end none is left open, in whatever order reasoning, text and calls
\* came.
BlocksInTurn ==
    req.format = "anthropic" =>
        \A i \in 1 .. Len(em.sent) :
            LET open == Indices("open", i - 1) \ Indices("close", i - 1)
            IN  CASE Sent(i).type = "open" -> open = {} /\ Sent(i).index = Cardinality(Indices("open", i - 1))
                  [] Sent(i).type \in {"delta", "close"} -> open = {Sent(i).index} /\ OfItsKind(i)
                  [] OTHER -> open = {}

\* Responses: an item is announced before its deltas and the reasoning item is
\* closed before anything else is announced, as long as no reasoning comes back
\* once the message has been opened.
ThoughtFirst ==
    \A i, h \in 1 .. Len(em.sent) :
        Sent(i).kind = "text" /\ Sent(h).kind = "thinking" /\ Sent(h).type = "open" => h < i

ItemsInTurn ==
    req.format = "responses" /\ ThoughtFirst =>
        \A i \in 1 .. Len(em.sent) :
            LET open == Indices("open", i - 1) \ Indices("close", i - 1)
            IN  CASE Sent(i).type = "open" -> open = {} /\ Sent(i).index = Cardinality(Indices("open", i - 1))
                  [] Sent(i).type = "delta" -> Sent(i).index \in open
                  [] OTHER -> TRUE

\* A client of either format never sees a block or an item out of turn.
OpenedInTurn == BlocksInTurn /\ ItemsInTurn

TextOf(kind) ==
    FlattenSeq([i \in 1 .. Len(em.sent) |->
        IF Sent(i).type = "delta" /\ Sent(i).kind = kind THEN Sent(i).text ELSE <<>>])

\* The deltas a client has been sent add up to the text the server keeps, caches and
\* replays as the answer; only what a Responses answer thought in front of a stop
\* sequence is kept back; and no event cuts a character in two.
DeltasAddUp ==
    req.stream =>
        /\ TextOf("text") = em.content
        /\ (em.stopHit /\ req.format = "responses") \/ TextOf("thinking") = em.reasoning
        /\ \A i \in 1 .. Len(em.sent) : Sanitized(Sent(i).text) = Sent(i).text

Whole(text) ==
    LET e == [Emitter(req.thinking) EXCEPT !.window = text, !.raw = text]
    IN  Resolved(Flushed(Process(e)))

\* What becomes of an answer.
Kept(e) == <<e.content, e.reasoning, e.calls>>

\* A bare name is held back to a limit, and not at all while the model thinks, from
\* the start or again.
NameBound(text) == IF req.thinking \/ At(text, ThinkOpen) # {} THEN 1 ELSE NameLimit
NameTooLong(text) ==
    \E k \in At(text, ArgKeyOpen) : k - NameStart(text, k) >= NameBound(text)

\* However the tokens cut the text, through the middle of any delimiter, the
\* client gets what the whole text would have given at once, unless a stop
\* sequence or a bare brace decides on what has arrived so far.
CutAnywhere ==
    pc = "done" /\ req.stream /\ ~em.stopHit /\ ~em.fallback /\ ~NameTooLong(em.raw) =>
        Kept(em) = Kept(Whole(em.raw))

\* How much is in front of the stop sequence.
StopsAt == Min(StopHits(em.raw))

\* A stop sequence is never missed outside a tool call, however the tokens cut
\* it, and nothing behind it is sent, unless the token it ends in goes on with
\* half a character.
StopHonoured ==
    /\ StopHits(em.raw) # {} /\ em.mode # "TOOL_BUFFER" => em.stopHit
    /\ em.stopHit /\ TailOf(Last(em.pieces)) = <<>> =>
          Len(em.content) + Len(em.reasoning) < StopsAt

\* What is sent is what comes before the stop sequence.
NothingBehindStop == em.stopHit => Len(em.content) + Len(em.reasoning) < StopsAt

Given(n) == FlattenSeq(SubSeq(em.pieces, 1, n))

\* The tokens counted as thinking are those up to the one that ended it, in an
\* answer that does not start to think again.
ThinkingCounted ==
    req.thinking /\ ~HasTools /\ em.firstContent >= 0
        /\ (\A o \in At(em.raw, ThinkOpen), c \in At(em.raw, ThinkClose) : o < c) =>
        /\ At(Given(em.firstContent), ThinkClose) # {}
        /\ At(Given(em.firstContent - 1), ThinkClose) = {}

\* No text is read twice: the calls of an answer lie one behind the other, the
\* JSON within an invoke being no call of its own, and what one of them took out
\* of the text the next did not see; unless a bare name's arguments begin within a
\* block, which is not asked what they took out.
CallsApart == ~ArgsInBlock(em.toolBuffer) => Apart(em.toolBuffer, em.calls)

\* The arguments of a call belong to it, JSON among them: in no answer is a part
\* of them a call of its own.
ArgumentsOwned == Apart(em.toolBuffer, em.calls)

\* Is a token outside every call the request did not declare?
OutsideCall(i) ==
    LET marks == {h \in 1 .. i - 1 : tokens[h] \in {"T", "E"}}
    IN  marks = {} \/ tokens[Max(marks)] = "E"

Visible(i) == OutsideCall(i) /\ tokens[i] \notin {"T"} \union Stray \union Controls

\* The text of the answer without the calls the request did not declare.
Shown == FlattenSeq([i \in 1 .. Len(tokens) |-> IF Visible(i) THEN TokenText[tokens[i]] ELSE <<>>])

\* Of a tool call the request did not declare nothing reaches the client, and all
\* that is around it does, up to a stop sequence.
UndeclaredHidden ==
    req.stream /\ ~HasTools =>
        LET given == Given(Len(em.pieces))
        IN  given = IF em.stopHit THEN SubSeq(Shown, 1, Len(given)) ELSE Shown

\* Tokens streamed one after another.
StreamedAll(e, fed) ==
    LET loop[n \in 0 .. Len(fed)] == IF n = 0 THEN e ELSE Streamed(loop[n - 1], fed[n])
    IN  loop[Len(fed)]

\* The answer the emitter keeps when its tokens are streamed.
KeptStreamed == Kept(EmitFinish(StreamedAll(Emitter(req.thinking), tokens), FALSE))

\* An answer is the same whether it is streamed or not: both ways of feeding the
\* emitter classify every token alike, unless it ends within a call the request
\* did not declare.
ReplaySame ==
    pc = "done" /\ ~req.stream /\ (HasTools \/ OutsideCall(Len(tokens) + 1)) =>
        Kept(em) = KeptStreamed

\* The two paths classify identically, whatever the answer ends with.
ClassifiedAlike == pc = "done" /\ ~req.stream => Kept(em) = KeptStreamed

=============================================================================
