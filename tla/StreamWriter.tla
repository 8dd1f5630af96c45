---------------------------- MODULE StreamWriter ----------------------------
(***************************************************************************)
(* The two threads that write to the socket of a streaming job: the worker *)
(* (send_job_bytes) and the monitor in the job's handler, which sends      *)
(* heartbeat comments (maybe_send_job_heartbeat), under job.write_mu       *)
(* (http_server.cpp).                                                      *)
(*                                                                         *)
(* What is written are items: SSE frames 1..Frames, the first of them the  *)
(* HTTP headers and the initial events, then the [DONE] frame; comments    *)
(* come in between.  Each item is Parts pieces, a short write ends between *)
(* two.                                                                    *)
(***************************************************************************)
EXTENDS Naturals, Sequences, FiniteSets

CONSTANTS
    Frames,   \* bound: frames in front of [DONE]
    Parts,    \* pieces of an item
    Comments  \* bound: comments on the wire

ASSUME StreamAssumption ==
    /\ Frames \in Nat \ {0} /\ Parts \in Nat \ {0} /\ Comments \in Nat

VARIABLES
    proxy,  \* the answer is forwarded from an upstream server
    pc,     \* where process_job is
    next,   \* pieces of the answer handed to send_job_bytes so far
    out,    \* what send_job_bytes still has to write; it holds write_mu if any
    wire,   \* pieces the client has been sent
    ready,  \* stream_ready
    offset, \* heartbeat_offset
    left,   \* client_disconnected
    line    \* sse_partial_line: pieces of the current line of the upstream

vars == <<proxy, pc, next, out, wire, ready, offset, left, line>>

Comment == 0
Done    == Frames + 1

Piece  == [item : Comment .. Done, part : 1 .. Parts]
Pieces(item) == [p \in 1 .. Parts |-> [item |-> item, part |-> p]]

\* The whole answer; item i begins after piece (i - 1) * Parts.
Answer == [k \in 1 .. Done * Parts |->
              [item |-> ((k - 1) \div Parts) + 1, part |-> ((k - 1) % Parts) + 1]]
Upto(item) == item * Parts

IsEnd(p) == p.part = Parts

Init ==
    /\ proxy \in BOOLEAN
    /\ pc = "headers" /\ next = 0 /\ out = <<>> /\ wire = <<>>
    /\ ready = FALSE /\ offset = 0 /\ left = FALSE /\ line = <<>>

-----------------------------------------------------------------------------
(* send_job_bytes *)

WriteMuFree == out = <<>>

\* What is missing of a comment the monitor could not write in full.
CutOff == IF offset = 0 THEN <<>> ELSE SubSeq(Pieces(Comment), offset + 1, Parts)

\* Wrong on purpose: a comment that was cut short is not completed first.
SendUnflushed(chunk) ==
    /\ WriteMuFree /\ ~left
    /\ out' = chunk
    /\ offset' = 0

\* The worker's side of write_mu: the rest of a comment goes out first.
Send(chunk) ==
    /\ WriteMuFree /\ ~left
    /\ out' = CutOff \o chunk
    /\ offset' = 0

WritePiece ==
    /\ out # <<>>
    /\ wire' = Append(wire, Head(out))
    /\ out' = Tail(out)
    /\ UNCHANGED <<proxy, pc, next, ready, offset, left, line>>

\* Wrong on purpose: the failure is not remembered.
WriteFailsUnnoticed ==
    /\ out # <<>>
    /\ out' = <<>>
    /\ UNCHANGED <<proxy, pc, next, wire, ready, offset, left, line>>

\* The peer is gone, or the socket takes nothing for 30 seconds.
WriteFails ==
    /\ out # <<>>
    /\ out' = <<>>
    /\ left' = TRUE
    /\ UNCHANGED <<proxy, pc, next, wire, ready, offset, line>>

-----------------------------------------------------------------------------
(* process_job *)

\* Headers and initial events, before the monitor may send comments.
SendHeaders ==
    /\ pc = "headers" /\ next = 0
    /\ Send(SubSeq(Answer, 1, Upto(1)))
    /\ next' = Upto(1)
    /\ UNCHANGED <<proxy, pc, wire, ready, left, line>>

\* start_job_stream
StartStream ==
    /\ pc = "headers" /\ next = Upto(1) /\ WriteMuFree
    /\ pc' = "stream"
    /\ ready' = ~left
    /\ offset' = IF left THEN offset ELSE 0
    /\ UNCHANGED <<proxy, next, out, wire, left, line>>

\* A token's event.
SendToken ==
    /\ pc = "stream" /\ ~proxy /\ next < Upto(Frames)
    /\ Send(SubSeq(Answer, next + 1, next + Parts))
    /\ next' = next + Parts
    /\ UNCHANGED <<proxy, pc, wire, ready, left, line>>

\* Generation is over, or the prompt could not be prepared (fail_request):
\* stop_job_stream, then the final frames.
EndTokens ==
    /\ pc = "stream" /\ (proxy => next = Upto(1)) /\ WriteMuFree
    /\ pc' = "final"
    /\ ready' = FALSE
    /\ next' = Upto(Frames)
    /\ UNCHANGED <<proxy, out, wire, offset, left, line>>

SendDone ==
    /\ pc = "final" /\ next = Upto(Frames)
    /\ Send(SubSeq(Answer, next + 1, Upto(Done)))
    /\ next' = Upto(Done)
    /\ UNCHANGED <<proxy, pc, wire, ready, left, line>>

\* Wrong on purpose: each chunk is searched by itself.
HasDoneNoCarry(chunk) ==
    \E i \in 1 .. Len(chunk) : i + Parts - 1 <= Len(chunk) /\ SubSeq(chunk, i, i + Parts - 1) = Pieces(Done)

\* sse_chunk_has_done: a line that ends in this chunk is the [DONE] marker.
HasDone(chunk) ==
    LET seen == line \o chunk
    IN  \E i \in 1 .. Len(seen) :
            i + Parts - 1 <= Len(seen) /\ SubSeq(seen, i, i + Parts - 1) = Pieces(Done)

\* The pieces behind the last line end.
Unfinished(chunk) ==
    LET seen == line \o chunk
        cut  == {i \in 0 .. Len(seen) : i = 0 \/ IsEnd(seen[i])}
        last == CHOOSE i \in cut : \A j \in cut : j <= i
    IN  SubSeq(seen, last + 1, Len(seen))

\* curl_write_passthrough: the upstream's bytes as they arrive.  stop_stream
\* takes and releases write_mu before send_bytes takes it again.
ForwardChunk(k) ==
    /\ pc = "stream" /\ proxy /\ next + k <= Upto(Done)
    /\ LET chunk == SubSeq(Answer, next + 1, next + k)
       IN  /\ Send(chunk)
           /\ ready' = (ready /\ ~HasDone(chunk))
           /\ line' = Unfinished(chunk)
    /\ next' = next + k
    /\ UNCHANGED <<proxy, pc, wire, left>>

\* curl_forward stops the stream and returns, whatever the upstream has sent.
EndForward ==
    /\ pc = "stream" /\ proxy /\ WriteMuFree
    /\ pc' = "forwarded"
    /\ ready' = FALSE
    /\ UNCHANGED <<proxy, next, out, wire, offset, left, line>>

\* finish_job
Finish ==
    /\ pc # "finished" /\ WriteMuFree
    /\ left \/ pc = "forwarded" \/ (pc = "final" /\ next = Upto(Done))
    /\ pc' = "finished"
    /\ ready' = FALSE
    /\ UNCHANGED <<proxy, next, out, wire, offset, left, line>>

-----------------------------------------------------------------------------
(* enqueue_request_and_wait's monitor *)

CommentsSent == Cardinality({i \in 1 .. Len(wire) : wire[i] = Pieces(Comment)[1]})

\* Wrong on purpose: a comment sent in full is not forgotten.
HeartbeatNoReset(n) ==
    /\ pc # "finished" /\ WriteMuFree /\ ready /\ ~left
    /\ offset + n <= Parts /\ (offset > 0 \/ CommentsSent < Comments)
    /\ wire' = wire \o SubSeq(Pieces(Comment), offset + 1, offset + n)
    /\ offset' = offset + n
    /\ UNCHANGED <<proxy, pc, next, out, ready, left, line>>

\* maybe_send_job_heartbeat once the stream has been quiet long enough: n
\* pieces of the comment go out, from where the last attempt stopped.
Heartbeat(n) ==
    /\ pc # "finished" /\ WriteMuFree /\ ready /\ ~left
    /\ offset + n <= Parts /\ (offset > 0 \/ CommentsSent < Comments)
    /\ wire' = wire \o SubSeq(Pieces(Comment), offset + 1, offset + n)
    /\ offset' = (offset + n) % Parts
    /\ UNCHANGED <<proxy, pc, next, out, ready, left, line>>

HeartbeatFails ==
    /\ pc # "finished" /\ WriteMuFree /\ ready /\ ~left
    /\ left' = TRUE
    /\ offset' = 0
    /\ UNCHANGED <<proxy, pc, next, out, wire, ready, line>>

\* The monitor sees the connection gone; it does not take write_mu.
SeeDisconnect ==
    /\ pc # "finished" /\ ~left
    /\ left' = TRUE
    /\ UNCHANGED <<proxy, pc, next, out, wire, ready, offset, line>>

-----------------------------------------------------------------------------
Worker ==
    \/ WritePiece \/ WriteFails
    \/ SendHeaders \/ StartStream \/ SendToken \/ EndTokens \/ SendDone
    \/ (\E k \in 1 .. Done * Parts : ForwardChunk(k)) \/ EndForward
    \/ Finish

Monitor ==
    \/ \E n \in 1 .. Parts : Heartbeat(n)
    \/ HeartbeatFails \/ SeeDisconnect

Next == Worker \/ Monitor

Spec == Init /\ [][Next]_vars

-----------------------------------------------------------------------------
(* Properties *)

TypeOK ==
    /\ proxy \in BOOLEAN
    /\ pc \in {"headers", "stream", "final", "forwarded", "finished"}
    /\ next \in 0 .. Upto(Done)
    /\ out \in Seq(Piece) /\ wire \in Seq(Piece) /\ line \in Seq(Piece)
    /\ ready \in BOOLEAN /\ left \in BOOLEAN
    /\ offset \in 0 .. Parts - 1

\* Every item on the wire is finished before the next begins.
Unbroken ==
    \A i \in 1 .. Len(wire) :
        IF i = 1 \/ IsEnd(wire[i - 1]) THEN wire[i].part = 1
        ELSE /\ wire[i].item = wire[i - 1].item
             /\ wire[i].part = wire[i - 1].part + 1

\* Frames of a local answer and heartbeat comments never share bytes of one
\* another, whatever short writes, failures and disconnects happen, and after
\* an item that could not be finished nothing follows (write_mu,
\* heartbeat_offset, client_disconnected).
LocalUnbroken == ~proxy => Unbroken

\* The same for an answer forwarded from upstream.
ForwardedUnbroken == proxy => Unbroken

\* No comment follows the [DONE] marker, neither behind the final frames of a
\* local answer nor in a forwarded one, however the upstream's bytes are cut.
NoCommentAfterDone ==
    \A i, j \in 1 .. Len(wire) :
        i < j /\ wire[i] = Pieces(Done)[Parts] => wire[j].item # Comment

\* What is on the wire can be read, up to the end of the answer and behind it.
WireInOrder == LocalUnbroken /\ NoCommentAfterDone

\* A client that never went missing has got whole frames, in order and none
\* twice, and the final one, when the job is finished.
Delivered ==
    pc = "finished" /\ ~left /\ ~proxy =>
        /\ wire # <<>> /\ wire[Len(wire)] = Pieces(Done)[Parts]
        /\ \A i, j \in 1 .. Len(wire) :
              i < j /\ wire[i].item # Comment /\ wire[j].item # Comment =>
                  \/ wire[i].item < wire[j].item
                  \/ wire[i].item = wire[j].item /\ wire[i].part < wire[j].part

=============================================================================
