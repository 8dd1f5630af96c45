--------------------------- MODULE RequestService ---------------------------
(***************************************************************************)
(* What the HTTP server promises a client, whatever its threads do: an     *)
(* admitted request is served once, alone, and answered before its         *)
(* connection is closed; only a server that is closing refuses; and the    *)
(* server is gone only when nobody is left inside it.                      *)
(***************************************************************************)
CONSTANT Client

VARIABLES
    stage,    \* stage[c]: how far the request of client c has come
    closing,  \* the server was told to stop
    up        \* the server object still exists

svars == <<stage, closing, up>>

Stage == {"away", "open", "queued", "serving", "answered", "refused", "closed"}

Init == stage = [c \in Client |-> "away"] /\ closing = FALSE /\ up = TRUE

Move(c, from, to) == stage[c] = from /\ stage' = [stage EXCEPT ![c] = to]

Arrive(c) == up /\ Move(c, "away", "open") /\ UNCHANGED <<closing, up>>

\* Answered without the worker: not a generation, or not a valid request.
Bounce(c) == Move(c, "open", "closed") /\ UNCHANGED <<closing, up>>

Admit(c) == Move(c, "open", "queued") /\ UNCHANGED <<closing, up>>

Refuse(c) == closing /\ Move(c, "open", "refused") /\ UNCHANGED <<closing, up>>

Serve(c) ==
    /\ \A d \in Client : stage[d] # "serving"
    /\ Move(c, "queued", "serving")
    /\ UNCHANGED <<closing, up>>

Answer(c) == Move(c, "serving", "answered") /\ UNCHANGED <<closing, up>>

Close(c) ==
    /\ Move(c, "answered", "closed") \/ Move(c, "refused", "closed")
    /\ UNCHANGED <<closing, up>>

Stop == closing' = TRUE /\ UNCHANGED <<stage, up>>

Gone ==
    /\ up /\ closing
    /\ \A c \in Client : stage[c] \in {"away", "closed"}
    /\ up' = FALSE
    /\ UNCHANGED <<stage, closing>>

Next ==
    \/ \E c \in Client :
         \/ Arrive(c) \/ Bounce(c) \/ Admit(c) \/ Refuse(c)
         \/ Serve(c) \/ Answer(c) \/ Close(c)
    \/ Stop
    \/ Gone

Spec == Init /\ [][Next]_svars

=============================================================================
