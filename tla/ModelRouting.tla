---------------------------- MODULE ModelRouting ----------------------------
(***************************************************************************)
(* The listener's choice of a model for each request:                      *)
(* HttpServer::route_model_request (http_server.cpp).  Every request has a *)
(* thread of its own; the models are tried in the operator's order, each   *)
(* only after one of its places has been reserved under routing_mu_, and   *)
(* the engine behind it may still answer that it is busy or that the       *)
(* request does not fit.  Engines are external.                            *)
(***************************************************************************)
EXTENDS Integers, FiniteSets

CONSTANTS
    Req,        \* request threads
    NModels,    \* models_, in order of priority
    Capacity,   \* model.capacity
    QueueLimit, \* config_.routing_queue_limit
    Workloads,  \* what each request wants and which models it fits
    Leaving     \* bound: the requests whose clients may go away

Model == 1 .. NModels

Kinds == [wants : {"generate", "count", "unknown", "unnamed"}, model : Model, fits : SUBSET Model]

ASSUME RoutingAssumption ==
    /\ NModels \in Nat \ {0}
    /\ Capacity \in [Model -> Nat \ {0}]
    /\ QueueLimit \in Nat
    /\ Workloads \subseteq [Req -> Kinds]
    /\ IsFiniteSet(Req)

VARIABLES
    kind,      \* what each request is
    connected, \* is its client there?
    closing,   \* stopping_
    inFlight,  \* model.in_flight
    waiters,   \* routing_waiters_
    at,        \* where its thread is
    model,     \* the model its loop has come to
    unfit,     \* models whose engine found it too large
    active,    \* waiting.active: has it a place in the queue?
    answer     \* what it was told

routingVars == <<kind, connected, closing, inFlight, waiters, at, model, unfit, active, answer>>

Places == {"top", "scan", "probe", "join", "wait", "done"}
Answers == {"none", "handled", "gone", "too large", "unknown", "stopping", "full"}

Generates(r) == kind[r].wants = "generate"

\* The name a request gives matters only when tokens are counted.
Matches(r, m) == Generates(r) \/ (kind[r].wants = "count" /\ kind[r].model = m)
Known(r) == kind[r].wants \in {"generate", "count"}

\* Wrong on purpose: the last place is given twice.
FreeOneMore(r, m) == ~Generates(r) \/ inFlight[m] <= Capacity[m]

\* Counting reserves nothing.
Free(r, m) == ~Generates(r) \/ inFlight[m] < Capacity[m]

Reserving(r) == IF Generates(r) THEN 1 ELSE 0

RoutingInit ==
    /\ kind \in Workloads
    /\ connected = [r \in Req |-> TRUE]
    /\ closing = FALSE
    /\ inFlight = [m \in Model |-> 0]
    /\ waiters = 0
    /\ at = [r \in Req |-> "top"]
    /\ model = [r \in Req |-> 1]
    /\ unfit = [r \in Req |-> {}]
    /\ active = [r \in Req |-> FALSE]
    /\ answer = [r \in Req |-> "none"]

-----------------------------------------------------------------------------
\* Wrong on purpose: the place in the queue is not given back.
ConcludeKeeping(r, told) ==
    /\ at' = [at EXCEPT ![r] = "done"]
    /\ answer' = [answer EXCEPT ![r] = told]
    /\ active' = [active EXCEPT ![r] = FALSE]
    /\ UNCHANGED waiters

\* The function returns: ~Waiting gives back a place in the queue.
Conclude(r, told) ==
    /\ at' = [at EXCEPT ![r] = "done"]
    /\ answer' = [answer EXCEPT ![r] = told]
    /\ active' = [active EXCEPT ![r] = FALSE]
    /\ waiters' = IF active[r] THEN waiters - 1 ELSE waiters

\* The outer loop, which every wait leads back to.
Top(r) ==
    /\ at[r] = "top"
    /\ IF kind[r].wants = "unnamed" THEN Conclude(r, "unknown") /\ UNCHANGED model
       ELSE IF ~connected[r] THEN Conclude(r, "gone") /\ UNCHANGED model
       ELSE /\ at' = [at EXCEPT ![r] = "scan"]
            /\ model' = [model EXCEPT ![r] = 1]
            /\ UNCHANGED <<active, answer, waiters>>
    /\ UNCHANGED <<kind, connected, closing, inFlight, unfit>>

\* The next model has another name, was found unfit, or is full.
Skip(r) ==
    /\ at[r] = "scan" /\ model[r] \in Model
    /\ \/ ~Matches(r, model[r])
       \/ model[r] \in unfit[r]
       \/ ~closing /\ ~Free(r, model[r])
    /\ model' = [model EXCEPT ![r] = @ + 1]
    /\ UNCHANGED <<kind, connected, closing, inFlight, waiters, at, unfit, active, answer>>

\* A place in the model for a place in the queue.
Reserve(r) ==
    /\ at[r] = "scan" /\ model[r] \in Model
    /\ Matches(r, model[r]) /\ model[r] \notin unfit[r]
    /\ ~closing /\ Free(r, model[r])
    /\ inFlight' = [inFlight EXCEPT ![model[r]] = @ + Reserving(r)]
    /\ waiters' = IF active[r] THEN waiters - 1 ELSE waiters
    /\ active' = [active EXCEPT ![r] = FALSE]
    /\ at' = [at EXCEPT ![r] = "probe"]
    /\ UNCHANGED <<kind, connected, closing, model, unfit, answer>>

\* The loop over the models ends, or breaks because the server stops.
EndScan(r) ==
    /\ at[r] = "scan"
    /\ \/ model[r] = NModels + 1
       \/ model[r] \in Model /\ Matches(r, model[r]) /\ model[r] \notin unfit[r] /\ closing
    /\ at' = [at EXCEPT ![r] = "join"]
    /\ UNCHANGED <<kind, connected, closing, inFlight, waiters, model, unfit, active, answer>>

\* Wrong on purpose: what was never reserved is given back.
ReleasedAlways(r) == [inFlight EXCEPT ![model[r]] = @ - 1]

\* ~Reservation
Released(r) == [inFlight EXCEPT ![model[r]] = @ - Reserving(r)]

\* The engine has served the request, or answered it with an error.
Handled(r) ==
    /\ at[r] = "probe"
    /\ model[r] \in kind[r].fits \/ ~Generates(r)
    /\ Conclude(r, "handled")
    /\ inFlight' = Released(r)
    /\ UNCHANGED <<kind, connected, closing, model, unfit>>

\* The engine has no room at present, or its server is stopping.
Busy(r) ==
    /\ at[r] = "probe" /\ Generates(r) /\ model[r] \in kind[r].fits
    /\ at' = [at EXCEPT ![r] = "scan"]
    /\ model' = [model EXCEPT ![r] = @ + 1]
    /\ inFlight' = Released(r)
    /\ UNCHANGED <<kind, connected, closing, waiters, unfit, active, answer>>

\* The request exceeds the model's context.
Unfit(r) ==
    /\ at[r] = "probe" /\ Generates(r) /\ model[r] \notin kind[r].fits
    /\ at' = [at EXCEPT ![r] = "scan"]
    /\ model' = [model EXCEPT ![r] = @ + 1]
    /\ unfit' = [unfit EXCEPT ![r] = @ \union {model[r]}]
    /\ inFlight' = Released(r)
    /\ UNCHANGED <<kind, connected, closing, waiters, active, answer>>

\* Wrong on purpose: one engine's verdict is taken for all.
TooLargeForAny(r) == unfit[r] # {}

TooLarge(r) == unfit[r] = Model

\* No model has taken it.
Refuse(r) ==
    /\ at[r] = "join"
    /\ IF TooLarge(r) THEN Conclude(r, "too large")
       ELSE IF ~Known(r) THEN Conclude(r, "unknown")
       ELSE IF ~Generates(r) \/ closing THEN Conclude(r, "stopping")
       ELSE ~active[r] /\ waiters >= QueueLimit /\ Conclude(r, "full")
    /\ UNCHANGED <<kind, connected, closing, inFlight, model, unfit>>

\* It waits, keeping the place in the queue it may have.
Wait(r) ==
    /\ at[r] = "join" /\ Generates(r) /\ ~TooLarge(r) /\ ~closing
    /\ active[r] \/ waiters < QueueLimit
    /\ waiters' = IF active[r] THEN waiters ELSE waiters + 1
    /\ active' = [active EXCEPT ![r] = TRUE]
    /\ at' = [at EXCEPT ![r] = "wait"]
    /\ UNCHANGED <<kind, connected, closing, inFlight, model, unfit, answer>>

\* Wrong on purpose: only a place given back ends the wait.
WakeOnFree(r) ==
    /\ at[r] = "wait" /\ \E m \in Model : inFlight[m] < Capacity[m] /\ inFlight[m] > 0
    /\ at' = [at EXCEPT ![r] = "top"]
    /\ UNCHANGED <<kind, connected, closing, inFlight, waiters, model, unfit, active, answer>>

\* Notified, or after 250 ms.
Wake(r) ==
    /\ at[r] = "wait"
    /\ at' = [at EXCEPT ![r] = "top"]
    /\ UNCHANGED <<kind, connected, closing, inFlight, waiters, model, unfit, active, answer>>

-----------------------------------------------------------------------------
\* The environment: a client goes away, the operator stops the server.
Disconnect(r) ==
    /\ r \in Leaving /\ connected[r] /\ at[r] # "done"
    /\ connected' = [connected EXCEPT ![r] = FALSE]
    /\ UNCHANGED <<kind, closing, inFlight, waiters, at, model, unfit, active, answer>>

Stop ==
    /\ ~closing
    /\ closing' = TRUE
    /\ UNCHANGED <<kind, connected, inFlight, waiters, at, model, unfit, active, answer>>

Thread(r) == Top(r) \/ Skip(r) \/ Reserve(r) \/ EndScan(r) \/ Unfit(r) \/ Refuse(r) \/ Wait(r) \/ Wake(r)

RoutingNext == (\E r \in Req : Thread(r) \/ Handled(r) \/ Busy(r) \/ Disconnect(r)) \/ Stop

\* Threads run, waits are timed, and an engine that is asked again and again does
\* not answer for ever that it is busy.
RoutingFairness ==
    \A r \in Req : WF_routingVars(Thread(r)) /\ SF_routingVars(Handled(r)) /\ WF_routingVars(Handled(r) \/ Busy(r))

RoutingSpec == RoutingInit /\ [][RoutingNext]_routingVars /\ RoutingFairness

-----------------------------------------------------------------------------
(* Properties *)

RoutingTypeOK ==
    /\ kind \in [Req -> Kinds]
    /\ connected \in [Req -> BOOLEAN]
    /\ closing \in BOOLEAN
    /\ inFlight \in [Model -> Nat]
    /\ waiters \in Nat
    /\ at \in [Req -> Places]
    /\ model \in [Req -> 1 .. NModels + 1]
    /\ unfit \in [Req -> SUBSET Model]
    /\ active \in [Req -> BOOLEAN]
    /\ answer \in [Req -> Answers]

Holding(m) == {r \in Req : at[r] = "probe" /\ Generates(r) /\ model[r] = m}

\* Each model's counter is the number of threads that are with its engine, on
\* every path into and out of it, and never more than the engine takes.
ReservedWithinCapacity ==
    \A m \in Model : inFlight[m] = Cardinality(Holding(m)) /\ inFlight[m] <= Capacity[m]

\* The queue's counter is the number of threads that have a place in it; who waits
\* has one, who holds a model or has been answered has none.
QueueWithinLimit ==
    /\ waiters = Cardinality({r \in Req : active[r]}) /\ waiters <= QueueLimit
    /\ \A r \in Req : /\ at[r] = "wait" => active[r]
                      /\ at[r] \in {"probe", "done"} => ~active[r]

\* Places with the models and in the queue are accounted for on every path.
PlacesAccounted == ReservedWithinCapacity /\ QueueWithinLimit

\* Nobody is turned away as too large whom some model fits, as unknown who asked
\* for an answer, or because the server stops when it does not.
RefusedForCause ==
    \A r \in Req :
        /\ answer[r] = "too large" => Generates(r) /\ kind[r].fits = {}
        /\ answer[r] = "unknown" => ~Generates(r)
        /\ answer[r] = "stopping" => closing

\* Every request is answered or found gone, although a busy engine wakes nobody
\* and the notification of a stop may be lost.
EveryRequestEnds == \A r \in Req : <>(at[r] = "done")
=============================================================================
