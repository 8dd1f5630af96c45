------------------------- MODULE HttpServer_proofs -------------------------
(***************************************************************************)
(* Proofs about the two halves of HttpServer's request handling:           *)
(* ModelRouting, for any finite number of requests, any number of models,  *)
(* any capacities and any limit of the queue; and JobQueue, for any finite *)
(* number of connections: no dangling job pointer, nobody stranded by a    *)
(* worker that exits, nobody inside a server that is gone, and the         *)
(* refinement of RequestService.                                           *)
(***************************************************************************)
EXTENDS ModelRouting, JobQueue, FiniteSetTheorems, SequenceTheorems, TLAPS

-----------------------------------------------------------------------------
(* ModelRouting: the inductive invariant *)

InQueue == {r \in Req : active[r]}

\* A request is with an engine only at one of the models, and who counts tokens
\* never passes the model it names unless the server stops.
Position ==
    \A r \in Req :
        /\ at[r] = "probe" => model[r] \in Model
        /\ kind[r].wants = "count" /\ at[r] = "scan" => model[r] <= kind[r].model
        /\ kind[r].wants = "count" /\ at[r] = "join" => closing
        /\ at[r] = "wait" => Generates(r)

\* A verdict is only ever asked of an engine the request does not fit.
Verdicts == \A r \in Req : /\ unfit[r] \cap kind[r].fits = {}
                           /\ unfit[r] # {} => Generates(r)

IInv == RoutingTypeOK /\ PlacesAccounted /\ Position /\ Verdicts /\ RefusedForCause

-----------------------------------------------------------------------------
\* A set that gains an element it does not have grows by one.
LEMMA Grows ==
    ASSUME NEW S, NEW x, IsFiniteSet(S), x \notin S
    PROVE  Cardinality(S \union {x}) = Cardinality(S) + 1
  BY FS_AddElement

\* A set that loses an element is smaller by one, and was not empty.
LEMMA Shrinks ==
    ASSUME NEW S, NEW x, IsFiniteSet(S), x \in S
    PROVE  Cardinality(S) \in Nat /\ Cardinality(S) > 0 /\ Cardinality(S \ {x}) = Cardinality(S) - 1
  <1>1. Cardinality(S) \in Nat BY FS_CardinalityType
  <1>2. Cardinality(S \ {x}) = Cardinality(S) - 1 BY FS_RemoveElement
  <1>3. Cardinality(S \ {x}) \in Nat
    BY FS_RemoveElement, FS_CardinalityType
  <1> QED BY <1>1, <1>2, <1>3

\* The threads with a model and the threads in the queue can be counted.
LEMMA Countable == \A m \in Model : IsFiniteSet(Holding(m)) /\ IsFiniteSet(InQueue)
  BY RoutingAssumption, FS_Subset DEF Holding, InQueue

\* There is a model to be found unfit.
LEMMA SomeModel == Model # {}
  <1>1. 1 \in 1 .. NModels BY RoutingAssumption
  <1> QED BY <1>1 DEF Model

\* Nobody holds anything at the start.
LEMMA InitIInv == RoutingInit => IInv
  <1> SUFFICES ASSUME RoutingInit PROVE IInv OBVIOUS
  <1> USE RoutingAssumption
  <1>1. RoutingTypeOK
    <2>1. kind \in [Req -> Kinds] BY DEF RoutingInit
    <2>2. 1 \in 1 .. NModels + 1 OBVIOUS
    <2> QED BY <2>1, <2>2 DEF RoutingInit, RoutingTypeOK, Places, Answers
  <1>2. \A m \in Model : Holding(m) = {} BY DEF RoutingInit, Holding
  <1>3. InQueue = {} BY DEF RoutingInit, InQueue
  <1>4. PlacesAccounted
    <2>1. ReservedWithinCapacity
      <3>1. \A m \in Model : inFlight[m] = 0 /\ Capacity[m] \in Nat BY DEF RoutingInit
      <3>2. \A m \in Model : Cardinality(Holding(m)) = 0 BY <1>2, FS_EmptySet
      <3> QED BY <3>1, <3>2 DEF ReservedWithinCapacity
    <2>2. QueueWithinLimit
      BY <1>3, FS_EmptySet DEF RoutingInit, QueueWithinLimit, InQueue
    <2> QED BY <2>1, <2>2 DEF PlacesAccounted
  <1>5. Position BY DEF RoutingInit, Position, Model, Kinds
  <1>6. Verdicts BY DEF RoutingInit, Verdicts
  <1>7. RefusedForCause BY DEF RoutingInit, RefusedForCause
  <1> QED BY <1>1, <1>4, <1>5, <1>6, <1>7 DEF IInv

-----------------------------------------------------------------------------
\* What a step of one thread does to the others' counts: a place in the queue
\* is given up with the flag, and only by a thread that has it.
LEMMA QueueLeft ==
    ASSUME IInv, NEW r \in Req,
           active' = [active EXCEPT ![r] = FALSE],
           waiters' = IF active[r] THEN waiters - 1 ELSE waiters
    PROVE  waiters' \in Nat /\ waiters' = Cardinality(InQueue') /\ waiters' <= QueueLimit
  <1>1. /\ active \in [Req -> BOOLEAN] /\ waiters = Cardinality(InQueue)
        /\ waiters \in Nat /\ waiters <= QueueLimit /\ QueueLimit \in Nat
    BY RoutingAssumption DEF IInv, RoutingTypeOK, PlacesAccounted, QueueWithinLimit, InQueue
  <1>2. InQueue' = InQueue \ {r} BY <1>1 DEF InQueue
  <1>3. IsFiniteSet(InQueue) BY RoutingAssumption, FS_Subset DEF InQueue
  <1>4. CASE active[r]
    <2>1. r \in InQueue BY <1>4 DEF InQueue
    <2> QED BY <1>1, <1>2, <1>3, <1>4, <2>1, Shrinks
  <1>5. CASE ~active[r]
    <2>1. InQueue \ {r} = InQueue BY <1>5 DEF InQueue
    <2> QED BY <1>1, <1>2, <1>5, <2>1
  <1> QED BY <1>4, <1>5

\* A place with a model is taken by a thread that comes to its engine.
LEMMA PlaceTaken ==
    ASSUME IInv, NEW r \in Req, at[r] # "probe", model[r] \in Model, Free(r, model[r]),
           inFlight' = [inFlight EXCEPT ![model[r]] = @ + Reserving(r)],
           at' = [at EXCEPT ![r] = "probe"], UNCHANGED <<kind, model>>
    PROVE  inFlight' \in [Model -> Nat] /\ ReservedWithinCapacity'
  <1>1. inFlight \in [Model -> Nat] /\ at \in [Req -> Places] /\ Capacity \in [Model -> Nat]
    BY RoutingAssumption DEF IInv, RoutingTypeOK
  <1>2. inFlight' \in [Model -> Nat] BY <1>1 DEF Reserving
  <1>3. ASSUME NEW m \in Model
        PROVE  inFlight'[m] = Cardinality(Holding(m)') /\ inFlight'[m] <= Capacity[m]
    <2>1. inFlight[m] = Cardinality(Holding(m)) /\ inFlight[m] <= Capacity[m]
      BY DEF IInv, PlacesAccounted, ReservedWithinCapacity
    <2>2. CASE m = model[r] /\ Generates(r)
      <3>1. Holding(m)' = Holding(m) \union {r} BY <1>1, <2>2 DEF Holding, Generates
      <3>2. r \notin Holding(m) BY DEF Holding
      <3>3. inFlight'[m] = inFlight[m] + 1 BY <1>1, <2>2 DEF Reserving
      <3>4. inFlight[m] < Capacity[m] BY <2>2 DEF Free
      <3> QED BY <1>1, <2>1, <3>1, <3>2, <3>3, <3>4, Countable, Grows
    <2>3. CASE ~(m = model[r] /\ Generates(r))
      <3>1. Holding(m)' = Holding(m) BY <1>1, <2>3 DEF Holding, Generates
      <3>2. inFlight'[m] = inFlight[m] BY <1>1, <2>3 DEF Reserving
      <3> QED BY <2>1, <3>1, <3>2
    <2> QED BY <2>2, <2>3
  <1> QED BY <1>2, <1>3 DEF ReservedWithinCapacity

\* A place with a model is given back by a thread that leaves its engine.
LEMMA PlaceReturned ==
    ASSUME IInv, NEW r \in Req, at[r] = "probe",
           inFlight' = Released(r), NEW p, p # "probe",
           at' = [at EXCEPT ![r] = p], kind' = kind,
           \A q \in Req \ {r} : model'[q] = model[q]
    PROVE  inFlight' \in [Model -> Nat] /\ ReservedWithinCapacity'
  <1>1. /\ inFlight \in [Model -> Nat] /\ at \in [Req -> Places]
        /\ Capacity \in [Model -> Nat] /\ model[r] \in Model
    BY RoutingAssumption DEF IInv, RoutingTypeOK, Position
  <1>2. ASSUME NEW m \in Model
        PROVE  /\ inFlight'[m] \in Nat
               /\ inFlight'[m] = Cardinality(Holding(m)') /\ inFlight'[m] <= Capacity[m]
    <2>1. inFlight[m] = Cardinality(Holding(m)) /\ inFlight[m] <= Capacity[m]
      BY DEF IInv, PlacesAccounted, ReservedWithinCapacity
    <2>2. CASE m = model[r] /\ Generates(r)
      <3>1. Holding(m)' = Holding(m) \ {r} BY <1>1, <2>2 DEF Holding, Generates
      <3>2. r \in Holding(m) BY <2>2 DEF Holding
      <3>3. inFlight'[m] = inFlight[m] - 1 BY <1>1, <2>2 DEF Released, Reserving
      <3> QED BY <1>1, <2>1, <3>1, <3>2, <3>3, Countable, Shrinks
    <2>3. CASE ~(m = model[r] /\ Generates(r))
      <3>1. Holding(m)' = Holding(m) BY <1>1, <2>3 DEF Holding, Generates
      <3>2. inFlight'[m] = inFlight[m] BY <1>1, <2>3 DEF Released, Reserving
      <3> QED BY <1>1, <2>1, <3>1, <3>2
    <2> QED BY <2>2, <2>3
  <1>3. inFlight' \in [Model -> Nat] BY <1>1, <1>2 DEF Released
  <1> QED BY <1>2, <1>3 DEF ReservedWithinCapacity

\* Who moves without coming to an engine or leaving one changes no count.
LEMMA PlacesKept ==
    ASSUME IInv, NEW r \in Req, at[r] # "probe", NEW p, p # "probe",
           at' = [at EXCEPT ![r] = p], UNCHANGED <<kind, inFlight>>,
           \A q \in Req \ {r} : model'[q] = model[q]
    PROVE  inFlight' \in [Model -> Nat] /\ ReservedWithinCapacity'
  <1>1. inFlight \in [Model -> Nat] /\ at \in [Req -> Places] BY DEF IInv, RoutingTypeOK
  <1>2. \A m \in Model : Holding(m)' = Holding(m) BY <1>1 DEF Holding, Generates
  <1> QED BY <1>1, <1>2 DEF IInv, PlacesAccounted, ReservedWithinCapacity

-----------------------------------------------------------------------------
\* A thread that returns leaves everything in order, whatever it was told.
LEMMA Returned ==
    ASSUME IInv, NEW r \in Req, NEW told \in Answers, Conclude(r, told),
           inFlight' \in [Model -> Nat] /\ ReservedWithinCapacity',
           model' \in [Req -> 1 .. NModels + 1], \A q \in Req \ {r} : model'[q] = model[q],
           told = "too large" => Generates(r) /\ kind[r].fits = {},
           told = "unknown" => ~Generates(r), told = "stopping" => closing,
           UNCHANGED <<kind, connected, closing, unfit>>
    PROVE  IInv'
  <1> USE DEF Conclude
  <1>1. RoutingTypeOK /\ QueueWithinLimit /\ Position /\ Verdicts /\ RefusedForCause
    BY DEF IInv, PlacesAccounted
  <1>2. waiters' \in Nat /\ waiters' = Cardinality(InQueue') /\ waiters' <= QueueLimit
    BY QueueLeft
  <1>3. /\ at' = [at EXCEPT ![r] = "done"] /\ active' = [active EXCEPT ![r] = FALSE]
        /\ answer' = [answer EXCEPT ![r] = told]
    OBVIOUS
  <1> HIDE DEF Conclude
  <1>4. RoutingTypeOK' BY <1>1, <1>2, <1>3 DEF RoutingTypeOK, Places
  <1>5. QueueWithinLimit' BY <1>1, <1>2, <1>3 DEF QueueWithinLimit, InQueue, RoutingTypeOK
  <1>6. Position' BY <1>1, <1>3 DEF Position, RoutingTypeOK, Generates
  <1>7. Verdicts' BY <1>1 DEF Verdicts, Generates
  <1>8. RefusedForCause' BY <1>1, <1>3 DEF RefusedForCause, RoutingTypeOK, Generates
  <1> QED BY <1>4, <1>5, <1>6, <1>7, <1>8 DEF IInv, PlacesAccounted

\* The invariant is inductive.
LEMMA StepIInv == IInv /\ [RoutingNext]_routingVars => IInv'
  <1> SUFFICES ASSUME IInv, [RoutingNext]_routingVars PROVE IInv'
    OBVIOUS
  <1>0. /\ RoutingTypeOK /\ ReservedWithinCapacity /\ QueueWithinLimit
        /\ Position /\ Verdicts /\ RefusedForCause
        /\ NModels \in Nat \ {0} /\ QueueLimit \in Nat
    BY RoutingAssumption DEF IInv, PlacesAccounted
  <1>1. ASSUME NEW r \in Req, Top(r) PROVE IInv'
    <2>0. at[r] = "top" BY <1>1 DEF Top
    <2>1. ASSUME NEW told \in {"unknown", "gone"}, Conclude(r, told), UNCHANGED model,
                 told = "unknown" => kind[r].wants = "unnamed"
          PROVE  IInv'
      <3>1. inFlight' \in [Model -> Nat] /\ ReservedWithinCapacity'
        BY <1>1, <2>0, <2>1, PlacesKept DEF Top, Conclude
      <3> QED BY ZenonT(40), <1>0, <1>1, <2>1, <3>1, Returned DEF Top, Answers, Generates, RoutingTypeOK
    <2>2. ASSUME at' = [at EXCEPT ![r] = "scan"], model' = [model EXCEPT ![r] = 1],
                 UNCHANGED <<active, answer, waiters>>
          PROVE  IInv'
      <3>0. UNCHANGED <<kind, connected, closing, inFlight, unfit>> BY <1>1 DEF Top
      <3>1. inFlight' \in [Model -> Nat] /\ ReservedWithinCapacity'
        BY <1>0, <2>0, <2>2, <3>0, PlacesKept DEF RoutingTypeOK
      <3>2. RoutingTypeOK'
        <4>1. 1 \in 1 .. NModels + 1 BY <1>0
        <4> QED BY <1>0, <2>2, <3>0, <4>1 DEF RoutingTypeOK, Places
      <3>3. QueueWithinLimit' BY <1>0, <2>2 DEF QueueWithinLimit, RoutingTypeOK
      <3>4. Position'
        <4>1. 1 <= kind[r].model BY <1>0 DEF RoutingTypeOK, Kinds, Model
        <4> QED BY <1>0, <2>2, <3>0, <4>1 DEF Position, RoutingTypeOK, Generates
      <3>5. Verdicts' BY <1>0, <3>0 DEF Verdicts, Generates
      <3>6. RefusedForCause' BY <1>0, <2>2, <3>0 DEF RefusedForCause, Generates
      <3> QED BY <3>1, <3>2, <3>3, <3>4, <3>5, <3>6 DEF IInv, PlacesAccounted
    <2> QED BY <1>1, <2>1, <2>2 DEF Top
  <1>2. ASSUME NEW r \in Req, Skip(r) PROVE IInv'
    <2>0. /\ at[r] = "scan" /\ model[r] \in Model /\ model' = [model EXCEPT ![r] = @ + 1]
          /\ UNCHANGED <<kind, connected, closing, inFlight, waiters, at, unfit, active, answer>>
      BY <1>2 DEF Skip
    <2>1. ReservedWithinCapacity'
      <3>1. \A m \in Model : Holding(m)' = Holding(m)
        BY <1>0, <2>0 DEF Holding, Generates, RoutingTypeOK
      <3> QED BY <1>0, <2>0, <3>1 DEF ReservedWithinCapacity
    <2>2. RoutingTypeOK' BY <1>0, <2>0 DEF RoutingTypeOK, Model
    <2>3. QueueWithinLimit' BY <1>0, <2>0 DEF QueueWithinLimit
    <2>4. Position'
      <3>1. CASE kind[r].wants = "count"
        <4>1. model[r] <= kind[r].model BY <1>0, <2>0, <3>1 DEF Position
        <4>2. model[r] \notin unfit[r] /\ Free(r, model[r])
          BY <1>0, <3>1 DEF Verdicts, Generates, Free
        <4>3. kind[r].model # model[r] BY <1>2, <3>1, <4>2 DEF Skip, Matches
        <4>4. kind[r].model \in Nat BY <1>0 DEF RoutingTypeOK, Kinds, Model
        <4>5. model'[r] <= kind[r].model BY <1>0, <2>0, <4>1, <4>3, <4>4 DEF RoutingTypeOK, Model
        <4> QED BY <1>0, <2>0, <4>5 DEF Position, RoutingTypeOK, Generates
      <3>2. CASE kind[r].wants # "count"
        BY <1>0, <2>0, <3>2 DEF Position, RoutingTypeOK, Generates
      <3> QED BY <3>1, <3>2
    <2>5. Verdicts' BY <1>0, <2>0 DEF Verdicts, Generates
    <2>6. RefusedForCause' BY <1>0, <2>0 DEF RefusedForCause, Generates
    <2> QED BY <2>1, <2>2, <2>3, <2>4, <2>5, <2>6 DEF IInv, PlacesAccounted
  <1>3. ASSUME NEW r \in Req, Reserve(r) PROVE IInv'
    <2>0. /\ at[r] = "scan" /\ model[r] \in Model /\ at' = [at EXCEPT ![r] = "probe"]
          /\ active' = [active EXCEPT ![r] = FALSE]
          /\ UNCHANGED <<kind, connected, closing, model, unfit, answer>>
      BY <1>3 DEF Reserve
    <2>1. inFlight' \in [Model -> Nat] /\ ReservedWithinCapacity'
      BY <1>3, <2>0, PlaceTaken DEF Reserve
    <2>2. waiters' \in Nat /\ waiters' = Cardinality(InQueue') /\ waiters' <= QueueLimit
      BY <1>3, QueueLeft DEF Reserve
    <2>3. RoutingTypeOK' BY <1>0, <2>0, <2>1, <2>2 DEF RoutingTypeOK, Places
    <2>4. QueueWithinLimit' BY <1>0, <2>0, <2>2 DEF QueueWithinLimit, InQueue, RoutingTypeOK
    <2>5. Position' BY <1>0, <2>0 DEF Position, RoutingTypeOK, Generates
    <2>6. Verdicts' BY <1>0, <2>0 DEF Verdicts, Generates
    <2>7. RefusedForCause' BY <1>0, <2>0 DEF RefusedForCause, Generates
    <2> QED BY <2>1, <2>3, <2>4, <2>5, <2>6, <2>7 DEF IInv, PlacesAccounted
  <1>4. ASSUME NEW r \in Req, EndScan(r) PROVE IInv'
    <2>0. /\ at[r] = "scan" /\ at' = [at EXCEPT ![r] = "join"]
          /\ UNCHANGED <<kind, connected, closing, inFlight, waiters, model, unfit, active, answer>>
      BY <1>4 DEF EndScan
    <2>1. ReservedWithinCapacity' BY <2>0, PlacesKept
    <2>2. RoutingTypeOK' BY <1>0, <2>0 DEF RoutingTypeOK, Places
    <2>3. QueueWithinLimit' BY <1>0, <2>0 DEF QueueWithinLimit, RoutingTypeOK
    <2>4. Position'
      <3>1. kind[r].wants = "count" => closing
        <4> SUFFICES ASSUME kind[r].wants = "count" PROVE closing
          OBVIOUS
        <4>1. model[r] <= kind[r].model BY <1>0, <2>0 DEF Position
        <4>2. kind[r].model \in 1 .. NModels BY <1>0 DEF RoutingTypeOK, Kinds, Model
        <4>3. model[r] # NModels + 1 BY <1>0, <4>1, <4>2
        <4> QED BY <1>4, <4>3 DEF EndScan
      <3> QED BY <1>0, <2>0, <3>1 DEF Position, RoutingTypeOK, Generates
    <2>5. Verdicts' BY <1>0, <2>0 DEF Verdicts, Generates
    <2>6. RefusedForCause' BY <1>0, <2>0 DEF RefusedForCause, Generates
    <2> QED BY <2>1, <2>2, <2>3, <2>4, <2>5, <2>6 DEF IInv, PlacesAccounted
  <1>5. ASSUME NEW r \in Req, Handled(r) PROVE IInv'
    <2>1. at[r] = "probe" /\ Conclude(r, "handled") /\ inFlight' = Released(r)
          /\ UNCHANGED <<kind, connected, closing, model, unfit>>
      BY <1>5 DEF Handled
    <2>2. inFlight' \in [Model -> Nat] /\ ReservedWithinCapacity'
      BY <2>1, PlaceReturned DEF Conclude
    <2>3. model' \in [Req -> 1 .. NModels + 1] BY <1>0, <2>1 DEF RoutingTypeOK
    <2> QED BY <2>1, <2>2, <2>3, Returned DEF Answers
  <1>6. ASSUME NEW r \in Req, Busy(r) \/ Unfit(r) PROVE IInv'
    <2>0. /\ at[r] = "probe" /\ Generates(r) /\ at' = [at EXCEPT ![r] = "scan"]
          /\ model' = [model EXCEPT ![r] = @ + 1] /\ inFlight' = Released(r)
          /\ UNCHANGED <<kind, connected, closing, waiters, active, answer>>
      BY <1>6 DEF Busy, Unfit
    <2>1. model[r] \in Model BY <1>0, <2>0 DEF Position
    <2>2. inFlight' \in [Model -> Nat] /\ ReservedWithinCapacity'
      BY <1>0, <2>0, PlaceReturned DEF RoutingTypeOK
    <2>3. unfit' = unfit \/ (unfit' = [unfit EXCEPT ![r] = @ \union {model[r]}]
                              /\ model[r] \notin kind[r].fits)
      BY <1>6 DEF Busy, Unfit
    <2>4. RoutingTypeOK'
      <3>1. model' \in [Req -> 1 .. NModels + 1] BY <1>0, <2>0, <2>1 DEF RoutingTypeOK, Model
      <3>2. unfit' \in [Req -> SUBSET Model] BY <1>0, <2>1, <2>3 DEF RoutingTypeOK
      <3> QED BY <1>0, <2>0, <2>2, <3>1, <3>2 DEF RoutingTypeOK, Places
    <2>5. QueueWithinLimit' BY <1>0, <2>0 DEF QueueWithinLimit, RoutingTypeOK
    <2>6. Position' BY <1>0, <2>0 DEF Position, RoutingTypeOK, Generates
    <2>7. Verdicts' BY <1>0, <2>0, <2>3 DEF Verdicts, RoutingTypeOK, Generates
    <2>8. RefusedForCause' BY <1>0, <2>0 DEF RefusedForCause, Generates
    <2> QED BY <2>2, <2>4, <2>5, <2>6, <2>7, <2>8 DEF IInv, PlacesAccounted
  <1>7. ASSUME NEW r \in Req, Refuse(r) PROVE IInv'
    <2>0. at[r] = "join" /\ UNCHANGED <<kind, connected, closing, inFlight, model, unfit>>
      BY <1>7 DEF Refuse
    <2>1. PICK told \in {"too large", "unknown", "stopping", "full"} :
             /\ Conclude(r, told)
             /\ told = "too large" => TooLarge(r)
             /\ told = "unknown" => ~Known(r)
             /\ told = "stopping" => Known(r) /\ (~Generates(r) \/ closing)
      BY <1>7 DEF Refuse
    <2>2. inFlight' \in [Model -> Nat] /\ ReservedWithinCapacity'
      BY <2>0, <2>1, PlacesKept DEF Conclude
    <2>3. model' \in [Req -> 1 .. NModels + 1] BY <1>0, <2>0 DEF RoutingTypeOK
    <2>4. told = "too large" => Generates(r) /\ kind[r].fits = {}
      <3> SUFFICES ASSUME unfit[r] = Model PROVE Generates(r) /\ kind[r].fits = {}
        BY <2>1 DEF TooLarge
      <3>2. kind[r].fits \subseteq Model BY <1>0 DEF RoutingTypeOK, Kinds
      <3> QED BY <1>0, <3>2, SomeModel DEF Verdicts
    <2>5. told = "unknown" => ~Generates(r) BY <2>1 DEF Known, Generates
    <2>6. told = "stopping" => closing BY <1>0, <2>0, <2>1 DEF Position, Known, Generates
    <2>7. told \in Answers BY <2>1 DEF Answers
    <2> QED BY <2>0, <2>1, <2>2, <2>3, <2>4, <2>5, <2>6, <2>7, Returned
  <1>8. ASSUME NEW r \in Req, Wait(r) PROVE IInv'
    <2>0. /\ at[r] = "join" /\ Generates(r) /\ at' = [at EXCEPT ![r] = "wait"]
          /\ active' = [active EXCEPT ![r] = TRUE] /\ (active[r] \/ waiters < QueueLimit)
          /\ waiters' = IF active[r] THEN waiters ELSE waiters + 1
          /\ UNCHANGED <<kind, connected, closing, inFlight, model, unfit, answer>>
      BY <1>8 DEF Wait
    <2>1. ReservedWithinCapacity' BY <2>0, PlacesKept
    <2>2. RoutingTypeOK' BY <1>0, <2>0 DEF RoutingTypeOK, Places
    <2>3. waiters' = Cardinality(InQueue') /\ waiters' <= QueueLimit
      <3>0. waiters = Cardinality(InQueue) /\ waiters <= QueueLimit /\ waiters \in Nat
        BY <1>0 DEF QueueWithinLimit, InQueue, RoutingTypeOK
      <3>1. InQueue' = InQueue \union {r} BY <1>0, <2>0 DEF InQueue, RoutingTypeOK
      <3>2. IsFiniteSet(InQueue) BY RoutingAssumption, FS_Subset DEF InQueue
      <3>3. CASE active[r]
        <4>1. InQueue \union {r} = InQueue BY <3>3 DEF InQueue
        <4> QED BY <2>0, <3>0, <3>1, <3>3, <4>1
      <3>4. CASE ~active[r]
        <4>1. r \notin InQueue BY <3>4 DEF InQueue
        <4> QED BY <1>0, <2>0, <3>0, <3>1, <3>2, <3>4, <4>1, Grows
      <3> QED BY <3>3, <3>4
    <2>4. QueueWithinLimit' BY <1>0, <2>0, <2>3 DEF QueueWithinLimit, InQueue, RoutingTypeOK
    <2>5. Position' BY <1>0, <2>0 DEF Position, RoutingTypeOK, Generates
    <2>6. Verdicts' BY <1>0, <2>0 DEF Verdicts, Generates
    <2>7. RefusedForCause' BY <1>0, <2>0 DEF RefusedForCause, Generates
    <2> QED BY <2>1, <2>2, <2>4, <2>5, <2>6, <2>7 DEF IInv, PlacesAccounted
  <1>9. ASSUME NEW r \in Req, Wake(r) PROVE IInv'
    <2>0. /\ at[r] = "wait" /\ at' = [at EXCEPT ![r] = "top"]
          /\ UNCHANGED <<kind, connected, closing, inFlight, waiters, model, unfit, active, answer>>
      BY <1>9 DEF Wake
    <2>1. ReservedWithinCapacity' BY <2>0, PlacesKept
    <2>2. RoutingTypeOK' BY <1>0, <2>0 DEF RoutingTypeOK, Places
    <2>3. QueueWithinLimit' BY <1>0, <2>0 DEF QueueWithinLimit, RoutingTypeOK
    <2>4. Position' BY <1>0, <2>0 DEF Position, RoutingTypeOK, Generates
    <2>5. Verdicts' BY <1>0, <2>0 DEF Verdicts, Generates
    <2>6. RefusedForCause' BY <1>0, <2>0 DEF RefusedForCause, Generates
    <2> QED BY <2>1, <2>2, <2>3, <2>4, <2>5, <2>6 DEF IInv, PlacesAccounted
  <1>10. ASSUME NEW r \in Req, Disconnect(r) PROVE IInv'
    <2>0. /\ connected' = [connected EXCEPT ![r] = FALSE]
          /\ UNCHANGED <<kind, closing, inFlight, waiters, at, model, unfit, active, answer>>
      BY <1>10 DEF Disconnect
    <2> QED
      BY ZenonT(40), <1>0, <2>0 DEF IInv, RoutingTypeOK, PlacesAccounted, ReservedWithinCapacity, Holding, Generates,
         QueueWithinLimit, Position, Verdicts, RefusedForCause
  <1>11. ASSUME Stop PROVE IInv'
    BY <1>0, <1>11 DEF Stop, IInv, RoutingTypeOK, PlacesAccounted, ReservedWithinCapacity, Holding, Generates,
       QueueWithinLimit, Position, Verdicts, RefusedForCause
  <1>12. CASE UNCHANGED routingVars
    BY <1>0, <1>12 DEF routingVars, IInv, RoutingTypeOK, PlacesAccounted, ReservedWithinCapacity, Holding, Generates,
       QueueWithinLimit, Position, Verdicts, RefusedForCause
  <1> QED
    BY <1>1, <1>2, <1>3, <1>4, <1>5, <1>6, <1>7, <1>8, <1>9, <1>10, <1>11, <1>12 DEF RoutingNext, Thread

\* Places are accounted for in every behaviour.
LEMMA Invariance == RoutingSpec => []IInv
  BY InitIInv, StepIInv, PTL DEF RoutingSpec

-----------------------------------------------------------------------------
\* Type correctness: neither counter of route_model_request goes below zero.
THEOREM RoutingTypeCorrect == RoutingSpec => []RoutingTypeOK
  <1>1. IInv => RoutingTypeOK BY DEF IInv
  <1> QED BY <1>1, Invariance, PTL

\* in_flight of every model and routing_waiters_ are the numbers of threads that
\* hold a place, on every way into and out of route_model_request, and within
\* the model's capacity and the limit of the queue.
THEOREM PlacesCorrect == RoutingSpec => []PlacesAccounted
  <1>1. IInv => PlacesAccounted BY DEF IInv
  <1> QED BY <1>1, Invariance, PTL

\* No request is refused for a reason that does not hold of it.
THEOREM RefusalsCorrect == RoutingSpec => []RefusedForCause
  <1>1. IInv => RefusedForCause BY DEF IInv
  <1> QED BY <1>1, Invariance, PTL

-----------------------------------------------------------------------------
(* JobQueue: the inductive invariant *)

USE QueueAssumption

\* What is queued is waiting for its answer, and queued once.
QueueShape ==
    /\ \A i \in 1 .. Len(queue) :
         handler[queue[i]] = "waiting" /\ ~done[queue[i]] /\ queue[i] # current
    /\ \A i, j \in 1 .. Len(queue) : queue[i] = queue[j] => i = j

\* So is what the worker holds, if it is busy.
CurrentShape ==
    /\ worker \in {"start", "generate", "finish"} <=> current \in Client
    /\ current \in Client => handler[current] = "waiting" /\ ~done[current]

\* Nobody waits for nothing.
Waiters ==
    \A c \in Client : handler[c] = "waiting" /\ ~done[c] => Queued(c) \/ current = c

\* A job is fresh until it is enqueued; a refusal is an answer.
Fresh ==
    /\ \A c \in Client :
         handler[c] \in {"none", "reading", "enqueue"} => ~done[c] /\ ~refused[c]
    /\ \A c \in Client : refused[c] => done[c]

\* Once run() leaves the accept loop, and once the worker exits, it is for good.
Stopped ==
    /\ main \in {"stop", "join", "drain", "sleep", "save", "down"} => stopping
    /\ worker = "exited" => stopping /\ queue = <<>>
    /\ main \in {"drain", "sleep", "save", "down"} => worker = "exited"

\* The handlers active_clients_ counts.
Inside == {c \in Client : handler[c] \in {"reading", "enqueue", "waiting", "returned"}}

Counted == active_clients = Cardinality(Inside)

Empty == main \in {"save", "down"} => \A c \in Client : handler[c] \in {"none", "gone"}

\* Everything the invariant says but for the count of handlers.
Core == TypeOK /\ QueueShape /\ CurrentShape /\ Waiters /\ Fresh /\ Stopped /\ Empty

Inv == Core /\ Counted

\* The counter is zero only when no handler is inside.
LEMMA CountProperties ==
    ASSUME Counted, handler \in [Client -> HandlerState]
    PROVE  /\ IsFiniteSet(Inside)
           /\ active_clients \in Nat
           /\ active_clients = 0 <=> Inside = {}
<1>1. IsFiniteSet(Inside)
  BY FS_Subset, Inside \subseteq Client DEF Inside
<1> QED BY <1>1, FS_CardinalityType, FS_EmptySet DEF Counted

\* Each action leaves the set of handlers inside the server alone, or adds or
\* removes the one that acts.
LEMMA CountStep ==
    ASSUME Inv, [Next]_vars
    PROVE  Counted'
<1>1. IsFiniteSet(Inside) /\ active_clients = Cardinality(Inside) /\ handler \in [Client -> HandlerState]
  BY CountProperties DEF Inv, Core, TypeOK, Counted
<1>2. ASSUME NEW c \in Client, Accept(c)  PROVE Counted'
  <2>1. Inside' = Inside \cup {c} /\ c \notin Inside /\ active_clients' = active_clients + 1
    BY <1>1, <1>2 DEF Accept, Inside, HandlerState
  <2> QED BY <1>1, <2>1, FS_AddElement DEF Counted
<1>3. ASSUME NEW c \in Client, Leave(c)  PROVE Counted'
  <2>1. Inside' = Inside \ {c} /\ c \in Inside /\ active_clients' = active_clients - 1
    BY <1>1, <1>3 DEF Leave, Inside, HandlerState
  <2> QED BY <1>1, <2>1, FS_RemoveElement DEF Counted
<1>4. ASSUME Inside' = Inside, active_clients' = active_clients  PROVE Counted'
  BY <1>4, <1>1 DEF Counted
<1>5. CASE UNCHANGED <<handler, active_clients>>
  BY <1>4, <1>5 DEF Inside
<1>6. ASSUME NEW c \in Client, PeerLeaves(c) \/ Reply(c) \/ ReadRequest(c) \/ Enqueue(c)
                               \/ Monitor(c) \/ Return(c) \/ Unlock(c)
      PROVE Counted'
  <2>1. active_clients' = active_clients
    BY <1>6 DEF PeerLeaves, Reply, ReadRequest, Enqueue, Monitor, Return, Unlock
  <2>2. Inside' = Inside
    BY <1>1, <1>6 DEF PeerLeaves, Reply, ReadRequest, Enqueue, Monitor, Return, Unlock,
                      Inside, HandlerState
  <2> QED BY <1>4, <2>1, <2>2
<1>7. CASE Signal
  BY <1>5, <1>7 DEF Signal
<1>8. CASE Main
  <2>1. CASE CheckStop \/ PollTimeout \/ StopWorker \/ Join \/ DrainClients \/ Shutdown
    BY <1>5, <2>1 DEF CheckStop, PollTimeout, StopWorker, Join, DrainClients, Shutdown
  <2> QED BY <1>2, <1>8, <2>1 DEF Main
<1>9. ASSUME NEW c \in Client, Handler(c)  PROVE Counted'
  BY <1>3, <1>6, <1>9 DEF Handler
<1>10. CASE Worker
  BY <1>5, <1>10 DEF Worker, Dequeue, Sleep, WaitTimeout, StartJob, GenerateToken,
                     EndGeneration, FinishJob
<1>11. CASE UNCHANGED vars
  BY <1>5, <1>11 DEF vars
<1> QED BY <1>7, <1>8, <1>9, <1>10, <1>11 DEF Next

-----------------------------------------------------------------------------
(* The rest *)

\* Every step keeps the queue, the worker's job and who waits for them in shape.
LEMMA CoreStep ==
    ASSUME Inv, [Next]_vars, active_clients' \in Nat
    PROVE  Core'
<1> USE DEF Core, TypeOK, MainState, WorkerState, HandlerState, QueueShape, CurrentShape,
            Waiters, Queued, Fresh, Stopped, Empty, mainVars, workerVars, jobVars
<1>a. Core /\ active_clients' \in Nat
  BY DEF Inv
<1>1. CASE Signal
  BY <1>1, <1>a DEF Signal
<1>2. CASE CheckStop
  BY <1>2, <1>a DEF CheckStop
<1>3. CASE PollTimeout
  BY <1>3, <1>a DEF PollTimeout
<1>4. CASE StopWorker
  BY <1>4, <1>a DEF StopWorker, NotifyWorker
<1>5. CASE Join
  BY <1>5, <1>a DEF Join
<1>6. CASE DrainClients
  <2>1. active_clients = 0 => \A c \in Client : handler[c] \in {"none", "gone"}
    <3>1. active_clients = 0 => Inside = {}
      BY CountProperties, <1>a DEF Inv
    <3> QED BY <3>1, <1>6, <1>a DEF DrainClients, ClientsFree, Inside
  <2> QED BY <2>1, <1>6, <1>a DEF DrainClients
<1>7. CASE Shutdown
  BY <1>7, <1>a DEF Shutdown
<1>8. CASE Dequeue
  <2>1. CASE queue = <<>>
    BY <1>8, <1>a, <2>1 DEF Dequeue
  <2>2. CASE queue # <<>>
    <3>1. /\ Head(queue) = queue[1] /\ queue[1] \in Client /\ Len(queue) \in Nat /\ Len(queue) > 0
          /\ Tail(queue) \in Seq(Client) /\ Len(Tail(queue)) = Len(queue) - 1
          /\ \A i \in 1 .. Len(Tail(queue)) : Tail(queue)[i] = queue[i + 1]
      BY <1>a, <2>2, HeadTailProperties
    <3>2. /\ worker' = "start" /\ current' = queue[1] /\ queue' = Tail(queue) /\ worker = "ready"
          /\ UNCHANGED <<main, stopping, tokens, handler, done, refused, disconnected, peerGone>>
      BY <1>8, <2>2, <3>1 DEF Dequeue
    <3>3. TypeOK' /\ CurrentShape' /\ Fresh' /\ Stopped' /\ Empty'
      BY <1>a, <3>1, <3>2
    <3>4. \A i \in 1 .. Len(queue') : i + 1 \in 1 .. Len(queue) /\ queue'[i] = queue[i + 1]
      BY <3>1, <3>2
    <3>5. QueueShape'
      BY <1>a, <3>1, <3>2, <3>4
    <3>6. ASSUME NEW c \in Client, handler[c] = "waiting" /\ ~done[c]
          PROVE  (\E i \in 1 .. Len(queue') : queue'[i] = c) \/ current' = c
      <4>1. PICK i \in 1 .. Len(queue) : queue[i] = c
        BY <1>a, <3>2, <3>6
      <4>2. CASE i = 1
        BY <4>1, <4>2, <3>2
      <4>3. CASE i # 1
        <5>1. i - 1 \in 1 .. Len(queue') /\ queue'[i - 1] = c
          BY <4>1, <4>3, <3>1, <3>2
        <5> QED BY <5>1
      <4> QED BY <4>2, <4>3
    <3>7. Waiters'
      BY <3>2, <3>6
    <3> QED BY <3>3, <3>5, <3>7
  <2> QED BY <2>1, <2>2
<1>9. CASE Sleep
  BY <1>9, <1>a DEF Sleep
<1>10. CASE WaitTimeout
  BY <1>10, <1>a DEF WaitTimeout
<1>11. CASE FinishJob
  BY <1>11, <1>a DEF FinishJob
<1>12. ASSUME NEW c \in Client, Accept(c)  PROVE Core'
  BY <1>12, <1>a DEF Accept
<1>13. ASSUME NEW c \in Client, PeerLeaves(c)  PROVE Core'
  BY <1>13, <1>a DEF PeerLeaves
<1>14. ASSUME NEW c \in Client, Reply(c)  PROVE Core'
  BY <1>14, <1>a DEF Reply
<1>15. ASSUME NEW c \in Client, ReadRequest(c)  PROVE Core'
  BY <1>15, <1>a DEF ReadRequest
<1>16. ASSUME NEW c \in Client, Enqueue(c)  PROVE Core'
  <2>1. CASE stopping
    <3>1. /\ handler[c] = "enqueue" /\ handler' = [handler EXCEPT ![c] = "waiting"]
          /\ done' = [done EXCEPT ![c] = TRUE] /\ refused' = [refused EXCEPT ![c] = TRUE]
          /\ UNCHANGED <<main, stopping, queue, worker, current, tokens, disconnected, peerGone>>
      BY <1>16, <2>1 DEF Enqueue
    <3>2. \A i \in 1 .. Len(queue) : queue[i] # c
      BY <1>a, <3>1
    <3>3. c # current
      BY <1>a, <3>1
    <3>4. TypeOK' /\ Stopped' /\ Empty'
      BY <1>a, <3>1
    <3>5. CurrentShape' /\ Fresh' /\ Waiters'
      BY <1>a, <3>1, <3>3
    <3>6. QueueShape'
      BY <1>a, <3>1, <3>2
    <3> QED BY <3>4, <3>5, <3>6
  <2>2. CASE ~stopping
    <3>0. queue' = Append(queue, c) /\ queue \in Seq(Client)
      BY <1>16, <1>a, <2>2 DEF Enqueue
    <3>1. /\ Len(queue) \in Nat
          /\ queue' \in Seq(Client) /\ Len(queue') = Len(queue) + 1
          /\ \A i \in 1 .. Len(queue) : queue'[i] = queue[i]
          /\ queue'[Len(queue) + 1] = c
      BY <3>0, AppendProperties
    <3>2. /\ handler[c] = "enqueue" /\ handler' = [handler EXCEPT ![c] = "waiting"]
          /\ worker' \in WorkerState
          /\ worker' = "exited" => worker = "exited"
          /\ worker' \in {"start", "generate", "finish"} <=> worker \in {"start", "generate", "finish"}
          /\ UNCHANGED <<main, stopping, current, tokens, done, refused, disconnected, peerGone>>
      BY <1>16, <1>a, <2>2 DEF Enqueue, NotifyWorker
    <3>3. TypeOK' /\ CurrentShape' /\ Fresh'
      <4>1. TypeOK'
        <5>1. handler' \in [Client -> HandlerState]
          BY <1>a, <3>2
        <5>2. queue' \in Seq(Client) /\ worker' \in WorkerState /\ active_clients' \in Nat
          BY <1>a, <3>1, <3>2
        <5> HIDE DEF HandlerState, WorkerState
        <5> QED BY <1>a, <3>2, <5>1, <5>2
      <4>2. CurrentShape'
        BY <1>a, <3>2
      <4>3. Fresh'
        BY <1>a, <3>2
      <4> QED BY <4>1, <4>2, <4>3
    <3>a. Stopped' /\ Empty'
      BY <1>a, <2>2, <3>1, <3>2
    <3>4. \A i \in 1 .. Len(queue') :
            \/ i \in 1 .. Len(queue) /\ queue'[i] = queue[i]
            \/ i = Len(queue) + 1 /\ queue'[i] = c
      BY <3>1
    <3>5. \A i \in 1 .. Len(queue) : queue[i] # c
      BY <1>a, <3>2
    <3>6. c # current /\ ~done[c]
      BY <1>a, <3>2
    <3>7. QueueShape'
      <4>1. \A i \in 1 .. Len(queue) :
              handler'[queue[i]] = "waiting" /\ ~done'[queue[i]] /\ queue[i] # current'
        BY <1>a, <3>2
      <4>2. handler'[c] = "waiting" /\ ~done'[c] /\ c # current'
        BY <1>a, <3>2, <3>6
      <4>3. \A i \in 1 .. Len(queue') :
              handler'[queue'[i]] = "waiting" /\ ~done'[queue'[i]] /\ queue'[i] # current'
        BY <3>4, <4>1, <4>2
      <4>4. \A i, j \in 1 .. Len(queue') : queue'[i] = queue'[j] => i = j
        BY <1>a, <3>1, <3>4, <3>5
      <4> QED BY <4>3, <4>4
    <3>8. Waiters'
      <4>1. queue'[Len(queue) + 1] = c /\ Len(queue) + 1 \in 1 .. Len(queue')
        BY <1>a, <3>1
      <4>2. \A i \in 1 .. Len(queue) : i \in 1 .. Len(queue') /\ queue'[i] = queue[i]
        BY <1>a, <3>1
      <4>3. SUFFICES ASSUME NEW d \in Client, handler'[d] = "waiting", ~done'[d]
                     PROVE  (\E i \in 1 .. Len(queue') : queue'[i] = d) \/ current' = d
        OBVIOUS
      <4>4. CASE d = c
        BY <4>1, <4>4
      <4>5. CASE d # c
        <5>1. handler[d] = "waiting" /\ ~done[d] /\ current' = current
          BY <1>a, <3>2, <4>3, <4>5
        <5>2. (\E i \in 1 .. Len(queue) : queue[i] = d) \/ current = d
          BY <1>a, <5>1
        <5> QED BY <4>2, <5>1, <5>2
      <4> QED BY <4>4, <4>5
    <3> QED BY <3>3, <3>a, <3>7, <3>8
  <2> QED BY <2>1, <2>2
<1>17. ASSUME NEW c \in Client, Monitor(c)  PROVE Core'
  BY <1>17, <1>a DEF Monitor
<1>18. ASSUME NEW c \in Client, Return(c)  PROVE Core'
  BY <1>18, <1>a DEF Return
<1>19. ASSUME NEW c \in Client, Leave(c)  PROVE Core'
  BY <1>19, <1>a DEF Leave
<1>20. ASSUME NEW c \in Client, Unlock(c)  PROVE Core'
  BY <1>20, <1>a DEF Unlock
<1>21. ASSUME NEW ok \in BOOLEAN, GenerateToken(ok)  PROVE Core'
  BY <1>21, <1>a DEF GenerateToken, WriteJob
<1>22. ASSUME NEW ok \in BOOLEAN, EndGeneration(ok)  PROVE Core'
  BY <1>22, <1>a DEF EndGeneration, WriteJob
<1>23. ASSUME NEW ok \in BOOLEAN, NEW goOn \in BOOLEAN, StartJob(ok, goOn)  PROVE Core'
  BY <1>23, <1>a DEF StartJob, WriteJob
<1>24. CASE UNCHANGED vars
  BY <1>24, <1>a DEF vars
<1> QED
  BY <1>1, <1>2, <1>3, <1>4, <1>5, <1>6, <1>7, <1>8, <1>9, <1>10, <1>11, <1>12,
     <1>13, <1>14, <1>15, <1>16, <1>17, <1>18, <1>19, <1>20, <1>21, <1>22, <1>23, <1>24
     DEF Next, Main, Handler, Worker

\* So the handlers inside stay counted.
LEMMA InvStep == ASSUME Inv, [Next]_vars PROVE Inv'
<1>1. Counted'
  BY CountStep
<1>2. active_clients' \in Nat
  <2>1. IsFiniteSet(Inside')
    BY FS_Subset, Inside' \subseteq Client DEF Inside
  <2> QED BY <1>1, <2>1, FS_CardinalityType DEF Counted
<1> QED BY <1>1, <1>2, CoreStep DEF Inv

\* At the start nobody is inside.
LEMMA InvInit == Init => Inv
<1> SUFFICES ASSUME Init PROVE Inv
  OBVIOUS
<1>1. Core
  <2>1. queue = <<>> /\ queue \in Seq(Client) /\ Len(queue) = 0
    BY DEF Init
  <2>2. TypeOK
    <3>1. /\ main \in MainState /\ worker \in WorkerState
          /\ handler \in [Client -> HandlerState] /\ active_clients \in Nat /\ tokens \in 0 .. MaxTokens
      BY DEF Init, MainState, WorkerState, HandlerState
    <3>2. /\ done \in [Client -> BOOLEAN] /\ refused \in [Client -> BOOLEAN]
          /\ disconnected \in [Client -> BOOLEAN] /\ peerGone \in [Client -> BOOLEAN]
          /\ stopping \in BOOLEAN
      BY DEF Init
    <3>3. current \in Client \cup {NoJob}
      BY DEF Init
    <3> QED BY <2>1, <3>1, <3>2, <3>3 DEF TypeOK
  <2>3. QueueShape /\ CurrentShape
    BY <2>1 DEF Init, QueueShape, CurrentShape
  <2>4. Waiters /\ Fresh /\ Stopped /\ Empty
    BY <2>1 DEF Init, Waiters, Fresh, Stopped, Empty
  <2> QED BY <2>2, <2>3, <2>4 DEF Core
<1>2. Inside = {}
  BY DEF Init, Inside
<1> QED BY <1>1, <1>2, FS_EmptySet DEF Init, Inv, Counted

\* What the rest of this module follows from: the invariant holds in every
\* reachable state.
THEOREM InvCorrect == Spec => []Inv
<1>1. Inv /\ UNCHANGED vars => Inv'
  BY InvStep
<1> QED BY InvInit, InvStep, PTL DEF Spec

\* Every variable has its type; in particular active_clients_ never goes below
\* zero, because a handler counts itself out once.
THEOREM TypeCorrect == Spec => []TypeOK
<1>1. Inv => TypeOK
  BY DEF Inv, Core
<1> QED BY <1>1, InvCorrect, PTL

\* The pointers in the queue and in the worker point into handlers that are
\* still in enqueue_request_and_wait.
THEOREM JobsStayAlive == Spec => []JobsAlive
<1>1. Inv => JobsAlive
  BY DEF Inv, Core, QueueShape, CurrentShape, JobsAlive, Queued
<1> QED BY <1>1, InvCorrect, PTL

\* A worker that exits leaves no handler waiting for an answer that cannot come.
THEOREM NoneStranded == Spec => []NobodyStranded
<1>1. Inv => NobodyStranded
  BY DEF Inv, Core, TypeOK, Waiters, Stopped, CurrentShape, NobodyStranded, Queued
<1> QED BY <1>1, InvCorrect, PTL

\* When run() goes on to save the caches, and when the destructor has run, the
\* worker and all handlers are out of the server.
THEOREM NoneInside == Spec => []NobodyInside
<1>1. Inv => NobodyInside
  BY DEF Inv, Core, Stopped, Empty, NobodyInside
<1> QED BY <1>1, InvCorrect, PTL

-----------------------------------------------------------------------------
(* Refinement *)

\* A step that changes nothing a client sees is a stutter of RequestService.
LEMMA Invisible ==
    ASSUME \A c \in Client : StageOf(c)' = StageOf(c), stopping' = stopping,
           main' = "down" <=> main = "down"
    PROVE  UNCHANGED Service!svars
BY DEF Service!svars

\* One client moves from one stage to another.
LEMMA Moves ==
    ASSUME NEW c \in Client, NEW from, NEW to, StageOf(c) = from, StageOf(c)' = to,
           \A d \in Client \ {c} : StageOf(d)' = StageOf(d)
    PROVE  Service!Move(c, from, to)
BY DEF Service!Move

\* A step of the threads is a step of RequestService or a stutter.
LEMMA ServiceStep ==
    ASSUME Inv, [Next]_vars
    PROVE  [Service!Next]_(Service!svars)
<1> USE DEF mainVars, workerVars, jobVars
<1>a. Core
  BY DEF Inv
<1>b. ASSUME NEW c \in Client, NEW from, NEW to, StageOf(c) = from, StageOf(c)' = to,
             \A d \in Client \ {c} : StageOf(d)' = StageOf(d),
             UNCHANGED stopping, main' = "down" <=> main = "down"
      PROVE  Service!Move(c, from, to) /\ UNCHANGED <<stopping, main # "down">>
  BY <1>b, Moves
<1>1. CASE Signal
  <2>1. Service!Stop
    BY <1>1 DEF Signal, Service!Stop, StageOf, Pending
  <2> QED BY <2>1 DEF Service!Next
<1>2. CASE CheckStop \/ PollTimeout \/ Join \/ DrainClients
  BY <1>2, Invisible DEF CheckStop, PollTimeout, Join, DrainClients, StageOf, Pending
<1>3. CASE StopWorker
  BY <1>3, <1>a, Invisible DEF StopWorker, Core, Stopped, StageOf, Pending
<1>4. CASE Shutdown
  <2>1. stopping /\ \A c \in Client : handler[c] \in {"none", "gone"}
    BY <1>4, <1>a DEF Shutdown, Core, Stopped, Empty
  <2>2. UNCHANGED <<handler, refused, current, stopping>> /\ main # "down" /\ main' = "down"
    BY <1>4 DEF Shutdown
  <2>3. \A c \in Client : StageOf(c) \in {"away", "closed"} /\ StageOf(c)' = StageOf(c)
    BY <2>1, <2>2 DEF StageOf
  <2>4. Service!Gone
    BY <2>1, <2>2, <2>3 DEF Service!Gone
  <2> QED BY <2>4 DEF Service!Next
<1>5. ASSUME NEW c \in Client, Accept(c)  PROVE Service!Next
  <2>1. /\ StageOf(c) = "away" /\ StageOf(c)' = "open"
        /\ \A d \in Client \ {c} : StageOf(d)' = StageOf(d)
        /\ UNCHANGED stopping /\ main # "down" /\ main' # "down"
    BY <1>5, <1>a DEF Accept, Core, TypeOK, HandlerState, StageOf, Pending
  <2> QED BY <2>1, <1>b DEF Service!Arrive, Service!Next
<1>6. ASSUME NEW c \in Client, PeerLeaves(c) \/ ReadRequest(c) \/ Monitor(c) \/ Leave(c) \/ Unlock(c)
      PROVE UNCHANGED Service!svars
  <2>1. \A d \in Client : StageOf(d)' = StageOf(d)
    BY <1>6, <1>a DEF PeerLeaves, ReadRequest, Monitor, Leave, Unlock, Core, TypeOK, HandlerState,
                     StageOf, Pending
  <2>2. UNCHANGED stopping /\ (main' = "down" <=> main = "down")
    BY <1>6 DEF PeerLeaves, ReadRequest, Monitor, Leave, Unlock
  <2> QED BY <2>1, <2>2, Invisible
<1>7. ASSUME NEW c \in Client, Reply(c)  PROVE Service!Next
  <2>1. /\ StageOf(c) = "open" /\ StageOf(c)' = "closed"
        /\ \A d \in Client \ {c} : StageOf(d)' = StageOf(d)
        /\ UNCHANGED <<stopping, main>>
    BY <1>7, <1>a DEF Reply, Core, TypeOK, HandlerState, StageOf, Pending
  <2> QED BY <2>1, <1>b DEF Service!Bounce, Service!Next
<1>8. ASSUME NEW c \in Client, Enqueue(c)  PROVE Service!Next
  <2>1. /\ handler[c] = "enqueue" /\ handler' = [handler EXCEPT ![c] = "waiting"]
        /\ UNCHANGED <<stopping, main, current>>
        /\ ~done[c] /\ ~refused[c] /\ c # current
    BY <1>8, <1>a DEF Enqueue, Core, TypeOK, Fresh, CurrentShape
  <2>2. CASE stopping
    <3>1. done' = [done EXCEPT ![c] = TRUE] /\ refused' = [refused EXCEPT ![c] = TRUE]
      BY <1>8, <2>2 DEF Enqueue
    <3>2. /\ StageOf(c) = "open" /\ StageOf(c)' = "refused"
          /\ \A d \in Client \ {c} : StageOf(d)' = StageOf(d)
      BY <1>a, <2>1, <3>1 DEF Core, TypeOK, HandlerState, StageOf, Pending
    <3> QED BY <2>1, <2>2, <3>2, <1>b DEF Service!Refuse, Service!Next
  <2>3. CASE ~stopping
    <3>1. UNCHANGED <<done, refused>>
      BY <1>8, <2>3 DEF Enqueue
    <3>2. /\ StageOf(c) = "open" /\ StageOf(c)' = "queued"
          /\ \A d \in Client \ {c} : StageOf(d)' = StageOf(d)
      BY <1>a, <2>1, <3>1 DEF Core, TypeOK, HandlerState, StageOf, Pending
    <3> QED BY <2>1, <3>2, <1>b DEF Service!Admit, Service!Next
  <2> QED BY <2>2, <2>3
<1>9. ASSUME NEW c \in Client, Return(c)  PROVE Service!Next
  <2>1. /\ StageOf(c) \in {"answered", "refused"} /\ StageOf(c)' = "closed"
        /\ \A d \in Client \ {c} : StageOf(d)' = StageOf(d)
        /\ UNCHANGED <<stopping, main>>
    BY <1>9, <1>a DEF Return, Core, TypeOK, HandlerState, StageOf, Pending
  <2> QED BY <2>1, <1>b DEF Service!Close, Service!Next
<1>10. CASE Dequeue
  <2>1. CASE queue = <<>>
    BY <1>10, <2>1, Invisible DEF Dequeue, StageOf, Pending
  <2>2. CASE queue # <<>>
    <3>1. PICK c \in Client : c = Head(queue) /\ c = queue[1] /\ 1 \in 1 .. Len(queue)
      BY <1>a, <2>2, HeadTailProperties DEF Core, TypeOK
    <3>2. /\ handler[c] = "waiting" /\ ~done[c] /\ ~refused[c] /\ current \notin Client
      BY <1>10, <1>a, <3>1 DEF Dequeue, Core, QueueShape, Fresh, CurrentShape
    <3>3. current' = c /\ UNCHANGED <<main, stopping, handler, done, refused>>
      BY <1>10, <2>2, <3>1 DEF Dequeue
    <3>4. /\ StageOf(c) = "queued" /\ StageOf(c)' = "serving"
          /\ \A d \in Client \ {c} : StageOf(d)' = StageOf(d)
          /\ \A d \in Client : StageOf(d) # "serving"
      BY <3>2, <3>3 DEF StageOf, Pending
    <3> QED BY <3>3, <3>4, <1>b DEF Service!Serve, Service!Next
  <2> QED BY <2>1, <2>2
<1>11. CASE FinishJob
  <2>1. PICK c \in Client : c = current
    BY <1>11, <1>a DEF FinishJob, Core, CurrentShape
  <2>2. handler[c] = "waiting" /\ ~done[c] /\ ~refused[c]
    BY <2>1, <1>a DEF Core, CurrentShape, Fresh
  <2>3. /\ done' = [done EXCEPT ![c] = TRUE] /\ current' = NoJob
        /\ UNCHANGED <<main, stopping, handler, refused>>
    BY <1>11, <2>1 DEF FinishJob
  <2>4. done \in [Client -> BOOLEAN]
    BY <1>a DEF Core, TypeOK
  <2>5. StageOf(c) = "serving" /\ StageOf(c)' = "answered"
    BY <2>1, <2>2, <2>3, <2>4 DEF StageOf, Pending
  <2>6. \A d \in Client \ {c} : StageOf(d)' = StageOf(d)
    BY <2>1, <2>3, <2>4 DEF StageOf, Pending
  <2>7. Service!Answer(c)
    BY <2>3, <2>5, <2>6, <1>b DEF Service!Answer
  <2> QED BY <2>7 DEF Service!Next
<1>12. ASSUME NEW ok \in BOOLEAN, NEW goOn \in BOOLEAN,
            Sleep \/ WaitTimeout \/ StartJob(ok, goOn) \/ GenerateToken(ok) \/ EndGeneration(ok)
       PROVE UNCHANGED Service!svars
  BY <1>12, Invisible DEF Sleep, WaitTimeout, StartJob, GenerateToken, EndGeneration, StageOf, Pending
<1>13. CASE UNCHANGED vars
  BY <1>13, Invisible DEF vars, StageOf, Pending
<1>14. CASE Main
  BY <1>2, <1>3, <1>4, <1>5, <1>14 DEF Main
<1>15. ASSUME NEW c \in Client, Handler(c)  PROVE [Service!Next]_(Service!svars)
  BY <1>6, <1>7, <1>8, <1>9, <1>15 DEF Handler
<1>16. CASE Worker
  BY <1>10, <1>11, <1>12, <1>16 DEF Worker
<1> QED
  BY <1>1, <1>13, <1>14, <1>15, <1>16 DEF Next

\* The server's threads implement RequestService, for any number of clients.
THEOREM QueueImplementsService == Spec => ImplementsService
<1>1. Init => Service!Init
  BY DEF Init, Service!Init, StageOf
<1> QED BY <1>1, ServiceStep, InvCorrect, PTL DEF Spec, ImplementsService, Service!Spec
=============================================================================
