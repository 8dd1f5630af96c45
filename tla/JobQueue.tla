------------------------------ MODULE JobQueue ------------------------------
(***************************************************************************)
(* HttpServer's threads: the accept loop of run(), one detached handler    *)
(* thread per connection, and the worker thread that serves queued jobs    *)
(* one at a time (http_server.cpp), from start to the destructor.          *)
(*                                                                         *)
(* A job lives on the stack of its handler: enqueue_request_and_wait       *)
(* returns, and the job is gone, once it sees job.done.  A step is a       *)
(* critical section, or what a thread does between two of them.            *)
(***************************************************************************)
EXTENDS Naturals, Sequences, FiniteSets

CONSTANTS
    Client,    \* connections, one request each
    MaxTokens, \* bound: tokens of an answer (n_gen)
    NoJob

ASSUME QueueAssumption ==
    /\ IsFiniteSet(Client)
    /\ MaxTokens \in Nat
    /\ NoJob \notin Client

VARIABLES
    main,         \* where run() is
    stopping,     \* stopping_
    queue,        \* queue_head_ .. queue_tail_
    worker,       \* where the worker thread is
    current,      \* the job it processes
    tokens,       \* tokens that job has generated
    handler,      \* handler[c]: where the handler thread of c is
    done,         \* done[c]: job.done
    refused,      \* refused[c]: job.admission = busy
    disconnected, \* disconnected[c]: job.client_disconnected
    peerGone,     \* peerGone[c]: the other side has closed the connection
    active_clients        \* active_clients_

mainVars   == <<main, stopping>>
workerVars == <<worker, current, tokens>>
jobVars    == <<done, refused, disconnected>>
vars == <<mainVars, queue, workerVars, handler, jobVars, peerGone, active_clients>>

MainState    == {"check", "poll", "stop", "join", "drain", "sleep", "save", "down"}
WorkerState  == {"ready", "deciding", "waiting", "start", "generate", "finish", "exited"}
HandlerState == {"none", "reading", "enqueue", "waiting", "returned", "leaving", "gone"}

Init ==
    /\ main = "check" /\ stopping = FALSE
    /\ queue = <<>>
    /\ worker = "ready" /\ current = NoJob /\ tokens = 0
    /\ handler = [c \in Client |-> "none"]
    /\ done = [c \in Client |-> FALSE]
    /\ refused = [c \in Client |-> FALSE]
    /\ disconnected = [c \in Client |-> FALSE]
    /\ peerGone = [c \in Client |-> FALSE]
    /\ active_clients = 0

-----------------------------------------------------------------------------
(* Locks.  A critical section is one step; only the two that are left half *)
(* way by a step of their own are ever seen held.                          *)

QueueFree   == worker # "deciding"
ClientsFree == \A c \in Client : handler[c] # "leaving"

\* A notification only reaches a worker that is already inside wait_for.
NotifyWorker == worker' = IF worker = "waiting" THEN "ready" ELSE worker

-----------------------------------------------------------------------------
(* The accept loop *)

\* The signal handler: it only sets the flag.
Signal == ~stopping /\ stopping' = TRUE
          /\ UNCHANGED <<main, queue, workerVars, handler, jobVars, peerGone, active_clients>>

CheckStop ==
    /\ main = "check"
    /\ main' = IF stopping THEN "stop" ELSE "poll"
    /\ UNCHANGED <<stopping, queue, workerVars, handler, jobVars, peerGone, active_clients>>

\* Wrong on purpose: the connection is not counted.
AcceptUncounted(c) ==
    /\ main = "poll" /\ handler[c] = "none"
    /\ handler' = [handler EXCEPT ![c] = "reading"]
    /\ main' = "check"
    /\ UNCHANGED <<stopping, queue, workerVars, jobVars, peerGone, active_clients>>

Accept(c) ==
    /\ main = "poll" /\ handler[c] = "none"
    /\ active_clients' = active_clients + 1
    /\ handler' = [handler EXCEPT ![c] = "reading"]
    /\ main' = "check"
    /\ UNCHANGED <<stopping, queue, workerVars, jobVars, peerGone>>

PollTimeout ==
    /\ main = "poll"
    /\ main' = "check"
    /\ UNCHANGED <<stopping, queue, workerVars, handler, jobVars, peerGone, active_clients>>

\* stop_worker: the flag is set and the worker notified without queue_mu_.
StopWorker ==
    /\ main = "stop"
    /\ stopping' = TRUE
    /\ NotifyWorker
    /\ main' = "join"
    /\ UNCHANGED <<queue, current, tokens, handler, jobVars, peerGone, active_clients>>

Join ==
    /\ main = "join" /\ worker = "exited"
    /\ main' = "drain"
    /\ UNCHANGED <<stopping, queue, workerVars, handler, jobVars, peerGone, active_clients>>

\* Wrong on purpose: handlers are not waited for.
DrainClientsNoWait ==
    /\ main = "drain" /\ ClientsFree
    /\ main' = "save"
    /\ UNCHANGED <<stopping, queue, workerVars, handler, jobVars, peerGone, active_clients>>

\* clients_cv_.wait, without a timeout.
DrainClients ==
    /\ main = "drain" /\ ClientsFree
    /\ main' = IF active_clients = 0 THEN "save" ELSE "sleep"
    /\ UNCHANGED <<stopping, queue, workerVars, handler, jobVars, peerGone, active_clients>>

\* The disk cache is saved, run() returns and the destructor drains the queue.
Shutdown ==
    /\ main = "save"
    /\ main' = "down"
    /\ queue' = <<>>
    /\ done' = [c \in Client |-> done[c] \/ \E i \in 1 .. Len(queue) : queue[i] = c]
    /\ UNCHANGED <<stopping, workerVars, handler, refused, disconnected, peerGone, active_clients>>

Main == \/ CheckStop \/ (\E c \in Client : Accept(c)) \/ PollTimeout
        \/ StopWorker \/ Join \/ DrainClients \/ Shutdown

-----------------------------------------------------------------------------
(* Handler threads *)

PeerLeaves(c) ==
    /\ handler[c] \notin {"none", "gone"} /\ ~peerGone[c]
    /\ peerGone' = [peerGone EXCEPT ![c] = TRUE]
    /\ UNCHANGED <<mainVars, queue, workerVars, handler, jobVars, active_clients>>

\* A request that is not a generation, or not a valid one, is answered here;
\* a read that sees no data gives up when the server stops or the peer leaves.
Reply(c) ==
    /\ handler[c] = "reading"
    /\ handler' = [handler EXCEPT ![c] = "returned"]
    /\ UNCHANGED <<mainVars, queue, workerVars, jobVars, peerGone, active_clients>>

ReadRequest(c) ==
    /\ handler[c] = "reading"
    /\ handler' = [handler EXCEPT ![c] = "enqueue"]
    /\ UNCHANGED <<mainVars, queue, workerVars, jobVars, peerGone, active_clients>>

\* Wrong on purpose: a server that is stopping still admits.
EnqueueStopping(c) ==
    /\ handler[c] = "enqueue" /\ QueueFree
    /\ handler' = [handler EXCEPT ![c] = "waiting"]
    /\ queue' = Append(queue, c)
    /\ NotifyWorker
    /\ UNCHANGED <<mainVars, current, tokens, jobVars, peerGone, active_clients>>

Enqueue(c) ==
    /\ handler[c] = "enqueue" /\ QueueFree
    /\ handler' = [handler EXCEPT ![c] = "waiting"]
    /\ IF stopping
       THEN /\ refused' = [refused EXCEPT ![c] = TRUE]
            /\ done' = [done EXCEPT ![c] = TRUE]
            /\ UNCHANGED <<queue, worker>>
       ELSE /\ queue' = Append(queue, c)
            /\ NotifyWorker
            /\ UNCHANGED <<refused, done>>
    /\ UNCHANGED <<mainVars, current, tokens, disconnected, peerGone, active_clients>>

\* A tick of the monitor loop of enqueue_request_and_wait.
Monitor(c) ==
    /\ handler[c] = "waiting" /\ ~done[c]
    /\ peerGone[c] /\ ~disconnected[c]
    /\ disconnected' = [disconnected EXCEPT ![c] = TRUE]
    /\ UNCHANGED <<mainVars, queue, workerVars, handler, done, refused, peerGone, active_clients>>

\* Wrong on purpose: a handler whose peer left does not wait for the worker.
ReturnEarly(c) ==
    /\ handler[c] = "waiting" /\ (done[c] \/ disconnected[c])
    /\ handler' = [handler EXCEPT ![c] = "returned"]
    /\ UNCHANGED <<mainVars, queue, workerVars, jobVars, peerGone, active_clients>>

Return(c) ==
    /\ handler[c] = "waiting" /\ done[c]
    /\ handler' = [handler EXCEPT ![c] = "returned"]
    /\ UNCHANGED <<mainVars, queue, workerVars, jobVars, peerGone, active_clients>>

\* The end of the thread: under clients_mu_ it counts itself out and wakes
\* run() if it is the last; until it unlocks it still touches the server.
Leave(c) ==
    /\ handler[c] = "returned" /\ ClientsFree
    /\ handler' = [handler EXCEPT ![c] = "leaving"]
    /\ active_clients' = active_clients - 1
    /\ main' = IF active_clients = 1 /\ main = "sleep" THEN "drain" ELSE main
    /\ UNCHANGED <<stopping, queue, workerVars, jobVars, peerGone>>

Unlock(c) ==
    /\ handler[c] = "leaving"
    /\ handler' = [handler EXCEPT ![c] = "gone"]
    /\ UNCHANGED <<mainVars, queue, workerVars, jobVars, peerGone, active_clients>>

Handler(c) ==
    \/ PeerLeaves(c) \/ Reply(c) \/ ReadRequest(c) \/ Enqueue(c)
    \/ Monitor(c) \/ Return(c) \/ Leave(c) \/ Unlock(c)

-----------------------------------------------------------------------------
(* The worker thread *)

\* Wrong on purpose: a stopping worker leaves whatever is queued.
DequeueOrQuit ==
    /\ worker = "ready"
    /\ IF stopping
       THEN worker' = "exited" /\ UNCHANGED <<queue, current>>
       ELSE IF queue # <<>>
            THEN worker' = "start" /\ current' = Head(queue) /\ queue' = Tail(queue)
            ELSE worker' = "deciding" /\ UNCHANGED <<queue, current>>
    /\ UNCHANGED <<mainVars, tokens, handler, jobVars, peerGone, active_clients>>

\* One turn of the loop of dequeue(): what is queued is served even when
\* stopping; otherwise it exits, or decides, still holding queue_mu_, to wait.
Dequeue ==
    /\ worker = "ready"
    /\ IF queue # <<>>
       THEN worker' = "start" /\ current' = Head(queue) /\ queue' = Tail(queue)
       ELSE /\ worker' = IF stopping THEN "exited" ELSE "deciding"
            /\ UNCHANGED <<queue, current>>
    /\ UNCHANGED <<mainVars, tokens, handler, jobVars, peerGone, active_clients>>

Sleep ==
    /\ worker = "deciding"
    /\ worker' = "waiting"
    /\ UNCHANGED <<mainVars, queue, current, tokens, handler, jobVars, peerGone, active_clients>>

\* Wrong on purpose: a plain wait.
WaitForever == FALSE /\ UNCHANGED vars

\* wait_for gives up after 30 seconds; heartbeats for /status go out.
WaitTimeout ==
    /\ worker = "waiting"
    /\ worker' = "ready"
    /\ UNCHANGED <<mainVars, queue, current, tokens, handler, jobVars, peerGone, active_clients>>

\* A write may fail, or stall for too long, once the peer is gone or stuck.
WriteJob(ok) ==
    disconnected' = IF ok THEN disconnected ELSE [disconnected EXCEPT ![current] = TRUE]

\* Headers and first events; the request ends here if they cannot be sent or
\* its prompt cannot be prepared.
StartJob(ok, goOn) ==
    /\ worker = "start"
    /\ WriteJob(ok)
    /\ tokens' = 0
    /\ worker' = IF ok /\ goOn THEN "generate" ELSE "finish"
    /\ UNCHANGED <<mainVars, queue, current, handler, done, refused, peerGone, active_clients>>

\* The backend asks should_cancel before each token and delivers it.
GenerateToken(ok) ==
    /\ worker = "generate" /\ tokens < MaxTokens /\ ~disconnected[current]
    /\ tokens' = tokens + 1
    /\ WriteJob(ok)
    /\ UNCHANGED <<mainVars, queue, worker, current, handler, done, refused, peerGone, active_clients>>

\* Wrong on purpose: the handler is told before the last bytes are written.
EndGenerationDone(ok) ==
    /\ worker = "generate"
    /\ worker' = "finish"
    /\ WriteJob(ok)
    /\ done' = [done EXCEPT ![current] = TRUE]
    /\ UNCHANGED <<mainVars, queue, current, tokens, handler, refused, peerGone, active_clients>>

\* End of sequence, budget, failure or cancellation; the final frames, or the
\* whole response, are written unless the client is known to have left.
EndGeneration(ok) ==
    /\ worker = "generate"
    /\ worker' = "finish"
    /\ WriteJob(ok)
    /\ UNCHANGED <<mainVars, queue, current, tokens, handler, done, refused, peerGone, active_clients>>

\* finish_job: from here on the job may be gone.
FinishJob ==
    /\ worker = "finish"
    /\ done' = [done EXCEPT ![current] = TRUE]
    /\ current' = NoJob
    /\ worker' = "ready"
    /\ UNCHANGED <<mainVars, queue, tokens, handler, refused, disconnected, peerGone, active_clients>>

Worker ==
    \/ Dequeue \/ Sleep \/ WaitTimeout
    \/ \E ok \in BOOLEAN : \/ \E goOn \in BOOLEAN : StartJob(ok, goOn)
                           \/ GenerateToken(ok) \/ EndGeneration(ok)
    \/ FinishJob

-----------------------------------------------------------------------------
Next == Signal \/ Main \/ (\E c \in Client : Handler(c)) \/ Worker

Spec == Init /\ [][Next]_vars

\* Threads run: the accept loop polls for 200 ms at most, the worker waits 30
\* seconds at most, monitors tick every 250 ms and reads poll stopping_.
\* Connections need not arrive, peers need not leave nor send their request,
\* and the signal need not come.  Strong fairness of Enqueue: a thread that
\* finds queue_mu_ free again and again is not kept out forever.
HandlerFairness(c) ==
    /\ SF_vars(Enqueue(c)) /\ SF_vars(Leave(c))
    /\ WF_vars(stopping /\ Reply(c))
    /\ WF_vars(Monitor(c)) /\ WF_vars(Return(c)) /\ WF_vars(Unlock(c))

Fairness ==
    /\ WF_vars(CheckStop \/ PollTimeout \/ StopWorker \/ Join \/ Shutdown)
    /\ SF_vars(DrainClients)
    /\ WF_vars(Worker)
    /\ \A c \in Client : HandlerFairness(c)

FairSpec == Spec /\ Fairness

-----------------------------------------------------------------------------
(* Properties *)

Queued(c) == \E i \in 1 .. Len(queue) : queue[i] = c

TypeOK ==
    /\ main \in MainState /\ stopping \in BOOLEAN
    /\ queue \in Seq(Client)
    /\ worker \in WorkerState /\ current \in Client \cup {NoJob}
    /\ tokens \in 0 .. MaxTokens
    /\ handler \in [Client -> HandlerState]
    /\ done \in [Client -> BOOLEAN] /\ refused \in [Client -> BOOLEAN]
    /\ disconnected \in [Client -> BOOLEAN] /\ peerGone \in [Client -> BOOLEAN]
    /\ active_clients \in Nat

\* The queue and the worker hold pointers into the stacks of handlers: each
\* of them is still inside enqueue_request_and_wait and will not leave it
\* before finish_job.
JobsAlive ==
    \A c \in Client :
        Queued(c) \/ current = c => handler[c] = "waiting" /\ ~done[c]

\* A worker that has exited leaves nobody behind: whoever still waits has an
\* answer or a refusal to return with (enqueue, dequeue and the order in which
\* both look at stopping_).
NobodyStranded ==
    worker = "exited" =>
        /\ queue = <<>>
        /\ \A c \in Client : handler[c] = "waiting" => done[c]

\* After run() has seen active_clients_ at zero no handler touches the server
\* any more, not even to release clients_mu_, and the worker is gone.
NobodyInside ==
    main \in {"save", "down"} =>
        /\ worker = "exited"
        /\ \A c \in Client : handler[c] \in {"none", "gone"}

\* Every request the server has read gets its handler back, whatever the peer,
\* the other requests and a shutdown do.
EveryRequestReturns ==
    \A c \in Client : handler[c] = "enqueue" ~> handler[c] = "gone"

\* A server told to stop comes down.
StopsEventually == stopping ~> main = "down"

\* What a client sees.
Pending(c) == IF refused[c] THEN "refused" ELSE IF done[c] THEN "answered"
              ELSE IF current = c THEN "serving" ELSE "queued"

StageOf(c) == IF handler[c] = "waiting" THEN Pending(c)
              ELSE IF handler[c] = "none" THEN "away"
              ELSE IF handler[c] \in {"reading", "enqueue"} THEN "open" ELSE "closed"

Service == INSTANCE RequestService
    WITH stage <- [c \in Client |-> StageOf(c)], closing <- stopping,
         up <- main # "down"

\* The threads together implement RequestService: one request served at a
\* time, each admitted one exactly once and answered before its connection
\* closes, refusals only while stopping, and nobody inside a server that is
\* gone.
ImplementsService == Service!Spec

=============================================================================
