------------------------------ MODULE YoloServer ------------------------------
(* yolo-server of a node: an HTTP server with a pool of threads, and behind it the
   detector in one of two modes: a pool of workers with a lock each, or a pipeline
   of preprocessing threads and one inference thread. A handler waits for the
   result; a signal ends the server, whose destructors run in turn.
   Source: rivision_node/yolo-server: src/main.cpp, http_server.cpp,
   yolo_pipeline.cpp, yolo_detector.cpp. A push and the notification that follows
   it are one step: what can happen between them is another thread's taking what
   was pushed. A signal interrupts the main thread, which runs the handler wherever
   it is. The clients are external: one may connect and send nothing. *)
EXTENDS Naturals, Sequences, FiniteSets

CONSTANTS Detections,   \* requests, each of which may come once
          HttpThreads,  \* threads of the HTTP pool
          PreThreads,   \* preprocessing threads of the pipeline
          PreMax,       \* max_queue_size_
          YoloWorkers   \* workers of the pool mode

VARIABLES srv,        \* where main is
          mode,       \* "pipeline" or "worker_pool"
          det,        \* how far a request is
          preQueue,   \* preproc_queue_
          pre,        \* what a preprocessing thread does: a request, or a step
          inferQueue, \* infer_queue_
          inferring,  \* the same of the inference thread
          running_,   \* YOLOPipeline.running_
          tried,      \* workers a request found locked
          locked      \* detector_mutexes_: who holds the lock of a worker

pipeVars == <<preQueue, pre, inferQueue, inferring>>
poolVars == <<tried, locked>>
yoloServerVars == <<srv, mode, det, pipeVars, running_, poolVars>>

Free == "-"
ThreadSteps == {"test", "tested", "asleep", "gone"}

\* names only: a thread shows the request it works on, or one of these steps
ASSUME YoloServerAssumption == Detections \cap (ThreadSteps \cup {Free}) = {}

\* the sizes of main.cpp:156-189 and yolo_pipeline.cpp:19-21: one at least
ASSUME YoloServerSizes ==
    /\ HttpThreads \in Nat \ {0} /\ PreMax \in Nat \ {0}
    /\ PreThreads # {} /\ YoloWorkers # {}

HandlerSteps == {"asking", "full", "asked", "answered"}
RequestSteps == {"idle", "accepted", "pooled", "reading", "done", "locking", "holding"}
                \cup HandlerSteps

YoloServerTypeOK ==
    /\ srv \in {"load", "bind", "accept", "enqueue", "stopping", "stuck", "closing",
                "cleared", "joining", "exited", "crashed"}
    /\ mode \in {"pipeline", "worker_pool"} /\ running_ \in BOOLEAN
    /\ det \in [Detections -> RequestSteps]
    /\ preQueue \in Seq(Detections) /\ inferQueue \in Seq(Detections)
    /\ pre \in [PreThreads -> ThreadSteps \cup Detections]
    /\ inferring \in ThreadSteps \cup Detections
    /\ tried \in [Detections -> SUBSET YoloWorkers]
    /\ locked \in [YoloWorkers -> Detections \cup {Free}]

YoloServerInit ==
    /\ srv = "load" /\ mode \in {"pipeline", "worker_pool"} /\ running_ = FALSE
    /\ det = [r \in Detections |-> "idle"]
    /\ preQueue = <<>> /\ pre = [p \in PreThreads |-> "gone"]
    /\ inferQueue = <<>> /\ inferring = "gone"
    /\ tried = [r \in Detections |-> {}] /\ locked = [w \in YoloWorkers |-> Free]

Moves(r, from, to) == det[r] = from /\ det' = [det EXCEPT ![r] = to]
InHand == {r \in Detections : det[r] \in HandlerSteps \cup {"reading", "locking", "holding"}}
-----------------------------------------------------------------------------
(* main up to the accept loop: a signal changes nothing yet. *)

\* load: the pipeline starts its threads when its one session is loaded
LoadModel ==
    /\ srv = "load"
    /\ \/ srv' = "exited" /\ UNCHANGED <<pre, inferring, running_>>
       \/ /\ srv' = "bind"
          /\ IF mode = "pipeline"
                THEN /\ running_' = TRUE /\ inferring' = "test"
                     /\ pre' = [p \in PreThreads |-> "test"]
                ELSE UNCHANGED <<pre, inferring, running_>>
    /\ UNCHANGED <<mode, det, preQueue, inferQueue, poolVars>>

\* when the port is taken, main returns and its objects are destroyed
Listen ==
    /\ srv = "bind" /\ srv' \in {"accept", "closing"}
    /\ UNCHANGED <<mode, det, pipeVars, running_, poolVars>>

Accept(r) ==
    /\ srv = "accept" /\ srv' = "enqueue" /\ Moves(r, "idle", "accepted")
    /\ UNCHANGED <<mode, pipeVars, running_, poolVars>>

\* the connection becomes a task of the thread pool
EnqueueConnection(r) ==
    /\ srv = "enqueue" /\ srv' = "accept" /\ Moves(r, "accepted", "pooled")
    /\ UNCHANGED <<mode, pipeVars, running_, poolVars>>
-----------------------------------------------------------------------------
(* A thread of the HTTP pool. *)

\* the queue of the pool has a mutex, which a stuck main thread keeps
TakeConnection(r) ==
    /\ Cardinality(InHand) < HttpThreads /\ srv # "stuck" /\ Moves(r, "pooled", "reading")
    /\ UNCHANGED <<srv, mode, pipeVars, running_, poolVars>>

\* recv returns when the client has sent its request or has gone, and has no timeout:
\* a client that does neither keeps its thread
ClientSends(r) ==
    /\ \/ Moves(r, "reading", "asking")
       \/ Moves(r, "reading", "done")
    /\ UNCHANGED <<srv, mode, pipeVars, running_, poolVars>>

Respond(r) ==
    /\ Moves(r, "answered", "done")
    /\ UNCHANGED <<srv, mode, pipeVars, running_, poolVars>>

(* Wrong variant of WakePreThread: nobody is told that there is work. *)
WakeNobody == UNCHANGED pre

\* notify_one: one of those that sleep, if there is one
WakePreThread ==
    LET asleep == {p \in PreThreads : pre[p] = "asleep"} IN
    IF asleep = {} THEN UNCHANGED pre ELSE \E p \in asleep : pre' = [pre EXCEPT ![p] = "test"]
WakeHandler ==
    LET waiting == {r \in Detections : det[r] = "full"} IN
    IF waiting = {} THEN UNCHANGED det ELSE \E r \in waiting : Moves(r, "full", "asking")

\* a thread that has tested its condition holds the mutex until it sleeps
PreMutexFree == \A p \in PreThreads : pre[p] # "tested"

\* detect_async: the request is queued, or its thread waits for space
DetectAsync(r) ==
    /\ mode = "pipeline" /\ det[r] = "asking" /\ PreMutexFree
    /\ IF ~running_ THEN Moves(r, "asking", "answered") /\ UNCHANGED <<preQueue, pre>>
       ELSE IF Len(preQueue) >= PreMax
            THEN Moves(r, "asking", "full") /\ UNCHANGED <<preQueue, pre>>
       ELSE /\ Moves(r, "asking", "asked")
            /\ preQueue' = Append(preQueue, r)
            /\ WakePreThread
    /\ UNCHANGED <<srv, mode, inferQueue, inferring, running_, poolVars>>
-----------------------------------------------------------------------------
(* The pipeline. The loop of a thread tests running_ before it tests the condition
   it waits for; both are one step here, as the queues are empty when running_ is
   cleared. *)

PreTakes(p) ==
    /\ pre[p] = "test" /\ PreMutexFree
    /\ IF preQueue # <<>>
          THEN /\ pre' = [pre EXCEPT ![p] = Head(preQueue)] /\ preQueue' = Tail(preQueue)
               /\ WakeHandler
          ELSE /\ pre' = [pre EXCEPT ![p] = IF running_ THEN "tested" ELSE "gone"]
               /\ UNCHANGED <<preQueue, det>>
    /\ UNCHANGED <<srv, mode, inferQueue, inferring, running_, poolVars>>

\* the wait begins: the mutex is given back
PreSleeps(p) ==
    /\ pre[p] = "tested" /\ pre' = [pre EXCEPT ![p] = "asleep"]
    /\ UNCHANGED <<srv, mode, det, preQueue, inferQueue, inferring, running_, poolVars>>

\* decoded or not, the request goes to the inference thread
Preprocess(p) ==
    /\ pre[p] \in Detections /\ inferring # "tested"
    /\ inferQueue' = Append(inferQueue, pre[p])
    /\ pre' = [pre EXCEPT ![p] = "test"]
    /\ inferring' = IF inferring = "asleep" THEN "test" ELSE inferring
    /\ UNCHANGED <<srv, mode, det, preQueue, running_, poolVars>>

InferTakes ==
    /\ inferring = "test"
    /\ IF inferQueue # <<>>
          THEN inferring' = Head(inferQueue) /\ inferQueue' = Tail(inferQueue)
          ELSE inferring' = (IF running_ THEN "tested" ELSE "gone") /\ UNCHANGED inferQueue
    /\ UNCHANGED <<srv, mode, det, preQueue, pre, running_, poolVars>>

InferSleeps ==
    /\ inferring = "tested" /\ inferring' = "asleep"
    /\ UNCHANGED <<srv, mode, det, preQueue, pre, inferQueue, running_, poolVars>>

\* the promise gets its value
Infer ==
    /\ inferring \in Detections
    /\ Moves(inferring, "asked", "answered") /\ inferring' = "test"
    /\ UNCHANGED <<srv, mode, preQueue, pre, inferQueue, running_, poolVars>>
-----------------------------------------------------------------------------
(* The pool of workers: the locks are tried in turn; when each was held at the
   moment it was tried, the request waits for one of them. *)

TryWorker(r, w) ==
    /\ mode = "worker_pool" /\ det[r] = "asking" /\ w \notin tried[r]
    /\ IF locked[w] = Free
          THEN /\ locked' = [locked EXCEPT ![w] = r] /\ Moves(r, "asking", "holding")
               /\ UNCHANGED tried
          ELSE tried' = [tried EXCEPT ![r] = @ \cup {w}] /\ UNCHANGED <<det, locked>>
    /\ UNCHANGED <<srv, mode, pipeVars, running_>>

WaitForWorker(r, w) ==
    /\ tried[r] = YoloWorkers /\ Moves(r, "asking", "locking")
    /\ tried' = [tried EXCEPT ![r] = {w}]
    /\ UNCHANGED <<srv, mode, pipeVars, running_, locked>>

LockWorker(r) ==
    /\ Moves(r, "locking", "holding")
    /\ \E w \in tried[r] : locked[w] = Free /\ locked' = [locked EXCEPT ![w] = r]
    /\ UNCHANGED <<srv, mode, pipeVars, running_, tried>>

Detect(r) ==
    /\ Moves(r, "holding", "answered")
    /\ locked' = [w \in YoloWorkers |-> IF locked[w] = r THEN Free ELSE locked[w]]
    /\ UNCHANGED <<srv, mode, pipeVars, running_, tried>>
-----------------------------------------------------------------------------
(* The end: the signal handler calls Server.stop, which joins the HTTP threads, and they
   empty their queue first; then the destructor of the pipeline clears running_
   without a mutex, notifies, and joins its threads. *)

\* the handler runs in the main thread, which waits for a connection, or has one that
\* it has not put into the queue yet; while it holds the mutex of the queue, the
\* handler waits for that mutex, and so for its own thread
SignalStop ==
    /\ \/ srv \in {"accept", "enqueue"} /\ srv' = "stopping"
       \/ srv = "enqueue" /\ srv' = "stuck"
    /\ UNCHANGED <<mode, det, pipeVars, running_, poolVars>>

(* Wrong variant of JoinPool: the threads leave what is queued. *)
JoinPoolEarly ==
    /\ srv = "stopping" /\ Cardinality(InHand) < HttpThreads
    /\ srv' = "closing"
    /\ UNCHANGED <<mode, det, pipeVars, running_, poolVars>>

JoinPool ==
    /\ srv = "stopping" /\ \A r \in Detections : det[r] \in {"idle", "done"}
    /\ srv' = "closing"
    /\ UNCHANGED <<mode, det, pipeVars, running_, poolVars>>

\* the pool is joined and gone, and main goes on with the connection it had: enqueue on
\* a null pointer ends the process
EnqueueCrashes ==
    /\ srv = "stopping" /\ srv' = "crashed"
    /\ \A r \in Detections : det[r] \in {"idle", "accepted", "done"}
    /\ \E r \in Detections : det[r] = "accepted"
    /\ pre' = [p \in PreThreads |-> "gone"] /\ inferring' = "gone" /\ running_' = FALSE
    /\ UNCHANGED <<mode, det, preQueue, inferQueue, poolVars>>

ClearRunning ==
    /\ srv = "closing" /\ srv' = "cleared" /\ running_' = FALSE
    /\ UNCHANGED <<mode, det, pipeVars, poolVars>>

NotifyAll ==
    /\ srv = "cleared" /\ srv' = "joining"
    /\ pre' = [p \in PreThreads |-> IF pre[p] = "asleep" THEN "test" ELSE pre[p]]
    /\ inferring' = IF inferring = "asleep" THEN "test" ELSE inferring
    /\ UNCHANGED <<mode, det, preQueue, inferQueue, running_, poolVars>>

JoinThreads ==
    /\ srv = "joining" /\ inferring = "gone" /\ \A p \in PreThreads : pre[p] = "gone"
    /\ srv' = "exited"
    /\ UNCHANGED <<mode, det, pipeVars, running_, poolVars>>
-----------------------------------------------------------------------------
Handler(r) == \/ TakeConnection(r) \/ DetectAsync(r) \/ Respond(r)
              \/ LockWorker(r) \/ Detect(r)
              \/ \E w \in YoloWorkers : TryWorker(r, w) \/ WaitForWorker(r, w)
PreThread(p) == PreTakes(p) \/ PreSleeps(p) \/ Preprocess(p)
InferThread == InferTakes \/ InferSleeps \/ Infer
Ending == JoinPool \/ EnqueueCrashes \/ ClearRunning \/ NotifyAll \/ JoinThreads

Threads == \/ Ending \/ InferThread
           \/ \E r \in Detections : EnqueueConnection(r) \/ Handler(r)
           \/ \E p \in PreThreads : PreThread(p)

YoloServerNext ==
    \/ LoadModel \/ Listen \/ SignalStop \/ Threads
    \/ \E r \in Detections : Accept(r) \/ ClientSends(r)

(* While a thread can go on, one does. Between two connections the threads take a
   bounded number of steps, so that none waits for ever because others run. Of the
   clients nothing is assumed. *)
YoloServerFairness == WF_yoloServerVars(Threads)

YoloServerSpec == YoloServerInit /\ [][YoloServerNext]_yoloServerVars /\ YoloServerFairness
-----------------------------------------------------------------------------
(* An answer is due: to a request that was read; to a connection in the queue, unless
   clients that have not sent theirs keep every thread, or the signal found main with
   the mutex of the queue; to one that main has, before a signal. *)
Silent == {r \in Detections : det[r] = "reading"}
AnswerIsDue(r) ==
    \/ det[r] \in HandlerSteps \cup {"locking", "holding"}
    \/ det[r] = "pooled" /\ Cardinality(Silent) < HttpThreads /\ srv # "stuck"
    \/ det[r] = "accepted" /\ srv = "enqueue"

(* While an answer is due some thread can go on, also when a signal has come: no thread
   misses that there is work or space, and no lock is kept. As the threads take a
   bounded number of steps between two connections, each answer that stays due is given
   (http_server.cpp:33-64, yolo_pipeline.cpp:66-177, yolo_detector.cpp:525-563). *)
ServerNeverHangs == (\E r \in Detections : AnswerIsDue(r)) => ENABLED Threads

(* Without the exceptions it does not hold: recv has no timeout (http_server.cpp:95,
   143), and the signal handler takes the mutex of the queue and destroys the pool
   under the feet of the thread it interrupts (main.cpp:65-69, http_server.cpp:245-253,
   259-267). No run checks it; added to one, it is violated. *)
EveryConnectionIsDue ==
    (\E r \in Detections : det[r] \notin {"idle", "done"}) => ENABLED Threads

(* The same as ServerNeverHangs without ENABLED: what a thread waits for to go on is
   there. A request that waits for the pipeline, for space or for a lock is itself no
   reason to go on; the thread it waits for must be awake (http_server.cpp:33-64,
   yolo_pipeline.cpp:66-177, yolo_detector.cpp:525-563). *)
PoolGoesOn ==
    \/ \E r \in Detections : /\ det[r] = "pooled" /\ srv # "stuck"
                             /\ Cardinality(InHand) < HttpThreads
    \/ \E r \in Detections : det[r] = "accepted" /\ srv = "enqueue"
    \/ \E r \in Detections : det[r] \in {"answered", "holding"}
    \/ \E r \in Detections : det[r] = "locking" /\ \E w \in tried[r] : locked[w] = Free
    \/ \E r \in Detections : det[r] = "asking" /\ (mode = "pipeline" => PreMutexFree)
PipelineGoesOn ==
    \/ \E p \in PreThreads : \/ pre[p] = "tested"
                             \/ pre[p] = "test" /\ PreMutexFree
                             \/ pre[p] \in Detections /\ inferring # "tested"
    \/ inferring \in {"test", "tested"} \cup Detections
NoWakeUpIsLost == (\E r \in Detections : AnswerIsDue(r)) => PoolGoesOn \/ PipelineGoesOn

(* How far a request is from its answer, and the server from its end. *)
Queued(q) == {q[i] : i \in 1..Len(q)}
Stage(r) ==
    CASE det[r] = "idle" -> 10
      [] det[r] = "accepted" -> 9
      [] det[r] = "pooled" -> 8
      [] det[r] = "reading" -> 7
      [] det[r] \in {"asking", "full"} -> 6
      [] det[r] = "locking" -> 5
      [] det[r] = "holding" -> 4
      [] det[r] = "asked" -> IF r \in Queued(preQueue) THEN 5
                             ELSE IF \E p \in PreThreads : pre[p] = r THEN 4
                             ELSE IF r \in Queued(inferQueue) THEN 3 ELSE 2
      [] det[r] = "answered" -> 1
      [] det[r] = "done" -> 0
MainStage ==
    CASE srv = "load" -> 7 [] srv = "bind" -> 6 [] srv \in {"accept", "enqueue"} -> 5
      [] srv = "stopping" -> 4 [] srv = "closing" -> 3 [] srv = "cleared" -> 2
      [] srv = "joining" -> 1 [] srv \in {"stuck", "exited", "crashed"} -> 0

\* a thread without a request is on its way to sleep or to its end
Restless(t) == IF t = "test" THEN 2 ELSE IF t = "tested" THEN 1 ELSE 0

StagesStay == (\A r \in Detections : Stage(r)' = Stage(r)) /\ MainStage' = MainStage
SomebodyAdvances ==
    /\ \A r \in Detections : Stage(r)' <= Stage(r)
    /\ MainStage' <= MainStage
    /\ ~StagesStay
SomebodySettles ==
    /\ \A p \in PreThreads : Restless(pre'[p]) <= Restless(pre[p])
    /\ Restless(inferring') <= Restless(inferring)
    /\ \A r \in Detections : /\ det'[r] = "asking" => det[r] = "asking"
                              /\ tried[r] \subseteq tried'[r]
    /\ \/ \E p \in PreThreads : Restless(pre'[p]) < Restless(pre[p])
       \/ Restless(inferring') < Restless(inferring)
       \/ \E r \in Detections : \/ det[r] = "asking" /\ det'[r] # "asking"
                                \/ tried'[r] # tried[r]
ServerWork == SomebodyAdvances \/ (StagesStay /\ SomebodySettles)

(* Every step brings a request or the server on, and none back; or it brings a thread
   to its sleep, a request to its wait for space, or to the next lock to try. So the
   threads take finitely many steps for finitely many requests: no two of them wake
   each other for ever, which the fairness of Threads relies on
   (yolo_pipeline.cpp:66-177, yolo_detector.cpp:525-563, http_server.cpp:33-64). *)
ServerMovesOn == [][ServerWork]_yoloServerVars

(* When the detector is destroyed no request uses it or waits for its future
   (http_server.cpp:53-64, 259-267, main.cpp:182-198). *)
DetectorOutlivesRequests ==
    srv \in {"closing", "cleared", "joining", "exited"} =>
        /\ \A r \in Detections : det[r] \in {"idle", "done"}
        /\ preQueue = <<>> /\ inferQueue = <<>>

(* "Wake all waiting threads" (yolo_pipeline.cpp:28). It does not hold: a thread that
   has tested its condition before running_ is cleared, and sleeps after the
   notification, is joined for ever. *)
DestructorEnds == srv = "joining" ~> srv = "exited"
=============================================================================
