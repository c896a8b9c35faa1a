# RiVision: TLA+ models, model checking and proofs

RiVision spreads the analysis of camera pictures over a cluster of small
machines. Every **node** runs a *node-agent* next to a llama-server (VLM: a
vision language model) and a *yolo-server* (object detection). One
**gateway** knows the nodes and hands requests to them. The **CLI**
(`rivision-cli webui`) captures frames of the enabled cameras, has them
detected through the gateway and shows the results. Simulators of camera
protocols and an embedding service complete the repository.

This directory holds TLA+ models of the parts whose correctness depends on the
order in which things happen, TLC configurations that check them on small
instances, and theorems, proved with TLAPS for every value of the constants.
Paths below are relative to `src/src/` of the repository; `gateway/` stands
for `rivision_gateway/inference-gateway-go/`.

    tlc -workers 2 -config NodeDispatch_safety.cfg MCNodeDispatch.tla   # a run
    tlapm NodeDispatch_proofs.tla                                       # proofs

## 1. Inventory

For each component: its state, its operations, what it shares with others, what
is hard about it, and what makes it correct.

### Gateway

**Dispatch** (`internal/client/client.go`, `internal/nodes/selector.go`,
`registry.go`, `node.go`). *State*: the registry, a map from node id to a
`*Node` object; in the object its health, heartbeat and `ActiveRequests`; a
short-term blacklist of nodes; the selection lock `selectionMu`; the shutdown
flag. *Operations*: `requestWithNode` (select, acquire, send, release, record,
retry), `waitForAvailableNode`, YOLO forwards, `Register`, `Unregister`,
`GracefulShutdown`. *Interactions*: registrations, heartbeats and health checks
change the objects that requests hold pointers to. *Hard*: the counter is tested
and incremented under two acquisitions of the object's lock; `Register`
replaces the object in mid-flight; six ways out of one attempt must each release
once; retries race with expiring blacklist entries. *Correct when* the counter
tells the truth, a node never gets more VLM requests than allowed, a retry goes
elsewhere, every request ends.

**Membership** (`internal/api/nodes.go`, `internal/services/discovery.go`,
`partition.go`, `cmd/main.go`, with `rivision_node/node-agent/gateway_client.go`
on the other side). *State*: the registry, the auth manager's registered nodes
and their file. *Operations*: register, heartbeat (which recovers a node the
registry has lost), delete, discovery sweep, partition probe, registration
callback; in the agent, the register/heartbeat loop and the unregistration on
stop. *Hard*: two stores without a common lock and six kinds of goroutine that
write them; a client that timed out while its handler goes on; restarts of
either side. *Correct when* a deleted node is gone, a beating one is served, and
what a restart loads is what memory held.

**Tokens and bans** (`internal/auth/auth.go`, `internal/api/tokens.go`).
*State*: tokens with use counts, registered nodes, blacklisted addresses,
failure counts, three files. *Operations*: generate, validate, revoke, clean
up, register, unregister, ban, lift. *Hard*: a token is validated twice and used
under a third acquisition of the lock; saves happen on some paths only; crashes.
*Correct when* a node has one token, a new node has a valid one, uses are
bounded as long as the gateway runs (they are not saved), and nothing revoked comes
back.

**Health checker** (`internal/nodes/health_checker.go`, `node.go`, the rounds of
`internal/services/partition.go`). *State*: status, failure count and enabled flag
of a node, the time of its heartbeat. *Operations*: check, mark, heartbeat, probe and
recovery of a node whose heartbeat is overdue, operator's enable and disable. *Hard*:
counting and marking are two critical sections, checks overlap, heartbeats, probes and
failed YOLO requests move the count that checks raise. *Correct when* status follows
the node's behaviour in the end.

**Partition cache** (`internal/services/partition.go`). *State*: cached node
states and their file. *Operations*: load, restore, cache, save, stop. *Hard*:
the order at start-up; crashes; a file that cannot be read. *Correct when* what was
saved is restored and never lost.

**Asynchronous tasks** (`internal/api/async_tasks.go`). *State*: the stored
tasks, the index by main task. *Operations*: single and batch submission,
acknowledgement, listings. *Hard*: look-up and enqueue are two critical
sections. *Correct when* each task is accepted once, indexed once, the queue is
bounded, and a queued task is executed.

**VLM handlers** (`internal/api/handlers.go`). *State*: the number of
asynchronous tasks, a context per task, the history. *Operations*: admit, infer,
watch a task, record and push its result. *Hard*: the limit is compared long
before the number is raised; a task ends by an answer, an error or its monitor.
*Correct when* every way out gives the place back once, and racing requests exceed
the limit by no more than themselves.

**YOLO round robin** (`internal/client/yolo_rr.go`). *State*: an index, failure
counts, blacklisted nodes. *Correct when* requests are spread evenly over the
nodes that can take them. **WebSocket push** (`internal/api/websocket.go`).
*State*: connections, subscriptions, the flag of the push loop. *Hard*: three
kinds of goroutine write to one connection, a failed write disconnects later.
*Correct when* a broken connection does not stay in the map.

**Task package** (`internal/tasks`): queue, executor, scheduler, stuck-task
detector, result cache, tracker. No code outside the package constructs them yet.
*Hard*: they share the tasks, and only the queue's methods lock. *Correct when*
keys, slots and counters belong to the tasks that exist and run. **Statistics,
metrics, health endpoints, configuration**: read what others own.

### Node

**Agent.** The gateway client is part of Membership. **Process control**
(`process_manager.go`) starts, stops, restarts and kills a server through systemd,
without a lock; what it reports as started must be so. **Health, YOLO proxy**
(`handler_health.go`, `handler_yolo.go`, `yolo_service.go`): a flag that four kinds
of requests store, and that must follow yolo-server in the end.

**yolo-server** (`rivision_node/yolo-server`). *State*: a pool of HTTP threads, and
either a bounded queue, preprocessing threads and one inference thread joined by
promises, or workers with a lock each. *Operations*: accept, receive, detect, a signal,
and the destructors of server and detector in turn. *Hard*: single notifications on
two condition variables, a queue at its limit, clients that send nothing, a signal
handler that takes mutexes, requests in progress when the server ends. *Correct when* no
thread sleeps while there is work, and the detector outlives its requests.

### CLI

**YOLO pipeline** (`rivision_cli/cmd/webui.go`,
`internal/webserver/yolo_control.go`). *State*: enabled cameras, the map of
active captures, the channels `jobCh`, `resultCh`, `cancelCh`, per-camera stop
channels, counts of workers and nodes. *Operations*: capture, detect, process,
start and stop captures, size the pool, recover from panics, shut down. *Hard*:
seven kinds of goroutine; decisions on counts that are stale when acted upon; a
capture that outlives its stop; one signal with two receivers. *Correct when*
the pool is bounded and follows the number of nodes, an enabled camera is
captured (once), and shutting down ends every goroutine.

**Web UI command and web server** (`cmd/webui.go`, `internal/webserver/server.go`):
child processes, signals, and a relay of two goroutines; a signal must end the
command and its children. **WebSocket hub** (`internal/webserver/websocket`):
clients, channels and their membership, changed by the hub and by readers of
multiplexed connections; nothing is sent on a closed channel. **OWL bridge**
(`internal/camera/owl_bridge.go`, `internal/owl/client.go`): a cache of stream
URLs, a token shared without a lock, lists in pages with three forms of an answer; a
cached stream plays, a list of pages of the first form is complete. **Semantic index**
(`internal/semantic`): SQLite transactions, embeddings computed later; a batch is seen as a whole or not at all. **Tracker**
(`internal/yolo`): one for all cameras; a track keeps its id. **Other commands,
video extraction, web front end**: forwarding and interface. **VLM trigger, event
bus, file storage**: never constructed.

### Others

**GB28181 simulator** (`rivision_owl/gb28181-sim`): registration, an event loop,
media sessions of several goroutines each, a stop on another goroutine; a stopped
session ends and, until the stop, its channel is closed once. **ONVIF simulator**
(`rivision_owl/onvif-sim`): mediamtx and one restarted FFmpeg per stream; no child
survives a stop. **Embedding service** (`rivision_embed`): stateless. Build
scripts, packaging and patches of third-party code.

## 2. Modules

| module | component | proofs |
|---|---|---|
| `VlmService` | what the dispatch promises a VLM request (abstract) | - |
| `NodeDispatch` | dispatch of requests to nodes; implements `VlmService` | `NodeDispatch_proofs` |
| `NodeMembership` | registry, auth manager, discovery, agents | `NodeMembership_proofs` |
| `NodeAuth` | tokens, registered nodes, bans, files | `NodeAuth_proofs` |
| `NodeHealth` | health checks, heartbeats, operators | `GatewayParts_proofs` |
| `PartitionCache` | cache of node states over restarts | `GatewayParts_proofs` |
| `TaskStore` | what the submission of asynchronous tasks promises (abstract) | - |
| `AsyncTasks` | asynchronous task submission; implements `TaskStore` | `AsyncTasks_proofs` |
| `YoloPipeline` | captures, workers, manager of the CLI | `YoloPipeline_proofs` |
| `VlmTasks` | asynchronous VLM analyses in the gateway | `GatewayParts_proofs` |
| `GatewayPush` | WebSocket push of the gateway | `GatewayParts_proofs` |
| `YoloRoundRobin` | selection of a node for a YOLO request | `GatewayParts_proofs` |
| `GatewayTasks` | queue, executor and scheduler of the task package | `GatewayParts_proofs` |
| `TaskRecords` | its result cache and its tracker | `GatewayParts_proofs` |
| `LlamaControl` | process API of the node agent | `Subsystems_proofs` |
| `AgentHealth` | health and observations of the node agent | `Subsystems_proofs` |
| `YoloServer` | yolo-server | `Subsystems_proofs` |
| `WebUi` | the web UI command and its relay | `WebParts_proofs` |
| `WebSocketHub` | WebSocket hub of the web UI | `WebParts_proofs` |
| `OwlBridge` | client of OWL, stream bridge and their handlers | `WebParts_proofs` |
| `SemanticStore` | semantic index | `WebParts_proofs` |
| `YoloTracker` | tracker behind the pipeline | `WebParts_proofs` |
| `SipDevice` | GB28181 simulator | `Subsystems_proofs` |
| `OnvifSim` | ONVIF simulator | `Subsystems_proofs` |

`MC<module>`, where there is one, gives the constants values and a symmetry set for
TLC (`NodeHealth` and `YoloPipeline` need none); `MCSubsystems` does so for the last
fifteen modules together. The first modules
overlap where components meet: each of them contains, as actions of its
environment, what the others do to the state it models. `Register` is an action
of `NodeDispatch` (it moves the counter), of `NodeMembership` (it moves the
heartbeat) and of `NodeHealth` (it resets the failure count); whether a
registration is admitted is free in `NodeMembership` and decided in `NodeAuth`.
So a model assumes less of its neighbours than they promise.

Definitions named "Wrong variant of ..." are deliberate errors next to the
definition they vary; no specification uses them. Each shows, by replacing the
definition, that a property would notice the error.

### NodeDispatch

Node **ids** and node **objects** are kept apart: a request holds an object,
the registry may file another under the same id. `active[o]` is the object's
`ActiveRequests`, `inherited[o]` a history variable with what `Register` copied
into it. A VLM request walks through `requestWithNode`:

| step | code |
|---|---|
| `Start` | test of the shutdown flag, start of the loop |
| `Select`, `SelectNothing` | lock `selectionMu`, choose any available node that is not excluded (the score is a free choice), or nothing and wait |
| `Recheck`, `Acquire` | second test of the counter; increment, unlock |
| `Release` | the deferred or explicit release of every way out |
| `RecordSuccess`, `RecordFailure` | statistics as far as they matter, blacklist, excluded set, next attempt |
| `WaitGivesUp` | `WaitTimeout` |

`ForwardChoose/Begin/End` is a YOLO forward, which counts on the object without
the lock; `ShutdownBegin` and `Drain*` are `GracefulShutdown` with its polls;
`Register`, `Unregister`, `ChangeReadiness`, `BlacklistExpires` the environment.

`VlmService` is the abstract specification: a request is served by one object
at a time, taken only when it has a free place; a failed attempt adds a node to
those that failed it, the last allowed failure ends it. The refinement mapping
is `serving`, `failed` and `over` in `NodeDispatch`: service begins with the
increment of the counter and ends with its release, and the books kept after the
release (`RecordSuccess`, `RecordFailure`) are not visible.

### NodeMembership

Of an object only its last heartbeat (`none`, `never`, `fresh`, `stale`) and
YOLO port are kept, and a goroutine's pointer is `nil`, `registered` or
`detached`: replacing or removing an object turns the pointers to it into
`detached` ones (`Detach`). A handler is a call with a program counter, one
action per critical section: `Register*`, `Beat*`, `Delete*`. `Callback` is the
goroutine `RegisterNode` spawns. `Discovery*` and `Partition*` are the
services' sweeps. An agent has a loop (register with `MaxAttempts`, beat,
re-register aside on 404) and a stop sequence that deletes the node and may
overlap with the loop; each of its calls may time out (`AgentLoopFails`,
`AgentDeleteFails`) while the handler goes on. `GatewayEnds`/`GatewayStarts` and
`AgentCrashes`/`AgentBoots` are restarts: all of the gateway's memory and calls
vanish, the file stays.

### NodeAuth

A registration takes five steps - blacklist, validation, both again, and
`RegisterNode`'s own critical section - whose outcomes are `RegisterReconnect`,
`RegisterInvalid`, `RegisterAgain`, `RegisterNew` and `RegisterPanics` (a nil
token is dereferenced; the deferred unlock keeps the manager usable). Between
them operators generate, revoke, clean up and ban, tokens expire, spawned
`recordFailure` goroutines run, and the gateway restarts from its files. A
change and its save are one step where the code holds the lock over both.

### NodeHealth, PartitionCache, AsyncTasks

`NodeHealth` follows one node (nodes do not influence each other here) and
several checks of it in flight, each with its reply and its two critical
sections. What the node does is its `port` (it answers, answers with an error, accepts
connections and hangs, or is closed) and whether its agent is `beating`; after a minute
without a beat it is `overdue`. `DetectPartition`, `ProbeNode` and `RecoverPartitioned`
are the partition handler's round: it marks healthy, and beating, the nodes whose beat is
overdue when a probe reaches them, and a bare TCP connection satisfies the probe.
`PartitionCache` is the order of `main`: `Boot`, `RestoreFromCache`, `LoadCache`, or
`LoadFails` when the file cannot be read or parsed, then rounds of `CacheCurrentStates`
and `SaveCache`, `StopHandler`, and crashes between any two steps; an entry grows old
after an hour. `AsyncTasks` has handlers that take the tasks of a batch one by one, each
with a look-up and an enqueue.

`TaskStore` is its abstract specification: a handler answers one task after the other,
and each answer is one step that sees the store as it is then - taken if there is room,
recognised if known, refused otherwise. In the mapping (`TheStore` in `AsyncTasks`) the
look-up of a task that is not known is a stutter, and the look-up that finds one is the
answer; otherwise the enqueue is.

### YoloPipeline

Workers, frames, results and stopped captures are alike and are counted by what
they do; a camera's own capture is `off`, `top`, `frame`, `panicked`, or `gone`
(ended by itself, but still in `activeCameras`). The manager starts the first
workers, then selects among `NodeCheck` (new target), `Poll` (stop and start
captures), and the signal; `HandleYOLOControl` is the web page enabling and disabling
a camera; `ManagerCounts` reads `activeWorkers` and
`ManagerStarts` starts the difference one by one, while workers leave
(`WorkerLeaves`), panic, are counted until they have slept, and restart. `Interrupt`
puts the signal into the channel from which either the manager
(`ManagerCancels`) or main (`MainStops`) takes it.

### The parts without shared state

The last fifteen modules of the table share no state with the others or with each
other. Their names carry a prefix where two of them have the same thing, and
each has an `Init`, `Next` and specification of its own.

| module | state | actions and the code they stand for |
|---|---|---|
| `VlmTasks` | the counter, and per task its goroutine, context, monitor and outcome; the history | `LimitTest`, `Refuse`, `Admit` (`AnalyzeImage`); `InferenceReturns`, `ReportError`, `AddHistory`, `ReportResult`, `TaskEnds` (the goroutine); `MonitorTick`, `Deadline` |
| `GatewayPush` | connections, subscriptions, who writes to which | `Connect`, `Subscribe`, `Disconnect`, `Tick`, `Broadcast`, and a write in two steps, which may collide with another one (`WritePanics`) |
| `YoloRoundRobin` | index modulo a period, failures, blacklist, the node of each request | `Select` (`Position` and `Turn` say which node the index points at), `RecordSuccess`, `RecordFailure`, `Expire` |
| `GatewayTasks` | fields of a task, queue, keys, what executor and scheduler do with it | `Submit`, `Dequeue`, `Exec*`, `Sched*`, `CancelTask`, `DetectStuck`, `CleanupCompleted` |
| `TaskRecords` | the keys of the cache with the order of their ages, and the removals under way; running tasks per node | `CacheSet/Get/Delete`, `RemoveExpired`; `RecordRequestStart/End`, `UpdateTaskStatus`, `CleanupStaleTasks` |
| `LlamaControl` | the unit, the process, where each call is | one action per command of `Start`, `Stop`, `Restart`, `killProcesses` |
| `AgentHealth` | what the servers do, the flag, what each request has heard | `YoloAsk/Store/Detect/Answer`, `Beat*`, `Check*`: question and answer are two steps |
| `YoloServer` | main, the step of each request, queues, threads asleep or not, locks | `Accept`, `EnqueueConnection`, `TakeConnection`, `ClientSends`, `DetectAsync`, `PreTakes`, `Preprocess`, `InferTakes`, `Infer`, `TryWorker`, `LockWorker`, `Respond`; `SignalStop`, `JoinPool`, `EnqueueCrashes`, `ClearRunning`, `NotifyAll`, `JoinThreads` |
| `WebUi` | the step of main, children, signal channel, relay | one action per step of `runWebUI`, `ManagerTakesSignal`, the two loops of `handleGo2rtcWebSocket` |
| `WebSocketHub` | hub's job, clients, channels, per connection its reader, writer and buffer | `Take*`, `Do*` (`Hub.Run`), `SubscribeChannel`, `UnsubscribeAllChannels`, `ReadFails`, `Write*`, `SendToChannel` |
| `OwlBridge` | handlers with their network call, token, bridge cache and lock, OWL, go2rtc | `ClientPlay/Stop`, `Ensure*`, `StopRemoves`, `StopForgets`; `ListPage`, `ListPageEmpty`, `ListByDevices` (the forms a page may come in), `ListFails`; `OwlRestart`, `OwlTokenExpires`, `UrlExpires` |
| `SemanticStore` | committed rows, open transaction, mutex, image jobs | `Upsert*` (one per statement), `UpsertCommits` (which starts the image jobs of the batch), `BackfillBegins`, `ImageEmbeds`, `ImageStored`, `IndexCrash` |
| `YoloTracker` | tracks with age, ids shown | `FrameOf(camera)`: conversion, `Updates` (one `AssignDetection` per detection, in the order of the answer), `AgeTracks` |
| `SipDevice` | goroutines of device and sessions, closed channels, datagrams | `Dial`, `Register`, `Handle*`, `Stop`, `StopSessions`, one action per kind of source, `Kill`, `WaitReturns`, `RtcpEnds` |
| `OnvifSim` | main, mediamtx, FFmpeg and monitor per stream | `Start*`, `Dial*`, `WaitReturned`, `WakeUp`, `Restart`, `MarkRestarted`, `StopStreams`, `StopMediamtx` |

In `YoloServer` a thread that waits on a condition variable has two steps: it
tests (`tested`) and, unless something changed under its mutex, sleeps
(`asleep`). `NotifyAll` wakes the sleepers only, which is where the destructor can miss
one. A spurious wake-up is possible in C++ and not needed for any property. A thread that
took a connection is `reading` until the client has sent its request or has gone, which
need not happen: `recv` has no timeout. The signal handler runs in the main thread,
wherever that is: waiting in `accept`; with a connection not yet queued, where the pool is
joined and gone when main goes on, and `enqueue` on a null pointer ends the process
(`EnqueueCrashes`); or inside `enqueue` with the mutex of the queue, where it waits for
itself (`stuck`).
In `OwlBridge` a page that fails in its first form is asked for in a wrapped form, whose
decoder finds an empty page in a plain answer, and then as a list of devices, of which the
total is the length of the page. Both end a listing early without an error; `clean` says
of a listing that no page of it came so.
In `VlmTasks` an inference ends with an answer or an error, soon after its context
is done: that is the promise of the dispatch (`RequestsTerminate`).

## 3. Runs

All passing runs finish within about two minutes with two workers.

| run (configuration) | instance | checks |
|---|---|---|
| dispatch_safety (`NodeDispatch_safety`) | 2 nodes, 2 objects, 2 requests, 1 forward, 1 request per node, 1 retry; symmetry | `TypeOK`, `SlotAccounting`, `VlmCapPerObject`, `RetriesVisitDistinctNodes`, `ServesVlm` |
| dispatch_live (`NodeDispatch_live`) | 1 node, 2 objects, 2 requests, no retry | `RequestsTerminate` |
| dispatch_rereg_leak (`NodeDispatch_rereg_leak`) | 1 node, 2 objects | `IdleNodeCountsZero` is violated |
| membership_live (`NodeMembership_live`) | 1 node, 2 calls, 1 callback, 1 attempt | `TypeOK`, `AuthSurvivesRestart`, `RecoveredIsRefreshed`, `BeatingNodeIsServed` |
| membership_delete (`NodeMembership_delete`) | as above; symmetry | `DeletedIsGone` is violated |
| auth_safety (`NodeAuth_safety`) | 2 nodes, 2 tokens, 1 address, 2 calls, 1 use per token, 2 failures; symmetry | `TypeOK`, `OneTokenPerNode`, `SavedIsCurrent`, `UsesBounded`, `NewNodeNeedsToken` |
| health_live (`NodeHealth_live`) | 2 checks in flight, threshold 3, count up to 4 | `VerdictsLast`, `AnsweringBecomesHealthy`, `GoneBecomesUnhealthy` |
| partition_restore (`PartitionCache_restore`) | 3 nodes; symmetry | `RestoredAtStart` is violated |
| async_safety (`AsyncTasks_safety`) | 2 handlers, 3 tasks of 2 mains, queue of 2, batches of 2; symmetry | `TypeOK`, `AcceptedOnce`, `IndexedOnce`, `AnswersAsStore` |
| yolo_live (`YoloPipeline_live`) | 1 camera, 1 worker per node, 2 nodes, channels of 1, 1 stopped capture, 1 panic | `TypeOK`, `PoolBounded`, `PoolConverges`, `StaleCapturesEnd`, `CancelEndsPipeline` |
| yolo_enabled (`YoloPipeline_enabled`) | as above | `EnabledIsCaptured` is violated |
| subsystems_live (`Subsystems_live`) | the fifteen parts, one after the other; see below | `SubsystemsTypeOK` and the twelve properties below |

What the passing runs show:

* **dispatch_safety**: no path through `requestWithNode` forgets a release or
  releases twice (`SlotAccounting`); `selectionMu` makes test and increment one
  for VLM requests, whatever forwards, registrations and releases come between
  (`VlmCapPerObject`); a retry goes to another node even if its id was
  registered again and its blacklist entry has expired. All in all
  the dispatch implements `VlmService` (`ServesVlm`), where choosing a node and
  occupying it are one step.
* **dispatch_live**: a request is never stuck on the lock or in the wait, though
  nodes come, go and are taken.
* **membership_live**: a crash of the gateway between any two critical sections loses no
  membership and brings none back (a change and the write of its file are one step here,
  and every write succeeds: section 6); a node the registry lost returns by its heartbeats
  alone, and no interleaving of handlers leaves it in the unselectable state
  "no heartbeat yet" that recovery passes through.
* **auth_safety**: the window between validation and use of a token does not
  admit a node without a token, gives no node two tokens, and, within one run of the
  gateway, exceeds `MaxUses` by at most the other calls in flight; after a crash between
  two steps the files hold the tokens, nodes and bans of the memory. `UsesBounded` is
  tight: with `MaxUses = 1` a token is used twice. Over restarts it says nothing: the use
  is not saved, so that a restart gives it back (section 4).
* **health_live**: whatever mixture of overlapping checks, probes and failures is in
  flight, the status converges to healthy for a node that answers, and to unhealthy for
  one that neither beats nor accepts connections, or answers with errors; and a verdict
  that is right is kept until the node changes. For a node that does not beat and hangs,
  with its port open, the status does not converge: the partition handler heals it again
  and again (section 4).
* **async_safety**: the look-up before the enqueue may be stale without harm,
  since `Enqueue` tests again under the lock: the answers are those of a store that
  is asked once per task (`AnswersAsStore`), and a known task is never refused
  because the queue is full.
* **yolo_live**: the pool never exceeds its target although the manager and
  panicked workers start workers from stale counts, it reaches the target
  although workers leave together, a stopped capture ends although its camera is
  enabled again, and a shutdown taken by the manager ends all goroutines.

* **subsystems_live**: see the next section.

### The run of the parts

`MCSubsystems` extends all fifteen modules. Its variable `part` says which of
sixteen next-state relations moves (`TaskRecords` has two); it never changes, and
the other parts stay in one of their initial states. The state graph is the
disjoint union of those of the parts (257 000 states), and what a part may do in
it is what it may do in its own specification. One run instead of fifteen keeps
the configuration in one place; a property of one part holds
trivially while another one moves. Constants of the parts are set in
`Subsystems_live.cfg`.

| property | parts | what it says |
|---|---|---|
| `ClosedOnceUntilStop` | `WebSocketHub`, `SipDevice` | no channel of the hub is closed twice or written to once closed, on any path on which clients end; a BYE that the simulator handles before its `Stop` finds the channel of its session open. After `Stop` it may find a closed one, which it closes again (section 4) |
| `CountersHold` | `VlmTasks`, `YoloRoundRobin`, `TaskRecords`, `GatewayTasks` | the counter of analyses is the number of running tasks, and at most the racing requests exceed the limit (`AdmissionBounded`); while the nodes stay as they are, selections differ by one at most; the cache is bounded; a node's count is the number of its open requests; a key belongs to one task; a slot is held by an attempt |
| `AnswersHold` | `LlamaControl`, `GatewayPush`, `OwlBridge` | a start that succeeded and was not undone leaves the unit active; a broken connection has somebody who takes it out; a cached stream plays; a list that came without an error, while OWL's stood still, is complete unless a page of it came in another form (`CleanListingIsComplete`) |
| `BatchesAreWhole` | `SemanticStore` | no part of an uncommitted batch is visible, no transaction outlives its upload |
| `NothingHangs` | `YoloServer`, `WebUi` | with a request that was read, or a connection in the queue while clients that send nothing do not keep every thread and main is not stuck in the signal handler, some thread of the server can go on; a relay of which both ends are gone returns |
| `DetectorOutlivesRequests` | `YoloServer` | no request uses the detector when it is destroyed |
| `StoppedMediaEnds` | `SipDevice` | a stopped session ends with its encoder and goroutines |
| `StopReapsChildren` | `OnvifSim` | after a stop no child survives or is started |
| `SignalEndsWebUi` | `WebUi` | a signal that the manager cannot take ends main and its children |
| `FlagFollowsYolo` | `AgentHealth` | the flag follows what yolo-server does in the end |
| `WorkIsBounded` | `YoloServer`, `OnvifSim`, `SipDevice` | every step of a request, thread, child or session brings it nearer to its end and takes no other one back |
| `IsolatedKeepsId` | `YoloTracker` | an object that overlaps no other keeps its id, whatever the other cameras send |

`NothingHangs` is an invariant with `ENABLED`, not a liveness property: the
threads take a bounded number of steps between two arrivals - which is what
`WorkIsBounded` says, and a theorem for any number of them - so that "some thread can
go on" in every state is what makes each request end, and it also covers the
states after a signal. It checks besides that `PoolGoesOn` or `PipelineGoesOn`, which
say without `ENABLED` what a thread needs to go on, do enable one: the theorem
`NobodyIsForgotten` (section 5) is about these. `AnswerIsDue` in `YoloServer` says which
requests it speaks of; a connection behind silent clients, or one that main had when the
signal came, is not among them, and is not answered by the code either (section 4).

### Bounds

The bounds are the smallest at which every action, and every race the properties are about,
occurs. Two requests and one forward on `MaxConcurrent = 1` compete for a slot; two objects
for one id are what replacement needs, and two ids with one retry what a second attempt
needs. Two calls in flight let every pair of handlers race, with the callback, discovery,
partition handler and agent beside them. `FailureLimit = 2` and `MaxUses = 1` put limits
within reach. `Threshold = 3` is the default of the configuration; `MaxCount = 4` allows one
failure beyond it (the code only compares the count with the threshold). A queue of 2 for 3
tasks can be full. Two nodes and one camera let the YOLO pool grow and shrink, one panic and
one stopped capture give each its race; the code has 16 slots in each channel, and only
"empty", "room" and "full" matter. In the run of the parts two of each kind compete:
handlers, probes, calls, users, requests, tasks, uploads, and limits are one or two, so that
they are reached. A queue of one task and one node with one place make the task package wait
and evict; three keys overfill a cache of two; two sessions of one channel give a second
INVITE and a late BYE; a send buffer of one is full after one message. The `yolo-server` as
shipped has four HTTP threads and a queue of four, so that a handler never waits for space;
the model has three requests, two threads and a queue of one, where it does; the third
request can wait behind two silent clients. Two channels in pages of one
make a list of two pages. `MaxSessions`, `MaxInbox`, `MaxVlmTasks`, `MaxPicks`, `MaxStarts`,
`OwlRestarts`, `OwlCalls`, `MaxTrackId`, `MaxJunk`, `MaxBackfills` bound the length of its
behaviours, as `MaxLlamaNodes` does the environment. `MaxPending`, `MaxCallbacks`,
`MaxStale`, `MaxPanics`, `MaxBatch` bound what the code does not bound; each is a guard of
the action that would exceed it. The theorems hold for all values of them.

Deadlock is checked in every run except those of `NodeDispatch`,
`YoloPipeline` and the parts, which may stop: once the gateway has shut down and
every request is over, once the CLI has exited, and once a simulator or
`yolo-server` has ended; that they do not stop earlier is what `NothingHangs` and
the liveness properties say.

### Fairness

* `NodeDispatch`: a goroutine that can run does (WF of each step of a request),
  HTTP calls and the wait end because they have timeouts, and a goroutine blocked
  on `selectionMu` gets it in the end (SF of `Select`): Go's mutex hands over
  to a waiter that has starved for a millisecond. Nothing about nodes.
* `NodeMembership`: handlers, callbacks and the gateway's start-up run to their
  end; the agent's loop keeps beating (SF: the heartbeats need a free call slot
  and a running gateway, which come and go) and its calls time out. Nothing about
  discovery, partition handler, operators or crashes.
* `NodeHealth`: rounds start and a check ends by its timeout. Nothing about beats, probes or
  the partition handler.
* `YoloPipeline`: goroutines run and sleeps end (WF); Go's `select` chooses at
  random among the ready cases, so a ticker or signal that is ready again and
  again is taken in the end (SF of `NodeCheck`, `Poll`, and the signal's
  receivers together). Nothing about frames, cameras, panics or users.
  `PoolConverges` has a condition besides: frames keep coming, since workers
  test the pool's size only between two frames.

* The parts: goroutines, threads and processes that can go on do (WF). Several of them share
  one WF where any of them going on is enough (`GoesOn` of `OnvifSim`, `Threads` of
  `YoloServer`, `RelayGoesOn`), and sessions and probes have one each. A shared WF lets one
  of them starve the others only if it can go on for ever: by `WorkIsBounded` those of
  `OnvifSim` and `YoloServer` cannot. `Beat` and `CheckEnds` are repeated by tickers and by
  callers that ask again. The web UI's main goes on except while it asks the embedding
  service (`webMain = "index"`): `http.Get` has no timeout (webui.go:957), so a service that
  accepts and never answers stops the start for ever. Nothing about servers, browsers,
  children, OWL, users or the clients of yolo-server.

## 4. Where code and text disagree

Each of these states what a comment, document or message of the repository says,
and TLC shows a behaviour of the code that violates it.

| property (configuration) | source | what happens |
|---|---|---|
| `IdleNodeCountsZero` (`NodeDispatch_rereg_leak`) | `gateway/internal/nodes/registry.go:137` | `Register` copies the counter into a new object; the request in flight decrements the old one, and the new one counts it for ever |
| `CompletedMeansDrained` (`NodeDispatch_drain`) | `gateway/internal/client/client.go:630` | the flag is only tested when a request starts: a waiting request is sent after the drain completed |
| `DeletedIsGone` (`NodeMembership_delete`) | `gateway/internal/api/nodes.go:246` | a heartbeat between the two removals, or the callback of an earlier registration, puts the node back |
| `StoppedIsGone` (`NodeMembership_stop`) | `rivision_node/node-agent/gateway_client.go:197` | the loop runs on while the agent deletes itself; its registration arrives after the DELETE |
| `DiscoveryNeverReplaces` (`NodeMembership_discovery`) | `gateway/internal/services/discovery.go:122` | the probe lies between the look-up and the registration |
| `DisabledStaysDisabled` (`NodeHealth_disabled`) | `gateway/internal/nodes/registry.go:136` | a registration enables a node that an operator disabled |
| `RestoredAtStart` (`PartitionCache_restore`) | `gateway/cmd/main.go:83` | `RestoreFromCache` runs before `Start`, which loads the file: nothing is ever restored |
| `QueuedIsExecuted` (`AsyncTasks_executed`) | `gateway/internal/api/async_tasks.go:347` | no code takes a task out of the queue |
| `EnabledIsCaptured` (`YoloPipeline_enabled`) | `rivision_cli/cmd/webui.go:751` | a camera disabled and enabled again within a poll loses its capture, which the manager takes for running |
| `DestructorEnds` (`YoloServer_destructor`) | `rivision_node/yolo-server/src/yolo_pipeline.cpp:28` | "唤醒所有等待的线程" (wake all waiting threads): `running_` is cleared without the mutex, a thread between its test and its sleep misses the notification and is joined for ever |
| `InterruptStops` (`YoloPipeline_interrupt`) | `rivision_cli/cmd/webui.go:815` | the manager receives Ctrl+C in place of main: the pipeline ends, the program does not |

`IdleNodeCountsZero`, `DeletedIsGone`, `RestoredAtStart` and `EnabledIsCaptured` are
runs of the project and listed as findings; the other configurations reproduce theirs
when run by hand. Nine more are stated in their modules and do not hold. To see one fail, add
it to the configuration named here, under `INVARIANTS` or, where the name is marked, under
`PROPERTIES`:

* `SilentBecomesUnhealthy` (a property, `NodeHealth_live`): `health_checker.go:142` marks a
  node whose checks fail. One that hangs accepts connections; the partition handler marks it
  healthy and its beat fresh each time the beat is overdue (`partition.go:203`,
  `discovery.go:186`), which resets the count.
* `UsesAreSaved` (`NodeAuth_safety`): `used_count` is a field of the saved token
  (`auth.go:42`), but `RegisterNode` saves the node only (`auth.go:240`). After a restart the
  token can be used as often again, unless an operator's change of some token saved it.
* `ByeNeverPanics` (`Subsystems_live`): `Stop` closes the channels of the sessions and leaves
  the sessions in the map (`device.go:145`), so that a BYE which the event loop has in hand
  closes one a second time.
* `AllChannelsListed` (`Subsystems_live`): "returns ALL channels across all pages"
  (`owl/client.go:537`). A failed page that succeeds when asked for in the wrapped form is
  empty, and a page made of devices has its own length as total: both end the listing.
* `EveryConnectionIsDue` (`Subsystems_live`): clients of yolo-server that connect and send
  nothing keep all threads for ever (`http_server.cpp:95`), and the stop waits for them; a
  signal that finds main with a connection ends in a main that waits for itself or in a null
  pointer (`main.cpp:68`, `http_server.cpp:253`).
* `OneEndIsEnough` (`Subsystems_live`): a relay with one end gone waits for the other end to
  send something or go (`server.go:1129`).

* `VlmCapPerNode` of `NodeDispatch` (`selector.go:294` calls the selection
  atomic): `Register` replaces the object between test and increment, and two VLM
  requests run on a node for one. What holds is the cap per object.
* `YoloPortKept` of `NodeMembership` (`api/nodes.go:136`): the callback replaces the
  object by one without the reported YOLO port.
* `UsedUpTokenReconnects` of `NodeAuth` (`auth.go:188`): the handler refuses a
  used-up token before `RegisterNode`, which would admit the known node, is asked.

Three more were met while modelling and are part of the models: requests that test
the number of asynchronous analyses together all pass (`handlers.go:235`), which is
why `AdmissionBounded` allows `VlmHandlers - 1` above the limit; a signal that reaches
`yolo-server` before it listens is lost (`main.cpp:67`), and the web UI's question
to the embedding service has no timeout.

## 5. Proofs

Eight modules hold the theorems; each is `Spec => []Inv`, `Spec => [][A]_v` or a refinement,
proved for all values of the constants that satisfy the named `ASSUME`s (limits are natural numbers,
positive where the code divides or compares so; the finite sets are finite; `None` is none
of the elements). TLC evaluates the assumptions in the runs of the module.

* **NodeDispatch**: `TypeCorrect`, `SlotsAccounted`, `ObjectCapped`, `RetriesDistinct`,
  `OnlyForwardsFailTheRecheck`, `RequestsGoForward`, `DispatchServes`. The base invariant
  adds to the type that pointers lead to allocated objects filed under their own id
  (`PointersOK`), that the lock is held exactly by the request that is choosing
  (`SelectionExclusive`), and that an unfinished request has an attempt left. On it rests
  `SlotAccounting`, one effect lemma per kind of step: acquisitions and releases add and
  remove one holder, registrations only touch an object nobody holds. The cap is not
  inductive by itself: between `Recheck` and `Acquire` it needs `TestedSlotStaysFree`, which
  follows from `SlotAccounting` when the test reads the counter and is kept because nobody
  else acquires under the lock. Retries need `AttemptIsNew`: the node in use is not among
  those that failed. `OnlyForwardsFailTheRecheck` says what the second test of
  `SelectAndAcquire` is for: `SlotKept` (the VLM requests and the inherited count of the
  chosen object leave room) holds from the choice to the test, so that a test that fails has
  seen a YOLO forward. `RequestsGoForward` is the safety half of `RequestsTerminate`:
  `StepsLeft`, which counts attempts and the steps of the present one, falls with every step
  of a request except in the polling loop, and nobody else raises it. `DispatchServes`
  proves the refinement from all of these: `Acquire` is `Serve` by `TestedSlotStaysFree`,
  `Release` is `Answer` or `Fail` by `AttemptIsNew`, giving up is `GiveUp`, and every other
  step stutters.
* **NodeMembership**: `TypeCorrect`, `MembershipSaved`, `RecoveredRefreshed`.
  `RecoveredIsRefreshed` is inductive with the type: each step that leaves a heartbeat
  `never` is a heartbeat handler's own recovery, and each that detaches its pointer also
  replaces what it left.
* **NodeAuth**: `TypeCorrect`, `SavedCurrent`, `OneToken`, `UsesLimited`,
  `NewNodesHaveTokens`. `OneToken` strengthens to the file as well (a restart loads it);
  `UsesLimited` counts, for each token, its uses since the start plus the calls whose
  validation still stands (`UsesCounted`), which needs that nothing is handled while the
  gateway is down;
  `NewNodesHaveTokens` needs `ValidMatches`, that a validated call holds a token of its own
  node, if any.
* **AsyncTasks**: `TypeCorrect`, `OneAcceptance`, `IndexCorrect`, `NeverOverfull`, from one
  lemma that only `EnqueueNew` changes the store; and the refinement of `TaskStore`,
  `SubmissionsAreAtomic`: each step that answers sees the store of that very step, and a
  handler in progress has a task left to answer (`InProgress`).
* **YoloPipeline**: `TypeCorrect`, `PoolNeverOversized`, `PipelineWindsDown`. The bound
  alone is not inductive: `desired <= MaxTarget` is what limits the number of workers that
  the manager starts, and panicked workers are counted until they are replaced.
  `PipelineWindsDown` is the safety half of `CancelEndsPipeline`. `Left` weighs captures,
  workers, queued frames and results by the steps they can still cause: a frame being
  fetched may become a job, a job a detection, a detection a result. After the cancellation
  the manager is gone (`ManagerGone`), and every other step makes `Left` smaller.

Three modules hold the proofs about the parts that share no state with these.

* **GatewayParts_proofs**
  * `NodeHealth`: `NodeHealthTypeCorrect`; the counts need `MaxCount` as their only bound.
    `VerdictsAreStable`: a verdict that the node deserves, with no reply or probe under way
    that denies it, is kept until the node changes. This is the "and stays so" of the two
    liveness properties, and like them it does not speak of nodes that hang.
    `PartitionCache`: `PartitionTypeCorrect`, `OnlyTheUnreadIsLost`, from the invariant that
    a loaded cache covers the file unless the file was not read (`unread`); the first save
    after such a start is the one step that takes nodes out of the file.
  * `VlmTasks`: `VlmTypeCorrect`, `AdmissionHolds`. The bound on the counter is not
    inductive, because it forgets the requests between test and increment. `PlacesLeft` adds
    them: the counter plus those that have passed is below the limit plus the number of
    handlers. A request that passes found the counter below the limit, and itself not among
    those that had passed; one that is admitted moves from one summand to the other. `Fresh`
    (a task not yet admitted has no goroutine) and `Counted` (the counter is the number of
    goroutines) carry it through the ends of tasks.
  * `GatewayPush`: `BrokenAreCaredFor`. The invariant says for each step of handler and
    reader who answers for the connection: at `/ws/live` the handler as long as it is there
    (`LiveCared`), at `/ws/realtime` the handler, then the reader, and if that was never
    started the push loop, which runs by then and sends on all channels (`RealtimeCared`).
  * `YoloRoundRobin`: `RoundRobinIsFair`. That selections differ by one at most says nothing
    about the next one. `ReachedFirst` orders the nodes of the choice from the place the
    index points at; a node reached first has been selected as often as the other, or once
    less. `Select` moves the first of this order to its end. `IndexPeriod` must be a
    multiple of every size a choice can have, which the assumption of the module says.
  * `GatewayTasks`: `TasksAreAccounted`. `SlotsAreHeld` needs that a caller holds a slot
    exactly while it executes (`HoldsWhileExecuting`), and that a task not yet submitted has
    no caller (`PendingHasNoCaller`); only the clean-up takes a task out of the store, and
    it takes the key with it.
  * `TaskRecords`: `RecordsAreRight`. What eviction leaves is counted (`Evicted` is one at
    least, so that there is room). `RunningIsCounted` is not inductive: the end of a request
    whose task is no longer tracked counts down too. `OpenIsCounted` counts the open
    requests instead, of which the tracked tasks are some (`TrackedIsOpen`).
* **WebParts_proofs**
  * `WebSocketHub`: `HubIsSafe`. Where a client can be follows from where its reading
    goroutine is (`PlaceOf`): a multiplexed one is in channels only while that goroutine
    reads or leaves them, another one only while it is a client, and whoever is closed is
    nowhere. `JobRight` ties the hub's job to the goroutine that handed it over.
  * `OwlBridge`: `BridgeIsRight`. Half of a play and of a stop hold the bridge's mutex
    (`LockRight`). An entry stands for a stream that plays, or whoever stopped it is on the
    way to forget it (`EntriesPlay`); an entry about to be made has a stream that only
    somebody who waits for the mutex can have stopped (`NewEntriesPlay`); no entry is of a
    later restart of OWL. A listing during which the list stood still, and of which every
    page came in the first form, has what is on the pages it has read (`ListingRight`).
  * `YoloTracker`: `IsolatedObjectsKeepTheirId`, an action property. `TrkInv` says that an
    isolated object has one track at most (`OneTrack`), that of its last detection, and that
    this track is there while the object was missed fewer than `TrackBuffer` times
    (`Remembered`). One frame is a recursive function over the detections; `Midway` is what
    holds after some of them, and `CountUp` is the induction: as an operator cannot be
    passed to the library's theorem, the set of bad lengths has a least element (`WFMin`).
  * `SemanticStore`: `UploadsAreAtomic`. The mutex, the open transaction and the upload in
    its loop are one (`OneTransaction`). What an open transaction sees (`OwnRows`) has the
    items written so far, and each row of another upload with the rest of that batch, so
    that the commit, which makes it visible, keeps `RowsWhole`.
  * `WebUi`: `RelayEndsItself` (`RelayInv`: both goroutines start together, and the handler
    returns after the other one), `ChildrenEndWithMain` (`ChildrenListed`: a running child
    is in the list that main kills), and the type in `PartsAreTyped`.
* **Subsystems_proofs**
  * `SipDevice`: `ByeIsSafe`. Sessions are numbered by their INVITEs, each channel has its
    own, and only sessions that were made are stopped; so the next one is open. It ends
    with `Stop`, which closes channels of sessions that stay in the map.
    `SessionsEndInTime`: `SessionLeft` counts the goroutines and encoder steps a session
    still has; sessions not made yet have none (`UnmadeIdle`).
  * `OnvifSim`: `StopOnlyEndsThings`. After the stop no child starts (`NothingStarts`): a
    monitor in the middle of a restart finds its context done. Each step of main, a monitor
    or a child ends something (`SomethingEnds`, by `MainLeft` and `MonitorLeft`).
  * `AgentHealth`: `FlagIsStable`. A right flag is kept because no answer to the contrary is
    on its way (`DownIsKnown`, `UpIsKnown`) and none is got while yolo-server stays as it is.
  * `LlamaControl`: `StartIsKept`. A server runs only while systemd wants it to
    (`RunsWhenWanted`), and the steps of a call are those of what was asked (`OpOfStep`), so
    that the stop inside a restart is known for what it is.
  * `YoloServer`: `DetectorOutlives`. The invariant is that a request that waits for the
    pipeline is in exactly one place, a queue, a preprocessing thread or the inference
    thread (`OnePlace`), and that outside the time in which the HTTP threads run every
    request is idle or done, except a connection that main had when the process crashed
    (`QuietOutside`). Without the first, an answer could be given for a request that still
    lies in a queue, and the detector destroyed under it.
  * `YoloServer`: `NobodyIsForgotten`, that no wake-up is lost. `WorkIsNoticed`: a thread
    that has tested holds the mutex, so that its queue stays empty until it sleeps; work in
    a queue has a thread that is awake. `Awaited`: a request that was asked is in somebody's
    hands, and a handler waits for space only while the queue is not empty or another
    handler is about to fill it. `LocksAreUsed`: who holds a lock is at work. A queued
    connection finds a free thread, or a thread with a request that was read, since not
    all of them are kept by silent clients (`Silent`). It needs a thread, a worker and a
    place in the queue, one each (`YoloServerSizes`), as the code sees to (`main.cpp:160`, `yolo_pipeline.cpp:20`).
  * `YoloServer`: `ServerFinishes`. Each step of a thread brings a request, main or a worker
    to its next stage (`Stage`, `MainStage`) and takes none back (`StagesStay`), or takes a
    thread nearer to its sleep (`Restless`, `SomebodySettles`). So threads that wake each
    other without doing anything, as with `notify_all` on a shared condition, do so finitely
    often.
  * The composition `MCSubsystems`: `PartsAreTyped`, `ChannelsAreSafeUntilStop`,
    `CountersAreRight`, `AnswersAreTrue`, `WorkHasAnEnd`. `PartsInv` is the conjunction of the parts'
    invariants; a step of one part keeps its own by the part's lemma and the others because
    their variables stay (`SimulatorSteps`, `NodeSteps`, `GatewaySteps`, `WebPartSteps`).

Assumptions besides sizes and finiteness: no name is used for two things (`Junk` is no
object, `Free` no request, `NoNode` no node); every box is at least one pixel wide
(`TrackerAssumption`: an empty box matches nothing, not even itself); OWL's first list names
no channel twice (`OwlAssumption`); the items of a batch are tasks with a thumbnail or none
(`IndexAssumption`).

Only model-checked: all liveness and `NothingHangs` (fairness and `ENABLED` are outside the
prover's reach; the two theorems `NobodyIsForgotten` and `RelayEndsItself` say its content
without `ENABLED`), and what is violated. Every other safety property of the passing runs is
stated by a theorem. `DispatchServes` and `SubmissionsAreAtomic` are refinements, `INSTANCE
... WITH` the mappings of section 2; TLC checks them as `ServesVlm` and `AnswersAsStore`.

Of the liveness properties the part that is not fairness is proved where it carries the
argument: that work is finite (`WorkHasAnEnd`, `RequestsGoForward`, `PipelineWindsDown`),
that somebody can go on (`NobodyIsForgotten`, `RelayEndsItself`), and that what is reached
is kept (`VerdictsAreStable`, `FlagIsStable`, `ChildrenEndWithMain`). Fairness turns these
into ends that come, which TLC checks. The properties behind `RequestsGoForward`,
`OnlyForwardsFailTheRecheck`, `PipelineWindsDown`, `FlagIsStable` and
`ChildrenEndWithMain` are in no configuration; they were checked with TLC on the instances
of the runs of their modules before they were proved.

## 6. Not modelled

Beyond the components of section 1 that are stateless, numeric or never
constructed: scores, latencies and statistics (a free choice among available
nodes), contents of messages, prompts and pictures, RTP packets and SIP
headers, the proxy to the agents' process API, discovery by CIDR, the adaptive frame
rate, the statistics, metrics and health endpoints of the gateway, `/proc`, CLI
flags, the search in the semantic index. `yolo_process_manager.go` repeats
`process_manager.go`, which `LlamaControl` models. A request that throws inside
yolo-server is left out. Time is abstract: an entry, heartbeat or ban is fresh or
overdue, and becomes so in a step of its own. A file is written in one step, which
succeeds; `os.WriteFile` can fail, or be interrupted in the middle, which loses the file,
and nothing in the code claims otherwise. Every statement about crashes and restarts in
sections 3 and 5 is one about crashes between two such steps. The files of `NodeAuth` and
`NodeMembership` can be read and parsed at every start; that the partition handler's
cannot is `LoadFails`. The package of `GatewayTasks` and `TaskRecords` is constructed by no
code yet: what they say is about its code as it stands.

## 7. Plan

The order was by how much of the system rests on a component. Done: dispatch,
membership, authentication, health, partition cache, asynchronous tasks, the YOLO
pipeline, and the fifteen parts above; their runs, and the theorems of section 5.

What could be added, in this order:

1. `VlmTasks` on top of `VlmService` as its environment, rather than on the
   promise that an inference ends.
2. `yolo_process_manager.go` beside `LlamaControl`, with the agent's start-up.
