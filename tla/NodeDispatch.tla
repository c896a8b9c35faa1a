---------------------------- MODULE NodeDispatch ----------------------------
(***************************************************************************)
(* How the gateway hands VLM requests to inference nodes, and how it       *)
(* counts what each node is doing.                                         *)
(*                                                                         *)
(* The registry maps a node id to a *Node OBJECT.  A request keeps a       *)
(* pointer to the object it was given; ActiveRequests, the counter that    *)
(* limits a node, lives in the object.  Registering an id again replaces   *)
(* the object and copies the counter, so the two notions - node id and     *)
(* node object - have to be kept apart here.                               *)
(*                                                                         *)
(* Concurrent actors: one goroutine per VLM request (requestWithNode),     *)
(* one per YOLO forward, the registration and heartbeat                    *)
(* handlers, and the goroutine that runs GracefulShutdown.                 *)
(***************************************************************************)
EXTENDS Naturals, FiniteSets

CONSTANTS
    Node,           \* node ids
    Object,         \* addresses of Node structs
    Request,        \* VLM requests (Chat and AnalyzeImage calls)
    Forward,        \* YOLO forwards
    MaxConcurrent,  \* NodeSelector.maxConcurrent (MAX_CONCURRENT_PER_NODE)
    MaxRetries,     \* cfg.MaxRetries of the client
    None            \* nil

ASSUME MaxConcurrentAssumption == MaxConcurrent \in Nat \ {0}
ASSUME MaxRetriesAssumption == MaxRetries \in Nat
ASSUME FiniteAssumption == IsFiniteSet(Request) /\ IsFiniteSet(Forward)
ASSUME NoneAssumption == None \notin Node \cup Object \cup Request \cup Forward

VARIABLES
    registry,       \* Registry.nodes: node id -> object or nil
    owner,          \* the ID field of each object, None while not allocated
    active,         \* Node.ActiveRequests of each object
    inherited,      \* history: the value Register copied into the counter
    ready,          \* the object passes the health, heartbeat, llama and
                    \*   memory tests of GetHealthy and GetAvailableNodes
    blacklist,      \* ids with an unexpired entry in NodeBlacklist
    selectionMu,    \* the request that holds the selection lock, or None
    pc,             \* where each request is
    held,           \* local variable node of each request
    excluded,       \* local variable excluded
    attempt,        \* local variable attempt
    fpc,            \* where each YOLO forward is
    target,         \* the object it was given
    shuttingDown,   \* SmartClient.shuttingDown
    drain,          \* where GracefulShutdown is
    unchecked       \* objects of its current GetAll it has yet to look at

nodeVars == <<registry, owner, active, inherited, ready>>
requestVars == <<pc, held, excluded, attempt>>
forwardVars == <<fpc, target>>
drainVars == <<shuttingDown, drain, unchecked>>
vars == <<nodeVars, blacklist, selectionMu, requestVars, forwardVars, drainVars>>

(***************************************************************************)
(* A VLM request:                                                          *)
(*   new -> try -> picked -> checked -> sending -> succeeded/failed/retry   *)
(*           ^        \-> wait (polling) -^                                 *)
(* succeeded, failed and retry are the three ways to leave one attempt;     *)
(* the counter is released on entry, the books are kept afterwards.         *)
(***************************************************************************)
RequestState == {"new", "try", "wait", "picked", "rechecked", "sending",
                 "recordSuccess", "recordFailure", "done"}
ForwardState == {"new", "chosen", "sending", "done"}
DrainState == {"off", "polling", "checking", "completed", "timeout"}

Registered == {o \in Object : \E n \in Node : registry[n] = o}

(* The requests and the forwards between their Increment and Decrement.     *)
VlmHolders(o) == {r \in Request : pc[r] = "sending" /\ held[r] = o}
YoloHolders(o) == {f \in Forward : fpc[f] = "sending" /\ target[f] = o}

Init ==
    /\ registry = [n \in Node |-> None]
    /\ owner = [o \in Object |-> None]
    /\ active = [o \in Object |-> 0]
    /\ inherited = [o \in Object |-> 0]
    /\ ready = [o \in Object |-> FALSE]
    /\ blacklist = {}
    /\ selectionMu = None
    /\ pc = [r \in Request |-> "new"]
    /\ held = [r \in Request |-> None]
    /\ excluded = [r \in Request |-> {}]
    /\ attempt = [r \in Request |-> 0]
    /\ fpc = [f \in Forward |-> "new"]
    /\ target = [f \in Forward |-> None]
    /\ shuttingDown = FALSE
    /\ drain = "off"
    /\ unchecked = {}

-----------------------------------------------------------------------------
(* The registry and what the node reports.                                 *)

(* Register: a new object for id n replaces the present one and takes over  *)
(* its counter.  Object bounds the number of registrations.                 *)
Register(n, o) ==
    LET count == IF registry[n] = None THEN 0 ELSE active[registry[n]] IN
    /\ owner[o] = None
    /\ owner' = [owner EXCEPT ![o] = n]
    /\ active' = [active EXCEPT ![o] = count]
    /\ inherited' = [inherited EXCEPT ![o] = count]
    /\ registry' = [registry EXCEPT ![n] = o]
    /\ UNCHANGED <<ready, blacklist, selectionMu, requestVars, forwardVars, drainVars>>

Unregister(n) ==
    /\ registry[n] # None
    /\ registry' = [registry EXCEPT ![n] = None]
    /\ UNCHANGED <<owner, active, inherited, ready, blacklist, selectionMu,
                   requestVars, forwardVars, drainVars>>

(* A heartbeat, a health check, an enable/disable call or the mere absence  *)
(* of heartbeats changes whether the registered object may be selected.     *)
ChangeReadiness(n) ==
    /\ registry[n] # None
    /\ ready' = [ready EXCEPT ![registry[n]] = ~@]
    /\ UNCHANGED <<registry, owner, active, inherited, blacklist, selectionMu,
                   requestVars, forwardVars, drainVars>>

(* An entry of the short-term blacklist expires.                            *)
BlacklistExpires(n) ==
    /\ n \in blacklist
    /\ blacklist' = blacklist \ {n}
    /\ UNCHANGED <<nodeVars, selectionMu, requestVars, forwardVars, drainVars>>

-----------------------------------------------------------------------------
(* A VLM request.                                                          *)

Goto(r, label) == pc' = [pc EXCEPT ![r] = label]

(* The only test of shuttingDown is the first statement of the request.     *)
Start(r) ==
    /\ pc[r] = "new"
    /\ Goto(r, IF shuttingDown THEN "done" ELSE "try")
    /\ UNCHANGED <<nodeVars, blacklist, selectionMu, held, excluded, attempt,
                   forwardVars, drainVars>>

(* Wrong variant of Available: a retry may go back to a node that failed.   *)
AvailableIgnoringExcluded(r) ==
    {o \in Registered : ready[o] /\ owner[o] \notin blacklist /\ active[o] < MaxConcurrent}

Available(r) ==
    {o \in Registered : /\ ready[o]
                        /\ owner[o] \notin excluded[r] \cup blacklist
                        /\ active[o] < MaxConcurrent}

(* Wrong variant of Select: the selection lock is not taken first.          *)
SelectWithoutLock(r) ==
    /\ pc[r] \in {"try", "wait"}
    /\ \E o \in Available(r) :
         /\ held' = [held EXCEPT ![r] = o]
         /\ selectionMu' = r
         /\ Goto(r, "picked")
    /\ UNCHANGED <<nodeVars, blacklist, excluded, attempt, forwardVars, drainVars>>

(* SelectAndAcquire takes the selection lock and selects; which of the      *)
(* available nodes scores best is left open.                                *)
Select(r) ==
    /\ pc[r] \in {"try", "wait"}
    /\ selectionMu = None
    /\ \E o \in Available(r) :
         /\ held' = [held EXCEPT ![r] = o]
         /\ selectionMu' = r
         /\ Goto(r, "picked")
    /\ UNCHANGED <<nodeVars, blacklist, excluded, attempt, forwardVars, drainVars>>

(* No node is available: the lock is released and the request polls.        *)
SelectNothing(r) ==
    /\ pc[r] = "try"
    /\ selectionMu = None
    /\ Available(r) = {}
    /\ Goto(r, "wait")
    /\ UNCHANGED <<nodeVars, blacklist, selectionMu, held, excluded, attempt,
                   forwardVars, drainVars>>

(* Wrong variant of Recheck: the failing path keeps the selection lock.     *)
RecheckKeepsLock(r) ==
    /\ pc[r] = "picked"
    /\ IF active[held[r]] < MaxConcurrent
         THEN Goto(r, "rechecked") /\ UNCHANGED held
         ELSE Goto(r, "wait") /\ held' = [held EXCEPT ![r] = None]
    /\ UNCHANGED <<nodeVars, blacklist, selectionMu, excluded, attempt, forwardVars, drainVars>>

(* The second test of the counter, still under the selection lock.          *)
Recheck(r) ==
    /\ pc[r] = "picked"
    /\ IF active[held[r]] < MaxConcurrent
         THEN Goto(r, "rechecked") /\ UNCHANGED <<held, selectionMu>>
         ELSE /\ Goto(r, "wait")
              /\ held' = [held EXCEPT ![r] = None]
              /\ selectionMu' = None
    /\ UNCHANGED <<nodeVars, blacklist, excluded, attempt, forwardVars, drainVars>>

(* IncrementActiveRequests takes the object's own lock, after the test of   *)
(* the counter has released it; then the selection lock is released.        *)
Acquire(r) ==
    /\ pc[r] = "rechecked"
    /\ active' = [active EXCEPT ![held[r]] = @ + 1]
    /\ selectionMu' = None
    /\ Goto(r, "sending")
    /\ UNCHANGED <<registry, owner, inherited, ready, blacklist, held, excluded,
                   attempt, forwardVars, drainVars>>

(* waitForNodeSmart gives up: its timeout passed or the caller went away.   *)
WaitGivesUp(r) ==
    /\ pc[r] = "wait"
    /\ Goto(r, "done")
    /\ UNCHANGED <<nodeVars, blacklist, selectionMu, held, excluded, attempt,
                   forwardVars, drainVars>>

Decrement(n) == IF n > 0 THEN n - 1 ELSE n

(* Wrong variant of Release: the error returns skip ReleaseNode.            *)
ReleaseUnlessError(r, next) ==
    /\ pc[r] = "sending"
    /\ active' = IF next = "done" THEN active
                ELSE [active EXCEPT ![held[r]] = Decrement(@)]
    /\ Goto(r, next)
    /\ UNCHANGED <<registry, owner, inherited, ready, blacklist, selectionMu, held,
                   excluded, attempt, forwardVars, drainVars>>

(* Every way out of an attempt first releases the node, then goes on:       *)
(* "done" when the body cannot be built or decoded, "recordFailure" when    *)
(* the node did not answer with 200, "recordSuccess" otherwise.             *)
Release(r, next) ==
    /\ pc[r] = "sending"
    /\ active' = [active EXCEPT ![held[r]] = Decrement(@)]
    /\ Goto(r, next)
    /\ UNCHANGED <<registry, owner, inherited, ready, blacklist, selectionMu, held,
                   excluded, attempt, forwardVars, drainVars>>

RecordSuccess(r) ==
    /\ pc[r] = "recordSuccess"
    /\ blacklist' = blacklist \ {owner[held[r]]}
    /\ Goto(r, "done")
    /\ UNCHANGED <<nodeVars, selectionMu, held, excluded, attempt, forwardVars, drainVars>>

(* Wrong variant of RecordFailure: the body counts the attempt as well.     *)
RecordFailureCountsTwice(r) ==
    LET id == owner[held[r]] IN
    /\ pc[r] = "recordFailure"
    /\ blacklist' = blacklist \cup {id}
    /\ excluded' = [excluded EXCEPT ![r] = @ \cup {id}]
    /\ attempt' = [attempt EXCEPT ![r] = @ + 2]
    /\ Goto(r, IF attempt[r] < MaxRetries THEN "try" ELSE "done")
    /\ UNCHANGED <<nodeVars, selectionMu, held, forwardVars, drainVars>>

(* Wrong variant of RecordFailure: the loop makes one attempt too many.     *)
RecordFailureOnceMore(r) ==
    LET id == owner[held[r]] IN
    /\ pc[r] = "recordFailure"
    /\ blacklist' = blacklist \cup {id}
    /\ excluded' = [excluded EXCEPT ![r] = @ \cup {id}]
    /\ attempt' = [attempt EXCEPT ![r] = @ + 1]
    /\ Goto(r, IF attempt[r] <= MaxRetries THEN "try" ELSE "done")
    /\ UNCHANGED <<nodeVars, selectionMu, held, forwardVars, drainVars>>

(* RecordFailure, the exclusion of the node and the loop's test.            *)
RecordFailure(r) ==
    LET id == owner[held[r]] IN
    /\ pc[r] = "recordFailure"
    /\ blacklist' = blacklist \cup {id}
    /\ excluded' = [excluded EXCEPT ![r] = @ \cup {id}]
    /\ attempt' = [attempt EXCEPT ![r] = @ + 1]
    /\ Goto(r, IF attempt[r] < MaxRetries THEN "try" ELSE "done")
    /\ UNCHANGED <<nodeVars, selectionMu, held, forwardVars, drainVars>>

-----------------------------------------------------------------------------
(* A YOLO forward: the handler picks an object of the registry's snapshot   *)
(* (YOLORoundRobin does not look at the counter), then counts itself in     *)
(* unconditionally and out when it returns.                                 *)

ForwardChoose(f) ==
    /\ fpc[f] = "new"
    /\ \E o \in Registered : target' = [target EXCEPT ![f] = o]
    /\ fpc' = [fpc EXCEPT ![f] = "chosen"]
    /\ UNCHANGED <<nodeVars, blacklist, selectionMu, requestVars, drainVars>>

ForwardBegin(f) ==
    /\ fpc[f] = "chosen"
    /\ active' = [active EXCEPT ![target[f]] = @ + 1]
    /\ fpc' = [fpc EXCEPT ![f] = "sending"]
    /\ UNCHANGED <<registry, owner, inherited, ready, target, blacklist, selectionMu,
                   requestVars, drainVars>>

ForwardEnd(f) ==
    /\ fpc[f] = "sending"
    /\ active' = [active EXCEPT ![target[f]] = Decrement(@)]
    /\ fpc' = [fpc EXCEPT ![f] = "done"]
    /\ UNCHANGED <<registry, owner, inherited, ready, target, blacklist, selectionMu,
                   requestVars, drainVars>>

-----------------------------------------------------------------------------
(* GracefulShutdown: refuse new requests, then poll the registry until      *)
(* every counter read is 0 or the deadline passes.                          *)

ShutdownBegin ==
    /\ drain = "off"
    /\ shuttingDown' = TRUE
    /\ drain' = "polling"
    /\ UNCHANGED <<nodeVars, blacklist, selectionMu, requestVars, forwardVars, unchecked>>

DrainPoll ==
    /\ drain = "polling"
    /\ unchecked' = Registered
    /\ drain' = "checking"
    /\ UNCHANGED <<nodeVars, blacklist, selectionMu, requestVars, forwardVars, shuttingDown>>

DrainCheck(o) ==
    /\ drain = "checking"
    /\ o \in unchecked
    /\ IF active[o] > 0
         THEN drain' = "polling" /\ unchecked' = {}
         ELSE UNCHANGED drain /\ unchecked' = unchecked \ {o}
    /\ UNCHANGED <<nodeVars, blacklist, selectionMu, requestVars, forwardVars, shuttingDown>>

DrainCompleted ==
    /\ drain = "checking"
    /\ unchecked = {}
    /\ drain' = "completed"
    /\ UNCHANGED <<nodeVars, blacklist, selectionMu, requestVars, forwardVars,
                   shuttingDown, unchecked>>

DrainTimeout ==
    /\ drain = "polling"
    /\ drain' = "timeout"
    /\ UNCHANGED <<nodeVars, blacklist, selectionMu, requestVars, forwardVars,
                   shuttingDown, unchecked>>

-----------------------------------------------------------------------------
RequestStep(r) ==
    \/ Start(r)
    \/ Select(r)
    \/ SelectNothing(r)
    \/ Recheck(r)
    \/ Acquire(r)
    \/ WaitGivesUp(r)
    \/ \E next \in {"done", "recordFailure", "recordSuccess"} : Release(r, next)
    \/ RecordSuccess(r)
    \/ RecordFailure(r)

ForwardStep(f) == ForwardChoose(f) \/ ForwardBegin(f) \/ ForwardEnd(f)

DrainStep ==
    \/ DrainPoll
    \/ \E o \in Object : DrainCheck(o)
    \/ DrainCompleted
    \/ DrainTimeout

NodeStep(n) ==
    \/ \E o \in Object : Register(n, o)
    \/ Unregister(n)
    \/ ChangeReadiness(n)
    \/ BlacklistExpires(n)

Next ==
    \/ \E r \in Request : RequestStep(r)
    \/ \E f \in Forward : ForwardStep(f)
    \/ \E n \in Node : NodeStep(n)
    \/ ShutdownBegin
    \/ DrainStep

Spec == Init /\ [][Next]_vars

(***************************************************************************)
(* Goroutines that can run do run; HTTP calls end (httpClient.Timeout);    *)
(* the wait ends (WaitTimeout); a goroutine blocked on selectionMu gets it  *)
(* in the end (Go mutexes hand over to a starved waiter).  Nothing is       *)
(* assumed of nodes, of heartbeats or of new requests.                      *)
(***************************************************************************)
Fairness ==
    /\ \A r \in Request :
         /\ WF_vars(Recheck(r))
         /\ WF_vars(Acquire(r))
         /\ WF_vars(WaitGivesUp(r))
         /\ WF_vars(\E next \in {"done", "recordFailure", "recordSuccess"} : Release(r, next))
         /\ WF_vars(RecordSuccess(r))
         /\ WF_vars(RecordFailure(r))
         /\ SF_vars(Select(r) \/ SelectNothing(r))
    /\ \A f \in Forward : WF_vars(ForwardBegin(f)) /\ WF_vars(ForwardEnd(f))

FairSpec == Spec /\ Fairness

-----------------------------------------------------------------------------
(* Properties.                                                             *)

TypeOK ==
    /\ registry \in [Node -> Object \cup {None}]
    /\ owner \in [Object -> Node \cup {None}]
    /\ active \in [Object -> Nat]
    /\ inherited \in [Object -> Nat]
    /\ ready \in [Object -> BOOLEAN]
    /\ blacklist \subseteq Node
    /\ selectionMu \in Request \cup {None}
    /\ pc \in [Request -> RequestState]
    /\ held \in [Request -> Object \cup {None}]
    /\ excluded \in [Request -> SUBSET Node]
    /\ attempt \in [Request -> 0 .. MaxRetries + 1]
    /\ fpc \in [Forward -> ForwardState]
    /\ target \in [Forward -> Object \cup {None}]
    /\ shuttingDown \in BOOLEAN
    /\ drain \in DrainState
    /\ unchecked \subseteq Object

(* The counter of an object is the number of requests and forwards that     *)
(* are using it, plus what Register copied into it: no path through         *)
(* requestWithNode forgets a release or releases twice, and the floor in    *)
(* DecrementActiveRequests never hides a missing increment.                 *)
SlotAccounting ==
    \A o \in Object :
        active[o] = Cardinality(VlmHolders(o)) + Cardinality(YoloHolders(o)) + inherited[o]

(* At most maxConcurrent VLM requests use one Node object at a time,        *)
(* whatever YOLO forwards, registrations and releases happen between the    *)
(* test of the counter and its increment: what selectionMu is for.          *)
VlmCapPerObject ==
    \A o \in Object : Cardinality(VlmHolders(o)) <= MaxConcurrent

(* A request that has failed k times has failed on k different nodes: a     *)
(* retry of requestWithNode never goes back to a node that failed it, even  *)
(* when the id was registered again in the meantime.                        *)
RetriesVisitDistinctNodes ==
    \A r \in Request : Cardinality(excluded[r]) = attempt[r]

(* The dispatch implements VlmService.  A request is served while its       *)
(* object counts it; the attempt fails when the object is released, before  *)
(* the node is excluded; the last attempt ends the request.                 *)
serving == [r \in Request |-> IF pc[r] = "sending" THEN held[r] ELSE None]
failed == [r \in Request |-> IF pc[r] = "recordFailure" THEN excluded[r] \cup {owner[held[r]]}
                                                        ELSE excluded[r]]
over == [r \in Request |-> \/ pc[r] \in {"recordSuccess", "done"}
                           \/ pc[r] = "recordFailure" /\ attempt[r] = MaxRetries]

Service == INSTANCE VlmService WITH serving <- serving, failed <- failed, over <- over

(* Whatever nodes, forwards, the blacklist and the shutdown do, a VLM       *)
(* request sees what VlmService promises: at most maxConcurrent requests on *)
(* an object, retries on other nodes only, no more than MaxRetries of them. *)
ServesVlm == Service!Spec

(* Every request that starts comes to an end, released and recorded: no     *)
(* one stays blocked on selectionMu or polls for ever.                      *)
RequestsTerminate ==
    \A r \in Request : pc[r] = "try" ~> pc[r] = "done"

(* The second test of SelectAndAcquire only ever fails because of a YOLO     *)
(* forward: the slot a VLM request was given under the selection lock is not *)
(* taken by another VLM request, nor by a registration.                      *)
RecheckFailsForForwards ==
    \A r \in Request :
        pc[r] = "picked" /\ active[held[r]] >= MaxConcurrent => YoloHolders(held[r]) # {}

(* The steps a request has still before it, a round of polling not counted.  *)
StepsLeft(r) ==
    IF pc[r] = "done" THEN 0
    ELSE 8 * (MaxRetries - attempt[r]) +
         (CASE pc[r] = "new" -> 7 [] pc[r] = "try" -> 6 [] pc[r] \in {"wait", "picked"} -> 5
            [] pc[r] = "rechecked" -> 4 [] pc[r] = "sending" -> 3
            [] pc[r] \in {"recordSuccess", "recordFailure"} -> 2)

Polls(r) == \/ pc[r] = "wait" /\ pc'[r] = "picked"
            \/ pc[r] = "picked" /\ pc'[r] = "wait"

Advances(r) ==
    \/ StepsLeft(r)' < StepsLeft(r)
    \/ StepsLeft(r)' = StepsLeft(r) /\ (pc'[r] = pc[r] \/ Polls(r))

NobodyTurnsBack == \A r \in Request : Advances(r)

(* No step of anybody takes a request back: it moves towards its end or, in  *)
(* the polling loop, stays as far as it is; so all that fairness has to end  *)
(* is the wait for a node (requestWithNode, waitForNodeSmart).               *)
RequestsOnlyAdvance == [][NobodyTurnsBack]_vars

(* The invariants that the proofs need besides.                             *)

(* A request or a forward that was given an object holds an allocated one,  *)
(* and the registry files every object under the object's own id.           *)
Choosing == {"picked", "rechecked"}
Holding == Choosing \cup {"sending", "recordSuccess", "recordFailure"}

PointersOK ==
    /\ \A n \in Node : registry[n] # None => owner[registry[n]] = n
    /\ \A r \in Request : pc[r] \in Holding => held[r] \in Object /\ owner[held[r]] \in Node
    /\ \A f \in Forward : fpc[f] \in {"chosen", "sending"} =>
                             target[f] \in Object /\ owner[target[f]] \in Node

(* The selection lock is held by exactly the request that is choosing.      *)
SelectionExclusive ==
    \A r \in Request : selectionMu = r <=> pc[r] \in Choosing

(* Between the second test of the counter and the increment the object      *)
(* keeps a free VLM slot for the request that tested it.                    *)
TestedSlotStaysFree ==
    \A r \in Request :
        pc[r] = "rechecked" => Cardinality(VlmHolders(held[r])) < MaxConcurrent

(* A request that is not over has an attempt left.                          *)
AttemptsBounded == \A r \in Request : pc[r] # "done" => attempt[r] <= MaxRetries

(* The node of the current attempt is not one that failed before.           *)
AttemptIsNew ==
    \A r \in Request :
        /\ IsFiniteSet(excluded[r])
        /\ pc[r] \in {"picked", "rechecked", "sending", "recordFailure"} =>
             owner[held[r]] \notin excluded[r]

(* What the comments say of the counters and of GracefulShutdown; the code  *)
(* does not keep them once a node is registered again.                      *)

(* "each node's LLM is serial and can process only one VLM request at a     *)
(* time" (api/handlers.go, the reason for the limit of maxConcurrent): the  *)
(* bound of VlmCapPerObject, for the node id.                               *)
VlmCapPerNode ==
    \A n \in Node :
        Cardinality({r \in Request : pc[r] = "sending" /\ owner[held[r]] = n}) <= MaxConcurrent

(* "ActiveRequests is maintained by the gateway (select_and_acquire and     *)
(* release_node)": with no request and no forward in flight a registered    *)
(* node counts none.                                                        *)
IdleNodeCountsZero ==
    (/\ \A r \in Request : pc[r] # "sending"
     /\ \A f \in Forward : fpc[f] # "sending")
        => \A o \in Registered : active[o] = 0

(* "wait for all requests to complete": when GracefulShutdown reports       *)
(* completed, no VLM request is using a node.                               *)
CompletedMeansDrained ==
    drain = "completed" => \A r \in Request : pc[r] # "sending"

=============================================================================
