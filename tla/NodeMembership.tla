--------------------------- MODULE NodeMembership ---------------------------
(***************************************************************************)
(* How a node comes to be, stays and ceases to be a member of the cluster. *)
(*                                                                         *)
(* Membership is kept twice in the gateway: NodeAuthManager remembers who   *)
(* has registered (and saves it), Registry holds the Node object that      *)
(* requests are sent to (in memory only).  Six kinds of goroutine write to  *)
(* them without a common lock: the register, heartbeat and delete handlers, *)
(* the callback RegisterNode spawns, node discovery and the partition       *)
(* handler.  On the other side of the network the node-agent registers,     *)
(* beats, registers again on a 404 and deletes itself when it is stopped;   *)
(* its HTTP calls time out while the handler they started goes on.          *)
(*                                                                         *)
(* Of a Node object only its LastHeartbeat and its YOLOPort are kept.  A    *)
(* goroutine that got an object keeps it after another one has replaced or  *)
(* removed it; all such objects are alike, so that a pointer is one of      *)
(* "nil", "registered" (it is the object in the registry) and "detached".   *)
(* Whether a registration is admitted is decided in NodeAuth; here it may   *)
(* be refused at any time.                                                  *)
(***************************************************************************)
EXTENDS Naturals

CONSTANTS
    Node,           \* node ids
    Call,           \* slots for HTTP requests the gateway is handling
    MaxCallbacks,   \* bound on the pending callbacks of one node
    MaxAttempts,    \* maxRetries of GatewayClient.register
    None            \* no call

ASSUME MaxCallbacksAssumption == MaxCallbacks \in Nat \ {0}
ASSUME MaxAttemptsAssumption == MaxAttempts \in Nat \ {0}
ASSUME NoneAssumption == None \notin Call

VARIABLES
    registry,       \* LastHeartbeat of the registered object, "none" without one
    yoloPort,       \* its YOLOPort
    auth,           \* ids in NodeAuthManager.registeredNodes
    disk,           \* ids in registered_nodes.json
    callbacks,      \* pending goroutines "go m.onNodeRegistered(node)"
    call,           \* the HTTP requests being handled
    discovery,      \* the goroutine of NodeDiscoveryService
    partition,      \* the goroutine of NetworkPartitionHandler
    up,             \* the gateway is running
    agent           \* the node-agents

members == <<registry, yoloPort, auth, disk, callbacks>>
services == <<discovery, partition>>
vars == <<members, services, call, up, agent>>

-----------------------------------------------------------------------------
Beat == {"none", "never", "fresh", "stale"}
Pointer == {"nil", "registered", "detached"}

Idle == [kind |-> "idle", node |-> None, at |-> "end", held |-> "nil"]
Handling == [kind : {"register", "heartbeat", "delete"}, node : Node, held : Pointer,
             at : {"validate", "auth", "registry", "get", "lookup", "recover",
                   "reget", "update", "check", "unregister", "forget"}]
FirstStep == [register |-> "validate", heartbeat |-> "get", delete |-> "check"]
Request(kind, n) == [kind |-> kind, node |-> n, at |-> FirstStep[kind], held |-> "nil"]

Discovery == [at : {"wait", "check", "probe"}, todo : SUBSET Node, node : Node \cup {None}]
Partition == [at : {"wait", "recover", "probe"}, todo : SUBSET Node,
              node : Node \cup {None}, held : Pointer]
DiscoveryWaits == [at |-> "wait", todo |-> {}, node |-> None]
PartitionWaits == [at |-> "wait", todo |-> {}, node |-> None, held |-> "nil"]

(* An agent: its loop goroutine, its main goroutine once it was signalled,  *)
(* the call each of them waits for, and whether its last stop was answered  *)
(* with 200.                                                               *)
Agent == [loop : {"off", "register", "beat"}, attempts : 0 .. MaxAttempts - 1,
          loopCall : Call \cup {None}, stop : {"no", "delete", "deleting", "closed"},
          stopCall : Call \cup {None}, left : BOOLEAN]
AgentOff == [loop |-> "off", attempts |-> 0, loopCall |-> None,
             stop |-> "no", stopCall |-> None, left |-> FALSE]

Init ==
    /\ registry = [n \in Node |-> "none"]
    /\ yoloPort = [n \in Node |-> "unset"]
    /\ auth = {}
    /\ disk = {}
    /\ callbacks = [n \in Node |-> 0]
    /\ call = [c \in Call |-> Idle]
    /\ discovery = DiscoveryWaits
    /\ partition = PartitionWaits
    /\ up = TRUE
    /\ agent = [n \in Node |-> AgentOff]

-----------------------------------------------------------------------------
(* Registry.Register and Unregister: who holds the old object now holds a   *)
(* detached one.                                                           *)

Detach(n, x) == IF x.node = n /\ x.held = "registered" THEN [x EXCEPT !.held = "detached"] ELSE x
DetachCalls(n) == [c \in Call |-> Detach(n, call[c])]

SetEntry(n, beat, port) ==
    /\ registry' = [registry EXCEPT ![n] = beat]
    /\ yoloPort' = [yoloPort EXCEPT ![n] = port]

(* What the agent does with the end of the call c it was waiting for.       *)
(* Wrong variant of RegisterEnds: one attempt too many.                     *)
RegisterEndsLate(a, code) ==
    IF code = 200 \/ a.attempts = MaxAttempts
      THEN [a EXCEPT !.loop = "beat", !.attempts = 0, !.loopCall = None]
      ELSE [a EXCEPT !.attempts = @ + 1, !.loopCall = None]

RegisterEnds(a, code) ==
    IF code = 200 \/ a.attempts + 1 = MaxAttempts
      THEN [a EXCEPT !.loop = "beat", !.attempts = 0, !.loopCall = None]
      ELSE [a EXCEPT !.attempts = @ + 1, !.loopCall = None]

BeatEnds(a, code) ==
    [a EXCEPT !.loop = IF code = 404 THEN "register" ELSE "beat", !.loopCall = None]

LoopCallEnds(a, code) == IF a.loop = "register" THEN RegisterEnds(a, code) ELSE BeatEnds(a, code)

StopCallEnds(a, code) == [a EXCEPT !.stop = "closed", !.stopCall = None, !.left = (code = 200)]

Answer(a, c, code) ==
    IF a.loopCall = c THEN LoopCallEnds(a, code)
    ELSE IF a.stopCall = c THEN StopCallEnds(a, code)
    ELSE a

(* The connection breaks while the agent waits.                             *)
LoopCut(a) == IF a.loopCall = None THEN a ELSE LoopCallEnds(a, 503)
StopCut(a) == IF a.stopCall = None THEN a ELSE StopCallEnds(a, 503)

(* The handler of call c replies; the calls are otherwise as in "calls".    *)
Reply(c, code, calls) ==
    /\ call' = [calls EXCEPT ![c] = Idle]
    /\ agent' = [n \in Node |-> Answer(agent[n], c, code)]

StepTo(c, at) == call' = [call EXCEPT ![c].at = at] /\ UNCHANGED agent

At(c, kind, at) == call[c].kind = kind /\ call[c].at = at

-----------------------------------------------------------------------------
(* POST /nodes/register                                                    *)

RegisterRefused(c) ==
    /\ call[c].kind = "register"
    /\ call[c].at \in {"validate", "auth"}
    /\ \E code \in {401, 403, 500} : Reply(c, code, call)
    /\ UNCHANGED <<members, services, up>>

RegisterValidate(c) ==
    /\ At(c, "register", "validate")
    /\ StepTo(c, "auth")
    /\ UNCHANGED <<members, services, up>>

(* Wrong variant of RegisterAuth: the registered nodes are not saved.       *)
RegisterAuthUnsaved(c) ==
    LET n == call[c].node IN
    /\ At(c, "register", "auth")
    /\ callbacks[n] < MaxCallbacks
    /\ auth' = auth \cup {n}
    /\ callbacks' = [callbacks EXCEPT ![n] = @ + 1]
    /\ StepTo(c, "registry")
    /\ UNCHANGED <<registry, yoloPort, disk, services, up>>

(* NodeAuthManager.RegisterNode, under its lock.                            *)
RegisterAuth(c) ==
    LET n == call[c].node IN
    /\ At(c, "register", "auth")
    /\ callbacks[n] < MaxCallbacks
    /\ auth' = auth \cup {n}
    /\ disk' = auth'
    /\ callbacks' = [callbacks EXCEPT ![n] = @ + 1]
    /\ StepTo(c, "registry")
    /\ UNCHANGED <<registry, yoloPort, services, up>>

RegisterRegistry(c) ==
    LET n == call[c].node IN
    /\ At(c, "register", "registry")
    /\ SetEntry(n, "fresh", "reported")
    /\ Reply(c, 200, DetachCalls(n))
    /\ partition' = Detach(n, partition)
    /\ UNCHANGED <<auth, disk, callbacks, discovery, up>>

(* The callback main installs: it does not know the YOLO port.              *)
Callback(n) ==
    /\ callbacks[n] > 0
    /\ callbacks' = [callbacks EXCEPT ![n] = @ - 1]
    /\ SetEntry(n, "fresh", "unset")
    /\ call' = DetachCalls(n)
    /\ partition' = Detach(n, partition)
    /\ UNCHANGED <<auth, disk, discovery, up, agent>>

-----------------------------------------------------------------------------
(* PUT /nodes/:id/heartbeat                                                *)

BeatGet(c) ==
    /\ At(c, "heartbeat", "get")
    /\ call' = [call EXCEPT ![c] = IF registry[@.node] = "none"
                                     THEN [@ EXCEPT !.at = "lookup"]
                                     ELSE [@ EXCEPT !.at = "update", !.held = "registered"]]
    /\ UNCHANGED <<members, services, up, agent>>

(* Wrong variant of BeatLookup: the registered nodes are not consulted.     *)
BeatLookupNever(c) ==
    /\ At(c, "heartbeat", "lookup")
    /\ Reply(c, 404, call)
    /\ UNCHANGED <<members, services, up>>

BeatLookup(c) ==
    /\ At(c, "heartbeat", "lookup")
    /\ IF call[c].node \in auth THEN StepTo(c, "recover") ELSE Reply(c, 404, call)
    /\ UNCHANGED <<members, services, up>>

(* Wrong variant of BeatRecover: the handler replies as soon as the node is *)
(* back in the registry.                                                   *)
BeatRecoverOnly(c) ==
    LET n == call[c].node IN
    /\ At(c, "heartbeat", "recover")
    /\ SetEntry(n, "never", "unset")
    /\ Reply(c, 200, DetachCalls(n))
    /\ partition' = Detach(n, partition)
    /\ UNCHANGED <<auth, disk, callbacks, discovery, up>>

(* The object made from the saved registration has no heartbeat yet.        *)
BeatRecover(c) ==
    LET n == call[c].node IN
    /\ At(c, "heartbeat", "recover")
    /\ SetEntry(n, "never", "unset")
    /\ call' = [DetachCalls(n) EXCEPT ![c].at = "reget"]
    /\ partition' = Detach(n, partition)
    /\ UNCHANGED <<auth, disk, callbacks, discovery, up, agent>>

BeatReget(c) ==
    /\ At(c, "heartbeat", "reget")
    /\ IF registry[call[c].node] = "none"
         THEN Reply(c, 404, call)
         ELSE /\ call' = [call EXCEPT ![c].at = "update", ![c].held = "registered"]
              /\ UNCHANGED agent
    /\ UNCHANGED <<members, services, up>>

(* MarkHealthy and UpdateStatus, on the object the handler holds.           *)
BeatUpdate(c) ==
    LET n == call[c].node IN
    /\ At(c, "heartbeat", "update")
    /\ registry' = IF call[c].held = "registered"
                     THEN [registry EXCEPT ![n] = "fresh"] ELSE registry
    /\ Reply(c, 200, call)
    /\ UNCHANGED <<yoloPort, auth, disk, callbacks, services, up>>

-----------------------------------------------------------------------------
(* DELETE /nodes/:id                                                       *)

DeleteCheck(c) ==
    LET n == call[c].node IN
    /\ At(c, "delete", "check")
    /\ IF registry[n] = "none" /\ n \notin auth
         THEN Reply(c, 404, call)
         ELSE StepTo(c, "unregister")
    /\ UNCHANGED <<members, services, up>>

DeleteUnregister(c) ==
    LET n == call[c].node IN
    /\ At(c, "delete", "unregister")
    /\ SetEntry(n, "none", "unset")
    /\ call' = [DetachCalls(n) EXCEPT ![c].at = "forget"]
    /\ partition' = Detach(n, partition)
    /\ UNCHANGED <<auth, disk, callbacks, discovery, up, agent>>

DeleteForget(c) ==
    /\ At(c, "delete", "forget")
    /\ auth' = auth \ {call[c].node}
    /\ disk' = IF call[c].node \in auth THEN auth' ELSE disk
    /\ Reply(c, 200, call)
    /\ UNCHANGED <<registry, yoloPort, callbacks, services, up>>

-----------------------------------------------------------------------------
(* NodeDiscoveryService: recovers registered nodes the registry lacks.      *)

DiscoverySnapshot ==
    /\ up
    /\ discovery.at = "wait"
    /\ discovery' = [discovery EXCEPT !.at = "check", !.todo = auth]
    /\ UNCHANGED <<members, partition, call, up, agent>>

DiscoveryCheck(n) ==
    /\ discovery.at = "check"
    /\ n \in discovery.todo
    /\ discovery' = IF registry[n] = "none"
                      THEN [at |-> "probe", todo |-> discovery.todo \ {n}, node |-> n]
                      ELSE [discovery EXCEPT !.todo = @ \ {n}]
    /\ UNCHANGED <<members, partition, call, up, agent>>

DiscoveryUnreachable ==
    /\ discovery.at = "probe"
    /\ discovery' = [discovery EXCEPT !.at = "check", !.node = None]
    /\ UNCHANGED <<members, partition, call, up, agent>>

DiscoveryRecover ==
    LET n == discovery.node IN
    /\ discovery.at = "probe"
    /\ discovery' = [discovery EXCEPT !.at = "check", !.node = None]
    /\ SetEntry(n, "fresh", "unset")
    /\ call' = DetachCalls(n)
    /\ partition' = Detach(n, partition)
    /\ UNCHANGED <<auth, disk, callbacks, up, agent>>

DiscoveryDone ==
    /\ discovery.at = "check"
    /\ discovery.todo = {}
    /\ discovery' = DiscoveryWaits
    /\ UNCHANGED <<members, partition, call, up, agent>>

-----------------------------------------------------------------------------
(* NetworkPartitionHandler.checkAndHandle probes the nodes whose heartbeat  *)
(* is overdue.  What it caches is in PartitionCache.                        *)

PartitionDetect ==
    /\ up
    /\ partition.at = "wait"
    /\ partition' = [partition EXCEPT !.at = "recover",
                        !.todo = {n \in Node : registry[n] \in {"never", "stale"}}]
    /\ UNCHANGED <<members, discovery, call, up, agent>>

PartitionGet(n) ==
    /\ partition.at = "recover"
    /\ n \in partition.todo
    /\ partition' = IF registry[n] = "none"
                      THEN [partition EXCEPT !.todo = @ \ {n}]
                      ELSE [at |-> "probe", todo |-> partition.todo \ {n},
                            node |-> n, held |-> "registered"]
    /\ UNCHANGED <<members, discovery, call, up, agent>>

PartitionProbe(reachable) ==
    LET n == partition.node IN
    /\ partition.at = "probe"
    /\ registry' = IF reachable /\ partition.held = "registered"
                     THEN [registry EXCEPT ![n] = "fresh"] ELSE registry
    /\ partition' = [partition EXCEPT !.at = "recover", !.node = None, !.held = "nil"]
    /\ UNCHANGED <<yoloPort, auth, disk, callbacks, discovery, call, up, agent>>

PartitionDone ==
    /\ partition.at = "recover"
    /\ partition.todo = {}
    /\ partition' = PartitionWaits
    /\ UNCHANGED <<members, discovery, call, up, agent>>

-----------------------------------------------------------------------------
(* The gateway process ends, by a signal or a crash: what is in memory and  *)
(* the calls being handled are gone.                                       *)
GatewayEnds ==
    /\ up
    /\ up' = FALSE
    /\ registry' = [n \in Node |-> "none"]
    /\ yoloPort' = [n \in Node |-> "unset"]
    /\ auth' = {}
    /\ callbacks' = [n \in Node |-> 0]
    /\ call' = [c \in Call |-> Idle]
    /\ agent' = [n \in Node |-> StopCut(LoopCut(agent[n]))]
    /\ discovery' = DiscoveryWaits
    /\ partition' = PartitionWaits
    /\ UNCHANGED disk

(* It starts again: NewNodeAuthManager loads the saved registrations.       *)
GatewayStarts ==
    /\ ~up
    /\ up' = TRUE
    /\ auth' = disk
    /\ UNCHANGED <<registry, yoloPort, disk, callbacks, services, call, agent>>

(* A registered object gets no heartbeat for HeartbeatTimeout seconds.      *)
HeartbeatOverdue(n) ==
    /\ registry[n] = "fresh"
    /\ registry' = [registry EXCEPT ![n] = "stale"]
    /\ UNCHANGED <<yoloPort, auth, disk, callbacks, services, call, up, agent>>

-----------------------------------------------------------------------------
(* The node-agent.                                                         *)

Sent(c, kind, n) ==
    /\ up
    /\ call[c] = Idle
    /\ call' = [call EXCEPT ![c] = Request(kind, n)]

AgentBoots(n) ==
    /\ agent[n].loop = "off"
    /\ agent' = [agent EXCEPT ![n] = [AgentOff EXCEPT !.loop = "register"]]
    /\ UNCHANGED <<members, services, call, up>>

AgentRegisters(n, c) ==
    /\ agent[n].loop = "register"
    /\ agent[n].loopCall = None
    /\ Sent(c, "register", n)
    /\ agent' = [agent EXCEPT ![n].loopCall = c]
    /\ UNCHANGED <<members, services, up>>

AgentBeats(n, c) ==
    /\ agent[n].loop = "beat"
    /\ agent[n].loopCall = None
    /\ Sent(c, "heartbeat", n)
    /\ agent' = [agent EXCEPT ![n].loopCall = c]
    /\ UNCHANGED <<members, services, up>>

(* The goroutine a heartbeat starts when the node's address became known.   *)
AgentRegistersAside(n, c) ==
    /\ agent[n].loop = "beat"
    /\ Sent(c, "register", n)
    /\ UNCHANGED <<members, services, up, agent>>

(* The loop's call fails: the request is lost, refused by the network, or   *)
(* the client's timeout passes while the handler goes on.                   *)
AgentLoopFails(n) ==
    /\ agent[n].loopCall # None \/ agent[n].loop = "register"
    /\ agent' = [agent EXCEPT ![n] = LoopCallEnds(@, 503)]
    /\ UNCHANGED <<members, services, call, up>>

(* The signal: Stop deletes the node, then lets the loop end.               *)
AgentStops(n) ==
    /\ agent[n].loop # "off"
    /\ agent[n].stop = "no"
    /\ agent' = [agent EXCEPT ![n].stop = "delete"]
    /\ UNCHANGED <<members, services, call, up>>

AgentDeletes(n, c) ==
    /\ agent[n].stop = "delete"
    /\ Sent(c, "delete", n)
    /\ agent' = [agent EXCEPT ![n].stop = "deleting", ![n].stopCall = c]
    /\ UNCHANGED <<members, services, up>>

AgentDeleteFails(n) ==
    /\ agent[n].stop \in {"delete", "deleting"}
    /\ agent' = [agent EXCEPT ![n] = StopCallEnds(@, 503)]
    /\ UNCHANGED <<members, services, call, up>>

AgentExits(n) ==
    /\ agent[n].stop = "closed"
    /\ agent' = [agent EXCEPT ![n] = [AgentOff EXCEPT !.left = agent[n].left]]
    /\ UNCHANGED <<members, services, call, up>>

AgentCrashes(n) ==
    /\ agent[n].loop # "off"
    /\ agent' = [agent EXCEPT ![n] = AgentOff]
    /\ UNCHANGED <<members, services, call, up>>

OperatorDeletes(n, c) ==
    /\ Sent(c, "delete", n)
    /\ UNCHANGED <<members, services, up, agent>>

-----------------------------------------------------------------------------
CallStep(c) ==
    \/ RegisterRefused(c) \/ RegisterValidate(c) \/ RegisterAuth(c) \/ RegisterRegistry(c)
    \/ BeatGet(c) \/ BeatLookup(c) \/ BeatRecover(c) \/ BeatReget(c) \/ BeatUpdate(c)
    \/ DeleteCheck(c) \/ DeleteUnregister(c) \/ DeleteForget(c)

DiscoveryStep ==
    \/ DiscoverySnapshot \/ DiscoveryUnreachable \/ DiscoveryRecover \/ DiscoveryDone
    \/ \E n \in Node : DiscoveryCheck(n)

PartitionStep ==
    \/ PartitionDetect \/ PartitionDone
    \/ \E n \in Node : PartitionGet(n)
    \/ \E reachable \in BOOLEAN : PartitionProbe(reachable)

AgentStep(n) ==
    \/ AgentBoots(n) \/ AgentLoopFails(n) \/ AgentStops(n) \/ AgentDeleteFails(n)
    \/ AgentExits(n) \/ AgentCrashes(n)
    \/ \E c \in Call : \/ AgentRegisters(n, c) \/ AgentBeats(n, c)
                       \/ AgentRegistersAside(n, c) \/ AgentDeletes(n, c)

Next ==
    \/ \E c \in Call : CallStep(c)
    \/ \E n \in Node : Callback(n) \/ HeartbeatOverdue(n) \/ AgentStep(n)
    \/ \E n \in Node, c \in Call : OperatorDeletes(n, c)
    \/ DiscoveryStep
    \/ PartitionStep
    \/ GatewayEnds
    \/ GatewayStarts

Spec == Init /\ [][Next]_vars

(***************************************************************************)
(* Handlers and callbacks run to their end; the gateway's start-up does; a  *)
(* loop of an agent that is neither stopped nor lost sends its heartbeats   *)
(* (its calls time out after 5 and 10 seconds).  Nothing is assumed of      *)
(* discovery, the partition handler, operators, stops and crashes.          *)
(***************************************************************************)
Fairness ==
    /\ \A c \in Call : WF_vars(CallStep(c))
    /\ \A n \in Node : /\ WF_vars(Callback(n))
                       /\ WF_vars(AgentLoopFails(n))
                       /\ SF_vars(\E c \in Call : AgentBeats(n, c))
    /\ WF_vars(GatewayStarts)

FairSpec == Spec /\ Fairness

-----------------------------------------------------------------------------
(* Properties.                                                             *)

TypeOK ==
    /\ registry \in [Node -> Beat]
    /\ yoloPort \in [Node -> {"unset", "reported"}]
    /\ auth \subseteq Node
    /\ disk \subseteq Node
    /\ callbacks \in [Node -> 0 .. MaxCallbacks]
    /\ call \in [Call -> Handling \cup {Idle}]
    /\ discovery \in Discovery
    /\ partition \in Partition
    /\ up \in BOOLEAN
    /\ agent \in [Node -> Agent]

(* What NodeAuthManager remembers is what a restart would load: no          *)
(* registration is lost by a crash and no deleted node comes back with it.  *)
AuthSurvivesRestart == up => disk = auth

(* The heartbeat of a node the registry has lost puts an object without a   *)
(* heartbeat into it, which no request can be given to.  Whatever the other *)
(* handlers do meanwhile, a registered object in that state is about to be  *)
(* refreshed by a heartbeat handler that has hold of it, or is about to.    *)
RecoveredIsRefreshed ==
    \A n \in Node : registry[n] = "never" =>
        \E c \in Call :
            /\ call[c].kind = "heartbeat"
            /\ call[c].node = n
            /\ call[c].at = "reget" \/ (call[c].at = "update" /\ call[c].held = "registered")

(* A member whose agent keeps beating stays selectable for ever again:      *)
(* after a gateway restart, a partition, lost calls or a replaced object,   *)
(* its heartbeats bring it back without a new registration.                 *)
BeatingNodeIsServed ==
    \A n \in Node :
        <>[](up /\ n \in auth /\ agent[n].loop # "off")
            => []<>(registry[n] = "fresh")

Quiet(n) ==
    /\ callbacks[n] = 0
    /\ \A c \in Call : call[c].node # n
    /\ discovery = DiscoveryWaits

(* nodes.go:225-253: DELETE removes the node from the registry and from the *)
(* auth manager.  Once nothing is in progress for a node, one that the auth *)
(* manager does not know is not in the registry.  Violated: a heartbeat     *)
(* that finds the registry entry gone and the auth entry still there        *)
(* registers the node again, and so does the callback of an earlier         *)
(* registration.                                                           *)
DeletedIsGone ==
    \A n \in Node : up /\ Quiet(n) /\ registry[n] # "none" => n \in auth

(* main.go:85 of the agent: stopping it deletes the node.  Violated: the    *)
(* loop still runs when the DELETE is sent, and a registration of its -     *)
(* after a heartbeat answered with 404, or one begun before - is carried    *)
(* out after the DELETE.                                                   *)
StoppedIsGone ==
    \A n \in Node : agent[n] = [AgentOff EXCEPT !.left = TRUE] /\ Quiet(n) => n \notin auth

(* main.go:86: discovery does not recover a node that is in the registry.   *)
(* Violated: its probe lies between the test and the registration.          *)
DiscoveryNeverReplaces ==
    [][\A n \in Node :
         discovery.at = "probe" /\ discovery.node = n /\ discovery' # discovery
           /\ registry[n] # "none" /\ up' = up
         => yoloPort'[n] = yoloPort[n] /\ registry'[n] = registry[n]]_vars

(* nodes.go:136 sets the YOLO port of a registration.  When all is quiet    *)
(* the object of a node that registered since the gateway started has it.   *)
(* Violated: the callback replaces the object by one without.               *)
YoloPortKept ==
    \A n \in Node :
        agent[n].loop = "beat" /\ Quiet(n) /\ registry[n] # "none" => yoloPort[n] = "reported"
=============================================================================
