------------------------ MODULE NodeMembership_proofs ------------------------
(***************************************************************************)
(* Proofs about NodeMembership for any sets of nodes and calls and any      *)
(* bounds on callbacks and attempts.                                        *)
(*                                                                         *)
(* The types come first.  That memory and disk agree is inductive as it     *)
(* stands.  That a recovered object is about to be refreshed is inductive   *)
(* given the types: its witness is the heartbeat handler that put the       *)
(* object into the registry, whose pointer any later replacement detaches   *)
(* together with the object.                                               *)
(***************************************************************************)
EXTENDS NodeMembership, TLAPS

(* What a reply or a cut does to an agent leaves it an agent.               *)
LEMMA LoopCallEndsType ==
    ASSUME NEW a \in Agent, NEW code
    PROVE  LoopCallEnds(a, code) \in Agent
<1>1. RegisterEnds(a, code) \in Agent
  <2>1. CASE code = 200 \/ a.attempts + 1 = MaxAttempts
    <3>1. 0 \in 0 .. MaxAttempts - 1
      BY MaxAttemptsAssumption
    <3> QED
      BY <2>1, <3>1 DEF RegisterEnds, Agent
  <2>2. CASE ~(code = 200 \/ a.attempts + 1 = MaxAttempts)
    <3>1. a.attempts + 1 \in 0 .. MaxAttempts - 1
      BY <2>2, MaxAttemptsAssumption DEF Agent
    <3> QED
      BY <2>2, <3>1 DEF RegisterEnds, Agent
  <2> QED
    BY <2>1, <2>2
<1>2. BeatEnds(a, code) \in Agent
  BY DEF BeatEnds, Agent
<1> QED
  BY <1>1, <1>2 DEF LoopCallEnds

LEMMA StopCallEndsType ==
    ASSUME NEW a \in Agent, NEW code
    PROVE  StopCallEnds(a, code) \in Agent
BY DEF StopCallEnds, Agent

LEMMA AnswerType ==
    ASSUME NEW a \in Agent, NEW c, NEW code
    PROVE  Answer(a, c, code) \in Agent
BY LoopCallEndsType, StopCallEndsType DEF Answer

LEMMA CutType ==
    ASSUME NEW a \in Agent
    PROVE  StopCut(LoopCut(a)) \in Agent
<1>1. LoopCut(a) \in Agent
  BY LoopCallEndsType DEF LoopCut
<1> QED
  BY <1>1, StopCallEndsType DEF StopCut

(* Detaching the pointers to a node's object keeps the types.               *)
LEMMA DetachTypes ==
    ASSUME TypeOK, NEW n \in Node
    PROVE  /\ DetachCalls(n) \in [Call -> Handling \cup {Idle}]
           /\ Detach(n, partition) \in Partition
           /\ \A c \in Call : /\ DetachCalls(n)[c].kind = call[c].kind
                              /\ DetachCalls(n)[c].node = call[c].node
                              /\ DetachCalls(n)[c].at = call[c].at
<1>1. \A c \in Call : Detach(n, call[c]) \in Handling \cup {Idle}
  BY DEF TypeOK, Detach, Handling, Idle, Pointer
<1>2. Detach(n, partition) \in Partition
  BY DEF TypeOK, Detach, Partition, Pointer
<1>3. \A c \in Call : /\ Detach(n, call[c]).kind = call[c].kind
                      /\ Detach(n, call[c]).node = call[c].node
                      /\ Detach(n, call[c]).at = call[c].at
  BY DEF TypeOK, Detach, Handling, Idle
<1> QED
  BY <1>1, <1>2, <1>3 DEF DetachCalls

(* A handler that replies ends, and changes an agent into an agent.         *)
LEMMA ReplyTypes ==
    ASSUME TypeOK, NEW c \in Call, NEW code,
           NEW calls \in [Call -> Handling \cup {Idle}], Reply(c, code, calls)
    PROVE  /\ call' \in [Call -> Handling \cup {Idle}]
           /\ agent' \in [Node -> Agent]
BY AnswerType DEF Reply, TypeOK

(* A call of a known kind is a request for a node.                          *)
LEMMA CallNode ==
    ASSUME TypeOK, NEW c \in Call, call[c].kind # "idle"
    PROVE  call[c] \in Handling /\ call[c].node \in Node
BY DEF TypeOK, Handling, Idle

LEMMA StepTypes ==
    ASSUME TypeOK, NEW c \in Call, call[c].kind # "idle",
           NEW at \in {"auth", "registry", "lookup", "recover", "unregister"}, StepTo(c, at)
    PROVE  /\ call' \in [Call -> Handling \cup {Idle}]
           /\ agent' \in [Node -> Agent]
<1>1. [call[c] EXCEPT !.at = at] \in Handling
  BY CallNode DEF Handling
<1> QED
  BY <1>1 DEF StepTo, TypeOK

LEMMA SentTypes ==
    ASSUME TypeOK, NEW c \in Call, NEW n \in Node,
           NEW kind \in {"register", "heartbeat", "delete"}, Sent(c, kind, n)
    PROVE  call' \in [Call -> Handling \cup {Idle}]
<1>1. Request(kind, n) \in Handling
  BY DEF Request, Handling, FirstStep, Pointer
<1> QED
  BY <1>1 DEF Sent, TypeOK

-----------------------------------------------------------------------------
LEMMA TypeInit == Init => TypeOK
<1> SUFFICES ASSUME Init PROVE TypeOK
  OBVIOUS
<1>1. AgentOff \in Agent
  BY MaxAttemptsAssumption DEF AgentOff, Agent
<1>2. DiscoveryWaits \in Discovery /\ PartitionWaits \in Partition
  BY DEF DiscoveryWaits, Discovery, PartitionWaits, Partition, Pointer
<1> QED
  BY <1>1, <1>2, MaxCallbacksAssumption DEF Init, TypeOK, Beat

(* The steps of the handlers.                                               *)
LEMMA TypeCall ==
    ASSUME TypeOK, NEW c \in Call, CallStep(c)
    PROVE  TypeOK'
<1> DEFINE n == call[c].node
<1>1. call[c] \in Handling /\ n \in Node
  <2>1. call[c].kind # "idle"
    BY DEF CallStep, At, RegisterRefused, RegisterValidate, RegisterAuth, RegisterRegistry,
           BeatGet, BeatLookup, BeatRecover, BeatReget, BeatUpdate,
           DeleteCheck, DeleteUnregister, DeleteForget
  <2> QED
    BY <2>1, CallNode
<1>2. call[c].kind # "idle"
  BY <1>1 DEF Handling
<1>3. call \in [Call -> Handling \cup {Idle}]
  BY DEF TypeOK
<1> USE DEF members, services
<1>4. CASE RegisterRefused(c)
  BY <1>4, <1>3, ReplyTypes DEF RegisterRefused, TypeOK
<1>5. CASE RegisterValidate(c)
  BY <1>5, <1>2, StepTypes DEF RegisterValidate, TypeOK
<1>6. CASE RegisterAuth(c)
  <2>1. callbacks' \in [Node -> 0 .. MaxCallbacks]
    BY <1>6, <1>1, MaxCallbacksAssumption DEF RegisterAuth, TypeOK
  <2>2. auth' \subseteq Node /\ disk' \subseteq Node
    BY <1>6, <1>1 DEF RegisterAuth, TypeOK
  <2>3. call' \in [Call -> Handling \cup {Idle}] /\ agent' \in [Node -> Agent]
    BY <1>6, <1>2, StepTypes DEF RegisterAuth
  <2> QED
    BY <1>6, <2>1, <2>2, <2>3 DEF RegisterAuth, TypeOK
<1>7. CASE RegisterRegistry(c)
  <2>1. call' \in [Call -> Handling \cup {Idle}] /\ agent' \in [Node -> Agent]
    BY <1>7, <1>1, DetachTypes, ReplyTypes DEF RegisterRegistry
  <2> QED
    BY <1>7, <1>1, <2>1, DetachTypes DEF RegisterRegistry, SetEntry, TypeOK, Beat
<1>8. CASE BeatGet(c)
  <2>1. call'[c] \in Handling /\ call' = [call EXCEPT ![c] = call'[c]]
    BY <1>8, <1>1, <1>3 DEF BeatGet, Handling, Pointer
  <2> QED
    BY <1>8, <2>1 DEF BeatGet, TypeOK
<1>9. CASE BeatLookup(c)
  BY <1>9, <1>2, <1>3, StepTypes, ReplyTypes DEF BeatLookup, TypeOK
<1>10. CASE BeatRecover(c)
  <2>1. call' \in [Call -> Handling \cup {Idle}]
    <3>1. DetachCalls(n) \in [Call -> Handling \cup {Idle}] /\ DetachCalls(n)[c] \in Handling
      BY <1>1, <1>2, DetachTypes DEF Handling, Idle
    <3>2. [DetachCalls(n)[c] EXCEPT !.at = "reget"] \in Handling
      BY <3>1 DEF Handling
    <3> QED
      BY <1>10, <3>1, <3>2 DEF BeatRecover
  <2> QED
    BY <1>10, <1>1, <2>1, DetachTypes DEF BeatRecover, SetEntry, TypeOK, Beat
<1>11. CASE BeatReget(c)
  <2>1. CASE registry[n] = "none"
    BY <1>11, <2>1, <1>3, ReplyTypes DEF BeatReget, TypeOK
  <2>2. CASE registry[n] # "none"
    <3>1. [[call[c] EXCEPT !.at = "update"] EXCEPT !.held = "registered"] \in Handling
      BY <1>1 DEF Handling, Pointer
    <3>2. call' = [call EXCEPT ![c] = [[@ EXCEPT !.at = "update"] EXCEPT !.held = "registered"]]
      BY <1>11, <2>2, <1>1, <1>3 DEF BeatReget, Handling
    <3> QED
      BY <1>11, <2>2, <3>1, <3>2 DEF BeatReget, TypeOK
  <2> QED
    BY <2>1, <2>2
<1>12. CASE BeatUpdate(c)
  <2>1. registry' \in [Node -> Beat]
    BY <1>12, <1>1 DEF BeatUpdate, TypeOK, Beat
  <2> QED
    BY <1>12, <2>1, <1>3, ReplyTypes DEF BeatUpdate, TypeOK
<1>13. CASE DeleteCheck(c)
  BY <1>13, <1>2, <1>3, StepTypes, ReplyTypes DEF DeleteCheck, TypeOK
<1>14. CASE DeleteUnregister(c)
  <2>1. call' \in [Call -> Handling \cup {Idle}]
    <3>1. DetachCalls(n) \in [Call -> Handling \cup {Idle}] /\ DetachCalls(n)[c] \in Handling
      BY <1>1, <1>2, DetachTypes DEF Handling, Idle
    <3>2. [DetachCalls(n)[c] EXCEPT !.at = "forget"] \in Handling
      BY <3>1 DEF Handling
    <3> QED
      BY <1>14, <3>1, <3>2 DEF DeleteUnregister
  <2> QED
    BY <1>14, <1>1, <2>1, DetachTypes DEF DeleteUnregister, SetEntry, TypeOK, Beat
<1>15. CASE DeleteForget(c)
  BY <1>15, <1>3, ReplyTypes DEF DeleteForget, TypeOK
<1> QED
  BY <1>4, <1>5, <1>6, <1>7, <1>8, <1>9, <1>10, <1>11, <1>12, <1>13, <1>14, <1>15 DEF CallStep

(* The steps of the services.                                               *)
LEMMA TypeServices ==
    ASSUME TypeOK, DiscoveryStep \/ PartitionStep
    PROVE  TypeOK'
<1> USE DEF members, services
<1>1. CASE DiscoverySnapshot
  BY <1>1 DEF DiscoverySnapshot, TypeOK, Discovery
<1>2. ASSUME NEW n \in Node, DiscoveryCheck(n) PROVE TypeOK'
  BY <1>2 DEF DiscoveryCheck, TypeOK, Discovery
<1>3. CASE DiscoveryUnreachable
  BY <1>3 DEF DiscoveryUnreachable, TypeOK, Discovery
<1>4. CASE DiscoveryRecover
  <2>1. CASE discovery.node \in Node
    BY <1>4, <2>1, DetachTypes DEF DiscoveryRecover, SetEntry, TypeOK, Discovery, Beat
  <2>2. CASE discovery.node \notin Node
    <3>1. registry' = registry /\ yoloPort' = yoloPort
      BY <1>4, <2>2 DEF DiscoveryRecover, SetEntry, TypeOK
    <3>2. \A c \in Call : call'[c] \in Handling \cup {Idle}
      BY <1>4 DEF DiscoveryRecover, DetachCalls, Detach, TypeOK, Handling, Idle, Pointer
    <3>3. partition' \in Partition
      BY <1>4 DEF DiscoveryRecover, Detach, TypeOK, Partition, Pointer
    <3> QED
      BY <1>4, <3>1, <3>2, <3>3 DEF DiscoveryRecover, DetachCalls, TypeOK, Discovery
  <2> QED
    BY <2>1, <2>2
<1>5. CASE DiscoveryDone
  BY <1>5 DEF DiscoveryDone, DiscoveryWaits, TypeOK, Discovery
<1>6. CASE PartitionDetect
  BY <1>6 DEF PartitionDetect, TypeOK, Partition
<1>7. ASSUME NEW n \in Node, PartitionGet(n) PROVE TypeOK'
  BY <1>7 DEF PartitionGet, TypeOK, Partition, Pointer
<1>8. ASSUME NEW reachable \in BOOLEAN, PartitionProbe(reachable) PROVE TypeOK'
  BY <1>8 DEF PartitionProbe, TypeOK, Partition, Pointer, Beat
<1>9. CASE PartitionDone
  BY <1>9 DEF PartitionDone, PartitionWaits, TypeOK, Partition, Pointer
<1> QED
  BY <1>1, <1>2, <1>3, <1>4, <1>5, <1>6, <1>7, <1>8, <1>9 DEF DiscoveryStep, PartitionStep

(* The steps of the agents and of the operators.                            *)
LEMMA TypeAgent ==
    ASSUME TypeOK, NEW n \in Node,
           AgentStep(n) \/ (\E c \in Call : OperatorDeletes(n, c))
    PROVE  TypeOK'
<1> USE DEF members, services
<1>0. AgentOff \in Agent
  BY MaxAttemptsAssumption DEF AgentOff, Agent
<1>1. CASE AgentBoots(n)
  <2>1. [AgentOff EXCEPT !.loop = "register"] \in Agent
    BY <1>0 DEF Agent
  <2> QED
    BY <1>1, <2>1 DEF AgentBoots, TypeOK
<1>2. CASE AgentLoopFails(n)
  BY <1>2, LoopCallEndsType DEF AgentLoopFails, TypeOK
<1>3. CASE AgentStops(n)
  BY <1>3 DEF AgentStops, TypeOK, Agent
<1>4. CASE AgentDeleteFails(n)
  BY <1>4, StopCallEndsType DEF AgentDeleteFails, TypeOK
<1>5. CASE AgentExits(n)
  BY <1>5, MaxAttemptsAssumption DEF AgentExits, AgentOff, TypeOK, Agent
<1>6. CASE AgentCrashes(n)
  BY <1>6, <1>0 DEF AgentCrashes, TypeOK
<1>7. ASSUME NEW c \in Call, AgentRegisters(n, c) PROVE TypeOK'
  <2>1. agent' \in [Node -> Agent]
    BY <1>7 DEF AgentRegisters, TypeOK, Agent
  <2>2. call' \in [Call -> Handling \cup {Idle}]
    BY <1>7, SentTypes DEF AgentRegisters
  <2> QED
    BY <1>7, <2>1, <2>2 DEF AgentRegisters, TypeOK
<1>8. ASSUME NEW c \in Call, AgentBeats(n, c) PROVE TypeOK'
  <2>1. agent' \in [Node -> Agent]
    BY <1>8 DEF AgentBeats, TypeOK, Agent
  <2>2. call' \in [Call -> Handling \cup {Idle}]
    BY <1>8, SentTypes DEF AgentBeats
  <2> QED
    BY <1>8, <2>1, <2>2 DEF AgentBeats, TypeOK
<1>9. ASSUME NEW c \in Call, AgentRegistersAside(n, c) PROVE TypeOK'
  BY <1>9, SentTypes DEF AgentRegistersAside, TypeOK
<1>10. ASSUME NEW c \in Call, AgentDeletes(n, c) PROVE TypeOK'
  <2>1. agent' \in [Node -> Agent]
    <3>1. [[agent[n] EXCEPT !.stop = "deleting"] EXCEPT !.stopCall = c] \in Agent
      BY DEF TypeOK, Agent
    <3>2. agent' = [agent EXCEPT ![n] = [[@ EXCEPT !.stop = "deleting"] EXCEPT !.stopCall = c]]
      BY <1>10 DEF AgentDeletes, TypeOK, Agent
    <3> QED
      BY <3>1, <3>2 DEF TypeOK
  <2>2. call' \in [Call -> Handling \cup {Idle}]
    BY <1>10, SentTypes DEF AgentDeletes
  <2> QED
    BY <1>10, <2>1, <2>2 DEF AgentDeletes, TypeOK
<1>11. ASSUME NEW c \in Call, OperatorDeletes(n, c) PROVE TypeOK'
  BY <1>11, SentTypes DEF OperatorDeletes, TypeOK
<1> QED
  BY <1>1, <1>2, <1>3, <1>4, <1>5, <1>6, <1>7, <1>8, <1>9, <1>10, <1>11 DEF AgentStep

LEMMA TypeNext == TypeOK /\ [Next]_vars => TypeOK'
<1> SUFFICES ASSUME TypeOK, [Next]_vars PROVE TypeOK'
  OBVIOUS
<1>1. ASSUME NEW n \in Node, Callback(n) PROVE TypeOK'
  <2>1. callbacks' \in [Node -> 0 .. MaxCallbacks]
    BY <1>1, MaxCallbacksAssumption DEF Callback, TypeOK
  <2> QED
    BY <1>1, <2>1, DetachTypes DEF Callback, SetEntry, TypeOK, Beat
<1>2. ASSUME NEW n \in Node, HeartbeatOverdue(n) PROVE TypeOK'
  BY <1>2 DEF HeartbeatOverdue, services, TypeOK, Beat
<1>3. CASE GatewayEnds
  <2>1. agent' \in [Node -> Agent]
    BY <1>3, CutType DEF GatewayEnds, TypeOK
  <2>2. DiscoveryWaits \in Discovery /\ PartitionWaits \in Partition
    BY DEF DiscoveryWaits, Discovery, PartitionWaits, Partition, Pointer
  <2> QED
    <3>1. callbacks' \in [Node -> 0 .. MaxCallbacks]
      BY <1>3, MaxCallbacksAssumption DEF GatewayEnds
    <3>2. registry' \in [Node -> Beat] /\ yoloPort' \in [Node -> {"unset", "reported"}]
      BY <1>3 DEF GatewayEnds, Beat
    <3> QED
      BY <1>3, <2>1, <2>2, <3>1, <3>2 DEF GatewayEnds, TypeOK
<1>4. CASE GatewayStarts
  BY <1>4 DEF GatewayStarts, services, TypeOK
<1>5. CASE UNCHANGED vars
  BY <1>5 DEF vars, members, services, TypeOK
<1> QED
  BY <1>1, <1>2, <1>3, <1>4, <1>5, TypeCall, TypeServices, TypeAgent DEF Next

(* Every variable keeps its type, whatever the constants are.               *)
THEOREM TypeCorrect == Spec => []TypeOK
BY TypeInit, TypeNext, PTL DEF Spec

-----------------------------------------------------------------------------
LEMMA SavedInit == Init => AuthSurvivesRestart
BY DEF Init, AuthSurvivesRestart

LEMMA SavedNext == AuthSurvivesRestart /\ [Next]_vars => AuthSurvivesRestart'
<1> SUFFICES ASSUME AuthSurvivesRestart, [Next]_vars PROVE AuthSurvivesRestart'
  OBVIOUS
<1> USE DEF AuthSurvivesRestart, members, services
<1>1. ASSUME NEW c \in Call, CallStep(c) PROVE AuthSurvivesRestart'
  <2>1. CASE RegisterAuth(c)
    BY <2>1 DEF RegisterAuth
  <2>2. CASE DeleteForget(c)
    <3>1. call[c].node \notin auth => auth \ {call[c].node} = auth
      OBVIOUS
    <3> QED
      BY <2>2, <3>1 DEF DeleteForget
  <2>3. CASE ~(RegisterAuth(c) \/ DeleteForget(c))
    <3>1. up' = up /\ auth' = auth /\ disk' = disk
      BY <1>1, <2>3 DEF CallStep, RegisterRefused, RegisterValidate, RegisterRegistry,
                        BeatGet, BeatLookup, BeatRecover, BeatReget, BeatUpdate,
                        DeleteCheck, DeleteUnregister
    <3> QED
      BY <3>1
  <2> QED
    BY <2>1, <2>2, <2>3
<1>2. ASSUME NEW n \in Node, Callback(n) \/ HeartbeatOverdue(n) PROVE AuthSurvivesRestart'
  BY <1>2 DEF Callback, HeartbeatOverdue
<1>3. ASSUME NEW n \in Node, AgentStep(n) \/ (\E c \in Call : OperatorDeletes(n, c))
      PROVE  AuthSurvivesRestart'
  BY <1>3 DEF AgentStep, AgentBoots, AgentLoopFails, AgentStops, AgentDeleteFails, AgentExits,
              AgentCrashes, AgentRegisters, AgentBeats, AgentRegistersAside, AgentDeletes,
              OperatorDeletes
<1>4. CASE DiscoveryStep
  BY <1>4 DEF DiscoveryStep, DiscoverySnapshot, DiscoveryCheck, DiscoveryUnreachable,
              DiscoveryRecover, DiscoveryDone
<1>5. CASE PartitionStep
  BY <1>5 DEF PartitionStep, PartitionDetect, PartitionGet, PartitionProbe, PartitionDone
<1>6. CASE GatewayEnds \/ GatewayStarts
  BY <1>6 DEF GatewayEnds, GatewayStarts
<1>7. CASE UNCHANGED vars
  BY <1>7 DEF vars
<1> QED
  BY <1>1, <1>2, <1>3, <1>4, <1>5, <1>6, <1>7 DEF Next

(* While the gateway runs, what it remembers of the registered nodes is     *)
(* what a restart would load.                                              *)
THEOREM MembershipSaved == Spec => []AuthSurvivesRestart
BY SavedInit, SavedNext, PTL DEF Spec

-----------------------------------------------------------------------------
(* The call c is a heartbeat of n that is about to refresh n's object.      *)
Refreshing(c, n) ==
    /\ call[c].kind = "heartbeat"
    /\ call[c].node = n
    /\ call[c].at = "reget" \/ (call[c].at = "update" /\ call[c].held = "registered")

(* As long as n's object is not replaced, a refreshing call survives every  *)
(* step that is not its own: pointers to other nodes' objects are detached, *)
(* and only calls that are not refreshing end or begin.                     *)
LEMMA RefreshingKept ==
    ASSUME TypeOK, NEW m \in Node, NEW n \in Node, m # n, NEW c \in Call, Refreshing(c, n)
    PROVE  DetachCalls(m)[c] = call[c]
BY DEF Refreshing, DetachCalls, Detach

LEMMA RefreshedInit == Init => RecoveredIsRefreshed
BY DEF Init, RecoveredIsRefreshed

(* The steps of the handlers.                                               *)
LEMMA RefreshedCall ==
    ASSUME TypeOK, RecoveredIsRefreshed, NEW c \in Call, CallStep(c),
           NEW n \in Node, registry'[n] = "never"
    PROVE  \E d \in Call : Refreshing(d, n)'
<1> USE DEF members, services
<1>1. call[c] \in Handling /\ call[c].node \in Node
  <2>1. call[c].kind # "idle"
    BY DEF CallStep, At, RegisterRefused, RegisterValidate, RegisterAuth, RegisterRegistry,
           BeatGet, BeatLookup, BeatRecover, BeatReget, BeatUpdate,
           DeleteCheck, DeleteUnregister, DeleteForget
  <2> QED
    BY <2>1, CallNode
<1>2. registry \in [Node -> Beat] /\ call \in [Call -> Handling \cup {Idle}]
  BY DEF TypeOK
<1>3. registry[n] = "never" => \E d \in Call : Refreshing(d, n)
  BY DEF RecoveredIsRefreshed, Refreshing
<1>4. CASE RegisterRefused(c)
  BY <1>4, <1>2, <1>3 DEF RegisterRefused, Reply, Refreshing
<1>5. CASE RegisterValidate(c)
  BY <1>5, <1>2, <1>3 DEF RegisterValidate, At, StepTo, Refreshing
<1>6. CASE RegisterAuth(c)
  BY <1>6, <1>2, <1>3 DEF RegisterAuth, At, StepTo, Refreshing
<1>7. CASE RegisterRegistry(c)
  <2>1. call[c].node # n /\ registry[n] = "never"
    BY <1>7, <1>1, <1>2 DEF RegisterRegistry, SetEntry
  <2>2. PICK d \in Call : Refreshing(d, n)
    BY <2>1, <1>3
  <2>3. call'[d] = call[d]
    <3>1. d # c
      BY <1>7, <2>2 DEF RegisterRegistry, At, Refreshing
    <3>2. call'[d] = DetachCalls(call[c].node)[d]
      BY <1>7, <3>1 DEF RegisterRegistry, Reply, DetachCalls
    <3> QED
      BY <3>2, <2>1, <2>2, <1>1, RefreshingKept
  <2> QED
    BY <2>2, <2>3 DEF Refreshing
<1>8. CASE BeatGet(c)
  BY <1>8, <1>2, <1>3 DEF BeatGet, At, Refreshing
<1>9. CASE BeatLookup(c)
  BY <1>9, <1>2, <1>3 DEF BeatLookup, At, StepTo, Reply, Refreshing
<1>10. CASE BeatRecover(c)
  <2>1. call'[c] = [DetachCalls(call[c].node)[c] EXCEPT !.at = "reget"]
    BY <1>10 DEF BeatRecover, DetachCalls
  <2>2. call'[c].kind = "heartbeat" /\ call'[c].node = call[c].node /\ call'[c].at = "reget"
    <3>1. DetachCalls(call[c].node)[c] \in Handling
      BY <1>1, DetachTypes DEF Handling, Idle
    <3> QED
      BY <1>10, <1>1, <2>1, <3>1, DetachTypes DEF BeatRecover, At, Handling
  <2>3. CASE call[c].node = n
    BY <2>2, <2>3 DEF Refreshing
  <2>4. CASE call[c].node # n
    <3>1. registry[n] = "never"
      BY <1>10, <2>4, <1>2 DEF BeatRecover, SetEntry
    <3>2. PICK d \in Call : Refreshing(d, n)
      BY <3>1, <1>3
    <3>3. d # c
      BY <3>2, <2>4 DEF Refreshing
    <3>4. call'[d] = DetachCalls(call[c].node)[d]
      BY <1>10, <3>3 DEF BeatRecover, DetachCalls
    <3>5. call'[d] = call[d]
      BY <3>2, <3>4, <2>4, <1>1, RefreshingKept
    <3> QED
      BY <3>2, <3>5 DEF Refreshing
  <2> QED
    BY <2>3, <2>4
<1>11. CASE BeatReget(c)
  <2>1. registry[n] = "never"
    BY <1>11 DEF BeatReget
  <2>2. PICK d \in Call : Refreshing(d, n)
    BY <2>1, <1>3
  <2>3. CASE registry[call[c].node] = "none"
    <3>1. d # c
      BY <2>1, <2>2, <2>3 DEF Refreshing
    <3> QED
      BY <1>11, <2>2, <2>3, <3>1, <1>2 DEF BeatReget, Reply, Refreshing
  <2>4. CASE registry[call[c].node] # "none"
    <3>1. CASE d = c
      BY <1>11, <1>1, <1>2, <2>2, <2>4, <3>1 DEF BeatReget, At, Refreshing, Handling
    <3>2. CASE d # c
      BY <1>11, <1>2, <2>2, <2>4, <3>2 DEF BeatReget, Refreshing
    <3> QED
      BY <3>1, <3>2
  <2> QED
    BY <2>3, <2>4
<1>12. CASE BeatUpdate(c)
  <2>1. registry[n] = "never"
    BY <1>12, <1>2 DEF BeatUpdate
  <2>2. ~(call[c].held = "registered" /\ call[c].node = n)
    BY <1>12, <1>2 DEF BeatUpdate
  <2>3. PICK d \in Call : Refreshing(d, n)
    BY <2>1, <1>3
  <2>4. d # c
    BY <1>12, <2>2, <2>3 DEF BeatUpdate, At, Refreshing
  <2> QED
    BY <1>12, <1>2, <2>3, <2>4 DEF BeatUpdate, Reply, Refreshing
<1>13. CASE DeleteCheck(c)
  BY <1>13, <1>2, <1>3 DEF DeleteCheck, At, StepTo, Reply, Refreshing
<1>14. CASE DeleteUnregister(c)
  <2>1. call[c].node # n /\ registry[n] = "never"
    BY <1>14, <1>1, <1>2 DEF DeleteUnregister, SetEntry
  <2>2. PICK d \in Call : Refreshing(d, n)
    BY <2>1, <1>3
  <2>3. d # c
    BY <2>1, <2>2 DEF Refreshing
  <2>4. call'[d] = DetachCalls(call[c].node)[d]
    BY <1>14, <2>3 DEF DeleteUnregister, DetachCalls
  <2>5. call'[d] = call[d]
    BY <2>1, <2>2, <2>4, <1>1, RefreshingKept
  <2> QED
    BY <2>2, <2>5 DEF Refreshing
<1>15. CASE DeleteForget(c)
  BY <1>15, <1>2, <1>3 DEF DeleteForget, At, Reply, Refreshing
<1> QED
  BY <1>4, <1>5, <1>6, <1>7, <1>8, <1>9, <1>10, <1>11, <1>12, <1>13, <1>14, <1>15 DEF CallStep

(* A step that gives node m a fresh object leaves n's refreshing call.      *)
LEMMA RefreshedReplace ==
    ASSUME TypeOK, RecoveredIsRefreshed, NEW m, NEW port, SetEntry(m, "fresh", port),
           call' = DetachCalls(m), NEW n \in Node, registry'[n] = "never"
    PROVE  \E d \in Call : Refreshing(d, n)'
<1>1. m # n /\ registry[n] = "never"
  BY DEF SetEntry, TypeOK
<1>2. PICK d \in Call : Refreshing(d, n)
  BY <1>1 DEF RecoveredIsRefreshed, Refreshing
<1>3. call'[d] = call[d]
  BY <1>1, <1>2 DEF DetachCalls, Detach, Refreshing
<1> QED
  BY <1>2, <1>3 DEF Refreshing

LEMMA RefreshedNext == TypeOK /\ RecoveredIsRefreshed /\ [Next]_vars => RecoveredIsRefreshed'
<1> SUFFICES ASSUME TypeOK, RecoveredIsRefreshed, [Next]_vars,
                    NEW n \in Node, registry'[n] = "never"
             PROVE  \E d \in Call : Refreshing(d, n)'
  BY DEF RecoveredIsRefreshed, Refreshing
<1> USE DEF members, services
<1>1. registry[n] = "never" => \E d \in Call : Refreshing(d, n)
  BY DEF RecoveredIsRefreshed, Refreshing
<1>2. ASSUME NEW c \in Call, CallStep(c) PROVE \E d \in Call : Refreshing(d, n)'
  BY <1>2, RefreshedCall
<1>3. ASSUME NEW m \in Node, Callback(m) PROVE \E d \in Call : Refreshing(d, n)'
  BY <1>3, RefreshedReplace DEF Callback
<1>4. ASSUME NEW m \in Node, HeartbeatOverdue(m) PROVE \E d \in Call : Refreshing(d, n)'
  BY <1>4, <1>1 DEF HeartbeatOverdue, TypeOK, Refreshing
<1>5. ASSUME NEW m \in Node, NEW c \in Call, NEW kind \in {"register", "heartbeat", "delete"},
             Sent(c, kind, m), registry' = registry
      PROVE  \E d \in Call : Refreshing(d, n)'
  <2>1. PICK d \in Call : Refreshing(d, n)
    BY <1>5, <1>1
  <2>2. d # c
    BY <1>5, <2>1 DEF Sent, Idle, Refreshing
  <2> QED
    BY <1>5, <2>1, <2>2 DEF Sent, Refreshing
<1>6. ASSUME NEW m \in Node, AgentStep(m) \/ (\E c \in Call : OperatorDeletes(m, c))
      PROVE  \E d \in Call : Refreshing(d, n)'
  <2>1. CASE \E c \in Call : \/ AgentRegisters(m, c) \/ AgentBeats(m, c)
                             \/ AgentRegistersAside(m, c) \/ AgentDeletes(m, c)
                             \/ OperatorDeletes(m, c)
    BY <2>1, <1>5 DEF AgentRegisters, AgentBeats, AgentRegistersAside, AgentDeletes,
                      OperatorDeletes
  <2>2. CASE \/ AgentBoots(m) \/ AgentLoopFails(m) \/ AgentStops(m) \/ AgentDeleteFails(m)
             \/ AgentExits(m) \/ AgentCrashes(m)
    BY <2>2, <1>1 DEF AgentBoots, AgentLoopFails, AgentStops, AgentDeleteFails, AgentExits,
                      AgentCrashes, Refreshing
  <2> QED
    BY <1>6, <2>1, <2>2 DEF AgentStep
<1>7. CASE DiscoveryStep
  <2>1. CASE DiscoveryRecover
    BY <2>1, RefreshedReplace DEF DiscoveryRecover
  <2>2. CASE ~DiscoveryRecover
    BY <1>7, <2>2, <1>1 DEF DiscoveryStep, DiscoverySnapshot, DiscoveryCheck,
                            DiscoveryUnreachable, DiscoveryDone, Refreshing
  <2> QED
    BY <2>1, <2>2
<1>8. CASE PartitionStep
  <2>1. registry[n] = "never" /\ call' = call
    BY <1>8 DEF PartitionStep, PartitionDetect, PartitionGet, PartitionProbe, PartitionDone, TypeOK
  <2> QED
    BY <2>1, <1>1 DEF Refreshing
<1>9. CASE GatewayEnds
  BY <1>9 DEF GatewayEnds
<1>10. CASE GatewayStarts
  BY <1>10, <1>1 DEF GatewayStarts, Refreshing
<1>11. CASE UNCHANGED vars
  BY <1>11, <1>1 DEF vars, Refreshing
<1> QED
  BY <1>2, <1>3, <1>4, <1>6, <1>7, <1>8, <1>9, <1>10, <1>11 DEF Next

(* No object without a heartbeat stays in the registry: whatever register,  *)
(* delete, callback, discovery and partition steps come between, the        *)
(* handler that recovered it, or a later one, is about to refresh it.       *)
THEOREM RecoveredRefreshed == Spec => []RecoveredIsRefreshed
<1>1. Init => TypeOK /\ RecoveredIsRefreshed
  BY TypeInit, RefreshedInit
<1>2. TypeOK /\ RecoveredIsRefreshed /\ [Next]_vars => (TypeOK /\ RecoveredIsRefreshed)'
  BY TypeNext, RefreshedNext
<1> QED
  BY <1>1, <1>2, PTL DEF Spec
=============================================================================
