---------------------------- MODULE YoloRoundRobin ----------------------------
(* The selection of a node for a YOLO request in the gateway, and what is recorded
   of its outcome. Source: gateway/internal/client: yolo_rr.go, client.go
   (ForwardYOLORaw, ForwardYOLOBinary); internal/api/handlers.go (YOLODetect). The
   registry is external here: a node's usefulness changes at any time. A node is a
   number: Registry.GetAll sorts by identifier. *)
EXTENDS Naturals, FiniteSets

CONSTANTS YoloNodes,     \* number of registered nodes
          YoloRequests,  \* concurrent requests
          IndexPeriod,   \* a common multiple of 1..YoloNodes: index only counts modulo it
          MaxFails,      \* failures in a row that are told apart: from six on, 60 s each
          MaxPicks       \* bound: selections counted while the nodes stay as they are

ASSUME RoundRobinAssumption ==
    /\ YoloNodes \in Nat \ {0} /\ MaxFails \in Nat \ {0} /\ MaxPicks \in Nat
    /\ IndexPeriod \in Nat \ {0} /\ \A n \in 1..YoloNodes : IndexPeriod % n = 0

VARIABLES yolo,        \* [node -> what the registry says of it]
          index,       \* YOLORoundRobin.index, modulo IndexPeriod
          blacklisted, \* nodes whose entry in the blacklist has not expired
          fails,       \* consecutive failures
          target,      \* [request -> the node it was sent to, 0 if none]
          picks        \* history: how often each node was selected from the same choice

rrVars == <<yolo, index, blacklisted, fails, target, picks>>

RrNodes == 1..YoloNodes
NoPicks == [n \in RrNodes |-> 0]

RrTypeOK ==
    /\ yolo \in [RrNodes -> {"off", "starting", "ready"}]
    /\ index \in 0..(IndexPeriod - 1)
    /\ blacklisted \in SUBSET RrNodes /\ fails \in [RrNodes -> 0..MaxFails]
    /\ target \in [YoloRequests -> 0..YoloNodes]
    /\ picks \in [RrNodes -> 0..MaxPicks]

RrInit ==
    /\ yolo \in [RrNodes -> {"off", "starting", "ready"}] /\ index = 0
    /\ blacklisted = {} /\ fails = [n \in RrNodes |-> 0]
    /\ target = [r \in YoloRequests |-> 0] /\ picks = NoPicks
-----------------------------------------------------------------------------
\* off: unhealthy, disabled or without YOLO; starting: YOLO enabled, not healthy
InState(state) == {n \in RrNodes : yolo[n] = state}

\* Select: ready and not blacklisted; else ready; else starting, not blacklisted
Available ==
    IF InState("ready") \ blacklisted # {} THEN InState("ready") \ blacklisted
    ELSE IF InState("ready") # {} THEN InState("ready")
    ELSE InState("starting") \ blacklisted

\* a choice that changes starts a new count
Recount == picks' = IF Available' = Available THEN picks ELSE NoPicks

YoloNodeChanges(n) ==
    /\ \E state \in {"off", "starting", "ready"} \ {yolo[n]} : yolo' = [yolo EXCEPT ![n] = state]
    /\ UNCHANGED <<index, blacklisted, fails, target>> /\ Recount

Expire(n) ==
    /\ n \in blacklisted /\ blacklisted' = blacklisted \ {n}
    /\ UNCHANGED <<yolo, index, fails, target>> /\ Recount

\* where a node stands in the sorted list: behind those with a smaller identifier
Position(n) == Cardinality({m \in Available : m < n})
Turn == index % Cardinality(Available)

(* Wrong variant of Select: the index stays where it is. *)
SelectFirst(r) ==
    /\ target[r] = 0
    /\ \E n \in Available :
          /\ Position(n) = Turn /\ picks[n] < MaxPicks
          /\ target' = [target EXCEPT ![r] = n]
          /\ picks' = [picks EXCEPT ![n] = @ + 1]
    /\ UNCHANGED <<index, yolo, blacklisted, fails>>
\* the choice is the entry index % len of the sorted list
Select(r) ==
    /\ target[r] = 0
    /\ \E n \in Available :
          /\ Position(n) = Turn /\ picks[n] < MaxPicks
          /\ target' = [target EXCEPT ![r] = n]
          /\ picks' = [picks EXCEPT ![n] = @ + 1]
    /\ index' = (index + 1) % IndexPeriod
    /\ UNCHANGED <<yolo, blacklisted, fails>>

RecordSuccess(r) ==
    /\ target[r] # 0 /\ target' = [target EXCEPT ![r] = 0]
    /\ fails' = [fails EXCEPT ![target[r]] = 0]
    /\ blacklisted' = blacklisted \ {target[r]}
    /\ UNCHANGED <<yolo, index>> /\ Recount

\* 3 s, doubled with every failure in a row, 60 s at most
RecordFailure(r) ==
    /\ target[r] # 0 /\ target' = [target EXCEPT ![r] = 0]
    /\ fails' = [fails EXCEPT ![target[r]] = IF @ < MaxFails THEN @ + 1 ELSE MaxFails]
    /\ blacklisted' = blacklisted \cup {target[r]}
    /\ UNCHANGED <<yolo, index>> /\ Recount

\* the client is gone, a timeout, or its body or form cannot be read: nothing is recorded
NotTheNode(r) ==
    /\ target[r] # 0 /\ target' = [target EXCEPT ![r] = 0]
    /\ UNCHANGED <<yolo, index, blacklisted, fails, picks>>

RrNext ==
    \/ \E n \in RrNodes : YoloNodeChanges(n) \/ Expire(n)
    \/ \E r \in YoloRequests :
          Select(r) \/ RecordSuccess(r) \/ RecordFailure(r) \/ NotTheNode(r)

RrSpec == RrInit /\ [][RrNext]_rrVars
-----------------------------------------------------------------------------
(* As long as the choice stays the same, whatever the index was when it became so
   and whatever requests end meanwhile, the nodes in it are selected equally often,
   up to one (yolo_rr.go:99-101). *)
SpreadIsEven ==
    \A m, n \in Available : picks[m] <= picks[n] + 1
=============================================================================
