------------------------ MODULE GatewayParts_proofs -------------------------
(* Proofs about the parts of the gateway that have a state of their own: its VLM tasks,
   the push to its clients, the round robin of YOLO nodes, the task package, the cache
   of node states and the health checker. *)
EXTENDS VlmTasks, GatewayPush, YoloRoundRobin, GatewayTasks, TaskRecords, PartitionCache,
        NodeHealth, Integers, FiniteSetTheorems, SequenceTheorems, TLAPS

(* VlmTasks. A task is named by the order of its admission, so that the next one has
   not run yet. *)
Fresh == \A t \in VlmTask : t > admitted => vlmTask[t] = "none"

\* requests between the test of the counter and its increment
Between == {h \in VlmHandlers : handler[h] = "passed"}

(* The bound of AdmissionBounded is not inductive: what is kept is that each request
   that has passed the test has a place below it. The first one to pass found the
   counter below the limit; each of the others has its own place. *)
PlacesLeft == vlmCount + Cardinality(Between) < VlmMaxLimit + Cardinality(VlmHandlers)

Counted == vlmCount = Cardinality(Running)

VlmInv == VlmTypeOK /\ Fresh /\ Counted /\ PlacesLeft

(* Sets of tasks and of requests are finite. *)
LEMMA VlmTaskFinite == IsFiniteSet(VlmTask)
<1>1. MaxVlmTasks \in Int /\ 1 \in Int
  BY VlmAssumption DEF VlmAssumption
<1> QED  BY <1>1, FS_Interval DEF VlmTask

LEMMA RunningFinite == IsFiniteSet(Running) /\ Cardinality(Running) \in Nat
<1>1. Running \subseteq VlmTask
  BY DEF Running
<1>2. IsFiniteSet(Running)
  BY <1>1, VlmTaskFinite, FS_Subset
<1> QED  BY <1>2, FS_CardinalityType

LEMMA BetweenFinite ==
    /\ IsFiniteSet(Between) /\ Cardinality(Between) \in Nat
    /\ Cardinality(VlmHandlers) \in Nat /\ Cardinality(Between) <= Cardinality(VlmHandlers)
<1>1. Between \subseteq VlmHandlers /\ IsFiniteSet(VlmHandlers)
  BY VlmAssumption DEF Between, VlmAssumption
<1>2. IsFiniteSet(Between) /\ Cardinality(Between) <= Cardinality(VlmHandlers)
  BY <1>1, FS_Subset
<1> QED  BY <1>1, <1>2, FS_CardinalityType

LEMMA ZeroAdmitted == 0 \in 0..MaxVlmTasks
  BY VlmAssumption DEF VlmAssumption

(* No task and no request is underway at first, and there is at least one place. *)
LEMMA VlmInitInv == VlmInit => VlmInv
<1> SUFFICES ASSUME VlmInit PROVE VlmInv
  OBVIOUS
<1>1. VlmTypeOK
  BY VlmAssumption, ZeroAdmitted DEF VlmAssumption, VlmInit, VlmTypeOK
<1>2. Fresh
  BY DEF VlmInit, Fresh
<1>3. Running = {} /\ Between = {}
  BY DEF VlmInit, Running, Between
<1>4. Cardinality(Running) = 0 /\ Cardinality(Between) = 0
  BY <1>3, FS_EmptySet
<1>5. Counted
  BY <1>4 DEF VlmInit, Counted
<1>6. PlacesLeft
  <2>1. vlmCount = 0 /\ VlmMaxLimit \in Nat \ {0}
    BY VlmAssumption DEF VlmInit, VlmAssumption
  <2> QED  BY <1>4, <2>1, BetweenFinite DEF PlacesLeft
<1> QED  BY <1>1, <1>2, <1>5, <1>6 DEF VlmInv

(* A step that moves no request and neither starts nor ends a task. *)
LEMMA CountsKept ==
    ASSUME VlmInv, Running' = Running, UNCHANGED <<vlmCount, handler>>
    PROVE  Counted' /\ PlacesLeft'
<1>1. Between' = Between
  BY DEF Between
<1> QED  BY <1>1 DEF VlmInv, Counted, PlacesLeft

(* Nodes come and go, contexts end, monitors cancel: nothing is counted. *)
LEMMA ObserverInv ==
    ASSUME VlmInv,
           NodesChange \/ \E t \in VlmTask : Deadline(t) \/ MonitorTick(t) \/ MonitorEnds(t)
    PROVE  VlmInv'
<1>1. UNCHANGED <<vlmCount, handler, admitted, vlmTask>>
  BY DEF NodesChange, taskVars, Deadline, MonitorTick, MonitorEnds
<1>2. VlmTypeOK'
  BY DEF VlmInv, VlmTypeOK, NodesChange, taskVars, Deadline, MonitorTick, MonitorEnds
<1>3. Fresh'
  BY <1>1 DEF VlmInv, Fresh
<1>4. Running' = Running
  BY <1>1 DEF Running
<1> QED  BY <1>1, <1>2, <1>3, <1>4, CountsKept DEF VlmInv

(* A task that goes on is still counted. *)
LEMMA TaskGoesOn ==
    ASSUME VlmInv, NEW t \in VlmTask,
           InferenceReturns(t) \/ ReportError(t) \/ AddHistory(t) \/ ReportResult(t)
    PROVE  VlmInv'
<1>1. /\ UNCHANGED <<vlmCount, handler, admitted>>
      /\ vlmTask[t] \notin {"none", "gone"}
      /\ \E v \in {"answered", "failed", "stored", "over"} :
            vlmTask' = [vlmTask EXCEPT ![t] = v]
  BY DEF InferenceReturns, ReportError, AddHistory, ReportResult
<1>2. vlmTask \in [VlmTask -> {"none", "infer", "failed", "answered", "stored", "over", "gone"}]
  BY DEF VlmInv, VlmTypeOK
<1>3. history' \in Seq(VlmTask) /\ Len(history') <= HistoryMax
  <2>1. CASE UNCHANGED history
    BY <2>1 DEF VlmInv, VlmTypeOK
  <2>2. CASE AddHistory(t)
    <3>1. history \in Seq(VlmTask) /\ Len(history) <= HistoryMax /\ HistoryMax \in Nat \ {0}
      BY VlmAssumption DEF VlmInv, VlmTypeOK, VlmAssumption
    <3> DEFINE longer == <<t>> \o history
               kept == IF Len(history) < HistoryMax THEN Len(history) + 1 ELSE HistoryMax
    <3>2. longer \in Seq(VlmTask) /\ Len(longer) = Len(history) + 1
      BY <3>1
    <3>3. kept \in 1..Len(longer) /\ kept <= HistoryMax
      BY <3>1, <3>2
    <3>4. history' = SubSeq(longer, 1, kept)
      BY <2>2 DEF AddHistory
    <3> HIDE DEF longer, kept
    <3> QED  BY <3>2, <3>3, <3>4
  <2> QED  BY <2>1, <2>2 DEF InferenceReturns, ReportError, ReportResult
<1>4. outcome' \in [VlmTask -> {"none", "result", "error", "timeout", "cancelled"}]
  BY DEF VlmInv, VlmTypeOK, InferenceReturns, ReportError, AddHistory, ReportResult
<1>5. UNCHANGED <<llamaNodes, ctx, watcher>>
  BY DEF InferenceReturns, ReportError, AddHistory, ReportResult
<1>6. VlmTypeOK'
  BY <1>1, <1>2, <1>3, <1>4, <1>5 DEF VlmInv, VlmTypeOK
<1>7. Fresh'
  BY <1>1, <1>2 DEF VlmInv, Fresh
<1>8. Running' = Running
  BY <1>1, <1>2 DEF Running
<1> QED  BY <1>1, <1>6, <1>7, <1>8, CountsKept DEF VlmInv

(* The deferred functions take the task out of what runs and out of the counter. *)
LEMMA TaskEndsInv ==
    ASSUME VlmInv, NEW t \in VlmTask, TaskEnds(t)
    PROVE  VlmInv'
<1>1. vlmTask \in [VlmTask -> {"none", "infer", "failed", "answered", "stored", "over", "gone"}]
  BY DEF VlmInv, VlmTypeOK
<1>2. Running' = Running \ {t} /\ t \in Running
  BY <1>1 DEF Running, TaskEnds
<1>3. Cardinality(Running') = Cardinality(Running) - 1
  BY <1>2, RunningFinite, FS_RemoveElement
<1>4. Cardinality(Running') \in Nat
  BY <1>2, RunningFinite, FS_RemoveElement, FS_CardinalityType
<1>5. vlmCount' = Cardinality(Running') /\ vlmCount = Cardinality(Running)
  BY <1>3 DEF TaskEnds, VlmInv, Counted
<1>6. VlmTypeOK'
  <2>1. vlmCount' \in Nat
    BY <1>4, <1>5
  <2> QED  BY <2>1 DEF VlmInv, VlmTypeOK, TaskEnds
<1>7. Fresh'
  BY <1>1 DEF VlmInv, Fresh, TaskEnds
<1>8. PlacesLeft'
  <2>1. Between' = Between
    BY DEF Between, TaskEnds
  <2>2. VlmMaxLimit \in Nat
    BY VlmAssumption DEF VlmAssumption
  <2> QED  BY <1>3, <1>5, <2>1, <2>2, RunningFinite, BetweenFinite DEF VlmInv, PlacesLeft
<1> QED  BY <1>5, <1>6, <1>7, <1>8 DEF VlmInv, Counted

(* A request that passes the test leaves room for the others that have passed. *)
LEMMA LimitTestInv ==
    ASSUME VlmInv, NEW h \in VlmHandlers, LimitTest(h)
    PROVE  VlmInv'
<1>1. handler \in [VlmHandlers -> {"idle", "passed"}]
  BY DEF VlmInv, VlmTypeOK
<1>2. UNCHANGED <<vlmCount, admitted, vlmTask>>
  BY DEF LimitTest, taskVars
<1>3. VlmTypeOK'
  BY DEF VlmInv, VlmTypeOK, LimitTest, taskVars
<1>4. Fresh' /\ Counted'
  BY <1>2 DEF VlmInv, Fresh, Counted, Running
<1>5. Between' = Between \cup {h} /\ h \notin Between
  BY <1>1 DEF Between, LimitTest
<1>6. Cardinality(Between') = Cardinality(Between) + 1
  BY <1>5, BetweenFinite, FS_AddElement
<1>7. Cardinality(Between) + 1 <= Cardinality(VlmHandlers)
  <2>1. Between' \subseteq VlmHandlers
    BY DEF Between
  <2>2. Cardinality(Between') <= Cardinality(VlmHandlers)
    BY <2>1, VlmAssumption, FS_Subset DEF VlmAssumption
  <2> QED  BY <1>6, <2>2
<1>8. vlmCount < VlmMaxLimit
  <2>1. vlmCount < AsyncLimit(llamaNodes) /\ llamaNodes \in Nat /\ vlmCount \in Nat
    BY VlmAssumption DEF LimitTest, VlmInv, VlmTypeOK, VlmAssumption
  <2>2. VlmMaxLimit \in Nat \ {0}
    BY VlmAssumption DEF VlmAssumption
  <2> QED  BY <2>1, <2>2 DEF AsyncLimit
<1>9. PlacesLeft'
  <2>1. VlmMaxLimit \in Nat /\ vlmCount \in Nat
    BY VlmAssumption DEF VlmAssumption, VlmInv, VlmTypeOK
  <2> QED  BY <1>2, <1>6, <1>7, <1>8, <2>1, BetweenFinite DEF PlacesLeft
<1> QED  BY <1>3, <1>4, <1>9 DEF VlmInv

(* A request that is refused or admitted gives its place back. *)
LEMMA LeavesBetween ==
    ASSUME VlmInv, NEW h \in VlmHandlers, Refuse(h) \/ Admit(h)
    PROVE  Cardinality(Between') = Cardinality(Between) - 1
<1>1. handler \in [VlmHandlers -> {"idle", "passed"}]
  BY DEF VlmInv, VlmTypeOK
<1>2. Between' = Between \ {h} /\ h \in Between
  BY <1>1 DEF Between, Refuse, Admit
<1> QED  BY <1>2, BetweenFinite, FS_RemoveElement

LEMMA RefuseInv ==
    ASSUME VlmInv, NEW h \in VlmHandlers, Refuse(h)
    PROVE  VlmInv'
<1>1. UNCHANGED <<vlmCount, admitted, vlmTask>>
  BY DEF Refuse, taskVars
<1>2. VlmTypeOK'
  BY DEF VlmInv, VlmTypeOK, Refuse, taskVars
<1>3. Fresh' /\ Counted'
  BY <1>1 DEF VlmInv, Fresh, Counted, Running
<1>4. PlacesLeft'
  <2>1. VlmMaxLimit \in Nat /\ vlmCount \in Nat
    BY VlmAssumption DEF VlmAssumption, VlmInv, VlmTypeOK
  <2> QED  BY <1>1, <2>1, LeavesBetween, BetweenFinite DEF VlmInv, PlacesLeft
<1> QED  BY <1>2, <1>3, <1>4 DEF VlmInv

(* An admitted request becomes a task: its place is used by the counter. *)
LEMMA AdmitInv ==
    ASSUME VlmInv, NEW h \in VlmHandlers, Admit(h)
    PROVE  VlmInv'
<1> DEFINE new == admitted + 1
<1>1. admitted \in 0..MaxVlmTasks /\ MaxVlmTasks \in Nat /\ admitted < MaxVlmTasks
  BY VlmAssumption DEF VlmInv, VlmTypeOK, VlmAssumption, Admit
<1>2. admitted' = new /\ new \in VlmTask /\ new \in 0..MaxVlmTasks /\ new > admitted
  BY <1>1 DEF Admit, VlmTask
<1>3. /\ vlmTask \in [VlmTask -> {"none", "infer", "failed", "answered", "stored", "over", "gone"}]
      /\ vlmTask[new] = "none"
  BY <1>2 DEF VlmInv, VlmTypeOK, Fresh
<1>4. vlmTask' = [vlmTask EXCEPT ![new] = "infer"] /\ watcher' = [watcher EXCEPT ![new] = "watching"]
  BY <1>2 DEF Admit
<1>5. Running' = Running \cup {new} /\ new \notin Running
  BY <1>2, <1>3, <1>4 DEF Running
<1>6. Cardinality(Running') = Cardinality(Running) + 1
  BY <1>5, RunningFinite, FS_AddElement
<1>7. vlmCount' = vlmCount + 1 /\ vlmCount \in Nat
  BY DEF Admit, VlmInv, VlmTypeOK
<1>8. Counted'
  BY <1>6, <1>7 DEF VlmInv, Counted
<1>9. VlmTypeOK'
  <2>1. vlmTask' \in [VlmTask -> {"none", "infer", "failed", "answered", "stored", "over", "gone"}]
    BY <1>3, <1>4
  <2>2. watcher' \in [VlmTask -> {"none", "watching", "gone"}]
    BY <1>4 DEF VlmInv, VlmTypeOK
  <2>3. handler' \in [VlmHandlers -> {"idle", "passed"}]
    BY DEF VlmInv, VlmTypeOK, Admit
  <2>4. UNCHANGED <<llamaNodes, ctx, outcome, history>>
    BY DEF Admit
  <2> HIDE DEF new
  <2> QED  BY <1>2, <1>7, <2>1, <2>2, <2>3, <2>4 DEF VlmInv, VlmTypeOK
<1>10. Fresh'
  <2> SUFFICES ASSUME NEW t \in VlmTask, t > admitted' PROVE vlmTask'[t] = "none"
    BY DEF Fresh
  <2>1. t > admitted /\ t # new
    BY <1>1, <1>2 DEF VlmTask
  <2> QED  BY <1>3, <1>4, <2>1 DEF VlmInv, Fresh
<1>11. PlacesLeft'
  <2>1. VlmMaxLimit \in Nat
    BY VlmAssumption DEF VlmAssumption
  <2> QED  BY <1>7, <2>1, LeavesBetween, BetweenFinite DEF VlmInv, PlacesLeft
<1> QED  BY <1>8, <1>9, <1>10, <1>11 DEF VlmInv

LEMMA VlmNextInv == VlmInv /\ [VlmNext]_vlmVars => VlmInv'
<1> SUFFICES ASSUME VlmInv, [VlmNext]_vlmVars PROVE VlmInv'
  OBVIOUS
<1>1. CASE NodesChange
  BY <1>1, ObserverInv
<1>2. CASE \E h \in VlmHandlers : LimitTest(h) \/ Refuse(h) \/ Admit(h)
  BY <1>2, LimitTestInv, RefuseInv, AdmitInv
<1>3. CASE \E t \in VlmTask : Deadline(t) \/ MonitorTick(t) \/ MonitorEnds(t)
  BY <1>3, ObserverInv
<1>4. CASE \E t \in VlmTask : TaskStep(t)
  BY <1>4, TaskGoesOn, TaskEndsInv DEF TaskStep
<1>5. CASE UNCHANGED vlmVars
  BY <1>5 DEF vlmVars, VlmInv, VlmTypeOK, Fresh, Counted, PlacesLeft, Running, Between
<1> QED  BY <1>1, <1>2, <1>3, <1>4, <1>5 DEF VlmNext

(* The variables of VlmTasks have their types; in particular the counter is never
   negative and the history never longer than its limit (handlers.go:36-84). *)
THEOREM VlmTypeCorrect == VlmSpec => []VlmTypeOK
<1>1. VlmInv => VlmTypeOK
  BY DEF VlmInv
<1> QED  BY <1>1, VlmInitInv, VlmNextInv, PTL DEF VlmSpec

LEMMA VlmInvSafe == VlmInv => AdmissionBounded
<1> SUFFICES ASSUME VlmInv PROVE AdmissionBounded
  OBVIOUS
<1>1. VlmMaxLimit \in Nat /\ vlmCount \in Nat
  BY VlmAssumption DEF VlmAssumption, VlmInv, VlmTypeOK
<1>2. vlmCount <= VlmMaxLimit + Cardinality(VlmHandlers) - 1
  BY <1>1, BetweenFinite DEF VlmInv, PlacesLeft
<1> QED  BY <1>2 DEF VlmInv, Counted, AdmissionBounded

(* The counter of asynchronous tasks is the number of those that run, and at most the
   limit and the requests that race: for any number of requests, tasks and nodes
   (handlers.go:235-275). *)
THEOREM AdmissionHolds == VlmSpec => []AdmissionBounded
  BY VlmInvSafe, VlmInitInv, VlmNextInv, PTL DEF VlmSpec
-----------------------------------------------------------------------------

-----------------------------------------------------------------------------
(* GatewayPush. Who answers for a connection of the map: at /ws/live its handler, as
   long as it is there; at /ws/realtime its handler, then its reader, and if that was
   never started the push loop, which runs by then and sends to all its channels. *)
LiveCared(c) ==
    c \in live => /\ connHandler[c] # "loop"
                  /\ connHandler[c] = "gone" => c \notin connected
                  /\ connReader[c] # "leaving"

RealtimeCared(c) ==
    c \notin live =>
        /\ connHandler[c] \notin {"serving", "leaving"}
        /\ connHandler[c] \in {"welcome", "gone"} => pushing
        /\ connReader[c] = "none" /\ c \in connected => subscribed[c] = PushChannels
        /\ connReader[c] = "gone" => c \notin connected

\* a handler writes to its own connection, between the welcome and its end
OwnWrites(c) ==
    /\ writing[c] \subseteq {c}
    /\ writing[c] # {} => connHandler[c] \in {"welcome", "serving"}

Started(c) ==
    /\ connHandler[c] = "none" => c \notin connected
    /\ connHandler[c] \in {"none", "loop", "welcome"} => connReader[c] = "none"

PushInv ==
    /\ PushTypeOK
    /\ \A c \in PushConns : LiveCared(c) /\ RealtimeCared(c) /\ OwnWrites(c) /\ Started(c)

LEMMA PushSizes == PushRounds \in Nat /\ PushRounds > 0
<1>1. PushRounds \in Nat \ {0}
  BY PushAssumption, Zenon DEF PushAssumption
<1> QED  BY <1>1

LEMMA PushInitInv == PushInit => PushInv
<1> SUFFICES ASSUME PushInit PROVE PushInv
  OBVIOUS
<1>1. PushTypeOK
  <2>1. pushPc \in 0..PushRounds
    BY PushSizes DEF PushInit
  <2> QED  BY <2>1 DEF PushInit, PushTypeOK
<1>2. \A c \in PushConns : LiveCared(c) /\ RealtimeCared(c) /\ OwnWrites(c) /\ Started(c)
  BY DEF PushInit, LiveCared, RealtimeCared, OwnWrites, Started, PushWriters
<1> QED  BY <1>1, <1>2 DEF PushInv

(* The life of one connection. *)
LEMMA ConnStepInv ==
    ASSUME PushInv, NEW c \in PushConns,
           \/ Connect(c) \/ StartPushLoop(c) \/ Break(c) \/ Disconnect(c) \/ DropFailed(c)
           \/ ReadEnds(c) \/ LiveEnds(c) \/ \E k \in PushChannels : Subscribe(c, k)
    PROVE  PushInv'
<1> USE DEF Connect, StartPushLoop, Break, Disconnect, Disconnected, DropFailed, ReadEnds,
            LiveEnds, Subscribe, broadcastVars, connVars
<1>1. PushTypeOK'
  <2>1. connected' \in SUBSET PushConns /\ dropping' \in SUBSET PushConns
        /\ down' \in SUBSET PushConns /\ pushing' \in BOOLEAN
    BY DEF PushInv, PushTypeOK
  <2>2. subscribed' \in [PushConns -> SUBSET PushChannels]
    BY DEF PushInv, PushTypeOK
  <2>3. connHandler' \in [PushConns -> {"none", "loop", "welcome", "serving", "leaving", "gone"}]
    BY DEF PushInv, PushTypeOK
  <2>4. connReader' \in [PushConns -> {"none", "reading", "leaving", "gone"}]
    BY DEF PushInv, PushTypeOK
  <2>5. UNCHANGED <<live, pushPc, results, left, writing, crashed>>
    OBVIOUS
  <2> QED  BY <2>1, <2>2, <2>3, <2>4, <2>5 DEF PushInv, PushTypeOK
<1>2. ASSUME NEW d \in PushConns PROVE LiveCared(d)' /\ Started(d)'
  BY <1>2 DEF PushInv, PushTypeOK, LiveCared, RealtimeCared, Started
<1>3. ASSUME NEW d \in PushConns PROVE RealtimeCared(d)'
  BY <1>3 DEF PushInv, PushTypeOK, LiveCared, RealtimeCared, Started
<1>4. ASSUME NEW d \in PushConns PROVE OwnWrites(d)'
  BY <1>4 DEF PushInv, PushTypeOK, OwnWrites, LiveCared, RealtimeCared
<1> QED  BY <1>1, <1>2, <1>3, <1>4 DEF PushInv

(* Broadcasts begin: no connection changes. *)
LEMMA PushRoundInv ==
    ASSUME PushInv, Tick \/ Broadcast \/ \E v \in VlmResults : BroadcastResult(v)
    PROVE  PushInv'
<1>1. UNCHANGED <<live, connected, subscribed, pushing, writing, connHandler, connReader,
                  dropping, down, crashed>>
  BY DEF Tick, Broadcast, BroadcastResult, connVars
<1>2. PushTypeOK'
  <2>1. pushPc' \in 0..PushRounds
    BY PushSizes DEF PushInv, PushTypeOK, Tick, Broadcast, BroadcastResult
  <2>2. results' \in SUBSET VlmResults /\ left' \in [Broadcasters -> SUBSET PushConns]
    BY DEF PushInv, PushTypeOK, Tick, Broadcast, BroadcastResult, Broadcasters
  <2> QED  BY <1>1, <2>1, <2>2 DEF PushInv, PushTypeOK
<1>3. \A c \in PushConns : (LiveCared(c) /\ RealtimeCared(c) /\ OwnWrites(c) /\ Started(c))'
  BY <1>1 DEF PushInv, LiveCared, RealtimeCared, OwnWrites, Started
<1> QED  BY <1>2, <1>3 DEF PushInv

(* A write, of a handler or of a broadcast. *)
LEMMA WriteStepInv ==
    ASSUME PushInv, NEW c \in PushConns, NEW w \in PushWriters,
           BeginWrite(w, c) \/ EndWrite(w, c) \/ WritePanics(w, c)
    PROVE  PushInv'
<1> USE DEF BeginWrite, EndWrite, WritePanics, WantsToWrite, broadcastVars, connVars
<1>1. UNCHANGED <<live, connected, subscribed, pushing, pushPc, results, down>>
  OBVIOUS
<1>2. PushTypeOK'
  <2>1. writing' \in [PushWriters -> SUBSET PushConns]
    BY DEF PushInv, PushTypeOK
  <2>2. connHandler' \in [PushConns -> {"none", "loop", "welcome", "serving", "leaving", "gone"}]
    BY DEF PushInv, PushTypeOK
  <2>3. connReader' \in [PushConns -> {"none", "reading", "leaving", "gone"}]
    BY DEF PushInv, PushTypeOK
  <2>4. left' \in [Broadcasters -> SUBSET PushConns]
    BY DEF PushInv, PushTypeOK
  <2>5. dropping' \in SUBSET PushConns /\ crashed' \in BOOLEAN
    BY DEF PushInv, PushTypeOK
  <2> QED  BY <1>1, <2>1, <2>2, <2>3, <2>4, <2>5 DEF PushInv, PushTypeOK
<1>3. \A d \in PushConns : d \in PushWriters /\ d \notin Broadcasters
  BY PushAssumption DEF PushAssumption, PushWriters, Broadcasters
<1>4. ASSUME NEW d \in PushConns
      PROVE  (LiveCared(d) /\ RealtimeCared(d) /\ OwnWrites(d) /\ Started(d))'
  <2>1. CASE BeginWrite(w, c)
    BY <1>1, <1>3, <1>4, <2>1 DEF PushInv, PushTypeOK, LiveCared, RealtimeCared, OwnWrites, Started
  <2>2. CASE w \notin PushConns /\ (EndWrite(w, c) \/ WritePanics(w, c))
    BY <1>1, <1>3, <1>4, <2>2 DEF PushInv, PushTypeOK, LiveCared, RealtimeCared, OwnWrites, Started
  <2>3. CASE w \in PushConns /\ (EndWrite(w, c) \/ WritePanics(w, c))
    <3>1. w = c /\ connHandler[c] \in {"welcome", "serving"}
      BY <2>3 DEF PushInv, OwnWrites
    <3> QED  BY <1>1, <1>3, <1>4, <2>3, <3>1
             DEF PushInv, PushTypeOK, LiveCared, RealtimeCared, OwnWrites, Started
  <2> QED  BY <2>1, <2>2, <2>3
<1> QED  BY <1>2, <1>4 DEF PushInv

LEMMA PushStepInv == PushInv /\ [PushNext]_pushVars => PushInv'
<1>1. ASSUME PushInv, UNCHANGED pushVars PROVE PushInv'
  BY <1>1 DEF pushVars, PushInv, PushTypeOK, LiveCared, RealtimeCared, OwnWrites, Started
<1> QED  BY <1>1, ConnStepInv, PushRoundInv, WriteStepInv DEF PushNext

LEMMA PushInvSafe == PushInv => BrokenIsNoticed
<1>1. PushChannels # {}
  BY PushSizes DEF PushChannels
<1> QED  BY <1>1 DEF PushInv, PushTypeOK, LiveCared, RealtimeCared, Started, BrokenIsNoticed

(* For any number of connections, broadcasts and results: a broken connection of the
   map always has somebody who takes it out (websocket.go:59-94, 235-283). *)
THEOREM BrokenAreCaredFor == PushSpec => []BrokenIsNoticed
  BY PushInitInv, PushStepInv, PushInvSafe, PTL DEF PushSpec

-----------------------------------------------------------------------------
(* YoloRoundRobin. Of two nodes of the choice, the one that is first reached from the
   place the index points at has been selected as often as the other, or once less. *)
ReachedFirst(m, n) ==
    \/ Turn <= Position(m) /\ Position(m) < Position(n)
    \/ Position(m) < Position(n) /\ Position(n) < Turn
    \/ Position(n) < Turn /\ Turn <= Position(m)
TakesTurns == \A m, n \in Available : m # n /\ ReachedFirst(m, n) =>
                  picks[m] <= picks[n] /\ picks[n] <= picks[m] + 1

RrInv == RrTypeOK /\ TakesTurns

LEMMA RrSizes == /\ YoloNodes \in Nat /\ YoloNodes > 0 /\ MaxFails \in Nat /\ MaxPicks \in Nat
                 /\ IndexPeriod \in Nat /\ IndexPeriod > 0
                 /\ \A n \in 1..YoloNodes : IndexPeriod % n = 0
  BY RoundRobinAssumption DEF RoundRobinAssumption

(* What a division leaves. *)
LEMMA Divided ==
    ASSUME NEW i \in Int, NEW k \in Int, k > 0
    PROVE  \E p \in Int : \E a \in Int : a = i % k /\ 0 <= a /\ a < k /\ i = k * p + a
<1> DEFINE p == i \div k
           a == i % k
           x == k * p
<1>1. p \in Int /\ a \in Int /\ 0 <= a /\ a < k
  OBVIOUS
<1>2. a = i - x
  BY Z3T(60)
<1> HIDE DEF p, a
<1>3. x \in Int
  BY <1>1
<1> HIDE DEF x
<1>4. i = x + a
  BY <1>1, <1>2, <1>3
<1>5. a = i % k
  BY DEF a
<1> QED  BY <1>1, <1>4, <1>5, Zenon DEF x

LEMMA OneRemainder ==
    ASSUME NEW p \in Int, NEW q \in Int, NEW a \in Int, NEW b \in Int, NEW k \in Int,
           0 <= a, a < k, 0 <= b, b < k, k * p + a = k * q + b
    PROVE  a = b
  OBVIOUS

LEMMA NextRemainder ==
    ASSUME NEW i \in Int, NEW k \in Int, k > 0
    PROVE  (i + 1) % k = IF (i % k) + 1 = k THEN 0 ELSE (i % k) + 1
<1>1. PICK p \in Int, a \in Int : a = i % k /\ 0 <= a /\ a < k /\ i = k * p + a
  BY Divided
<1>2. PICK q \in Int, b \in Int : b = (i + 1) % k /\ 0 <= b /\ b < k /\ i + 1 = k * q + b
  BY Divided
<1>3. CASE a + 1 = k
  <2>1. k * (p + 1) = k * p + k
    BY <1>1
  <2>2. k * (p + 1) + 0 = k * q + b
    BY <1>1, <1>2, <1>3, <2>1
  <2>3. b = 0
    BY <1>1, <1>2, <2>2, OneRemainder
  <2> QED  BY <1>1, <1>2, <1>3, <2>3, Zenon
<1>4. CASE a + 1 # k
  <2>1. k * p + (a + 1) = k * q + b /\ 0 <= a + 1 /\ a + 1 < k /\ a + 1 \in Int
    BY <1>1, <1>2, <1>4
  <2>2. b = a + 1
    BY <1>1, <1>2, <2>1, OneRemainder
  <2> QED  BY <1>1, <1>2, <1>4, <2>2, Zenon
<1> QED  BY <1>3, <1>4

LEMMA OwnRemainder == ASSUME NEW i \in Int, NEW k \in Int, 0 <= i, i < k PROVE i % k = i
<1>1. PICK p \in Int, a \in Int : a = i % k /\ 0 <= a /\ a < k /\ i = k * p + a
  <2>1. k > 0
    OBVIOUS
  <2> QED  BY <2>1, Divided
<1>2. k * 0 + i = i
  OBVIOUS
<1>3. k * 0 + i = k * p + a
  BY <1>1, <1>2
<1>4. i = a
  BY <1>1, <1>3, OneRemainder
<1> QED  BY <1>1, <1>4, Zenon

(* The index returns to the start of the list when it returns to 0. *)
LEMMA IndexMoves ==
    ASSUME NEW i \in 0..(IndexPeriod - 1), NEW k \in 1..YoloNodes
    PROVE  /\ (i + 1) % IndexPeriod \in 0..(IndexPeriod - 1)
           /\ ((i + 1) % IndexPeriod) % k = IF (i % k) + 1 = k THEN 0 ELSE (i % k) + 1
<1>1. /\ k \in Int /\ k > 0 /\ i \in Int /\ 0 <= i /\ i <= IndexPeriod - 1
      /\ IndexPeriod \in Int /\ IndexPeriod > 0
  BY RrSizes
<1>2. (i + 1) % IndexPeriod = IF i + 1 = IndexPeriod THEN 0 ELSE i + 1
  <2>1. i % IndexPeriod = i
    BY <1>1, OwnRemainder
  <2> QED  BY <1>1, <2>1, NextRemainder
<1>3. 0 % k = 0 /\ IndexPeriod % k = 0
  BY <1>1, OwnRemainder, RrSizes
<1>4. (i + 1) % k = IF (i % k) + 1 = k THEN 0 ELSE (i % k) + 1
  BY <1>1, NextRemainder
<1>5. CASE i + 1 = IndexPeriod
  <2>1. (i + 1) % k = 0
    BY <1>3, <1>5, Zenon
  <2> QED  BY <1>1, <1>2, <1>3, <1>4, <1>5, <2>1
<1>6. CASE i + 1 # IndexPeriod
  BY <1>1, <1>2, <1>4, <1>6
<1> QED  BY <1>5, <1>6

(* Each node of the choice has a place of its own. *)
LEMMA Places ==
    /\ Available \subseteq RrNodes /\ IsFiniteSet(Available)
    /\ Cardinality(Available) \in Nat
    /\ Available # {} => Cardinality(Available) \in 1..YoloNodes
    /\ \A n \in Available : Position(n) \in Nat /\ Position(n) < Cardinality(Available)
    /\ \A m, n \in Available : m < n => Position(m) < Position(n)
<1>1. Available \subseteq RrNodes
  BY DEF Available, InState
<1>2. IsFiniteSet(RrNodes) /\ Cardinality(RrNodes) = YoloNodes
  BY RrSizes, FS_Interval DEF RrNodes
<1>3. IsFiniteSet(Available) /\ Cardinality(Available) <= YoloNodes
  BY <1>1, <1>2, FS_Subset
<1>4. Cardinality(Available) \in Nat
  BY <1>3, FS_CardinalityType
<1>5. Available # {} => Cardinality(Available) \in 1..YoloNodes
  BY <1>3, <1>4, RrSizes, FS_EmptySet
<1> DEFINE Before(n) == {m \in Available : m < n}
<1>6. \A n \in Available : Before(n) \subseteq Available /\ n \notin Before(n)
  BY <1>1 DEF RrNodes
<1>7. \A m, n \in Available : m < n => Before(m) \subseteq Before(n) /\ m \in Before(n)
  <2>1. Available \subseteq Int
    BY <1>1, RrSizes DEF RrNodes
  <2> SUFFICES ASSUME NEW m \in Available, NEW n \in Available, m < n
               PROVE  Before(m) \subseteq Before(n) /\ m \in Before(n)
    OBVIOUS
  <2>2. m \in Int /\ n \in Int /\ \A x \in Available : x \in Int
    BY <2>1
  <2>3. \A x \in Available : x < m => x < n
    BY <2>2
  <2> QED  BY <2>3
<1>8. \A n : Position(n) = Cardinality(Before(n))
  BY DEF Position
<1> HIDE DEF Before
<1>9. ASSUME NEW n \in Available
      PROVE  Position(n) \in Nat /\ Position(n) < Cardinality(Available) /\ IsFiniteSet(Before(n))
  <2>1. IsFiniteSet(Before(n)) /\ Cardinality(Before(n)) \in Nat
    BY <1>3, <1>6, FS_Subset, FS_CardinalityType
  <2>2. Cardinality(Before(n)) < Cardinality(Available)
    <3>1. Before(n) # Available
      BY <1>6
    <3> QED  BY <1>3, <1>4, <1>6, <2>1, <3>1, FS_Subset
  <2> QED  BY <1>8, <2>1, <2>2
<1>10. ASSUME NEW m \in Available, NEW n \in Available, m < n PROVE Position(m) < Position(n)
  <2>1. Before(m) \subseteq Before(n) /\ Before(m) # Before(n)
    BY <1>6, <1>7, <1>10
  <2>2. Cardinality(Before(m)) < Cardinality(Before(n))
    BY <1>8, <1>9, <2>1, FS_Subset
  <2> QED  BY <1>8, <2>2
<1> QED  BY <1>1, <1>3, <1>4, <1>5, <1>9, <1>10

LEMMA RrInitInv == RrInit => RrInv
<1> SUFFICES ASSUME RrInit PROVE RrInv
  OBVIOUS
<1>1. index = 0 /\ 0 \in 0..(IndexPeriod - 1) /\ 0 \in 0..MaxPicks /\ 0 \in 0..MaxFails
      /\ 0 \in 0..YoloNodes
  BY RrSizes DEF RrInit
<1>2. RrTypeOK
  <2>1. picks \in [RrNodes -> 0..MaxPicks] /\ fails \in [RrNodes -> 0..MaxFails]
        /\ target \in [YoloRequests -> 0..YoloNodes]
    BY <1>1 DEF RrInit, NoPicks
  <2> QED  BY <1>1, <2>1 DEF RrInit, RrTypeOK
<1>3. TakesTurns
  BY Places DEF RrInit, NoPicks, TakesTurns
<1> QED  BY <1>2, <1>3 DEF RrInv

(* A step that counts anew, or leaves the choice as it was and the counts with it. *)
LEMMA RecountStep ==
    ASSUME RrInv, RrTypeOK', Recount, UNCHANGED index
    PROVE  RrInv'
<1>1. CASE Available' = Available
  <2>1. picks' = picks /\ Turn' = Turn /\ \A n : Position(n)' = Position(n)
    BY <1>1 DEF Recount, Turn, Position
  <2> QED  BY <1>1, <2>1 DEF RrInv, TakesTurns, ReachedFirst
<1>2. CASE Available' # Available
  <2>1. picks' = NoPicks /\ Available' \subseteq RrNodes
    BY <1>2, Places DEF Recount, Available, InState, RrNodes
  <2>2. \A n \in RrNodes : picks'[n] = 0
    BY <2>1 DEF NoPicks
  <2> QED  BY <2>1, <2>2 DEF RrInv, TakesTurns
<1> QED  BY <1>1, <1>2

LEMMA RecountType ==
    ASSUME RrTypeOK, Recount PROVE picks' \in [RrNodes -> 0..MaxPicks]
  BY RrSizes DEF RrTypeOK, Recount, NoPicks

LEMMA SelectStep == ASSUME RrInv, NEW r \in YoloRequests, Select(r) PROVE RrInv'
<1>1. PICK n \in Available :
         /\ Position(n) = Turn /\ picks[n] < MaxPicks
         /\ target' = [target EXCEPT ![r] = n]
         /\ picks' = [picks EXCEPT ![n] = @ + 1]
  BY DEF Select
<1>2. index' = (index + 1) % IndexPeriod /\ UNCHANGED <<yolo, blacklisted, fails>>
  BY DEF Select
<1> DEFINE k == Cardinality(Available)
<1>3. k \in 1..YoloNodes /\ n \in RrNodes /\ n \in 0..YoloNodes
  BY Places, RrSizes DEF RrNodes
<1>4. index \in 0..(IndexPeriod - 1)
  BY DEF RrInv, RrTypeOK
<1>5. Available' = Available
  BY <1>2 DEF Available, InState
<1>6. \A m : Position(m)' = Position(m)
  BY <1>5 DEF Position
<1>7. index' \in 0..(IndexPeriod - 1) /\ Turn' = IF Turn + 1 = k THEN 0 ELSE Turn + 1
  <2>1. Turn = index % k /\ Turn' = index' % k
    BY <1>5 DEF Turn
  <2> HIDE DEF k
  <2> QED  BY <1>2, <1>3, <1>4, <2>1, IndexMoves
<1>8. \A m \in RrNodes : picks[m] \in 0..MaxPicks /\ picks'[m] = IF m = n THEN picks[m] + 1 ELSE picks[m]
  BY <1>1, <1>3 DEF RrInv, RrTypeOK
<1>9. RrTypeOK'
  <2>1. picks' \in [RrNodes -> 0..MaxPicks]
    <3>1. picks[n] + 1 \in 0..MaxPicks
      BY <1>1, <1>3, <1>8, RrSizes
    <3> QED  BY <1>1, <1>3, <3>1 DEF RrInv, RrTypeOK
  <2>2. target' \in [YoloRequests -> 0..YoloNodes]
    BY <1>1, <1>3 DEF RrInv, RrTypeOK
  <2> QED  BY <1>2, <1>7, <2>1, <2>2 DEF RrInv, RrTypeOK
<1>10. TakesTurns'
  <2> SUFFICES ASSUME NEW a \in Available, NEW b \in Available, a # b, ReachedFirst(a, b)'
               PROVE  picks'[a] <= picks'[b] /\ picks'[b] <= picks'[a] + 1
    BY <1>5 DEF TakesTurns
  <2>1. /\ a \in RrNodes /\ b \in RrNodes /\ a \in Int /\ b \in Int
        /\ Position(a) \in Nat /\ Position(a) < k /\ Position(b) \in Nat /\ Position(b) < k
        /\ Position(a) # Position(b) /\ Position(n) \in Nat /\ k \in Nat
    BY <1>3, Places, RrSizes DEF RrNodes
  <2>2. picks[a] \in Nat /\ picks[b] \in Nat
    BY <1>8, <2>1, RrSizes
  <2>3. /\ picks'[a] = IF a = n THEN picks[a] + 1 ELSE picks[a]
        /\ picks'[b] = IF b = n THEN picks[b] + 1 ELSE picks[b]
    BY <1>8, <2>1
  <2>4. \/ Turn' <= Position(a) /\ Position(a) < Position(b)
        \/ Position(a) < Position(b) /\ Position(b) < Turn'
        \/ Position(b) < Turn' /\ Turn' <= Position(a)
    BY <1>6 DEF ReachedFirst
  <2>5. \A c \in Available : c # n => Position(c) # Turn
    <3> SUFFICES ASSUME NEW c \in Available, c # n PROVE Position(c) # Turn
      OBVIOUS
    <3>1. c < n \/ n < c
      BY <1>3, Places, RrSizes DEF RrNodes
    <3>2. Position(c) \in Nat
      BY Places
    <3> QED  BY <1>1, <2>1, <3>1, <3>2, Places
  <2> HIDE DEF k
  <2>6. CASE a = n
    BY <1>1, <1>7, <2>1, <2>4, <2>6
  <2>7. CASE b = n
    <3>1. ReachedFirst(b, a)
      BY <1>1, <2>1, <2>7 DEF ReachedFirst
    <3>2. picks[b] <= picks[a] /\ picks[a] <= picks[b] + 1
      BY <3>1 DEF RrInv, TakesTurns
    <3> QED  BY <2>2, <2>3, <2>7, <3>2
  <2>8. CASE a # n /\ b # n
    <3>1. ReachedFirst(a, b)
      BY <1>1, <1>7, <2>1, <2>4, <2>5, <2>8 DEF ReachedFirst
    <3> QED  BY <2>2, <2>3, <2>8, <3>1 DEF RrInv, TakesTurns
  <2> QED  BY <2>6, <2>7, <2>8
<1> QED  BY <1>9, <1>10 DEF RrInv

LEMMA RrStepInv == RrInv /\ [RrNext]_rrVars => RrInv'
<1> SUFFICES ASSUME RrInv, [RrNext]_rrVars PROVE RrInv'
  OBVIOUS
<1>1. RrTypeOK
  BY DEF RrInv
<1>2. ASSUME NEW n \in RrNodes, YoloNodeChanges(n) PROVE RrInv'
  <2>1. picks' \in [RrNodes -> 0..MaxPicks]
    BY <1>1, <1>2, RecountType DEF YoloNodeChanges
  <2>2. RrTypeOK'
    BY <1>1, <1>2, <2>1 DEF YoloNodeChanges, RrTypeOK
  <2> QED  BY <1>2, <2>2, RecountStep DEF YoloNodeChanges
<1>3. ASSUME NEW n \in RrNodes, Expire(n) PROVE RrInv'
  <2>1. picks' \in [RrNodes -> 0..MaxPicks]
    BY <1>1, <1>3, RecountType DEF Expire
  <2>2. RrTypeOK'
    BY <1>1, <1>3, <2>1 DEF Expire, RrTypeOK
  <2> QED  BY <1>3, <2>2, RecountStep DEF Expire
<1>4. ASSUME NEW r \in YoloRequests, Select(r) PROVE RrInv'
  BY <1>4, SelectStep
<1>5. \A r \in YoloRequests : target[r] # 0 => target[r] \in RrNodes
  BY <1>1, RrSizes DEF RrTypeOK, RrNodes
<1>6. ASSUME NEW r \in YoloRequests, RecordSuccess(r) PROVE RrInv'
  <2>1. picks' \in [RrNodes -> 0..MaxPicks]
    BY <1>1, <1>6, RecountType DEF RecordSuccess
  <2>2. 0 \in 0..YoloNodes /\ 0 \in 0..MaxFails
    BY RrSizes
  <2>3. fails' \in [RrNodes -> 0..MaxFails] /\ target' \in [YoloRequests -> 0..YoloNodes]
    BY <1>1, <1>5, <1>6, <2>2 DEF RecordSuccess, RrTypeOK
  <2>4. RrTypeOK'
    BY <1>1, <1>6, <2>1, <2>3 DEF RecordSuccess, RrTypeOK
  <2> QED  BY <1>6, <2>4, RecountStep DEF RecordSuccess
<1>7. ASSUME NEW r \in YoloRequests, RecordFailure(r) PROVE RrInv'
  <2>1. picks' \in [RrNodes -> 0..MaxPicks]
    BY <1>1, <1>7, RecountType DEF RecordFailure
  <2>2. target[r] \in RrNodes /\ fails[target[r]] \in 0..MaxFails
    BY <1>1, <1>5, <1>7 DEF RecordFailure, RrTypeOK
  <2> DEFINE f == IF fails[target[r]] < MaxFails THEN fails[target[r]] + 1 ELSE MaxFails
  <2>3. f \in 0..MaxFails /\ 0 \in 0..YoloNodes
    BY <2>2, RrSizes
  <2>4. fails' = [fails EXCEPT ![target[r]] = f]
    BY <1>7 DEF RecordFailure
  <2> HIDE DEF f
  <2>5. fails' \in [RrNodes -> 0..MaxFails] /\ target' \in [YoloRequests -> 0..YoloNodes]
    BY <1>1, <1>7, <2>2, <2>3, <2>4 DEF RecordFailure, RrTypeOK
  <2>6. RrTypeOK'
    BY <1>1, <1>7, <2>1, <2>2, <2>5 DEF RecordFailure, RrTypeOK
  <2> QED  BY <1>7, <2>6, RecountStep DEF RecordFailure
<1>8. ASSUME NEW r \in YoloRequests, NotTheNode(r) PROVE RrInv'
  <2>1. target' \in [YoloRequests -> 0..YoloNodes]
    BY <1>1, <1>8, RrSizes DEF NotTheNode, RrTypeOK
  <2>2. RrTypeOK' /\ Available' = Available
    BY <1>1, <1>8, <2>1 DEF NotTheNode, RrTypeOK, Available, InState
  <2> QED  BY <1>8, <2>2, RecountStep DEF NotTheNode, Recount
<1>9. CASE UNCHANGED rrVars
  <2>1. RrTypeOK' /\ Available' = Available
    BY <1>1, <1>9 DEF rrVars, RrTypeOK, Available, InState
  <2> QED  BY <1>9, <2>1, RecountStep DEF rrVars, Recount
<1> QED  BY <1>2, <1>3, <1>4, <1>6, <1>7, <1>8, <1>9 DEF RrNext

LEMMA RrInvSafe == RrInv => SpreadIsEven
<1> SUFFICES ASSUME RrInv, NEW m \in Available, NEW n \in Available
             PROVE  picks[m] <= picks[n] + 1
  BY DEF SpreadIsEven
<1>1. picks[m] \in Nat /\ picks[n] \in Nat /\ m \in Int /\ n \in Int
  BY Places, RrSizes DEF RrInv, RrTypeOK, RrNodes
<1>2. CASE m = n
  BY <1>1, <1>2
<1>3. CASE m # n
  <2>1. Position(m) \in Nat /\ Position(n) \in Nat /\ Position(m) # Position(n)
    BY <1>1, <1>3, Places
  <2>2. Turn \in Int
    <3>1. Cardinality(Available) \in Int /\ Cardinality(Available) > 0 /\ index \in Int
      BY Places, RrSizes DEF RrInv, RrTypeOK
    <3> QED  BY <3>1 DEF Turn
  <2>3. ReachedFirst(m, n) \/ ReachedFirst(n, m)
    BY <2>1, <2>2 DEF ReachedFirst
  <2> QED  BY <1>1, <1>3, <2>3 DEF RrInv, TakesTurns
<1> QED  BY <1>2, <1>3

(* The nodes of an unchanged choice are selected equally often, up to one. *)
THEOREM RoundRobinIsFair == RrSpec => []SpreadIsEven
<1>1. RrInit => RrInv
  BY RrInitInv
<1>2. RrInv /\ [RrNext]_rrVars => RrInv'
  BY RrStepInv
<1>3. RrInv => SpreadIsEven
  BY RrInvSafe
<1> QED  BY <1>1, <1>2, <1>3, PTL DEF RrSpec

-----------------------------------------------------------------------------
(* GatewayTasks. A caller holds a node while it executes its task, and a task that
   was not submitted yet has no caller. *)
HeldBy(n) == {t \in GwTasks : holds[t] = n}
HoldsWhileExecuting == \A t \in GwTasks : holds[t] # NoNode <=> sched[t] = "execute"
PendingHasNoCaller == \A t \in GwTasks : state[t] = "pending" => sched[t] = "none"

GwtInv == GwtTypeOK /\ OneTaskPerKey /\ SlotsAreHeld /\ HoldsWhileExecuting /\ PendingHasNoCaller

LEMMA TaskSizes ==
    /\ MaxQueueSize \in Nat /\ TaskRetries \in Nat /\ PerNode \in Nat /\ SchedRetries \in Nat
    /\ MaxQueueSize > 0 /\ IsFiniteSet(GwTasks) /\ NoNode \notin WorkNodes
  BY TasksAssumption DEF TasksAssumption

(* The queue's part of a step. *)
LEMMA EnqueueKeeps ==
    ASSUME GwtInv, NEW t \in GwTasks, NEW st \in TaskStates, Enqueue(t, st)
    PROVE  /\ state' \in [GwTasks -> TaskStates]
           /\ stored' \subseteq GwTasks /\ waiting' \in Seq(GwTasks)
           /\ Len(waiting') <= MaxQueueSize /\ dedupSet' \subseteq DedupKeys
           /\ dedupSet' = {key[u] : u \in stored'}
           /\ \A u, v \in stored' : key[u] = key[v] => u = v
           /\ \A u \in GwTasks : u # t => state'[u] = state[u]
           /\ state'[t] \in {st, "queued"}
<1>1. /\ key \in [GwTasks -> DedupKeys] /\ state \in [GwTasks -> TaskStates]
      /\ stored \subseteq GwTasks /\ waiting \in Seq(GwTasks) /\ Len(waiting) <= MaxQueueSize
      /\ dedupSet \subseteq DedupKeys
      /\ dedupSet = {key[u] : u \in stored} /\ \A u, v \in stored : key[u] = key[v] => u = v
  BY DEF GwtInv, GwtTypeOK, OneTaskPerKey
<1>2. "queued" \in TaskStates
  BY DEF TaskStates
<1>3. CASE Accepts(t)
  <2>1. /\ stored' = stored \cup {t} /\ waiting' = Append(waiting, t)
        /\ dedupSet' = dedupSet \cup {key[t]} /\ state' = [state EXCEPT ![t] = "queued"]
        /\ Len(waiting) < MaxQueueSize /\ key[t] \notin dedupSet
    BY <1>3 DEF Enqueue, Accepts, SetField
  <2>2. waiting' \in Seq(GwTasks) /\ Len(waiting') <= MaxQueueSize
    BY <1>1, <2>1, AppendProperties, LenProperties, TaskSizes
  <2>3. dedupSet' = {key[u] : u \in stored'}
    BY <1>1, <2>1
  <2>4. \A u, v \in stored' : key[u] = key[v] => u = v
    BY <1>1, <2>1
  <2>5. state' \in [GwTasks -> TaskStates] /\ (\A u \in GwTasks : u # t => state'[u] = state[u])
        /\ state'[t] = "queued"
    BY <1>1, <1>2, <2>1
  <2> QED  BY <1>1, <2>1, <2>2, <2>3, <2>4, <2>5
<1>4. CASE ~Accepts(t)
  <2>1. state' = [state EXCEPT ![t] = st] /\ stored' = stored /\ waiting' = waiting /\ dedupSet' = dedupSet
    BY <1>4 DEF Enqueue, SetField, queueVars
  <2>2. state' \in [GwTasks -> TaskStates] /\ (\A u \in GwTasks : u # t => state'[u] = state[u])
        /\ state'[t] = st
    BY <1>1, <2>1
  <2> QED  BY <1>1, <2>1, <2>2
<1> QED  BY <1>3, <1>4

LEMMA UpdateKeeps ==
    ASSUME GwtInv, NEW t \in GwTasks, NEW st \in TaskStates, NEW new \in TaskStates,
           UpdateTask(t, st, new)
    PROVE  /\ state' \in [GwTasks -> TaskStates] /\ ended' \subseteq GwTasks
           /\ \A u \in GwTasks : u # t => state'[u] = state[u]
           /\ state'[t] \in {st, new}
<1>1. state \in [GwTasks -> TaskStates] /\ ended \subseteq GwTasks
  BY DEF GwtInv, GwtTypeOK
<1>2. state' = [state EXCEPT ![t] = st] \/ state' = [state EXCEPT ![t] = new]
  BY DEF UpdateTask, SetField
<1>3. ended' \subseteq GwTasks
  BY <1>1 DEF UpdateTask
<1> QED  BY <1>1, <1>2, <1>3

(* A step that leaves the callers' slots alone. *)
LEMMA SlotsKept ==
    ASSUME GwtInv, UNCHANGED <<holds, active>>, sched' \in [GwTasks -> {"none", "select", "execute", "backoff"}],
           \A t \in GwTasks : sched'[t] = "execute" <=> sched[t] = "execute",
           \A t \in GwTasks : state'[t] = "pending" => sched'[t] = "none"
    PROVE  SlotsAreHeld' /\ HoldsWhileExecuting' /\ PendingHasNoCaller'
  BY DEF GwtInv, SlotsAreHeld, HoldsWhileExecuting, PendingHasNoCaller

LEMMA KeysKept ==
    ASSUME GwtInv, UNCHANGED <<key, stored, dedupSet>> PROVE OneTaskPerKey'
  BY DEF GwtInv, OneTaskPerKey

LEMMA GwtInitInv == GwtInit => GwtInv
<1> SUFFICES ASSUME GwtInit PROVE GwtInv
  OBVIOUS
<1>1. GwtTypeOK
  <2>1. state \in [GwTasks -> TaskStates]
    BY DEF GwtInit, TaskStates
  <2>2. waiting \in Seq(GwTasks) /\ Len(waiting) = 0
    BY EmptySeq DEF GwtInit
  <2>3. attempt \in [GwTasks -> 0..SchedRetries]
    BY TaskSizes DEF GwtInit
  <2> QED  BY <2>1, <2>2, <2>3, TaskSizes DEF GwtInit, GwtTypeOK
<1>2. OneTaskPerKey
  BY DEF GwtInit, OneTaskPerKey
<1>3. SlotsAreHeld
  <2>1. \A n \in WorkNodes : {t \in GwTasks : holds[t] = n} = {}
    BY TaskSizes DEF GwtInit
  <2>2. \A n \in WorkNodes : Cardinality({t \in GwTasks : holds[t] = n}) = 0
    BY <2>1, FS_EmptySet
  <2>3. \A n \in WorkNodes : active[n] = 0
    BY DEF GwtInit
  <2> QED  BY <2>2, <2>3, TaskSizes DEF SlotsAreHeld
<1>4. HoldsWhileExecuting /\ PendingHasNoCaller
  BY DEF GwtInit, HoldsWhileExecuting, PendingHasNoCaller
<1> QED  BY <1>1, <1>2, <1>3, <1>4 DEF GwtInv

LEMMA TypedField ==
    ASSUME NEW S, NEW T, NEW f \in [S -> T], NEW t \in S, NEW v \in T
    PROVE  /\ SetField(f, t, v) \in [S -> T]
           /\ \A u \in S : SetField(f, t, v)[u] = IF u = t THEN v ELSE f[u]
  BY DEF SetField

LEMMA SubmitStep == ASSUME GwtInv, NEW t \in GwTasks, Submit(t) PROVE GwtInv'
<1> USE DEF Submit
<1>1. GwtTypeOK /\ "pending" \in TaskStates
  BY DEF GwtInv, TaskStates
<1>2. /\ state' \in [GwTasks -> TaskStates]
      /\ stored' \subseteq GwTasks /\ waiting' \in Seq(GwTasks)
      /\ Len(waiting') <= MaxQueueSize /\ dedupSet' \subseteq DedupKeys
      /\ OneTaskPerKey'
      /\ \A u \in GwTasks : u # t => state'[u] = state[u]
  BY <1>1, EnqueueKeeps DEF OneTaskPerKey
<1>3. state'[t] = "queued"
  BY <1>1 DEF Enqueue, SetField, GwtTypeOK
<1>4. /\ sched' \in [GwTasks -> {"none", "select", "execute", "backoff"}]
      /\ \A u \in GwTasks : u # t => sched'[u] = sched[u]
      /\ sched'[t] # "execute"
  <2>1. sched[t] = "none"
    BY DEF GwtInv, PendingHasNoCaller
  <2>2. sched \in [GwTasks -> {"none", "select", "execute", "backoff"}]
    BY <1>1 DEF GwtTypeOK
  <2>3. sched' = sched \/ sched' = [sched EXCEPT ![t] = "select"]
    BY DEF SetField
  <2> QED  BY <2>1, <2>2, <2>3
<1>5. GwtTypeOK'
  BY <1>1, <1>2, <1>4 DEF GwtTypeOK
<1>6. SlotsAreHeld' /\ HoldsWhileExecuting' /\ PendingHasNoCaller'
  <2>1. sched[t] = "none"
    BY DEF GwtInv, PendingHasNoCaller
  <2>2. \A u \in GwTasks : sched'[u] = "execute" <=> sched[u] = "execute"
    BY <1>4, <2>1
  <2>3. \A u \in GwTasks : state'[u] = "pending" => sched'[u] = "none"
    BY <1>2, <1>3, <1>4 DEF GwtInv, PendingHasNoCaller
  <2> QED  BY <1>4, <2>2, <2>3, SlotsKept
<1> QED  BY <1>2, <1>5, <1>6 DEF GwtInv

LEMMA CancelStep == ASSUME GwtInv, NEW t \in GwTasks, CancelTask(t) PROVE GwtInv'
<1> USE DEF CancelTask
<1>1. GwtTypeOK
  BY DEF GwtInv
<1>2. state' \in [GwTasks -> TaskStates]
      /\ \A u \in GwTasks : state'[u] = IF u = t THEN "cancelled" ELSE state[u]
  <2>1. state \in [GwTasks -> TaskStates] /\ "cancelled" \in TaskStates
    BY <1>1 DEF GwtTypeOK, TaskStates
  <2>2. state' = [state EXCEPT ![t] = "cancelled"]
    BY DEF SetField
  <2> QED  BY <2>1, <2>2
<1>3. GwtTypeOK'
  BY <1>1, <1>2 DEF GwtTypeOK, queueVars, schedVars
<1>4. OneTaskPerKey'
  BY KeysKept DEF queueVars
<1>5. SlotsAreHeld' /\ HoldsWhileExecuting' /\ PendingHasNoCaller'
  BY <1>1, <1>2, SlotsKept DEF schedVars, GwtInv, GwtTypeOK, PendingHasNoCaller
<1> QED  BY <1>3, <1>4, <1>5 DEF GwtInv

LEMMA CleanupStep == ASSUME GwtInv, NEW t \in GwTasks, CleanupCompleted(t) PROVE GwtInv'
<1> USE DEF CleanupCompleted, fieldVars, schedVars
<1>1. GwtTypeOK
  BY DEF GwtInv
<1>2. GwtTypeOK'
  BY <1>1 DEF GwtTypeOK
<1>3. OneTaskPerKey'
  BY DEF GwtInv, OneTaskPerKey
<1>4. SlotsAreHeld' /\ HoldsWhileExecuting' /\ PendingHasNoCaller'
  BY <1>1, SlotsKept DEF GwtInv, GwtTypeOK, PendingHasNoCaller
<1> QED  BY <1>2, <1>3, <1>4 DEF GwtInv

(* The first place of a queue at which a task may be found. *)
LEMMA FirstPlace ==
    ASSUME NEW I \in SUBSET Nat, I # {} PROVE Min(I) \in I
<1>1. IsWellFoundedOn(OpToRel(<, Nat), Nat)
  BY NatLessThanWellFounded
<1>2. PICK x \in I : \A y \in I : ~ (<<y, x>> \in OpToRel(<, Nat))
  BY <1>1, WFMin
<1>3. \A y \in I : ~(y < x)
  BY <1>2 DEF OpToRel
<1>4. \A y \in I : x <= y
  BY <1>3
<1> QED  BY <1>4 DEF Min

LEMMA DequeueStep == ASSUME GwtInv, Dequeue PROVE GwtInv'
<1> DEFINE usable(t) == t \in stored /\ state[t] = "queued" /\ t \notin cancelled
           i == SelectInSeq(waiting, usable)
<1>1. GwtTypeOK
  BY DEF GwtInv
<1>2. i \in 0..Len(waiting)
  <2> DEFINE I == {j \in 1..Len(waiting) : usable(waiting[j])}
  <2>1. i = IF I # {} THEN Min(I) ELSE 0
    BY DEF SelectInSeq
  <2>2. Len(waiting) \in Nat /\ I \subseteq 1..Len(waiting)
    BY <1>1, LenProperties DEF GwtTypeOK
  <2> HIDE DEF I, i
  <2>3. CASE I = {}
    <3>1. i = 0
      BY <2>1, <2>3
    <3> QED  BY <2>2, <3>1
  <2>4. CASE I # {}
    <3>1. I \in SUBSET Nat
      BY <2>2
    <3>2. Min(I) \in I
      BY <2>4, <3>1, FirstPlace
    <3>3. i \in I
      BY <2>1, <2>4, <3>2
    <3> QED  BY <2>2, <3>3
  <2> QED  BY <2>3, <2>4
<1> HIDE DEF usable
<1>3. /\ \E dropped : state' = [t \in GwTasks |->
              CASE i # 0 /\ t = waiting[i] -> "dispatched"
                [] t \in dropped /\ t \in stored /\ state[t] = "queued" -> "cancelled"
                [] OTHER -> state[t]]
      /\ UNCHANGED <<key, cancelled, ended, retries, nodeID, stored, dedupSet, schedVars, nodesUp>>
  BY DEF Dequeue, usable
<1>4. /\ i = 0 => waiting' = <<>> /\ exec' = exec
      /\ i # 0 => /\ waiting' = SubSeq(waiting, i + 1, Len(waiting))
                  /\ exec' = [exec EXCEPT ![waiting[i]] = "taken"]
  BY DEF Dequeue, usable, SetField
<1> HIDE DEF i
<1>5. waiting' \in Seq(GwTasks) /\ Len(waiting') <= MaxQueueSize
  <2>1. waiting \in Seq(GwTasks) /\ Len(waiting) \in Nat /\ Len(waiting) <= MaxQueueSize
    BY <1>1, LenProperties DEF GwtTypeOK
  <2>2. CASE i = 0
    <3>1. waiting' = <<>>
      BY <1>4, <2>2
    <3> QED  BY <3>1, EmptySeq, TaskSizes
  <2>3. CASE i # 0
    <3>1. i + 1 \in 1..(Len(waiting) + 1) /\ i \in Nat
      BY <1>2, <2>1, <2>3
    <3>2. waiting' = SubSeq(waiting, i + 1, Len(waiting))
      BY <1>4, <2>3
    <3>3. \A j \in (i + 1)..Len(waiting) : waiting[j] \in GwTasks
      BY <2>1, <3>1, ElementOfSeq
    <3>4. /\ waiting' \in Seq(GwTasks)
          /\ Len(waiting') = IF i + 1 <= Len(waiting) THEN Len(waiting) - (i + 1) + 1 ELSE 0
      BY <2>1, <3>1, <3>2, <3>3, SubSeqProperties
    <3> QED  BY <2>1, <3>1, <3>4, TaskSizes
  <2> QED  BY <2>2, <2>3
<1>6. exec' \in [GwTasks -> {"none", "taken", "infer", "commit"}]
  <2>1. CASE i = 0
    <3>1. exec' = exec
      BY <1>4, <2>1
    <3> QED  BY <1>1, <3>1 DEF GwtTypeOK
  <2>2. CASE i # 0
    <3>1. waiting[i] \in GwTasks
      BY <1>1, <1>2, <2>2, ElementOfSeq, LenProperties DEF GwtTypeOK
    <3>2. exec' = [exec EXCEPT ![waiting[i]] = "taken"]
      BY <1>4, <2>2
    <3> QED  BY <1>1, <3>1, <3>2 DEF GwtTypeOK
  <2> QED  BY <2>1, <2>2
<1>7. \A t \in GwTasks : state'[t] \in {"dispatched", "cancelled", state[t]}
  BY <1>3
<1>8. state' \in [GwTasks -> TaskStates]
  <2>1. \A t \in GwTasks : state'[t] \in TaskStates
    BY <1>1, <1>7 DEF GwtTypeOK, TaskStates
  <2>2. state' = [t \in GwTasks |-> state'[t]]
    BY <1>3
  <2> QED  BY <2>1, <2>2
<1>9. GwtTypeOK'
  BY <1>1, <1>3, <1>5, <1>6, <1>8 DEF GwtTypeOK, schedVars
<1>10. OneTaskPerKey'
  BY <1>3, KeysKept
<1>11. SlotsAreHeld' /\ HoldsWhileExecuting' /\ PendingHasNoCaller'
  <2>1. \A t \in GwTasks : state'[t] = "pending" => sched'[t] = "none"
    BY <1>3, <1>7 DEF GwtInv, PendingHasNoCaller, schedVars
  <2> QED  BY <1>1, <1>3, <2>1, SlotsKept DEF GwtTypeOK, schedVars
<1> QED  BY <1>9, <1>10, <1>11 DEF GwtInv

(* Steps that leave the queue and the callers alone. *)
LEMMA ExecutorStep ==
    ASSUME GwtInv, NEW t \in GwTasks, ExecStarts(t) \/ ExecSucceeds(t) \/ ExecCommits(t)
    PROVE  GwtInv'
<1>1. GwtTypeOK
  BY DEF GwtInv
<1>2. /\ UNCHANGED <<key, cancelled, retries, queueVars, schedVars, nodesUp>>
      /\ ended' \subseteq GwTasks
      /\ nodeID' \in [GwTasks -> WorkNodes \cup {NoNode}]
      /\ exec' \in [GwTasks -> {"none", "taken", "infer", "commit"}]
  <2>1. UNCHANGED <<key, cancelled, retries, queueVars, schedVars, nodesUp>>
    BY DEF ExecStarts, ExecSucceeds, ExecCommits, fieldVars
  <2>2. ended' = ended \/ ended' = ended \cup {t}
    BY DEF ExecStarts, ExecSucceeds, ExecCommits, fieldVars
  <2>3. nodeID' = nodeID \/ \E n \in WorkNodes : nodeID' = [nodeID EXCEPT ![t] = n]
    BY DEF ExecStarts, ExecSucceeds, ExecCommits, fieldVars, SetField
  <2>4. \E v \in {"none", "infer", "commit"} : exec' = [exec EXCEPT ![t] = v]
    BY DEF ExecStarts, ExecSucceeds, ExecCommits, SetField
  <2>5. /\ ended \subseteq GwTasks /\ nodeID \in [GwTasks -> WorkNodes \cup {NoNode}]
        /\ exec \in [GwTasks -> {"none", "taken", "infer", "commit"}]
    BY <1>1 DEF GwtTypeOK
  <2>6. nodeID' \in [GwTasks -> WorkNodes \cup {NoNode}]
    BY <2>3, <2>5
  <2>7. exec' \in [GwTasks -> {"none", "taken", "infer", "commit"}]
    BY <2>4, <2>5
  <2> QED  BY <2>1, <2>2, <2>5, <2>6, <2>7
<1>3. /\ state' \in [GwTasks -> TaskStates]
      /\ \A u \in GwTasks : state'[u] \in {state[u], "running", "completed"}
  <2>1. state \in [GwTasks -> TaskStates] /\ "running" \in TaskStates /\ "completed" \in TaskStates
    BY <1>1 DEF GwtTypeOK, TaskStates
  <2>2. \/ state' = [state EXCEPT ![t] = "running"] \/ state' = [state EXCEPT ![t] = "completed"]
        \/ state' = state
    BY DEF ExecStarts, ExecSucceeds, ExecCommits, SetField, fieldVars
  <2> QED  BY <2>1, <2>2
<1>4. GwtTypeOK'
  BY <1>1, <1>2, <1>3 DEF GwtTypeOK, queueVars, schedVars
<1>5. OneTaskPerKey'
  BY <1>2, KeysKept DEF queueVars
<1>6. SlotsAreHeld' /\ HoldsWhileExecuting' /\ PendingHasNoCaller'
  <2>1. \A u \in GwTasks : state'[u] = "pending" => sched'[u] = "none"
    BY <1>2, <1>3 DEF GwtInv, PendingHasNoCaller, schedVars
  <2> QED  BY <1>1, <1>2, <2>1, SlotsKept DEF GwtTypeOK, schedVars
<1> QED  BY <1>4, <1>5, <1>6 DEF GwtInv

(* A task that is put back, or fails for good. *)
LEMMA PutBackStep ==
    ASSUME GwtInv, NEW t \in GwTasks, ExecFails(t) \/ CheckStuckTask(t) PROVE GwtInv'
<1>1. GwtTypeOK
  BY DEF GwtInv
<1>2. /\ UNCHANGED <<key, cancelled, schedVars, nodesUp>>
      /\ exec' \in [GwTasks -> {"none", "taken", "infer", "commit"}]
      /\ retries' \in [GwTasks -> Nat]
  <2>1. /\ retries \in [GwTasks -> Nat]
        /\ exec \in [GwTasks -> {"none", "taken", "infer", "commit"}]
    BY <1>1 DEF GwtTypeOK
  <2>2. UNCHANGED <<key, cancelled, schedVars, nodesUp>>
    BY DEF ExecFails, CheckStuckTask
  <2>3. exec' = exec \/ exec' = [exec EXCEPT ![t] = "none"]
    BY DEF ExecFails, CheckStuckTask, SetField
  <2>4. retries' = retries \/ retries' = [retries EXCEPT ![t] = retries[t] + 1]
    BY DEF ExecFails, CheckStuckTask, SetField
  <2>5. exec' \in [GwTasks -> {"none", "taken", "infer", "commit"}]
    BY <2>1, <2>3
  <2>6. retries' \in [GwTasks -> Nat]
    BY <2>1, <2>4
  <2> QED  BY <2>2, <2>5, <2>6
<1>3. \/ Enqueue(t, "queued") /\ nodeID' = SetField(nodeID, t, NoNode) /\ UNCHANGED ended
      \/ /\ state' = SetField(state, t, "failed") /\ ended' = ended \cup {t}
         /\ UNCHANGED <<nodeID, queueVars>>
      \/ UpdateTask(t, "running", "failed") /\ UNCHANGED <<nodeID, queueVars>>
  BY DEF ExecFails, CheckStuckTask
<1>4. "queued" \in TaskStates /\ "failed" \in TaskStates /\ "running" \in TaskStates
  BY DEF TaskStates
<1>5. /\ state' \in [GwTasks -> TaskStates] /\ ended' \subseteq GwTasks
      /\ nodeID' \in [GwTasks -> WorkNodes \cup {NoNode}]
      /\ stored' \subseteq GwTasks /\ waiting' \in Seq(GwTasks)
      /\ Len(waiting') <= MaxQueueSize /\ dedupSet' \subseteq DedupKeys /\ OneTaskPerKey'
      /\ \A u \in GwTasks : u # t => state'[u] = state[u]
      /\ state'[t] # "pending"
  <2>1. CASE Enqueue(t, "queued") /\ nodeID' = SetField(nodeID, t, NoNode) /\ UNCHANGED ended
    <3>1. nodeID' \in [GwTasks -> WorkNodes \cup {NoNode}]
      BY <1>1, <2>1, TypedField DEF GwtTypeOK
    <3>2. key' = key /\ ended' \subseteq GwTasks
      BY <1>1, <1>2, <2>1 DEF GwtTypeOK
    <3> QED  BY <1>4, <2>1, <3>1, <3>2, EnqueueKeeps DEF OneTaskPerKey
  <2>2. CASE /\ state' = SetField(state, t, "failed") /\ ended' = ended \cup {t}
             /\ UNCHANGED <<nodeID, queueVars>>
    <3>1. OneTaskPerKey'
      BY <1>2, <2>2, KeysKept DEF queueVars
    <3>2. state' \in [GwTasks -> TaskStates] /\ (\A u \in GwTasks : u # t => state'[u] = state[u])
          /\ state'[t] = "failed"
      BY <1>1, <1>4, <2>2 DEF GwtTypeOK, SetField
    <3> QED  BY <1>1, <2>2, <3>1, <3>2 DEF GwtTypeOK, queueVars
  <2>3. CASE UpdateTask(t, "running", "failed") /\ UNCHANGED <<nodeID, queueVars>>
    <3>1. OneTaskPerKey'
      BY <1>2, <2>3, KeysKept DEF queueVars
    <3>2. /\ state' \in [GwTasks -> TaskStates] /\ ended' \subseteq GwTasks
          /\ \A u \in GwTasks : u # t => state'[u] = state[u]
          /\ state'[t] \in {"running", "failed"}
      BY <1>4, <2>3, UpdateKeeps
    <3> QED  BY <1>1, <2>3, <3>1, <3>2 DEF GwtTypeOK, queueVars
  <2> QED  BY <1>3, <2>1, <2>2, <2>3
<1>6. GwtTypeOK'
  BY <1>1, <1>2, <1>5 DEF GwtTypeOK, schedVars
<1>7. SlotsAreHeld' /\ HoldsWhileExecuting' /\ PendingHasNoCaller'
  <2>1. \A u \in GwTasks : state'[u] = "pending" => sched'[u] = "none"
    BY <1>2, <1>5 DEF GwtInv, PendingHasNoCaller, schedVars
  <2> QED  BY <1>1, <1>2, <2>1, SlotsKept DEF GwtTypeOK, schedVars
<1> QED  BY <1>5, <1>6, <1>7 DEF GwtInv

LEMMA DetectStep == ASSUME GwtInv, NEW t \in GwTasks, DetectStuck(t) PROVE GwtInv'
<1> USE DEF DetectStuck
<1>1. GwtTypeOK /\ "running" \in TaskStates /\ "failed" \in TaskStates
  BY DEF GwtInv, TaskStates
<1>2. /\ state' \in [GwTasks -> TaskStates] /\ ended' \subseteq GwTasks
      /\ \A u \in GwTasks : u # t => state'[u] = state[u]
      /\ state'[t] \in {"running", "failed"}
  BY <1>1, UpdateKeeps
<1>3. GwtTypeOK'
  BY <1>1, <1>2 DEF GwtTypeOK, queueVars, schedVars
<1>4. OneTaskPerKey'
  BY KeysKept DEF queueVars
<1>5. SlotsAreHeld' /\ HoldsWhileExecuting' /\ PendingHasNoCaller'
  <2>1. \A u \in GwTasks : state'[u] = "pending" => sched'[u] = "none"
    BY <1>2 DEF GwtInv, PendingHasNoCaller, schedVars
  <2> QED  BY <1>1, <2>1, SlotsKept DEF GwtTypeOK, schedVars
<1> QED  BY <1>3, <1>4, <1>5 DEF GwtInv

\* the callers

LEMMA OverKeeps ==
    ASSUME GwtInv, NEW t \in GwTasks, NEW new \in TaskStates, Over(t, state[t], new),
           new # "pending"
    PROVE  /\ state' \in [GwTasks -> TaskStates] /\ ended' \subseteq GwTasks
           /\ sched' \in [GwTasks -> {"none", "select", "execute", "backoff"}]
           /\ \A u \in GwTasks : sched'[u] = IF u = t THEN "none" ELSE sched[u]
           /\ \A u \in GwTasks : state'[u] = "pending" => sched'[u] = "none"
<1>1. state[t] \in TaskStates /\ sched \in [GwTasks -> {"none", "select", "execute", "backoff"}]
  BY DEF GwtInv, GwtTypeOK
<1>2. sched' = [sched EXCEPT ![t] = "none"] /\ UpdateTask(t, state[t], new)
  BY DEF Over, SetField
<1>3. /\ state' \in [GwTasks -> TaskStates] /\ ended' \subseteq GwTasks
      /\ \A u \in GwTasks : u # t => state'[u] = state[u]
  BY <1>1, <1>2, UpdateKeeps
<1>4. /\ sched' \in [GwTasks -> {"none", "select", "execute", "backoff"}]
      /\ \A u \in GwTasks : sched'[u] = IF u = t THEN "none" ELSE sched[u]
  BY <1>1, <1>2
<1> QED  BY <1>3, <1>4 DEF GwtInv, PendingHasNoCaller

LEMMA HeldFinite == \A n : IsFiniteSet(HeldBy(n)) /\ Cardinality(HeldBy(n)) \in Nat
<1> SUFFICES ASSUME NEW n PROVE IsFiniteSet(HeldBy(n)) /\ Cardinality(HeldBy(n)) \in Nat
  OBVIOUS
<1>1. HeldBy(n) \subseteq GwTasks
  BY DEF HeldBy
<1>2. IsFiniteSet(HeldBy(n))
  BY <1>1, TaskSizes, FS_Subset
<1> QED  BY <1>2, FS_CardinalityType

LEMMA SchedSelectStep == ASSUME GwtInv, NEW t \in GwTasks, SchedSelect(t) PROVE GwtInv'
<1> USE DEF SchedSelect
<1>1. GwtTypeOK /\ sched[t] = "select"
  BY DEF GwtInv
<1>2. "cancelled" \in TaskStates /\ "failed" \in TaskStates /\ "running" \in TaskStates
  BY DEF TaskStates
<1>3. OneTaskPerKey'
  BY KeysKept DEF queueVars
<1>4. CASE (Over(t, state[t], "cancelled") \/ Over(t, state[t], "failed"))
           /\ UNCHANGED <<nodeID, holds, active>>
  <2>1. /\ state' \in [GwTasks -> TaskStates] /\ ended' \subseteq GwTasks
        /\ sched' \in [GwTasks -> {"none", "select", "execute", "backoff"}]
        /\ \A u \in GwTasks : sched'[u] = IF u = t THEN "none" ELSE sched[u]
        /\ \A u \in GwTasks : state'[u] = "pending" => sched'[u] = "none"
    BY <1>2, <1>4, OverKeeps
  <2>2. GwtTypeOK'
    BY <1>1, <1>4, <2>1 DEF GwtTypeOK, queueVars
  <2>3. SlotsAreHeld' /\ HoldsWhileExecuting' /\ PendingHasNoCaller'
    BY <1>1, <1>4, <2>1, SlotsKept
  <2> QED  BY <1>3, <2>2, <2>3 DEF GwtInv
<1>5. ASSUME NEW n \in FreeNodes,
             active' = [active EXCEPT ![n] = @ + 1], holds' = SetField(holds, t, n),
             nodeID' = SetField(nodeID, t, n), state' = SetField(state, t, "running"),
             sched' = SetField(sched, t, "execute"), UNCHANGED ended
      PROVE  GwtInv'
  <2>1. n \in WorkNodes /\ active[n] < PerNode /\ active[n] \in Nat
    BY <1>1 DEF FreeNodes, GwtTypeOK
  <2>2. /\ active' \in [WorkNodes -> Nat]
        /\ \A m \in WorkNodes : active'[m] = IF m = n THEN active[m] + 1 ELSE active[m]
    BY <1>1, <1>5, <2>1 DEF GwtTypeOK
  <2>3. /\ holds' \in [GwTasks -> WorkNodes \cup {NoNode}]
        /\ \A u \in GwTasks : holds'[u] = IF u = t THEN n ELSE holds[u]
    BY <1>1, <1>5, <2>1 DEF GwtTypeOK, SetField
  <2>4. nodeID' \in [GwTasks -> WorkNodes \cup {NoNode}]
    BY <1>1, <1>5, <2>1 DEF GwtTypeOK, SetField
  <2>5. /\ state' \in [GwTasks -> TaskStates]
        /\ \A u \in GwTasks : state'[u] = IF u = t THEN "running" ELSE state[u]
    BY <1>1, <1>2, <1>5 DEF GwtTypeOK, SetField
  <2>6. /\ sched' \in [GwTasks -> {"none", "select", "execute", "backoff"}]
        /\ \A u \in GwTasks : sched'[u] = IF u = t THEN "execute" ELSE sched[u]
    BY <1>1, <1>5 DEF GwtTypeOK, SetField
  <2>7. GwtTypeOK'
    BY <1>1, <1>5, <2>2, <2>3, <2>4, <2>5, <2>6 DEF GwtTypeOK, queueVars
  <2>8. HoldsWhileExecuting' /\ PendingHasNoCaller'
    BY <2>1, <2>3, <2>5, <2>6, TaskSizes DEF GwtInv, HoldsWhileExecuting, PendingHasNoCaller
  <2>9. SlotsAreHeld'
    <3> SUFFICES ASSUME NEW m \in WorkNodes
                 PROVE  active'[m] = Cardinality(HeldBy(m)') /\ active'[m] <= PerNode
      BY DEF SlotsAreHeld, HeldBy
    <3>1. active[m] = Cardinality(HeldBy(m)) /\ active[m] <= PerNode /\ active[m] \in Nat
      BY <1>1 DEF GwtInv, SlotsAreHeld, HeldBy, GwtTypeOK
    <3>2. holds[t] = NoNode
      BY <1>1 DEF GwtInv, HoldsWhileExecuting
    <3>3. t \notin HeldBy(m)
      BY <3>2, TaskSizes DEF HeldBy
    <3>4. CASE m = n
      <4> DEFINE S == HeldBy(m)
                 T == HeldBy(m)'
      <4>1. T = S \cup {t} /\ t \notin S /\ IsFiniteSet(S)
        BY <2>3, <3>3, <3>4, HeldFinite DEF HeldBy
      <4> HIDE DEF S, T
      <4>2. Cardinality(T) = Cardinality(S) + 1
        BY <4>1, FS_AddElement
      <4>3. Cardinality(HeldBy(m)') = Cardinality(HeldBy(m)) + 1
        BY <4>2 DEF S, T
      <4> QED  BY <2>1, <2>2, <3>1, <3>4, <4>3, TaskSizes
    <3>5. CASE m # n
      <4>1. HeldBy(m)' = HeldBy(m)
        BY <2>3, <3>3, <3>5 DEF HeldBy
      <4> QED  BY <2>2, <3>1, <3>5, <4>1
    <3> QED  BY <3>4, <3>5
  <2> QED  BY <1>3, <2>7, <2>8, <2>9 DEF GwtInv
<1> QED  BY <1>4, <1>5

(* The slot is given back. *)
LEMMA Released ==
    ASSUME GwtInv, NEW t \in GwTasks, sched[t] = "execute", Release(t)
    PROVE  /\ active' \in [WorkNodes -> Nat] /\ holds' \in [GwTasks -> WorkNodes \cup {NoNode}]
           /\ SlotsAreHeld'
           /\ \A u \in GwTasks : holds'[u] = IF u = t THEN NoNode ELSE holds[u]
<1> DEFINE n == holds[t]
<1>1. /\ holds \in [GwTasks -> WorkNodes \cup {NoNode}] /\ active \in [WorkNodes -> Nat]
      /\ n \in WorkNodes
  BY DEF GwtInv, GwtTypeOK, HoldsWhileExecuting
<1>2. /\ holds' \in [GwTasks -> WorkNodes \cup {NoNode}]
      /\ \A u \in GwTasks : holds'[u] = IF u = t THEN NoNode ELSE holds[u]
  BY <1>1 DEF Release, SetField
<1>3. \A m \in WorkNodes :
        active[m] = Cardinality(HeldBy(m)) /\ active[m] <= PerNode /\ active[m] \in Nat
  BY <1>1 DEF GwtInv, SlotsAreHeld, HeldBy
<1>4. Cardinality(HeldBy(n)) > 0
  <2>1. t \in HeldBy(n)
    BY DEF HeldBy
  <2>2. HeldBy(n) # {}
    BY <2>1
  <2> HIDE DEF n
  <2> QED  BY <2>2, HeldFinite, FS_EmptySet
<1>5. active' = [active EXCEPT ![n] = @ - 1]
  BY DEF Release
<1> HIDE DEF n
<1>6. /\ active' \in [WorkNodes -> Nat]
      /\ \A m \in WorkNodes : active'[m] = IF m = n THEN active[m] - 1 ELSE active[m]
  <2>1. active[n] - 1 \in Nat
    BY <1>1, <1>3, <1>4
  <2> QED  BY <1>1, <1>5, <2>1
<1>7. SlotsAreHeld'
  <2> SUFFICES ASSUME NEW m \in WorkNodes
               PROVE  active'[m] = Cardinality(HeldBy(m)') /\ active'[m] <= PerNode
    BY DEF SlotsAreHeld, HeldBy
  <2> DEFINE S == HeldBy(m)
             T == HeldBy(m)'
  <2>1. T = S \ {t} /\ IsFiniteSet(S)
    BY <1>1, <1>2, HeldFinite, TaskSizes DEF HeldBy
  <2>2. t \in S <=> m = n
    BY DEF HeldBy, n
  <2> HIDE DEF S, T
  <2>3. Cardinality(T) = IF t \in S THEN Cardinality(S) - 1 ELSE Cardinality(S)
    BY <2>1, FS_RemoveElement
  <2>4. Cardinality(HeldBy(m)') = IF m = n THEN Cardinality(HeldBy(m)) - 1 ELSE Cardinality(HeldBy(m))
    BY <2>2, <2>3 DEF S, T
  <2> QED  BY <1>3, <1>6, <2>4, TaskSizes
<1> QED  BY <1>2, <1>6, <1>7

LEMMA SchedReturnsStep == ASSUME GwtInv, NEW t \in GwTasks, SchedReturns(t) PROVE GwtInv'
<1> USE DEF SchedReturns
<1>1. GwtTypeOK /\ sched[t] = "execute" /\ Release(t)
  BY DEF GwtInv
<1>2. /\ active' \in [WorkNodes -> Nat] /\ holds' \in [GwTasks -> WorkNodes \cup {NoNode}]
      /\ SlotsAreHeld'
      /\ \A u \in GwTasks : holds'[u] = IF u = t THEN NoNode ELSE holds[u]
  BY <1>1, Released
<1>3. OneTaskPerKey'
  BY KeysKept DEF queueVars
<1>4. state[t] # "pending"
  BY <1>1 DEF GwtInv, PendingHasNoCaller
<1>5. /\ state' \in [GwTasks -> TaskStates] /\ ended' \subseteq GwTasks
      /\ sched' \in [GwTasks -> {"none", "select", "execute", "backoff"}]
      /\ \A u \in GwTasks : u # t => sched'[u] = sched[u]
      /\ sched'[t] # "execute"
      /\ \A u \in GwTasks : state'[u] = "pending" => sched'[u] = "none"
  <2>1. CASE Over(t, state[t], "cancelled")
    <3>1. "cancelled" \in TaskStates
      BY DEF TaskStates
    <3> QED  BY <2>1, <3>1, OverKeeps
  <2>2. CASE /\ sched' = SetField(sched, t, "none")
             /\ state' = SetField(state, t, "completed") \/ state' = SetField(state, t, "failed")
             /\ ended' = ended \cup {t}
    <3>1. "completed" \in TaskStates /\ "failed" \in TaskStates
      BY DEF TaskStates
    <3>2. /\ state' \in [GwTasks -> TaskStates] /\ ended' \subseteq GwTasks
          /\ \A u \in GwTasks : u # t => state'[u] = state[u]
      BY <1>1, <2>2, <3>1 DEF GwtTypeOK, SetField
    <3>3. /\ sched' \in [GwTasks -> {"none", "select", "execute", "backoff"}]
          /\ \A u \in GwTasks : sched'[u] = IF u = t THEN "none" ELSE sched[u]
      BY <1>1, <2>2 DEF GwtTypeOK, SetField
    <3> QED  BY <3>2, <3>3 DEF GwtInv, PendingHasNoCaller
  <2>3. CASE sched' = SetField(sched, t, "backoff") /\ UNCHANGED <<state, ended>>
    <3>1. /\ sched' \in [GwTasks -> {"none", "select", "execute", "backoff"}]
          /\ \A u \in GwTasks : sched'[u] = IF u = t THEN "backoff" ELSE sched[u]
      BY <1>1, <2>3 DEF GwtTypeOK, SetField
    <3> QED  BY <1>1, <1>4, <2>3, <3>1 DEF GwtTypeOK, GwtInv, PendingHasNoCaller
  <2> QED  BY <2>1, <2>2, <2>3
<1>6. retries' \in [GwTasks -> Nat] /\ attempt' \in [GwTasks -> 0..SchedRetries]
  <2>1. \/ UNCHANGED <<retries, attempt>>
        \/ /\ attempt[t] < SchedRetries
           /\ attempt' = SetField(attempt, t, attempt[t] + 1)
           /\ retries' = SetField(retries, t, attempt[t] + 1)
    OBVIOUS
  <2>2. attempt[t] < SchedRetries => attempt[t] + 1 \in 0..SchedRetries /\ attempt[t] + 1 \in Nat
    BY <1>1, TaskSizes DEF GwtTypeOK
  <2>3. retries \in [GwTasks -> Nat] /\ attempt \in [GwTasks -> 0..SchedRetries]
    BY <1>1 DEF GwtTypeOK
  <2>4. CASE UNCHANGED <<retries, attempt>>
    BY <2>3, <2>4
  <2>5. CASE /\ attempt[t] < SchedRetries
             /\ attempt' = [attempt EXCEPT ![t] = attempt[t] + 1]
             /\ retries' = [retries EXCEPT ![t] = attempt[t] + 1]
    BY <2>2, <2>3, <2>5
  <2> QED  BY <2>1, <2>4, <2>5 DEF SetField
<1>7. GwtTypeOK'
  BY <1>1, <1>2, <1>5, <1>6 DEF GwtTypeOK, queueVars
<1>8. HoldsWhileExecuting' /\ PendingHasNoCaller'
  BY <1>2, <1>5 DEF GwtInv, HoldsWhileExecuting, PendingHasNoCaller
<1> QED  BY <1>2, <1>3, <1>7, <1>8 DEF GwtInv

LEMMA SchedBackoffStep == ASSUME GwtInv, NEW t \in GwTasks, SchedBackoff(t) PROVE GwtInv'
<1> USE DEF SchedBackoff
<1>1. GwtTypeOK /\ sched[t] = "backoff" /\ state[t] # "pending"
  BY DEF GwtInv, PendingHasNoCaller
<1>2. OneTaskPerKey'
  BY KeysKept DEF queueVars
<1>3. /\ state' \in [GwTasks -> TaskStates] /\ ended' \subseteq GwTasks
      /\ sched' \in [GwTasks -> {"none", "select", "execute", "backoff"}]
      /\ \A u \in GwTasks : sched'[u] = "execute" <=> sched[u] = "execute"
      /\ \A u \in GwTasks : state'[u] = "pending" => sched'[u] = "none"
  <2>1. CASE Over(t, state[t], "cancelled")
    <3>1. "cancelled" \in TaskStates
      BY DEF TaskStates
    <3> QED  BY <1>1, <2>1, <3>1, OverKeeps
  <2>2. CASE sched' = SetField(sched, t, "select") /\ UNCHANGED <<state, ended>>
    <3>1. /\ sched' \in [GwTasks -> {"none", "select", "execute", "backoff"}]
          /\ \A u \in GwTasks : sched'[u] = IF u = t THEN "select" ELSE sched[u]
      BY <1>1, <2>2 DEF GwtTypeOK, SetField
    <3> QED  BY <1>1, <2>2, <3>1 DEF GwtTypeOK, GwtInv, PendingHasNoCaller
  <2> QED  BY <2>1, <2>2
<1>4. GwtTypeOK'
  BY <1>1, <1>3 DEF GwtTypeOK, queueVars
<1>5. SlotsAreHeld' /\ HoldsWhileExecuting' /\ PendingHasNoCaller'
  BY <1>3, SlotsKept
<1> QED  BY <1>2, <1>4, <1>5 DEF GwtInv

LEMMA GwtStepInv == GwtInv /\ [GwtNext]_gwtVars => GwtInv'
<1> SUFFICES ASSUME GwtInv, [GwtNext]_gwtVars PROVE GwtInv'
  OBVIOUS
<1>1. ASSUME \/ UNCHANGED gwtVars
             \/ \E n \in WorkNodes : NodeTurns(n)
      PROVE  GwtInv'
  <2>1. UNCHANGED <<key, fieldVars, cancelled, queueVars, exec, schedVars>> /\ nodesUp' \subseteq WorkNodes
    BY <1>1 DEF NodeTurns, gwtVars, fieldVars, queueVars, schedVars, GwtInv, GwtTypeOK
  <2>2. GwtTypeOK'
    BY <2>1 DEF GwtInv, GwtTypeOK, fieldVars, queueVars, schedVars
  <2>3. OneTaskPerKey'
    BY <2>1, KeysKept DEF queueVars
  <2>4. SlotsAreHeld' /\ HoldsWhileExecuting' /\ PendingHasNoCaller'
    BY <2>1, SlotsKept DEF GwtInv, GwtTypeOK, fieldVars, schedVars, PendingHasNoCaller
  <2> QED  BY <2>2, <2>3, <2>4 DEF GwtInv
<1>2. CASE Dequeue
  BY <1>2, DequeueStep
<1>3. ASSUME NEW t \in GwTasks, \/ Submit(t) \/ CancelTask(t) \/ CleanupCompleted(t)
                                \/ CheckStuckTask(t) \/ DetectStuck(t)
      PROVE  GwtInv'
  BY <1>3, SubmitStep, CancelStep, CleanupStep, PutBackStep, DetectStep
<1>4. ASSUME NEW t \in GwTasks, \/ ExecStarts(t) \/ ExecFails(t) \/ ExecSucceeds(t) \/ ExecCommits(t)
      PROVE  GwtInv'
  BY <1>4, ExecutorStep, PutBackStep
<1>5. ASSUME NEW t \in GwTasks, SchedSelect(t) \/ SchedReturns(t) \/ SchedBackoff(t) PROVE GwtInv'
  BY <1>5, SchedSelectStep, SchedReturnsStep, SchedBackoffStep
<1> QED  BY <1>1, <1>2, <1>3, <1>4, <1>5 DEF GwtNext

(* Keys belong to the stored tasks, one to each, and slots to the callers that run. *)
THEOREM TasksAreAccounted == GwtSpec => []OneTaskPerKey /\ []SlotsAreHeld
<1>1. GwtInit => GwtInv
  BY GwtInitInv
<1>2. GwtInv /\ [GwtNext]_gwtVars => GwtInv'
  BY GwtStepInv
<1>3. GwtInv => OneTaskPerKey /\ SlotsAreHeld
  BY DEF GwtInv
<1> QED  BY <1>1, <1>2, <1>3, PTL DEF GwtSpec

-----------------------------------------------------------------------------
(* TaskRecords. The keys of the cache are as many as its size allows. *)
CacheInv == /\ cached \subseteq CacheKeys /\ older \subseteq cached \X cached
            /\ expired \subseteq cached /\ removing \in [CacheReaders -> SUBSET CacheKeys]
            /\ IsFiniteSet(cached) /\ Cardinality(cached) <= CacheMax

(* A running count covers the requests that are open on a node: more than what is
   tracked there, for an orphan's end counts down as well. *)
OpenOn(n) == {t \in TrackedTasks : open[t] = n}
OpenIsCounted == \A n \in TrackedNodes : Cardinality(OpenOn(n)) <= runningOn[n]
TrackedIsOpen == \A t \in TrackedTasks : tracked[t] \in {open[t], Untracked}
TrackInv == /\ tracked \in [TrackedTasks -> TrackedNodes \cup {Untracked}]
            /\ open \in [TrackedTasks -> TrackedNodes \cup {Untracked}]
            /\ details \subseteq TrackedTasks
            /\ runningOn \in [TrackedNodes -> 0..MaxStarts]
            /\ records \in 0..HistorySize
            /\ OpenIsCounted /\ TrackedIsOpen

RecordsInv == CacheInv /\ TrackInv

LEMMA RecordSizes == /\ CacheMax \in Nat /\ CacheMax > 0 /\ MaxStarts \in Nat /\ MaxStarts > 0
                     /\ HistorySize \in Nat /\ HistorySize > 0
                     /\ IsFiniteSet(TrackedTasks) /\ Untracked \notin TrackedNodes
  BY RecordsAssumption DEF RecordsAssumption

\* the cache

LEMMA Eviction ==
    ASSUME CacheInv, NEW gone, Oldest(gone)
    PROVE  /\ Cardinality(gone) \in Nat /\ Cardinality(gone) > 0 /\ IsFiniteSet(cached \ gone)
           /\ Cardinality(cached \ gone) = Cardinality(cached) - Cardinality(gone)
           /\ Cardinality(cached) \in Nat
<1>1. gone \subseteq cached /\ IsFiniteSet(cached) /\ IsFiniteSet(gone)
  BY FS_Subset DEF CacheInv, Oldest
<1>2. Cardinality(gone) \in Nat /\ Cardinality(cached) \in Nat
  BY <1>1, FS_CardinalityType
<1>3. Cardinality(gone) > 0
  BY <1>2 DEF Oldest, Evicted
<1>4. cached \cap gone = gone
  BY <1>1
<1>5. IsFiniteSet(cached \ gone)
      /\ Cardinality(cached \ gone) = Cardinality(cached) - Cardinality(cached \cap gone)
  BY <1>1, FS_Difference
<1> QED  BY <1>2, <1>3, <1>4, <1>5

LEMMA CacheSetStep == ASSUME CacheInv, NEW k \in CacheKeys, CacheSet(k) PROVE CacheInv'
<1>1. PICK gone \in SUBSET cached :
         /\ IF Cardinality(cached) >= CacheMax THEN Oldest(gone) ELSE gone = {}
         /\ cached' = ((cached \ gone) \ {k}) \cup {k}
         /\ expired' = expired \cap ((cached \ gone) \ {k})
         /\ older' = (older \cap (((cached \ gone) \ {k}) \X ((cached \ gone) \ {k})))
                       \cup (((cached \ gone) \ {k}) \X {k})
  BY DEF CacheSet
<1> DEFINE others == (cached \ gone) \ {k}
<1>2. IsFiniteSet(cached \ gone) /\ Cardinality(cached \ gone) \in Nat
      /\ Cardinality(cached \ gone) < CacheMax
  <2>1. CASE Cardinality(cached) >= CacheMax
    <3>1. /\ Cardinality(gone) \in Nat /\ Cardinality(gone) > 0 /\ IsFiniteSet(cached \ gone)
          /\ Cardinality(cached \ gone) = Cardinality(cached) - Cardinality(gone)
          /\ Cardinality(cached) \in Nat
      BY <1>1, <2>1, Eviction
    <3>2. Cardinality(cached) <= CacheMax /\ Cardinality(cached \ gone) \in Nat
      BY <3>1, FS_CardinalityType DEF CacheInv
    <3> QED  BY <3>1, <3>2, RecordSizes
  <2>2. CASE ~(Cardinality(cached) >= CacheMax)
    <3>1. cached \ gone = cached
      BY <1>1, <2>2
    <3>2. IsFiniteSet(cached) /\ Cardinality(cached) \in Nat
      BY FS_CardinalityType DEF CacheInv
    <3> QED  BY <2>2, <3>1, <3>2, RecordSizes
  <2> QED  BY <2>1, <2>2
<1>3. IsFiniteSet(others) /\ Cardinality(others) \in Nat /\ Cardinality(others) < CacheMax
  <2>1. others \subseteq cached \ gone
    OBVIOUS
  <2> HIDE DEF others
  <2>2. IsFiniteSet(others) /\ Cardinality(others) <= Cardinality(cached \ gone)
    BY <1>2, <2>1, FS_Subset
  <2> QED  BY <1>2, <2>2, FS_CardinalityType, RecordSizes
<1>4. cached' = others \cup {k} /\ k \notin others /\ others \subseteq cached
      /\ expired' = expired \cap others
      /\ older' = (older \cap (others \X others)) \cup (others \X {k})
  BY <1>1
<1> HIDE DEF others
<1>5. IsFiniteSet(cached') /\ Cardinality(cached') <= CacheMax
  <2>1. IsFiniteSet(cached') /\ Cardinality(cached') = Cardinality(others) + 1
    BY <1>3, <1>4, FS_AddElement
  <2> QED  BY <1>3, <2>1, RecordSizes
<1>6. cached' \subseteq CacheKeys /\ expired' \subseteq cached' /\ older' \subseteq cached' \X cached'
  BY <1>4 DEF CacheInv
<1> QED  BY <1>5, <1>6 DEF CacheInv, CacheSet

LEMMA DroppedStep ==
    ASSUME CacheInv, NEW K, Dropped(K), removing' \in [CacheReaders -> SUBSET CacheKeys]
    PROVE  CacheInv'
<1>1. cached' \subseteq cached /\ IsFiniteSet(cached)
  BY DEF Dropped, CacheInv
<1>2. IsFiniteSet(cached') /\ Cardinality(cached') <= Cardinality(cached)
  BY <1>1, FS_Subset
<1>3. Cardinality(cached') <= CacheMax
  BY <1>1, <1>2, FS_CardinalityType, RecordSizes DEF CacheInv
<1> QED  BY <1>1, <1>2, <1>3 DEF CacheInv, Dropped

LEMMA CacheStep ==
    ASSUME CacheInv, CacheNext PROVE CacheInv' /\ UNCHANGED trackVars
<1>1. ASSUME NEW k \in CacheKeys, CacheSet(k) PROVE CacheInv' /\ UNCHANGED trackVars
  BY <1>1, CacheSetStep DEF CacheSet
<1>2. ASSUME NEW k \in CacheKeys, CacheExpires(k) PROVE CacheInv' /\ UNCHANGED trackVars
  BY <1>2 DEF CacheExpires, CacheInv
<1>3. ASSUME NEW k \in CacheKeys, CacheDelete(k) PROVE CacheInv' /\ UNCHANGED trackVars
  BY <1>3, DroppedStep DEF CacheDelete, CacheInv
<1>4. ASSUME NEW k \in CacheKeys, NEW r \in CacheReaders, CacheGet(r, k)
      PROVE  CacheInv' /\ UNCHANGED trackVars
  <2>1. removing' \in [CacheReaders -> SUBSET CacheKeys]
    BY <1>4 DEF CacheGet, CacheInv
  <2> QED  BY <1>4, <2>1 DEF CacheGet, CacheInv
<1>5. ASSUME NEW r \in CacheReaders, RemoveExpired(r) PROVE CacheInv' /\ UNCHANGED trackVars
  <2>1. removing' \in [CacheReaders -> SUBSET CacheKeys]
    BY <1>5 DEF RemoveExpired, CacheInv
  <2> QED  BY <1>5, <2>1, DroppedStep DEF RemoveExpired
<1>6. CASE CleanupExpired
  BY <1>6, DroppedStep DEF CleanupExpired, CacheInv
<1> QED  BY <1>1, <1>2, <1>3, <1>4, <1>5, <1>6 DEF CacheNext

\* the tracker

LEMMA OpenFinite ==
    \A n : IsFiniteSet(OpenOn(n)) /\ Cardinality(OpenOn(n)) \in Nat
<1> SUFFICES ASSUME NEW n PROVE IsFiniteSet(OpenOn(n)) /\ Cardinality(OpenOn(n)) \in Nat
  OBVIOUS
<1>1. OpenOn(n) \subseteq TrackedTasks
  BY DEF OpenOn
<1>2. IsFiniteSet(OpenOn(n))
  BY <1>1, RecordSizes, FS_Subset
<1> QED  BY <1>2, FS_CardinalityType

LEMMA Decremented ==
    ASSUME TrackInv, NEW n
    PROVE  /\ Decrement(n) \in [TrackedNodes -> 0..MaxStarts]
           /\ \A m \in TrackedNodes : Decrement(n)[m] =
                 IF m = n /\ runningOn[n] > 0 THEN runningOn[n] - 1 ELSE runningOn[m]
<1>1. runningOn \in [TrackedNodes -> 0..MaxStarts]
  BY DEF TrackInv
<1>2. CASE n \in TrackedNodes /\ runningOn[n] > 0
  <2>1. runningOn[n] - 1 \in 0..MaxStarts
    BY <1>1, <1>2, RecordSizes
  <2>2. Decrement(n) = [runningOn EXCEPT ![n] = @ - 1]
    BY <1>2 DEF Decrement
  <2> QED  BY <1>1, <1>2, <2>1, <2>2
<1>3. CASE ~(n \in TrackedNodes /\ runningOn[n] > 0)
  BY <1>1, <1>3 DEF Decrement
<1> QED  BY <1>2, <1>3

LEMMA StartStep ==
    ASSUME TrackInv, NEW t \in TrackedTasks, NEW n \in TrackedNodes, RecordRequestStart(t, n)
    PROVE  TrackInv'
<1> DEFINE moved == IF tracked[t] # n THEN Decrement(tracked[t]) ELSE runningOn
<1>1. /\ moved[n] < MaxStarts
      /\ runningOn' = [moved EXCEPT ![n] = @ + 1]
      /\ tracked' = [tracked EXCEPT ![t] = n] /\ open' = [open EXCEPT ![t] = n]
      /\ UNCHANGED <<details, records>>
  BY DEF RecordRequestStart
<1>2. /\ moved \in [TrackedNodes -> 0..MaxStarts]
      /\ \A m \in TrackedNodes : moved[m] =
           IF tracked[t] # n /\ m = tracked[t] /\ runningOn[m] > 0 THEN runningOn[m] - 1 ELSE runningOn[m]
  BY Decremented DEF TrackInv
<1> HIDE DEF moved
<1>3. /\ runningOn' \in [TrackedNodes -> 0..MaxStarts]
      /\ \A m \in TrackedNodes : runningOn'[m] = IF m = n THEN moved[m] + 1 ELSE moved[m]
  <2>1. moved[n] + 1 \in 0..MaxStarts
    BY <1>1, <1>2, RecordSizes
  <2> QED  BY <1>1, <1>2, <2>1
<1>4. /\ tracked' \in [TrackedTasks -> TrackedNodes \cup {Untracked}]
      /\ open' \in [TrackedTasks -> TrackedNodes \cup {Untracked}]
      /\ \A s \in TrackedTasks : /\ open'[s] = IF s = t THEN n ELSE open[s]
                                 /\ tracked'[s] = IF s = t THEN n ELSE tracked[s]
  BY <1>1 DEF TrackInv
<1>5. TrackedIsOpen'
  BY <1>4 DEF TrackInv, TrackedIsOpen
<1>6. OpenIsCounted'
  <2> SUFFICES ASSUME NEW m \in TrackedNodes PROVE Cardinality(OpenOn(m)') <= runningOn'[m]
    BY DEF OpenIsCounted
  <2>1. Cardinality(OpenOn(m)) <= runningOn[m] /\ runningOn[m] \in Nat /\ Cardinality(OpenOn(m)) \in Nat
    BY OpenFinite, RecordSizes DEF TrackInv, OpenIsCounted
  <2>2. tracked[t] = open[t] \/ tracked[t] = Untracked
    BY DEF TrackInv, TrackedIsOpen
  <2>3. CASE m = n
    <3>1. moved[m] = runningOn[m]
      BY <1>2, <2>3
    <3>2. OpenOn(m)' = OpenOn(m) \cup {t}
      BY <1>4, <2>3 DEF OpenOn
    <3> DEFINE S == OpenOn(m)
               T == OpenOn(m)'
    <3>3. T = S \cup {t} /\ IsFiniteSet(S) /\ Cardinality(S) \in Nat
      BY <3>2, OpenFinite
    <3> HIDE DEF S, T
    <3>4. Cardinality(T) = IF t \in S THEN Cardinality(S) ELSE Cardinality(S) + 1
      BY <3>3, FS_AddElement
    <3>5. Cardinality(T) <= Cardinality(S) + 1
      BY <3>3, <3>4
    <3>6. Cardinality(OpenOn(m)') <= Cardinality(OpenOn(m)) + 1
      BY <3>5 DEF S, T
    <3>7. Cardinality(OpenOn(m)') \in Nat
      BY <3>2, OpenFinite, FS_AddElement, FS_CardinalityType
    <3> QED  BY <1>3, <2>1, <2>3, <3>1, <3>6, <3>7
  <2>4. CASE m # n
    <3>1. OpenOn(m)' = OpenOn(m) \ {t}
      BY <1>4, <2>4 DEF OpenOn
    <3>2. Cardinality(OpenOn(m)') = IF t \in OpenOn(m) THEN Cardinality(OpenOn(m)) - 1 ELSE Cardinality(OpenOn(m))
      BY <3>1, OpenFinite, FS_RemoveElement
    <3>3. m = tracked[t] => t \in OpenOn(m)
      BY <2>2, RecordSizes DEF OpenOn
    <3> QED  BY <1>2, <1>3, <2>1, <2>4, <3>2, <3>3
  <2> QED  BY <2>3, <2>4
<1> QED  BY <1>1, <1>3, <1>4, <1>5, <1>6 DEF TrackInv

LEMMA EndStep ==
    ASSUME TrackInv, NEW t \in TrackedTasks, RecordRequestEnd(t) PROVE TrackInv'
<1>1. /\ open[t] # Untracked /\ open' = [open EXCEPT ![t] = Untracked]
      /\ runningOn' = Decrement(open[t])
      /\ tracked' = [tracked EXCEPT ![t] = Untracked]
      /\ details' \subseteq details
      /\ records' \in 0..HistorySize
  <2>1. records' \in 0..HistorySize
    BY RecordSizes DEF RecordRequestEnd, Recorded, TrackInv
  <2> QED  BY <2>1 DEF RecordRequestEnd
<1>2. /\ tracked' \in [TrackedTasks -> TrackedNodes \cup {Untracked}]
      /\ open' \in [TrackedTasks -> TrackedNodes \cup {Untracked}]
      /\ \A s \in TrackedTasks : /\ open'[s] = IF s = t THEN Untracked ELSE open[s]
                                 /\ tracked'[s] = IF s = t THEN Untracked ELSE tracked[s]
  BY <1>1 DEF TrackInv
<1>3. /\ runningOn' \in [TrackedNodes -> 0..MaxStarts]
      /\ \A m \in TrackedNodes : runningOn'[m] =
            IF m = open[t] /\ runningOn[m] > 0 THEN runningOn[m] - 1 ELSE runningOn[m]
  BY <1>1, Decremented
<1>4. TrackedIsOpen'
  BY <1>2 DEF TrackInv, TrackedIsOpen
<1>5. OpenIsCounted'
  <2> SUFFICES ASSUME NEW m \in TrackedNodes PROVE Cardinality(OpenOn(m)') <= runningOn'[m]
    BY DEF OpenIsCounted
  <2>1. Cardinality(OpenOn(m)) <= runningOn[m] /\ runningOn[m] \in Nat /\ Cardinality(OpenOn(m)) \in Nat
    BY OpenFinite, RecordSizes DEF TrackInv, OpenIsCounted
  <2>2. OpenOn(m)' = OpenOn(m) \ {t}
    BY <1>2, RecordSizes DEF OpenOn
  <2>3. Cardinality(OpenOn(m)') = IF t \in OpenOn(m) THEN Cardinality(OpenOn(m)) - 1 ELSE Cardinality(OpenOn(m))
    BY <2>2, OpenFinite, FS_RemoveElement
  <2>4. m = open[t] <=> t \in OpenOn(m)
    BY DEF OpenOn
  <2> QED  BY <1>3, <2>1, <2>3, <2>4
<1> QED  BY <1>1, <1>2, <1>3, <1>4, <1>5 DEF TrackInv

LEMMA TrackStep ==
    ASSUME TrackInv, TrackNext PROVE TrackInv' /\ UNCHANGED cacheVars
<1>1. ASSUME NEW t \in TrackedTasks, UpdateTaskStatus(t) PROVE TrackInv' /\ UNCHANGED cacheVars
  BY <1>1 DEF UpdateTaskStatus, TrackInv, OpenIsCounted, OpenOn, TrackedIsOpen
<1>2. ASSUME NEW t \in TrackedTasks, RecordRequestEnd(t) PROVE TrackInv' /\ UNCHANGED cacheVars
  BY <1>2, EndStep DEF RecordRequestEnd
<1>3. ASSUME NEW t \in TrackedTasks, NEW n \in TrackedNodes, RecordRequestStart(t, n)
      PROVE  TrackInv' /\ UNCHANGED cacheVars
  BY <1>3, StartStep DEF RecordRequestStart
<1>4. ASSUME NEW stale \in SUBSET TrackedTasks, CleanupStaleTasks(stale)
      PROVE  TrackInv' /\ UNCHANGED cacheVars
  <2>1. /\ tracked' = [t \in TrackedTasks |-> IF t \in stale THEN Untracked ELSE tracked[t]]
        /\ UNCHANGED <<runningOn, open, cacheVars>>
    BY <1>4 DEF CleanupStaleTasks
  <2>2. details' \subseteq TrackedTasks
    BY <1>4 DEF CleanupStaleTasks, TrackInv
  <2>3. records' \in 0..HistorySize
    BY <1>4, RecordSizes DEF CleanupStaleTasks, Recorded, TrackInv
  <2>4. tracked' \in [TrackedTasks -> TrackedNodes \cup {Untracked}] /\ TrackedIsOpen'
    BY <2>1 DEF TrackInv, TrackedIsOpen
  <2>5. OpenIsCounted'
    BY <2>1 DEF TrackInv, OpenIsCounted, OpenOn
  <2> QED  BY <2>1, <2>2, <2>3, <2>4, <2>5 DEF TrackInv
<1>5. CASE ResetStats
  BY <1>5, RecordSizes DEF ResetStats, TrackInv, OpenIsCounted, OpenOn, TrackedIsOpen
<1> QED  BY <1>1, <1>2, <1>3, <1>4, <1>5 DEF TrackNext

LEMMA RecordsInitInv == RecordsInit => RecordsInv
<1> SUFFICES ASSUME RecordsInit PROVE RecordsInv
  OBVIOUS
<1>1. CacheInv
  BY FS_EmptySet, RecordSizes DEF RecordsInit, CacheInv
<1>2. \A n \in TrackedNodes : OpenOn(n) = {} /\ runningOn[n] = 0
  BY RecordSizes DEF RecordsInit, OpenOn
<1>3. OpenIsCounted /\ TrackedIsOpen
  BY <1>2, FS_EmptySet DEF OpenIsCounted, TrackedIsOpen, RecordsInit
<1>4. TrackInv
  BY <1>3, RecordSizes DEF RecordsInit, TrackInv
<1> QED  BY <1>1, <1>4 DEF RecordsInv

LEMMA RecordsStepInv == RecordsInv /\ [CacheNext \/ TrackNext]_recordVars => RecordsInv'
<1> SUFFICES ASSUME RecordsInv, [CacheNext \/ TrackNext]_recordVars PROVE RecordsInv'
  OBVIOUS
<1>1. UNCHANGED trackVars => TrackInv'
  BY DEF RecordsInv, TrackInv, trackVars, OpenIsCounted, OpenOn, TrackedIsOpen
<1>2. UNCHANGED cacheVars => CacheInv'
  BY DEF RecordsInv, CacheInv, cacheVars
<1>3. UNCHANGED recordVars => UNCHANGED trackVars /\ UNCHANGED cacheVars
  BY DEF recordVars, trackVars, cacheVars
<1> QED  BY <1>1, <1>2, <1>3, CacheStep, TrackStep DEF RecordsInv

LEMMA RecordsInvSafe == RecordsInv => RecordsTypeOK /\ CacheBounded /\ RunningIsCounted
<1> SUFFICES ASSUME RecordsInv PROVE RecordsTypeOK /\ CacheBounded /\ RunningIsCounted
  OBVIOUS
<1>1. RecordsTypeOK /\ CacheBounded
  BY DEF RecordsInv, CacheInv, TrackInv, RecordsTypeOK, CacheBounded
<1>2. RunningIsCounted
  <2> SUFFICES ASSUME NEW n \in TrackedNodes
               PROVE  Cardinality({t \in TrackedTasks : tracked[t] = n}) <= runningOn[n]
    BY DEF RunningIsCounted
  <2> DEFINE T == {t \in TrackedTasks : tracked[t] = n}
  <2>1. T \subseteq OpenOn(n)
    BY RecordSizes DEF OpenOn, RecordsInv, TrackInv, TrackedIsOpen
  <2> HIDE DEF T
  <2>2. Cardinality(T) <= Cardinality(OpenOn(n)) /\ IsFiniteSet(T)
    BY <2>1, OpenFinite, FS_Subset
  <2>3. Cardinality(OpenOn(n)) <= runningOn[n] /\ runningOn[n] \in Nat
    BY RecordSizes DEF RecordsInv, TrackInv, OpenIsCounted
  <2>4. Cardinality(T) <= runningOn[n]
    BY <2>2, <2>3, OpenFinite, FS_CardinalityType
  <2> QED  BY <2>4 DEF T
<1> QED  BY <1>1, <1>2

(* The cache keeps to its size, and a running count is never too low. *)
THEOREM RecordsAreRight == RecordsSpec => []CacheBounded /\ []RunningIsCounted
<1>1. RecordsInit => RecordsInv
  BY RecordsInitInv
<1>2. RecordsInv /\ [CacheNext \/ TrackNext]_recordVars => RecordsInv'
  BY RecordsStepInv
<1>3. RecordsInv => CacheBounded /\ RunningIsCounted
  BY RecordsInvSafe
<1> QED  BY <1>1, <1>2, <1>3, PTL DEF RecordsSpec

-----------------------------------------------------------------------------
(* PartitionCache. From the moment the cache has been loaded, or the file written, every
   node in the file is in the cache: that nothing saved is lost rests on this. *)
CacheLoaded == at \in {"wait", "round", "stop"}

CacheCoversFile == CacheLoaded /\ ~unread => \A n \in Node : file[n] # "no" => cachedStates[n] # "no"

PartitionInv == PartitionTypeOK /\ CacheCoversFile

LEMMA PartitionInitInv == PartitionInit => PartitionInv
BY DEF PartitionInit, PartitionInv, PartitionTypeOK, CacheCoversFile, CacheLoaded, Registered, Entry, Empty, Place

LEMMA PartitionStepInv == PartitionInv /\ [PartitionNext]_partitionVars => PartitionInv'
<1> SUFFICES ASSUME PartitionInv, [PartitionNext]_partitionVars PROVE PartitionInv'
  OBVIOUS
<1> USE DEF PartitionInv, PartitionTypeOK, CacheCoversFile, CacheLoaded, Registered, Entry, Place
<1>1. CASE Boot
  BY <1>1 DEF Boot
<1>2. CASE RestoreFromCache
  BY <1>2 DEF RestoreFromCache
<1>3. CASE LoadCache \/ LoadFails
  BY <1>3 DEF LoadCache, LoadFails
<1>4. CASE CacheCurrentStates
  BY <1>4 DEF CacheCurrentStates
<1>5. CASE SaveCache
  BY <1>5 DEF SaveCache
<1>6. CASE StopHandler
  BY <1>6 DEF StopHandler
<1>7. ASSUME NEW n \in Node, NEW s \in Registered, NodeChanges(n, s) PROVE PartitionInv'
  BY <1>7 DEF NodeChanges
<1>8. CASE HourPasses
  BY <1>8 DEF HourPasses, Aged
<1>9. CASE GatewayEnds
  BY <1>9 DEF GatewayEnds, Empty
<1>10. CASE UNCHANGED partitionVars
  BY <1>10 DEF partitionVars
<1> QED
  BY <1>1, <1>2, <1>3, <1>4, <1>5, <1>6, <1>7, <1>8, <1>9, <1>10 DEF PartitionNext

LEMMA SavedStep ==
    ASSUME PartitionInv, [PartitionNext]_partitionVars, file' # file, NEW n \in Node, file[n] # "no", ~unread
    PROVE  file'[n] # "no"
<1>1. CASE SaveCache \/ StopHandler
  BY <1>1 DEF PartitionInv, CacheCoversFile, CacheLoaded, SaveCache, StopHandler
<1>2. CASE HourPasses
  BY <1>2 DEF HourPasses, Aged
<1>3. CASE ~(SaveCache \/ StopHandler \/ HourPasses)
  BY <1>3 DEF PartitionNext, Boot, RestoreFromCache, LoadCache, LoadFails, CacheCurrentStates,
              NodeChanges, GatewayEnds, partitionVars
<1> QED
  BY <1>1, <1>2, <1>3

(* A node once saved stays saved, for any nodes, crashes between two steps and stops,
   until a start cannot read the file (partition.go:257-297). *)
THEOREM OnlyTheUnreadIsLost == PartitionSpec => SavedStaysSaved
<1>1. PartitionInv /\ [PartitionNext]_partitionVars => [\A n \in Node : file[n] # "no" /\ ~unread => file'[n] # "no"]_file
  BY SavedStep
<1> QED
  BY <1>1, PartitionInitInv, PartitionStepInv, PTL DEF PartitionSpec, SavedStaysSaved

(* Every variable keeps its type.                                           *)
THEOREM PartitionTypeCorrect == PartitionSpec => []PartitionTypeOK
<1>1. PartitionInv => PartitionTypeOK
  BY DEF PartitionInv
<1> QED
  BY <1>1, PartitionInitInv, PartitionStepInv, PTL DEF PartitionSpec

-----------------------------------------------------------------------------
(* NodeHealth, for any number of checks in flight and any threshold. *)
LEMMA CountBounds == Threshold \in Nat /\ MaxCount \in Nat /\ 0 \in 0 .. MaxCount
  BY ThresholdAssumption, MaxCountAssumption

LEMMA NodeHealthInitTyped == NodeHealthInit => NodeHealthTypeOK
  BY CountBounds DEF NodeHealthInit, NodeHealthTypeOK, CheckStep, ProbeStep

LEMMA CountTyped == NodeHealthTypeOK => Count \in 0 .. MaxCount
  BY CountBounds DEF NodeHealthTypeOK, Count

(* The steps of a check, each on the object the check was begun for. *)
LEMMA CheckTyped ==
    ASSUME NodeHealthTypeOK, NEW c \in Check, CheckProceeds(c)
    PROVE  NodeHealthTypeOK'
<1> USE DEF NodeHealthTypeOK, CheckStep, object, switch, world
<1>1. CASE CheckNode(c)
  BY <1>1 DEF CheckNode
<1>2. CASE NodeResponds(c)
  BY <1>2 DEF NodeResponds
<1>3. CASE CheckSuccess(c)
  BY <1>3 DEF CheckSuccess
<1>4. CASE CheckReset(c)
  BY <1>4, CountBounds DEF CheckReset
<1>5. CASE CheckFailure(c)
  BY <1>5, CountTyped DEF CheckFailure
<1>6. CASE CheckMark(c)
  BY <1>6 DEF CheckMark
<1> QED  BY <1>1, <1>2, <1>3, <1>4, <1>5, <1>6 DEF CheckProceeds

(* The round of the partition handler. *)
LEMMA PartitionRoundTyped ==
    ASSUME NodeHealthTypeOK, PartitionRound
    PROVE  NodeHealthTypeOK'
<1> USE DEF NodeHealthTypeOK, ProbeStep, object, switch, world
<1>1. CASE DetectPartition
  BY <1>1 DEF DetectPartition
<1>2. CASE ProbeNode
  BY <1>2 DEF ProbeNode
<1>3. CASE RecoverPartitioned
  BY <1>3, CountBounds DEF RecoverPartitioned, MarkHealthy
<1> QED  BY <1>1, <1>2, <1>3 DEF PartitionRound

(* What happens to the object without a check or a probe, and outside the gateway. *)
LEMMA OthersTyped ==
    ASSUME NodeHealthTypeOK,
           \/ Heartbeat \/ BeatMissed \/ YoloRequestFails \/ Reregister
           \/ \E on \in BOOLEAN : SetNodeEnabled(on)
           \/ PortChanges \/ BeatingChanges
    PROVE  NodeHealthTypeOK'
<1> USE DEF NodeHealthTypeOK, CheckStep, ProbeStep, object, switch, world
<1>1. CASE Heartbeat \/ Reregister
  BY <1>1, CountBounds DEF Heartbeat, Reregister, MarkHealthy
<1>2. CASE YoloRequestFails
  BY <1>2, CountTyped DEF YoloRequestFails
<1>3. CASE \E on \in BOOLEAN : SetNodeEnabled(on)
  BY <1>3 DEF SetNodeEnabled
<1>4. CASE BeatMissed \/ PortChanges \/ BeatingChanges
  BY <1>4 DEF BeatMissed, PortChanges, BeatingChanges
<1> QED  BY <1>1, <1>2, <1>3, <1>4

(* Every variable keeps its type, whatever checks, probes, heartbeats, registrations,
   YOLO requests and operators interleave (health_checker.go, partition.go, node.go). *)
THEOREM NodeHealthTypeCorrect == NodeHealthSpec => []NodeHealthTypeOK
<1>1. NodeHealthTypeOK /\ [NodeHealthNext]_nodeHealthVars => NodeHealthTypeOK'
  <2> SUFFICES ASSUME NodeHealthTypeOK, [NodeHealthNext]_nodeHealthVars PROVE NodeHealthTypeOK'
    OBVIOUS
  <2>1. CASE UNCHANGED nodeHealthVars
    BY <2>1 DEF nodeHealthVars, object, switch, world, NodeHealthTypeOK
  <2> QED  BY <2>1, CheckTyped, PartitionRoundTyped, OthersTyped DEF NodeHealthNext
<1> QED  BY <1>1, NodeHealthInitTyped, PTL DEF NodeHealthSpec

(* A node that was rightly found healthy, or unhealthy, remains so until it changes,
   whatever checks, probes, YOLO requests, registrations and operators interleave.
   Unhealthy is right only of a node whose port refuses connections or answers with an
   error: one that hangs is healed by the partition handler (health_checker.go:88-160,
   partition.go:186-208, discovery.go:181-212, node.go). *)
THEOREM VerdictsAreStable == NodeHealthSpec => VerdictsLast
<1>1. NodeHealthTypeOK /\ [NodeHealthNext]_nodeHealthVars => VerdictKept
  <2> SUFFICES ASSUME NodeHealthTypeOK, [NodeHealthNext]_nodeHealthVars PROVE VerdictKept
    OBVIOUS
  <2> USE DEF NodeHealthTypeOK, VerdictKept, RightlyHealthy, RightlyUnhealthy, Gone, Reachable,
              object, switch, world
  <2>1. CASE UNCHANGED nodeHealthVars
    BY <2>1 DEF nodeHealthVars
  <2>2. ASSUME NEW c \in Check, CheckProceeds(c) PROVE VerdictKept
    <3>1. CASE CheckNode(c) \/ NodeResponds(c)
      BY <3>1 DEF CheckNode, NodeResponds
    <3>2. CASE CheckSuccess(c) \/ CheckReset(c)
      BY <3>2 DEF CheckSuccess, CheckReset
    <3>3. CASE CheckFailure(c) \/ CheckMark(c)
      BY <3>3 DEF CheckFailure, CheckMark
    <3> QED  BY <2>2, <3>1, <3>2, <3>3 DEF CheckProceeds
  <2>3. CASE PartitionRound
    BY <2>3 DEF PartitionRound, DetectPartition, ProbeNode, RecoverPartitioned, MarkHealthy
  <2>4. CASE Heartbeat \/ BeatMissed \/ YoloRequestFails \/ Reregister
    BY <2>4 DEF Heartbeat, BeatMissed, YoloRequestFails, Reregister, MarkHealthy
  <2>5. CASE (\E on \in BOOLEAN : SetNodeEnabled(on)) \/ PortChanges \/ BeatingChanges
    BY <2>5 DEF SetNodeEnabled, PortChanges, BeatingChanges
  <2> QED  BY <2>1, <2>2, <2>3, <2>4, <2>5 DEF NodeHealthNext
<1> QED  BY <1>1, NodeHealthTypeCorrect, PTL DEF NodeHealthSpec, VerdictsLast
=============================================================================
