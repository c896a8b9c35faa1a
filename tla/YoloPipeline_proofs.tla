------------------------ MODULE YoloPipeline_proofs ------------------------
(***************************************************************************)
(* Proofs about the YOLO pipeline: type correctness, and the bound of the   *)
(* worker pool for any number of cameras, nodes and panics.                 *)
(***************************************************************************)
EXTENDS YoloPipeline, FiniteSetTheorems, TLAPS

(* The workers there are and the ones still to be started stay within the   *)
(* largest target because the manager starts no more than are missing from  *)
(* desired, which never exceeds it, and nobody else adds one.               *)
IInv ==
    /\ TypeOK
    /\ desired <= MaxTarget
    /\ PoolBounded

(* The sizes of sets of cameras are natural numbers within that of Camera.  *)
LEMMA CameraSizes ==
    ASSUME NEW S \in SUBSET Camera
    PROVE  Cardinality(S) \in Nat /\ Cardinality(S) <= Cardinality(Camera)
BY CameraAssumption, FS_Subset, FS_CardinalityType

LEMMA CameraCount == Cardinality(Camera) \in Nat
BY CameraAssumption, FS_CardinalityType

(* n nodes call for at most as many workers as MaxNodes do.                 *)
LEMMA NodeTarget ==
    ASSUME NEW n \in 1 .. MaxNodes
    PROVE  n * PerNode \in Nat /\ MaxNodes * PerNode \in Nat /\ n * PerNode <= MaxNodes * PerNode
<1>1. PICK k \in Nat : MaxNodes = n + k
  <2>1. MaxNodes - n \in Nat /\ MaxNodes = n + (MaxNodes - n)
    BY MaxNodesAssumption
  <2> QED  BY <2>1
<1>2. MaxNodes * PerNode = n * PerNode + k * PerNode
  BY <1>1, PerNodeAssumption
<1>3. n * PerNode \in Nat /\ k * PerNode \in Nat
  BY PerNodeAssumption
<1> QED  BY <1>2, <1>3

(* The target for any number of nodes and captures is bounded.              *)
LEMMA TargetBounded ==
    ASSUME NEW n \in 1 .. MaxNodes
    PROVE  TargetFor(n) \in Nat /\ MaxTarget \in Nat /\ TargetFor(n) <= MaxTarget
<1>1. Cardinality(Captured) \in Nat /\ Cardinality(Captured) <= Cardinality(Camera)
  BY CameraSizes DEF Captured
<1> QED  BY <1>1, NodeTarget, CameraCount DEF TargetFor, MaxTarget

LEMMA PoolStartsBounded == MaxTarget \in Nat /\ PerNode <= MaxTarget
<1>1. 1 \in 1 .. MaxNodes
  BY MaxNodesAssumption
<1>2. 1 * PerNode = PerNode
  BY PerNodeAssumption
<1> QED  BY <1>1, <1>2, NodeTarget, CameraCount, PerNodeAssumption DEF MaxTarget

-----------------------------------------------------------------------------

LEMMA ZeroWithin == 0 \in 0 .. JobCap /\ 0 \in 0 .. ResultCap /\ 0 \in 0 .. MaxPanics /\ 1 \in 1 .. MaxNodes
BY CapAssumption, MaxPanicsAssumption, MaxNodesAssumption

LEMMA NoneTyped == NoStale \in [Running -> Nat] /\ NoWorkers \in [WorkerState -> Nat]
BY DEF NoStale, NoWorkers

LEMMA InitIInv == Init => IInv
<1> SUFFICES ASSUME Init PROVE IInv
  OBVIOUS
<1>1. TypeOK
  BY ZeroWithin, NoneTyped, PerNodeAssumption DEF Init, TypeOK, CaptureState
<1>2. Present = 0
  BY DEF Init, NoWorkers, WorkerState, Present
<1> QED  BY <1>1, <1>2, PoolStartsBounded, PerNodeAssumption DEF Init, IInv, PoolBounded

(* The steps that leave the pool alone preserve the bound.                  *)
LEMMA PoolUntouched ==
    ASSUME IInv, TypeOK', UNCHANGED <<worker, toStart, desired>>
    PROVE  IInv'
BY DEF IInv, PoolBounded, Present, MaxTarget

LEMMA CaptureStepsTyped ==
    ASSUME IInv, NEW c \in Camera, CaptureStep(c) \/ CapturePanics(c)
    PROVE  IInv'
<1> USE CapAssumption, MaxPanicsAssumption
<1>1. CASE CaptureTop(c)
  <2>1. TypeOK'
    BY <1>1 DEF IInv, TypeOK, CaptureTop, Captures, CaptureState, Running, target, control
  <2> QED  BY <2>1, <1>1, PoolUntouched DEF CaptureTop, Captures, target
<1>2. CASE CaptureFrame(c)
  <2>1. TypeOK'
    BY <1>2 DEF IInv, TypeOK, CaptureFrame, Captures, CaptureState, Running, target, control
  <2> QED  BY <2>1, <1>2, PoolUntouched DEF CaptureFrame, Captures, target
<1>3. CASE CaptureRestarts(c)
  <2>1. TypeOK'
    BY <1>3 DEF IInv, TypeOK, CaptureRestarts, Captures, CaptureState, Running, target, control
  <2> QED  BY <2>1, <1>3, PoolUntouched DEF CaptureRestarts, Captures, target
<1>4. CASE CapturePanics(c)
  <2>1. TypeOK'
    BY <1>4 DEF IInv, TypeOK, CapturePanics, Captures, Panic, CaptureState, Running, target, control
  <2> QED  BY <2>1, <1>4, PoolUntouched DEF CapturePanics, Captures, target
<1> QED  BY <1>1, <1>2, <1>3, <1>4 DEF CaptureStep

LEMMA StaleStepsTyped ==
    ASSUME IInv, StaleStep \/ StalePanics
    PROVE  IInv'
<1> USE CapAssumption, MaxPanicsAssumption
<1>1. CASE StaleEnds
  <2>1. TypeOK'
    BY <1>1 DEF IInv, TypeOK, StaleEnds, Stale, Running, target, control
  <2> QED  BY <2>1, <1>1, PoolUntouched DEF StaleEnds, Stale, target
<1>2. CASE StaleFrame
  <2>1. TypeOK'
    BY <1>2 DEF IInv, TypeOK, StaleFrame, Stale, Running, target, control
  <2> QED  BY <2>1, <1>2, PoolUntouched DEF StaleFrame, Stale, target
<1>3. CASE StalePanics
  <2>1. TypeOK'
    BY <1>3 DEF IInv, TypeOK, StalePanics, Stale, Panic, Running, target, control
  <2> QED  BY <2>1, <1>3, PoolUntouched DEF StalePanics, Stale, target
<1> QED  BY <1>1, <1>2, <1>3 DEF StaleStep

-----------------------------------------------------------------------------
(* The workers.                                                            *)

(* A worker that goes from one state to another keeps the counts natural,   *)
(* and as many workers present, unless it comes from "replaced".            *)
LEMMA MovesKeepPool ==
    ASSUME IInv, NEW from \in WorkerState \ {"replaced"}, NEW to \in WorkerState \ {"replaced"},
           from # to, Moves(from, to)
    PROVE  /\ worker' \in [WorkerState -> Nat]
           /\ Present' = Present
           /\ UNCHANGED <<captures, processor, target, control>>
<1>1. worker \in [WorkerState -> Nat] /\ worker[from] > 0
  BY DEF IInv, TypeOK, Moves
<1>2. worker' = [worker EXCEPT ![from] = @ - 1, ![to] = @ + 1]
  BY DEF Moves
<1>3. worker' \in [WorkerState -> Nat]
  BY <1>1, <1>2
<1>4. worker'[from] = worker[from] - 1 /\ worker'[to] = worker[to] + 1
  BY <1>1, <1>2
<1>5. \A state \in WorkerState \ {from, to} : worker'[state] = worker[state]
  BY <1>1, <1>2
<1>6. Present' = Present
  BY <1>1, <1>3, <1>4, <1>5 DEF Present, WorkerState
<1> QED  BY <1>3, <1>6 DEF Moves

(* With the pool as large as before and the rest typed, IInv is kept.       *)
LEMMA PoolKept ==
    ASSUME IInv, worker' \in [WorkerState -> Nat], Present' = Present,
           UNCHANGED <<captures, processor, target, control>>,
           jobs' \in 0 .. JobCap, results' \in 0 .. ResultCap, panics' \in 0 .. MaxPanics
    PROVE  IInv'
BY DEF IInv, TypeOK, PoolBounded, MaxTarget, captures, target, control

LEMMA WorkerMovesTyped ==
    ASSUME IInv,
           \/ WorkerTop \/ WorkerTakes \/ WorkerSends \/ WorkerCancelled
           \/ WorkerPanics \/ WorkerRecovers
    PROVE  IInv'
<1> USE CapAssumption, MaxPanicsAssumption
<1>0. jobs \in 0 .. JobCap /\ results \in 0 .. ResultCap /\ panics \in 0 .. MaxPanics
  BY DEF IInv, TypeOK
<1>1. CASE WorkerTop
  <2>1. Moves("top", "leaving") \/ Moves("top", "wait")
    BY <1>1 DEF WorkerTop
  <2> QED  BY <1>0, <1>1, <2>1, MovesKeepPool, PoolKept DEF WorkerTop, WorkerState
<1>2. CASE WorkerTakes
  <2>1. jobs' \in 0 .. JobCap
    BY <1>0, <1>2 DEF WorkerTakes
  <2> QED  BY <1>0, <1>2, <2>1, MovesKeepPool, PoolKept DEF WorkerTakes, WorkerState
<1>3. CASE WorkerSends
  <2>1. results' \in 0 .. ResultCap
    BY <1>0, <1>3 DEF WorkerSends
  <2> QED  BY <1>0, <1>3, <2>1, MovesKeepPool, PoolKept DEF WorkerSends, WorkerState
<1>4. CASE WorkerCancelled
  BY <1>0, <1>4, MovesKeepPool, PoolKept DEF WorkerCancelled, WorkerState
<1>5. CASE WorkerPanics
  <2>1. panics' \in 0 .. MaxPanics
    BY <1>0, <1>5 DEF WorkerPanics, Panic
  <2> QED  BY <1>0, <1>5, <2>1, MovesKeepPool, PoolKept DEF WorkerPanics, WorkerState
<1>6. CASE WorkerRecovers
  <2>1. Moves("panicked", "restart") \/ Moves("panicked", "leaving")
    BY <1>6 DEF WorkerRecovers
  <2> QED  BY <1>0, <1>6, <2>1, MovesKeepPool, PoolKept DEF WorkerRecovers, WorkerState
<1> QED  BY <1>1, <1>2, <1>3, <1>4, <1>5, <1>6

(* The substitute takes the place of the panicked worker.                   *)
LEMMA WorkerRestartsTyped ==
    ASSUME IInv, WorkerRestarts
    PROVE  IInv'
<1>1. worker \in [WorkerState -> Nat]
  BY DEF IInv, TypeOK
<1>2. worker' \in [WorkerState -> Nat]
  BY <1>1 DEF WorkerRestarts, WorkerState
<1>3. Present' = Present
  BY <1>1 DEF WorkerRestarts, WorkerState, Present
<1> QED  BY <1>2, <1>3, PoolKept DEF WorkerRestarts, IInv, TypeOK

LEMMA WorkerLeavesTyped ==
    ASSUME IInv, WorkerLeaves
    PROVE  IInv'
<1>1. worker \in [WorkerState -> Nat]
  BY DEF IInv, TypeOK
<1>2. worker' \in [WorkerState -> Nat] /\ Present' \in Nat /\ Present \in Nat /\ Present' <= Present
  <2>1. CASE worker["leaving"] > 0 /\ worker' = [worker EXCEPT !["leaving"] = @ - 1]
    BY <1>1, <2>1 DEF WorkerState, Present
  <2>2. CASE worker["replaced"] > 0 /\ worker' = [worker EXCEPT !["replaced"] = @ - 1]
    BY <1>1, <2>2 DEF WorkerState, Present
  <2> QED  BY <2>1, <2>2 DEF WorkerLeaves
<1> QED
  BY <1>2, PoolStartsBounded
  DEF WorkerLeaves, IInv, TypeOK, PoolBounded, MaxTarget, captures, target, control

-----------------------------------------------------------------------------
(* The processor, the manager and main.                                     *)

LEMMA ProcessorStepsTyped ==
    ASSUME IInv, ProcessorStep \/ ProcessorPanics
    PROVE  IInv'
<1> USE CapAssumption, MaxPanicsAssumption
<1>1. TypeOK'
  BY DEF IInv, TypeOK, ProcessorStep, ProcessorTakes, ProcessorCancelled, ProcessorRestarts,
         ProcessorPanics, Processes, Panic, captures, target, control
<1>2. UNCHANGED <<worker, toStart, desired>>
  BY DEF ProcessorStep, ProcessorTakes, ProcessorCancelled, ProcessorRestarts,
         ProcessorPanics, Processes, target
<1> QED  BY <1>1, <1>2, PoolUntouched

LEMMA ManagerStartsTyped ==
    ASSUME IInv, ManagerStarts
    PROVE  IInv'
<1>1. worker \in [WorkerState -> Nat] /\ toStart \in Nat /\ toStart > 0
  BY DEF IInv, TypeOK, ManagerStarts
<1>2. worker' \in [WorkerState -> Nat] /\ toStart' \in Nat
  BY <1>1 DEF ManagerStarts, WorkerState
<1>3. Present' + toStart' = Present + toStart
  BY <1>1 DEF ManagerStarts, WorkerState, Present
<1> QED
  BY <1>2, <1>3 DEF ManagerStarts, IInv, TypeOK, PoolBounded, MaxTarget, captures, control

LEMMA NodeCheckTyped ==
    ASSUME IInv, NEW n \in 1 .. MaxNodes, NodeCheck(n)
    PROVE  IInv'
<1>1. desired' \in Nat /\ desired' <= MaxTarget
  BY TargetBounded DEF NodeCheck
<1> QED
  BY <1>1 DEF NodeCheck, IInv, TypeOK, PoolBounded, Present, MaxTarget, captures

(* The manager starts what is missing from desired, so that the workers     *)
(* and the ones to start together are at most desired, or it starts none.   *)
LEMMA ManagerCountsTyped ==
    ASSUME IInv, ManagerCounts
    PROVE  IInv'
<1>1. /\ worker \in [WorkerState -> Nat] /\ desired \in Nat /\ toStart \in Nat
      /\ desired <= MaxTarget /\ Present + toStart <= MaxTarget
  BY DEF IInv, TypeOK, PoolBounded
<1>2. Present \in Nat /\ activeWorkers \in Nat /\ Present <= activeWorkers
  BY <1>1 DEF Present, activeWorkers, WorkerState
<1>3. toStart' \in Nat /\ Present + toStart' <= MaxTarget
  <2>1. CASE activeWorkers < desired
    BY <1>1, <1>2, <2>1, PoolStartsBounded DEF ManagerCounts, Counts
  <2>2. CASE ~(activeWorkers < desired)
    BY <1>1, <1>2, <2>2, PoolStartsBounded DEF ManagerCounts, Counts
  <2> QED  BY <2>1, <2>2
<1>4. Present' = Present /\ MaxTarget' = MaxTarget
  BY DEF ManagerCounts, Counts, Present, MaxTarget
<1> QED
  BY <1>3, <1>4 DEF ManagerCounts, Counts, IInv, TypeOK, PoolBounded, captures

LEMMA PollTyped ==
    ASSUME IInv, Poll
    PROVE  IInv'
<1> DEFINE stopped(step) == {c \in Camera : ~enabled[c] /\ capture[c] = step}
<1>1. \A step \in Running : Cardinality(stopped(step)) \in Nat
  <2> TAKE step \in Running
  <2> QED  BY CameraSizes
<1>2. stale' = [step \in Running |-> stale[step] + Cardinality(stopped(step))]
  BY DEF Poll
<1>3. stale' \in [Running -> Nat]
  <2> HIDE DEF stopped
  <2> QED  BY <1>1, <1>2 DEF IInv, TypeOK
<1>4. capture' \in [Camera -> CaptureState]
  BY DEF Poll, IInv, TypeOK, CaptureState, Running
<1>5. TypeOK'
  BY <1>3, <1>4 DEF Poll, IInv, TypeOK, target, control
<1> QED  BY <1>5, PoolUntouched DEF Poll, target

LEMMA ManagerOthersTyped ==
    ASSUME IInv, ManagerReady \/ ManagerCancels
    PROVE  IInv'
<1>1. TypeOK'
  BY DEF IInv, TypeOK, ManagerReady, ManagerCancels, captures, target
<1> QED  BY <1>1, PoolUntouched DEF ManagerReady, ManagerCancels, target

LEMMA EnvironmentTyped ==
    ASSUME IInv, Interrupt \/ HandleYOLOControl
    PROVE  IInv'
<1>1. TypeOK'
  BY DEF IInv, TypeOK, Interrupt, HandleYOLOControl, SetEnabled, captures, target, control
<1> QED  BY <1>1, PoolUntouched DEF Interrupt, HandleYOLOControl, SetEnabled, target

LEMMA MainStopsTyped ==
    ASSUME IInv, MainStops
    PROVE  IInv'
<1>1. TypeOK'
  BY ZeroWithin, NoneTyped DEF IInv, TypeOK, MainStops, CaptureState
<1>2. Present' = 0 /\ toStart' = 0
  BY DEF MainStops, Present, NoWorkers, WorkerState
<1> QED
  BY <1>1, <1>2, PoolStartsBounded DEF MainStops, IInv, PoolBounded, MaxTarget

-----------------------------------------------------------------------------

LEMMA GoroutinesTyped ==
    ASSUME IInv, Goroutines
    PROVE  IInv'
BY CaptureStepsTyped, StaleStepsTyped, WorkerMovesTyped, WorkerRestartsTyped, WorkerLeavesTyped,
   ProcessorStepsTyped, ManagerStartsTyped, NodeCheckTyped, ManagerCountsTyped, PollTyped,
   ManagerOthersTyped
DEF Goroutines

LEMMA StutterTyped ==
    ASSUME IInv, UNCHANGED vars
    PROVE  IInv'
<1>1. TypeOK'
  BY DEF IInv, TypeOK, vars, captures, target, control
<1> QED  BY <1>1, PoolUntouched DEF vars, target

LEMMA StepIInv == IInv /\ [Next]_vars => IInv'
BY GoroutinesTyped, EnvironmentTyped, MainStopsTyped, StutterTyped DEF Next

LEMMA InvariantIInv == Spec => []IInv
BY InitIInv, StepIInv, PTL DEF Spec

(* The state of the pipeline keeps its types: no count goes below zero and  *)
(* no channel above its capacity.                                           *)
THEOREM TypeCorrect == Spec => []TypeOK
<1>1. IInv => TypeOK
  BY DEF IInv
<1> QED  BY <1>1, InvariantIInv, PTL

(* Whatever the manager and the panicked workers count and start at the     *)
(* same time, the pool never exceeds its largest target (webui.go:514-607,  *)
(* 838-867).                                                                *)
THEOREM PoolNeverOversized == Spec => []PoolBounded
<1>1. IInv => PoolBounded
  BY DEF IInv
<1> QED  BY <1>1, InvariantIInv, PTL
-----------------------------------------------------------------------------
(* After the cancellation.                                                  *)

ManagerGone == cancelled => manager = "none"

LEMMA ManagerGoneInit == Init => ManagerGone
BY DEF Init, ManagerGone

LEMMA ManagerGoneStep == ManagerGone /\ [Next]_vars => ManagerGone'
BY DEF ManagerGone, Next, Goroutines, CaptureStep, CaptureTop, CaptureFrame, CaptureRestarts,
       CapturePanics, Captures, StaleStep, StaleEnds, StaleFrame, StalePanics, Stale, WorkerTop,
       WorkerTakes, WorkerSends, WorkerCancelled, WorkerPanics, WorkerRecovers, Moves,
       WorkerRestarts, WorkerLeaves, ProcessorStep, ProcessorTakes, ProcessorCancelled,
       ProcessorRestarts, ProcessorPanics, Processes, ManagerStarts, ManagerReady, ManagerCounts,
       Counts, Poll, ManagerCancels, NodeCheck, Interrupt, MainStops, HandleYOLOControl,
       SetEnabled, control, vars

At(step) == {c \in Camera : capture[c] = step}

LEMMA DoingIsNatural ==
    ASSUME IInv, NEW step \in Running
    PROVE  /\ Cardinality(At(step)) \in Nat /\ IsFiniteSet(At(step))
           /\ Doing(step) = Cardinality(At(step)) + stale[step] /\ Doing(step) \in Nat
<1>1. At(step) \in SUBSET Camera
  BY DEF At
<1>2. IsFiniteSet(At(step)) /\ Cardinality(At(step)) \in Nat
  BY <1>1, CameraAssumption, FS_Subset, FS_CardinalityType
<1>3. stale[step] \in Nat
  BY DEF IInv, TypeOK
<1> QED  BY <1>2, <1>3 DEF Doing, At

(* A capture that goes from one step to another is counted there instead.   *)
LEMMA CaptureMoves ==
    ASSUME IInv, NEW c \in Camera, NEW from \in Running, NEW to \in CaptureState, from # to,
           Captures(c, from, to)
    PROVE  /\ Doing(from)' = Doing(from) - 1
           /\ to \in Running => Doing(to)' = Doing(to) + 1
           /\ \A step \in Running \ {from, to} : Doing(step)' = Doing(step)
           /\ UNCHANGED <<stale, worker, results, processor>>
<1>1. /\ capture[c] = from /\ capture' = [capture EXCEPT ![c] = to] /\ stale' = stale
      /\ capture \in [Camera -> CaptureState]
      /\ UNCHANGED <<worker, results, processor>>
  BY DEF Captures, IInv, TypeOK
<1>2. Doing(from)' = Doing(from) - 1
  <2>1. {x \in Camera : capture'[x] = from} = At(from) \ {c} /\ c \in At(from)
    BY <1>1 DEF At
  <2>2. Cardinality(At(from) \ {c}) = Cardinality(At(from)) - 1
    BY <2>1, DoingIsNatural, FS_RemoveElement
  <2>3. Doing(from)' = Cardinality(At(from) \ {c}) + stale[from]
    BY <1>1, <2>1 DEF Doing
  <2> QED  BY <2>2, <2>3, DoingIsNatural DEF IInv, TypeOK
<1>3. to \in Running => Doing(to)' = Doing(to) + 1
  <2> SUFFICES ASSUME to \in Running PROVE Doing(to)' = Doing(to) + 1
    OBVIOUS
  <2>1. {x \in Camera : capture'[x] = to} = At(to) \cup {c} /\ c \notin At(to)
    BY <1>1 DEF At
  <2>2. Cardinality(At(to) \cup {c}) = Cardinality(At(to)) + 1
    BY <2>1, DoingIsNatural, FS_AddElement
  <2>3. Doing(to)' = Cardinality(At(to) \cup {c}) + stale[to]
    BY <1>1, <2>1 DEF Doing
  <2> QED  BY <2>2, <2>3, DoingIsNatural DEF IInv, TypeOK
<1>4. ASSUME NEW step \in Running \ {from, to} PROVE Doing(step)' = Doing(step)
  <2>1. {x \in Camera : capture'[x] = step} = At(step)
    BY <1>1 DEF At
  <2> QED  BY <1>1, <2>1, DoingIsNatural DEF Doing
<1> QED  BY <1>1, <1>2, <1>3, <1>4

(* The parts of Left are natural numbers.                                   *)
LEMMA LeftNatural ==
    ASSUME IInv
    PROVE  /\ Doing("top") \in Nat /\ Doing("frame") \in Nat /\ Doing("panicked") \in Nat
           /\ jobs \in Nat /\ results \in Nat /\ worker \in [WorkerState -> Nat]
           /\ WorkersLeft \in Nat
           /\ (IF processor = "none" THEN 0 ELSE 1) \in Nat
<1>1. worker \in [WorkerState -> Nat] /\ jobs \in Nat /\ results \in Nat
  BY CapAssumption DEF IInv, TypeOK
<1>2. WorkersLeft \in Nat
  BY <1>1 DEF WorkersLeft, WorkerState
<1> QED  BY <1>1, <1>2, DoingIsNatural DEF Running

LEMMA CaptureWindsDown ==
    ASSUME IInv, cancelled, NEW c \in Camera, CaptureStep(c) \/ CapturePanics(c)
    PROVE  Left' < Left
<1>0. WorkersLeft' = WorkersLeft /\ processor' = processor /\ results' = results
  BY DEF CaptureStep, CaptureTop, CaptureFrame, CaptureRestarts, CapturePanics, Captures,
         WorkersLeft
<1>1. CASE CaptureTop(c) \/ CaptureRestarts(c)
  <2>1. PICK from \in {"top", "panicked"} : Captures(c, from, "gone")
    BY <1>1 DEF CaptureTop, CaptureRestarts
  <2>2. Doing(from)' = Doing(from) - 1 /\ \A step \in Running \ {from} : Doing(step)' = Doing(step)
    BY <2>1, CaptureMoves DEF Running, CaptureState
  <2>3. jobs' = jobs
    BY <1>1 DEF CaptureTop, CaptureRestarts
  <2> QED  BY <1>0, <2>2, <2>3, LeftNatural DEF Left, Running
<1>2. CASE CaptureFrame(c) \/ CapturePanics(c)
  <2>1. PICK to \in {"top", "panicked"} : Captures(c, "frame", to)
    BY <1>2 DEF CaptureFrame, CapturePanics
  <2>2. /\ Doing("frame")' = Doing("frame") - 1 /\ Doing(to)' = Doing(to) + 1
        /\ \A step \in Running \ {"frame", to} : Doing(step)' = Doing(step)
    BY <2>1, CaptureMoves DEF Running, CaptureState
  <2>3. jobs' = jobs \/ jobs' = jobs + 1
    BY <1>2 DEF CaptureFrame, CapturePanics
  <2> QED  BY <1>0, <2>2, <2>3, LeftNatural DEF Left, Running
<1> QED  BY <1>1, <1>2 DEF CaptureStep

LEMMA StaleWindsDown ==
    ASSUME IInv, StaleStep \/ StalePanics
    PROVE  Left' < Left
<1>0. WorkersLeft' = WorkersLeft /\ processor' = processor /\ results' = results
  BY DEF StaleStep, StaleEnds, StaleFrame, StalePanics, Stale, WorkersLeft
<1>1. /\ \A step \in Running : Doing(step)' = Cardinality(At(step)) + stale'[step]
      /\ stale \in [Running -> Nat]
  BY DEF StaleStep, StaleEnds, StaleFrame, StalePanics, Stale, Doing, At, IInv, TypeOK
<1>2. \A step \in Running : /\ Doing(step) = Cardinality(At(step)) + stale[step]
                            /\ Cardinality(At(step)) \in Nat
  BY DoingIsNatural
<1>3. CASE StaleEnds
  <2>1. PICK from \in {"top", "panicked"} :
             stale[from] > 0 /\ stale' = [stale EXCEPT ![from] = @ - 1]
    BY <1>3 DEF StaleEnds, Stale
  <2>2. Doing(from)' = Doing(from) - 1 /\ \A step \in Running \ {from} : Doing(step)' = Doing(step)
    BY <1>1, <1>2, <2>1 DEF Running
  <2>3. jobs' = jobs
    BY <1>3 DEF StaleEnds
  <2> QED  BY <1>0, <2>2, <2>3, LeftNatural DEF Left, Running
<1>4. CASE StaleFrame \/ StalePanics
  <2>1. PICK to \in {"top", "panicked"} :
             stale["frame"] > 0 /\ stale' = [stale EXCEPT !["frame"] = @ - 1, ![to] = @ + 1]
    BY <1>4 DEF StaleFrame, StalePanics, Stale
  <2>2. /\ Doing("frame")' = Doing("frame") - 1 /\ Doing(to)' = Doing(to) + 1
        /\ \A step \in Running \ {"frame", to} : Doing(step)' = Doing(step)
    BY <1>1, <1>2, <2>1 DEF Running
  <2>3. jobs' = jobs \/ jobs' = jobs + 1
    BY <1>4 DEF StaleFrame, StalePanics
  <2> QED  BY <1>0, <2>2, <2>3, LeftNatural DEF Left, Running
<1> QED  BY <1>3, <1>4 DEF StaleStep

(* A worker that goes on once has less to do, by what it may leave behind.  *)
LEMMA WorkerWindsDown ==
    ASSUME IInv, cancelled,
           \/ WorkerTop \/ WorkerTakes \/ WorkerSends \/ WorkerCancelled
           \/ WorkerPanics \/ WorkerRecovers \/ WorkerRestarts \/ WorkerLeaves
    PROVE  Left' < Left
<1>0. /\ Doing("top")' = Doing("top") /\ Doing("frame")' = Doing("frame")
      /\ Doing("panicked")' = Doing("panicked") /\ processor' = processor
  BY DEF WorkerTop, WorkerTakes, WorkerSends, WorkerCancelled, WorkerPanics, WorkerRecovers,
         WorkerRestarts, WorkerLeaves, Moves, captures, Doing
<1>1. worker \in [WorkerState -> Nat] /\ jobs \in Nat /\ results \in Nat
  BY LeftNatural
<1>2. 4 * jobs' + WorkersLeft' + results' < 4 * jobs + WorkersLeft + results
  <2>1. CASE WorkerTop
    BY <1>1, <2>1 DEF WorkerTop, Moves, WorkersLeft, WorkerState
  <2>2. CASE WorkerTakes
    BY <1>1, <2>2 DEF WorkerTakes, Moves, WorkersLeft, WorkerState
  <2>3. CASE WorkerSends
    BY <1>1, <2>3 DEF WorkerSends, Moves, WorkersLeft, WorkerState
  <2>4. CASE WorkerCancelled
    BY <1>1, <2>4 DEF WorkerCancelled, Moves, WorkersLeft, WorkerState
  <2>5. CASE WorkerPanics
    BY <1>1, <2>5 DEF WorkerPanics, Moves, WorkersLeft, WorkerState
  <2>6. CASE WorkerRecovers
    BY <1>1, <2>6 DEF WorkerRecovers, Moves, WorkersLeft, WorkerState
  <2>7. CASE WorkerRestarts
    BY <1>1, <2>7 DEF WorkerRestarts, WorkersLeft, WorkerState
  <2>8. CASE WorkerLeaves
    BY <1>1, <2>8 DEF WorkerLeaves, WorkersLeft, WorkerState
  <2> QED  BY <2>1, <2>2, <2>3, <2>4, <2>5, <2>6, <2>7, <2>8
<1>3. jobs' \in Nat /\ results' \in Nat /\ WorkersLeft' \in Nat
  <2>1. IInv'
    BY WorkerMovesTyped, WorkerRestartsTyped, WorkerLeavesTyped
  <2>2. worker' \in [WorkerState -> Nat] /\ jobs' \in Nat /\ results' \in Nat
    BY <2>1, CapAssumption DEF IInv, TypeOK
  <2> QED  BY <2>2 DEF WorkersLeft, WorkerState
<1> QED  BY <1>0, <1>2, <1>3, LeftNatural DEF Left

LEMMA ProcessorWindsDown ==
    ASSUME IInv, cancelled, ProcessorStep \/ ProcessorPanics
    PROVE  Left' < Left
<1>0. /\ Doing("top")' = Doing("top") /\ Doing("frame")' = Doing("frame")
      /\ Doing("panicked")' = Doing("panicked") /\ jobs' = jobs /\ WorkersLeft' = WorkersLeft
  BY DEF ProcessorStep, ProcessorTakes, ProcessorCancelled, ProcessorRestarts,
         ProcessorPanics, Processes, captures, Doing, WorkersLeft
<1>1. \/ results > 0 /\ results' = results - 1 /\ processor = "wait" /\ processor' # "none"
      \/ results' = results /\ processor # "none" /\ processor' = "none"
  BY DEF ProcessorStep, ProcessorTakes, ProcessorCancelled, ProcessorRestarts,
         ProcessorPanics, Processes
<1> QED  BY <1>0, <1>1, LeftNatural DEF Left

(* Once the manager has cancelled, nobody can give the pipeline new work:   *)
(* every step of a goroutine leaves less to do, so cancelCh reaches all of  *)
(* them after finitely many steps (webui.go:496-867).                       *)
THEOREM PipelineWindsDown == Spec => CancelledWindsDown
<1>1. IInv /\ ManagerGone /\ [Next]_vars => WindsDown
  <2> SUFFICES ASSUME IInv, ManagerGone, [Next]_vars, cancelled, ~exited'
               PROVE  Left' < Left \/ UNCHANGED <<capture, stale, jobs, worker, results, processor>>
    BY DEF WindsDown
  <2>1. CASE Goroutines
    <3>1. ~(ManagerStarts \/ ManagerReady \/ ManagerCounts \/ Poll \/ ManagerCancels)
      BY DEF ManagerGone, ManagerStarts, ManagerReady, ManagerCounts, Counts, Poll, ManagerCancels
    <3>2. \A n \in 1 .. MaxNodes : ~NodeCheck(n)
      BY DEF ManagerGone, NodeCheck
    <3> QED
      BY <2>1, <3>1, <3>2, CaptureWindsDown, StaleWindsDown, WorkerWindsDown, ProcessorWindsDown
         DEF Goroutines
  <2>2. CASE Interrupt \/ HandleYOLOControl \/ UNCHANGED vars
    BY <2>2 DEF Interrupt, HandleYOLOControl, SetEnabled, captures, vars
  <2>3. CASE MainStops
    BY <2>3 DEF MainStops
  <2> QED  BY <2>1, <2>2, <2>3 DEF Next
<1> QED
  BY <1>1, ManagerGoneInit, ManagerGoneStep, InvariantIInv, PTL DEF Spec, CancelledWindsDown
=============================================================================
