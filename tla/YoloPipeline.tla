---------------------------- MODULE YoloPipeline ----------------------------
(***************************************************************************)
(* The YOLO detection pipeline of "rivision-cli webui": a capture goroutine *)
(* per enabled camera feeds jobCh, a pool of workers has the frames         *)
(* detected by the gateway and feeds resultCh, and one processor passes the *)
(* results on.  A manager starts and stops captures (poll ticker) and sizes *)
(* the pool to the number of nodes (node-check ticker).  Workers leave on   *)
(* their own when the pool is too large; every goroutine recovers from a    *)
(* panic after two seconds and then decides whether to start again.         *)
(*                                                                         *)
(* SIGINT arrives on a channel that the manager and main both receive from. *)
(* Workers are alike and only counted, by what they are doing; so are the   *)
(* captures whose stop channel was closed, and the frames and results in    *)
(* the channels: which one it is matters to no decision of the code.        *)
(***************************************************************************)
EXTENDS Naturals, FiniteSets

CONSTANTS
    Camera,         \* stream names
    PerNode,        \* workersPerNode
    MaxNodes,       \* bound on the number of healthy YOLO nodes
    JobCap,         \* capacity of jobCh
    ResultCap,      \* capacity of resultCh
    MaxStale,       \* bound on the captures that were stopped and still run
    MaxPanics       \* bound on the panics

ASSUME CameraAssumption == IsFiniteSet(Camera)
ASSUME PerNodeAssumption == PerNode \in Nat \ {0}
ASSUME MaxNodesAssumption == MaxNodes \in Nat \ {0}
ASSUME CapAssumption == JobCap \in Nat \ {0} /\ ResultCap \in Nat \ {0}
ASSUME MaxStaleAssumption == MaxStale \in Nat
ASSUME MaxPanicsAssumption == MaxPanics \in Nat

VARIABLES
    enabled,        \* YOLOControl.enabledCameras
    capture,        \* activeCameras, with what the capture of the camera does
    stale,          \* how many captures with a closed stop channel do what
    jobs,           \* the number of frames in jobCh
    worker,         \* how many workers do what
    results,        \* the number of results in resultCh
    processor,      \* the result processor
    manager,        \* the manager: in select, or handling a node check
    toStart,        \* workers the manager has still to start
    nodes,          \* lastKnownNodes
    desired,        \* desiredWorkers
    cancelled,      \* cancelCh is closed
    signal,         \* a signal is in sigChan
    exited,         \* the process has ended
    panics          \* the panics there have been

captures == <<enabled, capture, stale>>
target == <<toStart, nodes, desired>>
control == <<manager, cancelled, signal, exited>>
vars == <<captures, jobs, worker, results, processor, target, control, panics>>

(* A camera that is not in activeCameras is "off"; one that is, but whose   *)
(* goroutine has ended, is "gone".                                          *)
Running == {"top", "frame", "panicked"}
CaptureState == {"off", "gone"} \cup Running

(* At the top of the loop, waiting for a job, detecting, two seconds after  *)
(* a panic, about to start a substitute, having done so, about to leave.    *)
WorkerState == {"top", "wait", "detect", "panicked", "restart", "replaced", "leaving"}

NoStale == [step \in Running |-> 0]
NoWorkers == [state \in WorkerState |-> 0]

Init ==
    /\ enabled = [c \in Camera |-> FALSE]
    /\ capture = [c \in Camera |-> "off"]
    /\ stale = NoStale
    /\ jobs = 0
    /\ worker = NoWorkers
    /\ results = 0
    /\ processor = "none"
    /\ toStart = PerNode
    /\ nodes = 1
    /\ desired = PerNode
    /\ manager = "starting"
    /\ cancelled = FALSE
    /\ signal = FALSE
    /\ exited = FALSE
    /\ panics = 0

Panic == panics < MaxPanics /\ panics' = panics + 1

(* The workers that count for the size of the pool, and activeWorkers.      *)
Present ==
    worker["top"] + worker["wait"] + worker["detect"] + worker["panicked"]
        + worker["restart"] + worker["leaving"]
activeWorkers == Present + worker["replaced"]

Captured == {c \in Camera : capture[c] # "off"}
TargetFor(n) == IF Cardinality(Captured) > n * PerNode THEN Cardinality(Captured) ELSE n * PerNode

-----------------------------------------------------------------------------
(* The capture goroutine of a camera in activeCameras.                      *)

Captures(c, from, to) ==
    /\ capture[c] = from
    /\ capture' = [capture EXCEPT ![c] = to]
    /\ UNCHANGED <<enabled, stale, worker, results, processor, target, control>>

(* A capture whose camera is not enabled ends, and the manager is not told; *)
(* while back-end capture is switched off it stays at the top.              *)
CaptureTop(c) ==
    /\ \/ (cancelled \/ ~enabled[c]) /\ Captures(c, "top", "gone")
       \/ ~cancelled /\ enabled[c] /\ Captures(c, "top", "frame")
    /\ UNCHANGED <<jobs, panics>>

(* go2rtc fails, or the frame is queued, or dropped when jobCh is full.     *)
CaptureFrame(c) ==
    /\ Captures(c, "frame", "top")
    /\ jobs' \in {jobs, IF jobs < JobCap THEN jobs + 1 ELSE jobs}
    /\ UNCHANGED panics

CapturePanics(c) == Captures(c, "frame", "panicked") /\ Panic /\ UNCHANGED jobs

CaptureRestarts(c) ==
    /\ Captures(c, "panicked", IF cancelled THEN "gone" ELSE "top")
    /\ UNCHANGED <<jobs, panics>>

(* A capture whose stop channel was closed.                                 *)
Stale(from) ==
    /\ stale[from] > 0
    /\ UNCHANGED <<enabled, capture, worker, results, processor, target, control>>

(* Wrong variant of StaleEnds: the stop channel is not looked at.           *)
StaleGoesOn ==
    /\ Stale("top")
    /\ stale' = IF \E c \in Camera : enabled[c] /\ ~cancelled
                   THEN [stale EXCEPT !["top"] = @ - 1, !["frame"] = @ + 1]
                   ELSE [stale EXCEPT !["top"] = @ - 1]
    /\ UNCHANGED <<jobs, panics>>

StaleEnds ==
    /\ \E step \in {"top", "panicked"} : Stale(step) /\ stale' = [stale EXCEPT ![step] = @ - 1]
    /\ UNCHANGED <<jobs, panics>>

StaleFrame ==
    /\ Stale("frame")
    /\ stale' = [stale EXCEPT !["frame"] = @ - 1, !["top"] = @ + 1]
    /\ jobs' \in {jobs, IF jobs < JobCap THEN jobs + 1 ELSE jobs}
    /\ UNCHANGED panics

StalePanics ==
    /\ Stale("frame")
    /\ Panic
    /\ stale' = [stale EXCEPT !["frame"] = @ - 1, !["panicked"] = @ + 1]
    /\ UNCHANGED jobs

CaptureStep(c) == CaptureTop(c) \/ CaptureFrame(c) \/ CaptureRestarts(c)
StaleStep == StaleEnds \/ StaleFrame

-----------------------------------------------------------------------------
(* The workers.                                                            *)

Moves(from, to) ==
    /\ worker[from] > 0
    /\ worker' = [worker EXCEPT ![from] = @ - 1, ![to] = @ + 1]
    /\ UNCHANGED <<captures, processor, target, control>>

(* The test for a pool that is too large, and the departure, are two steps. *)
WorkerTop ==
    /\ Moves("top", IF activeWorkers > desired THEN "leaving" ELSE "wait")
    /\ UNCHANGED <<jobs, results, panics>>

WorkerTakes ==
    /\ jobs > 0
    /\ jobs' = jobs - 1
    /\ Moves("wait", "detect")
    /\ UNCHANGED <<results, panics>>

(* The request ends, well or not, and the result goes to resultCh, or the   *)
(* worker finds cancelCh closed.                                            *)
WorkerSends ==
    /\ results < ResultCap
    /\ results' = results + 1
    /\ Moves("detect", "top")
    /\ UNCHANGED <<jobs, panics>>

(* Wrong variant of WorkerCancelled: a worker that sends does not look.     *)
WorkerCancelledIdle ==
    /\ cancelled
    /\ Moves("wait", "leaving")
    /\ UNCHANGED <<jobs, results, panics>>

WorkerCancelled ==
    /\ cancelled
    /\ Moves("wait", "leaving") \/ Moves("detect", "leaving")
    /\ UNCHANGED <<jobs, results, panics>>

WorkerPanics == Moves("detect", "panicked") /\ Panic /\ UNCHANGED <<jobs, results>>

(* The panicked worker, which is still counted, starts another one in its   *)
(* place only if the pool is too small although it is counted.              *)
WorkerRecovers ==
    /\ Moves("panicked", IF ~cancelled /\ activeWorkers < desired THEN "restart" ELSE "leaving")
    /\ UNCHANGED <<jobs, results, panics>>

WorkerRestarts ==
    /\ worker["restart"] > 0
    /\ worker' = [worker EXCEPT !["restart"] = @ - 1, !["replaced"] = @ + 1, !["top"] = @ + 1]
    /\ UNCHANGED <<captures, processor, target, control, jobs, results, panics>>

WorkerLeaves ==
    /\ \E from \in {"leaving", "replaced"} :
          worker[from] > 0 /\ worker' = [worker EXCEPT ![from] = @ - 1]
    /\ UNCHANGED <<captures, processor, target, control, jobs, results, panics>>

-----------------------------------------------------------------------------
(* The result processor: tracking, and the message to the clients of the    *)
(* camera's channel, are one step.                                          *)

Processes(from, to) ==
    /\ processor = from
    /\ processor' = to
    /\ UNCHANGED <<captures, jobs, worker, target, control>>

ProcessorTakes ==
    /\ results > 0
    /\ results' = results - 1
    /\ Processes("wait", "wait")
    /\ UNCHANGED panics

ProcessorPanics ==
    /\ results > 0
    /\ results' = results - 1
    /\ Processes("wait", "panicked")
    /\ Panic

ProcessorCancelled == cancelled /\ Processes("wait", "none") /\ UNCHANGED <<results, panics>>

ProcessorRestarts ==
    /\ Processes("panicked", IF cancelled THEN "none" ELSE "wait")
    /\ UNCHANGED <<results, panics>>

ProcessorStep == ProcessorTakes \/ ProcessorCancelled \/ ProcessorRestarts

-----------------------------------------------------------------------------
(* The manager.                                                            *)

(* startWorker counts the worker before its goroutine runs.                 *)
ManagerStarts ==
    /\ manager \in {"starting", "scaling"}
    /\ toStart > 0
    /\ toStart' = toStart - 1
    /\ worker' = [worker EXCEPT !["top"] = @ + 1]
    /\ UNCHANGED <<captures, jobs, results, processor, nodes, desired, control, panics>>

ManagerReady ==
    /\ manager \in {"starting", "scaling"}
    /\ toStart = 0
    /\ processor' = IF manager = "starting" THEN "wait" ELSE processor
    /\ manager' = "select"
    /\ UNCHANGED <<captures, jobs, worker, results, target, cancelled, signal, exited, panics>>

(* Wrong variant of NodeCheck: an answer of no nodes is taken as it is.     *)
NodeCheckZero(n) ==
    /\ manager = "select"
    /\ nodes' = n - 1
    /\ desired' = TargetFor(n - 1)
    /\ manager' = "counting"
    /\ UNCHANGED <<captures, jobs, worker, results, processor, toStart, cancelled, signal, exited, panics>>

(* The gateway reports n nodes; without an answer, or with none, the last   *)
(* number stands.                                                          *)
NodeCheck(n) ==
    /\ manager = "select"
    /\ nodes' = n
    /\ desired' = TargetFor(n)
    /\ manager' = "counting"
    /\ UNCHANGED <<captures, jobs, worker, results, processor, toStart, cancelled, signal, exited, panics>>

Counts(missing) ==
    /\ manager = "counting"
    /\ toStart' = missing
    /\ manager' = "scaling"
    /\ UNCHANGED <<captures, jobs, worker, results, processor, nodes, desired, cancelled, signal, exited, panics>>

(* Wrong variant of ManagerCounts: the workers there are are not counted.   *)
ManagerCountsNone == Counts(IF activeWorkers < desired THEN desired ELSE 0)

(* Wrong variant of ManagerCounts: the pool is filled only from nothing.    *)
ManagerCountsEmpty == Counts(IF activeWorkers = 0 THEN desired ELSE 0)

ManagerCounts == Counts(IF activeWorkers < desired THEN desired - activeWorkers ELSE 0)

(* Cameras that are no longer enabled are stopped, the ones that are not in *)
(* activeCameras are started.                                               *)
Poll ==
    LET stopped(step) == {c \in Camera : ~enabled[c] /\ capture[c] = step} IN
    /\ manager = "select"
    /\ capture' = [c \in Camera |-> IF ~enabled[c] THEN "off"
                                    ELSE IF capture[c] = "off" THEN "top" ELSE capture[c]]
    /\ stale' = [step \in Running |-> stale[step] + Cardinality(stopped(step))]
    /\ stale'["top"] + stale'["frame"] + stale'["panicked"] <= MaxStale
    /\ UNCHANGED <<enabled, jobs, worker, results, processor, target, control, panics>>

(* The manager, not main, receives the signal.                              *)
ManagerCancels ==
    /\ manager = "select"
    /\ signal
    /\ signal' = FALSE
    /\ cancelled' = TRUE
    /\ manager' = "none"
    /\ UNCHANGED <<captures, jobs, worker, results, processor, target, exited, panics>>

-----------------------------------------------------------------------------
(* The user, the web interface and main.                                    *)

Interrupt ==
    /\ ~signal
    /\ signal' = TRUE
    /\ UNCHANGED <<captures, jobs, worker, results, processor, target, manager, cancelled, exited, panics>>

(* POST /api/yolo/enable and /disable.                                      *)
SetEnabled(c, on) ==
    /\ enabled[c] # on
    /\ enabled' = [enabled EXCEPT ![c] = on]
    /\ UNCHANGED <<capture, stale, jobs, worker, results, processor, target, control, panics>>

(* The other requests change settings (frame rate, quality) or read.        *)
HandleYOLOControl == \E c \in Camera, on \in BOOLEAN : SetEnabled(c, on)

(* main receives the signal and returns: the process ends, with all of its  *)
(* goroutines.                                                             *)
MainStops ==
    /\ signal
    /\ exited' = TRUE
    /\ signal' = FALSE
    /\ enabled' = [c \in Camera |-> FALSE]
    /\ capture' = [c \in Camera |-> "off"]
    /\ stale' = NoStale
    /\ worker' = NoWorkers
    /\ processor' = "none"
    /\ manager' = "none"
    /\ toStart' = 0
    /\ jobs' = 0
    /\ results' = 0
    /\ UNCHANGED <<nodes, desired, cancelled, panics>>

Goroutines ==
    \/ \E c \in Camera : CaptureStep(c) \/ CapturePanics(c)
    \/ StaleStep \/ StalePanics
    \/ WorkerTop \/ WorkerTakes \/ WorkerSends \/ WorkerCancelled
    \/ WorkerPanics \/ WorkerRecovers \/ WorkerRestarts \/ WorkerLeaves
    \/ ProcessorStep \/ ProcessorPanics
    \/ ManagerStarts \/ ManagerReady \/ ManagerCounts \/ Poll \/ ManagerCancels
    \/ \E n \in 1 .. MaxNodes : NodeCheck(n)

Next ==
    /\ ~exited
    /\ \/ Goroutines
       \/ Interrupt
       \/ MainStops
       \/ HandleYOLOControl

Spec == Init /\ [][Next]_vars

(* Goroutines run, requests have timeouts and sleeps end.  The manager's    *)
(* select, which chooses at random among what is ready, does not ignore a   *)
(* ticker for ever, and neither does a worker's; a signal is received.      *)
FairSpec ==
    /\ Spec
    /\ \A c \in Camera : WF_vars(CaptureStep(c))
    /\ WF_vars(StaleEnds) /\ WF_vars(StaleFrame)
    /\ WF_vars(WorkerTop) /\ WF_vars(WorkerTakes) /\ WF_vars(WorkerSends \/ WorkerCancelled)
    /\ WF_vars(WorkerRecovers) /\ WF_vars(WorkerRestarts) /\ WF_vars(WorkerLeaves)
    /\ WF_vars(ProcessorStep)
    /\ WF_vars(ManagerStarts \/ ManagerReady \/ ManagerCounts)
    /\ SF_vars(\E n \in 1 .. MaxNodes : NodeCheck(n))
    /\ SF_vars(Poll)
    /\ SF_vars(ManagerCancels \/ MainStops)

-----------------------------------------------------------------------------
(* Properties.                                                             *)

TypeOK ==
    /\ enabled \in [Camera -> BOOLEAN]
    /\ capture \in [Camera -> CaptureState]
    /\ stale \in [Running -> Nat]
    /\ jobs \in 0 .. JobCap
    /\ worker \in [WorkerState -> Nat]
    /\ results \in 0 .. ResultCap
    /\ processor \in {"none", "wait", "panicked"}
    /\ toStart \in Nat
    /\ nodes \in 1 .. MaxNodes
    /\ desired \in Nat
    /\ manager \in {"starting", "select", "counting", "scaling", "none"}
    /\ cancelled \in BOOLEAN
    /\ signal \in BOOLEAN
    /\ exited \in BOOLEAN
    /\ panics \in 0 .. MaxPanics

(* The most workers any number of cameras and nodes calls for.              *)
MaxTarget ==
    IF Cardinality(Camera) > MaxNodes * PerNode THEN Cardinality(Camera) ELSE MaxNodes * PerNode

(* The manager and panicked workers start workers at the same time, from a  *)
(* count that is stale when they act on it, and yet the pool never exceeds  *)
(* its largest target, panicked workers that have been replaced aside.      *)
PoolBounded == Present + toStart <= MaxTarget

(* The pool follows the number of nodes: once the target stands still and   *)
(* frames keep coming, there are as many workers as desired, although       *)
(* workers leave together on the same excess and panics take some away.     *)
PoolConverges ==
    \A d \in 1 .. MaxTarget :
        <>[](desired = d /\ ~cancelled /\ ~exited) /\ []<>(jobs > 0)
        => <>[](activeWorkers = d)

(* A capture whose stop channel was closed ends although its camera is      *)
(* enabled again: there do not stay two captures of one camera.             *)
StaleCapturesEnd ==
    <>[](\A c \in Camera : enabled[c]) => <>[](stale = NoStale)

(* When the manager has received the signal, all the goroutines of the      *)
(* pipeline end: nobody waits on a channel for one that is gone.            *)
CancelEndsPipeline ==
    cancelled ~> /\ worker = NoWorkers
                 /\ processor = "none"
                 /\ stale = NoStale
                 /\ \A c \in Camera : capture[c] \in {"off", "gone"}

(* What the goroutines have still to do once cancelCh is closed: the steps   *)
(* of each, with the jobs and the results it can still leave to others.      *)
Doing(step) == Cardinality({c \in Camera : capture[c] = step}) + stale[step]

WorkersLeft ==
    3 * worker["top"] + 2 * worker["wait"] + 5 * worker["detect"] + 2 * worker["panicked"]
        + 5 * worker["restart"] + worker["replaced"] + worker["leaving"]

Left ==
    Doing("top") + 6 * Doing("frame") + Doing("panicked") + 4 * jobs
        + WorkersLeft + results + (IF processor = "none" THEN 0 ELSE 1)

WindsDown ==
    cancelled /\ ~exited'
        => Left' < Left \/ UNCHANGED <<capture, stale, jobs, worker, results, processor>>

(* After the cancellation every step that a goroutine of the pipeline takes  *)
(* brings the pipeline nearer to its end, panics and frames that are still   *)
(* being fetched included: nothing starts anything again.                    *)
CancelledWindsDown == [][WindsDown]_vars

(* The manager starts the cameras that are newly enabled.  Violated: a      *)
(* capture that sees its camera disabled ends, and when the camera is       *)
(* enabled again before the next poll, the manager takes it for running.    *)
EnabledIsCaptured ==
    \A c \in Camera :
        <>[](enabled[c] /\ ~cancelled /\ ~exited) => <>[](capture[c] \in Running)

(* webui.go:1003: Ctrl+C stops all services.  Violated: the manager may     *)
(* receive the signal in place of main.                                    *)
InterruptStops == signal ~> exited
=============================================================================
