----------------------------- MODULE NodeHealth -----------------------------
(***************************************************************************)
(* Whether the gateway believes a node healthy, and whether it is enabled.  *)
(*                                                                         *)
(* HealthChecker asks every registered node for /health, one goroutine per  *)
(* node and round; a reply changes the Node object in two steps, each under *)
(* the object's lock.  Heartbeats mark the object healthy, and so does the  *)
(* partition handler when the node's heartbeat is overdue and a probe still *)
(* reaches its port.  Failed YOLO requests raise the same failure count,    *)
(* and a registration replaces the object, so that the checks of the old    *)
(* one no longer matter.  Operators enable and disable the node.            *)
(*                                                                         *)
(* Nodes do not influence each other here: the module follows one.  Rounds  *)
(* may overlap, since HEALTH_CHECK_INTERVAL may be below the timeout.       *)
(***************************************************************************)
EXTENDS Naturals

CONSTANTS
    Check,          \* slots for goroutines running checkNode
    Threshold,      \* unhealthyThreshold
    MaxCount        \* bound on failCount, which is not bounded in the code

ASSUME ThresholdAssumption == Threshold \in Nat \ {0}
ASSUME MaxCountAssumption == MaxCount \in Nat /\ MaxCount >= Threshold

VARIABLES
    nodeStatus,     \* Node.Status
    failCount,      \* Node.FailCount
    enabled,        \* Node.Enabled
    disabled,       \* the operators' last word was DisableNode (kept for the property only)
    checkAt,        \* the checks in progress
    overdue,        \* Node.IsHeartbeatTimeout(60)
    probeAt,        \* where the partition handler is with the node
    port,           \* what the node's port does
    beating         \* heartbeats and registrations of its agent arrive

object == <<nodeStatus, failCount, overdue>>
switch == <<enabled, disabled>>
world == <<port, beating>>
nodeHealthVars == <<object, switch, checkAt, probeAt, world>>

(* /health is answered with 200, or with another status; a connection is    *)
(* accepted and the answer does not come in time; nobody listens.           *)
Port == {"answers", "errs", "hangs", "closed"}

CheckStep == {"idle", "asking", "ok", "refused", "passed", "failed"}

ProbeStep == {"idle", "detected", "reached"}

NodeHealthInit ==
    /\ nodeStatus = "healthy"
    /\ failCount = 0
    /\ enabled = TRUE
    /\ disabled = FALSE
    /\ overdue = FALSE
    /\ checkAt = [c \in Check |-> "idle"]
    /\ probeAt = "idle"
    /\ port \in Port
    /\ beating \in BOOLEAN

Count == IF failCount < MaxCount THEN failCount + 1 ELSE failCount

-----------------------------------------------------------------------------
CheckNode(c) ==
    /\ checkAt[c] = "idle"
    /\ checkAt' = [checkAt EXCEPT ![c] = "asking"]
    /\ UNCHANGED <<object, switch, probeAt, world>>

(* The reply is formed, or the timeout passes.                              *)
NodeResponds(c) ==
    /\ checkAt[c] = "asking"
    /\ checkAt' = [checkAt EXCEPT ![c] = IF port = "answers" THEN "ok" ELSE "refused"]
    /\ UNCHANGED <<object, switch, probeAt, world>>

(* Wrong variant of CheckSuccess: only the count is reset.                  *)
CheckSuccessCountOnly(c) ==
    /\ checkAt[c] = "ok"
    /\ checkAt' = [checkAt EXCEPT ![c] = "passed"]
    /\ UNCHANGED <<object, switch, probeAt, world>>

(* handleCheckSuccess: SetStatus, then ResetFailCount.                      *)
CheckSuccess(c) ==
    /\ checkAt[c] = "ok"
    /\ nodeStatus' = "healthy"
    /\ checkAt' = [checkAt EXCEPT ![c] = "passed"]
    /\ UNCHANGED <<failCount, overdue, switch, probeAt, world>>

CheckReset(c) ==
    /\ checkAt[c] = "passed"
    /\ failCount' = 0
    /\ checkAt' = [checkAt EXCEPT ![c] = "idle"]
    /\ UNCHANGED <<nodeStatus, overdue, switch, probeAt, world>>

(* handleCheckFailure: IncrementFailCount, then SetStatus.                  *)
CheckFailure(c) ==
    /\ checkAt[c] = "refused"
    /\ failCount' = Count
    /\ checkAt' = [checkAt EXCEPT ![c] = IF failCount' >= Threshold THEN "failed" ELSE "idle"]
    /\ UNCHANGED <<nodeStatus, overdue, switch, probeAt, world>>

CheckMark(c) ==
    /\ checkAt[c] = "failed"
    /\ nodeStatus' = "unhealthy"
    /\ checkAt' = [checkAt EXCEPT ![c] = "idle"]
    /\ UNCHANGED <<failCount, overdue, switch, probeAt, world>>

MarkHealthy ==
    /\ nodeStatus' = "healthy"
    /\ failCount' = 0

(* NodeHeartbeat: MarkHealthy, and the time of the beat.                    *)
Heartbeat ==
    /\ beating
    /\ MarkHealthy
    /\ overdue' = FALSE
    /\ UNCHANGED <<switch, checkAt, probeAt, world>>

(* A minute passes without a beat.                                         *)
BeatMissed ==
    /\ ~beating
    /\ ~overdue
    /\ overdue' = TRUE
    /\ UNCHANGED <<nodeStatus, failCount, switch, checkAt, probeAt, world>>

-----------------------------------------------------------------------------
(* The partition handler's round, as far as it concerns the node.           *)

DetectPartition ==
    /\ probeAt = "idle"
    /\ overdue
    /\ probeAt' = "detected"
    /\ UNCHANGED <<object, switch, checkAt, world>>

(* probeNode: a port that accepts connections is taken for alive, whether   *)
(* or not /health is answered; only an answer other than 200 speaks against *)
(* the node.                                                               *)
Reachable == port \in {"answers", "hangs"}

ProbeNode ==
    /\ probeAt = "detected"
    /\ probeAt' = IF Reachable THEN "reached" ELSE "idle"
    /\ UNCHANGED <<object, switch, checkAt, world>>

(* Wrong variant of RecoverPartitioned: overdue nodes need not be reached.  *)
RecoverUnreached ==
    /\ probeAt = "detected"
    /\ MarkHealthy
    /\ overdue' = FALSE
    /\ probeAt' = "idle"
    /\ UNCHANGED <<switch, checkAt, world>>

(* MarkHealthy and UpdateHeartbeat, on the object that was probed.          *)
RecoverPartitioned ==
    /\ probeAt = "reached"
    /\ MarkHealthy
    /\ overdue' = FALSE
    /\ probeAt' = "idle"
    /\ UNCHANGED <<switch, checkAt, world>>

-----------------------------------------------------------------------------
(* Wrong variant of YoloRequestFails: MarkUnhealthy instead of the count.   *)
YoloRequestMarks ==
    /\ failCount' = Count
    /\ nodeStatus' = IF failCount' >= Threshold THEN "unhealthy" ELSE nodeStatus
    /\ UNCHANGED <<overdue, switch, checkAt, probeAt, world>>

(* A YOLO request to the node fails.                                        *)
YoloRequestFails ==
    /\ failCount' = Count
    /\ UNCHANGED <<nodeStatus, overdue, switch, checkAt, probeAt, world>>

(* Registry.Register: a new object, of which the old one passes on only     *)
(* ActiveRequests and Load.  Checks and probes in progress keep the old     *)
(* one; a node that has only been detected is looked up again.              *)
Reregister ==
    /\ beating
    /\ MarkHealthy
    /\ overdue' = FALSE
    /\ enabled' = TRUE
    /\ checkAt' = [c \in Check |-> "idle"]
    /\ probeAt' = IF probeAt = "reached" THEN "idle" ELSE probeAt
    /\ UNCHANGED <<disabled, world>>

SetNodeEnabled(on) ==
    /\ enabled' = on
    /\ disabled' = ~on
    /\ UNCHANGED <<object, checkAt, probeAt, world>>

-----------------------------------------------------------------------------
PortChanges ==
    /\ port' \in Port \ {port}
    /\ UNCHANGED <<object, switch, checkAt, probeAt, beating>>

BeatingChanges ==
    /\ beating' = ~beating
    /\ UNCHANGED <<object, switch, checkAt, probeAt, port>>

CheckProceeds(c) ==
    CheckNode(c) \/ NodeResponds(c) \/ CheckSuccess(c) \/ CheckReset(c) \/ CheckFailure(c) \/ CheckMark(c)

PartitionRound == DetectPartition \/ ProbeNode \/ RecoverPartitioned

NodeHealthNext ==
    \/ \E c \in Check : CheckProceeds(c)
    \/ PartitionRound
    \/ Heartbeat
    \/ BeatMissed
    \/ YoloRequestFails
    \/ Reregister
    \/ \E on \in BOOLEAN : SetNodeEnabled(on)
    \/ PortChanges
    \/ BeatingChanges

NodeHealthSpec == NodeHealthInit /\ [][NodeHealthNext]_nodeHealthVars

(* The checker's ticker starts rounds for ever, and a check ends: its       *)
(* request has a timeout.  Nothing is assumed of heartbeats, nor of the     *)
(* partition handler, whose round may take as long as all its probes.       *)
NodeHealthFairSpec == NodeHealthSpec /\ \A c \in Check : WF_nodeHealthVars(CheckProceeds(c))

-----------------------------------------------------------------------------
(* Properties.                                                             *)

NodeHealthTypeOK ==
    /\ nodeStatus \in {"healthy", "unhealthy"}
    /\ failCount \in 0 .. MaxCount
    /\ enabled \in BOOLEAN
    /\ disabled \in BOOLEAN
    /\ overdue \in BOOLEAN
    /\ checkAt \in [Check -> CheckStep]
    /\ probeAt \in ProbeStep
    /\ port \in Port
    /\ beating \in BOOLEAN

(* A node that answers its checks ends up healthy and stays so, although    *)
(* failed checks that began earlier, and failed YOLO requests, may still    *)
(* come in between the two steps of any other check.                        *)
AnsweringBecomesHealthy == <>[](port = "answers") => <>[](nodeStatus = "healthy")

(* Nothing in the code takes the node for alive: no beat arrives, and its   *)
(* port is closed or answers /health with an error.                         *)
Gone == ~beating /\ ~Reachable

(* Such a node ends up unhealthy and stays so, although the partition       *)
(* handler's probe of a moment ago may still mark it healthy.               *)
GoneBecomesUnhealthy == <>[]Gone => <>[](nodeStatus = "unhealthy")

(* A verdict that the node deserves, and no reply on its way that denies it. *)
RightlyHealthy ==
    nodeStatus = "healthy" /\ \A c \in Check : checkAt[c] \notin {"refused", "failed"}
RightlyUnhealthy ==
    /\ nodeStatus = "unhealthy"
    /\ probeAt # "reached"
    /\ \A c \in Check : checkAt[c] # "ok"

VerdictKept ==
    /\ port = "answers" /\ RightlyHealthy => RightlyHealthy'
    /\ Gone /\ RightlyUnhealthy => RightlyUnhealthy'

(* Once a verdict is right no step undoes it before the node changes: the    *)
(* failures of YOLO requests, which raise the same count, do not make a node *)
(* unhealthy that answers, and nothing but an answer, a beat or a port that  *)
(* accepts connections heals one.                                           *)
VerdictsLast == [][VerdictKept]_nodeHealthVars

(* health_checker.go:142: a node whose checks fail becomes unhealthy.       *)
(* Violated by a node that hangs: its port accepts connections, so that the *)
(* partition handler marks it healthy, and its heartbeat fresh, again and   *)
(* again; three failed checks in a row may never come about.                *)
SilentBecomesUnhealthy == <>[](~beating /\ port # "answers") => <>[](nodeStatus = "unhealthy")

(* registry.go:130: registering a known node keeps its run-time state.      *)
(* Violated: a node an operator disabled is enabled again as soon as its    *)
(* agent registers.                                                        *)
DisabledStaysDisabled == disabled => ~enabled
=============================================================================
