----------------------------- MODULE GatewayTasks -----------------------------
(* The task package of the gateway: a queue with deduplication and cancellation,
   the executor that takes tasks from it, the scheduler whose callers run their
   tasks themselves, the detector of stuck tasks and the cleanup. Source:
   gateway/internal/tasks: task_queue.go, executor.go, scheduler.go, monitor.go,
   models.go. No part of the program creates these objects yet; they share the
   tasks, and only the queue's own methods hold its lock. The nodes are external. *)
EXTENDS Naturals, FiniteSets, Sequences, SequencesExt

CONSTANTS GwTasks, DedupKeys, WorkNodes,
          OwnTasks,        \* tasks given to SubmitTask; the others are only queued
          MaxQueueSize,    \* TaskQueueManager.maxQueueSize
          ExecMax,         \* AsyncTaskExecutor.maxConcurrent
          TaskRetries,     \* GatewayTask.MaxRetries
          SchedRetries,    \* RetryPolicy.MaxRetries
          PerNode          \* MAX_CONCURRENT_PER_NODE

VARIABLES key,        \* GatewayTask.DedupKey
          state,      \* GatewayTask.State
          cancelled,  \* tasks whose token is cancelled
          ended,      \* tasks with CompletedAt
          retries,    \* GatewayTask.RetryCount
          nodeID,     \* GatewayTask.NodeID
          stored, waiting, dedupSet,   \* TaskQueueManager: tasks, queue, dedupSet
          exec,       \* what the executor does with a task
          sched,      \* what the caller of SubmitTask does
          attempt,    \* its attempts
          holds,      \* the node it has acquired
          active,     \* requests counted on a node
          nodesUp     \* healthy nodes

queueVars == <<stored, waiting, dedupSet>>
fieldVars == <<state, ended, retries, nodeID>>
schedVars == <<sched, attempt, holds, active>>
gwtVars == <<key, state, cancelled, ended, retries, nodeID, stored, waiting, dedupSet,
             exec, sched, attempt, holds, active, nodesUp>>

TaskStates == {"pending", "queued", "dispatched", "running", "completed", "failed", "cancelled"}
Terminal == {"completed", "failed", "cancelled"}
NoNode == "none"

ASSUME TasksAssumption ==
    /\ {MaxQueueSize, ExecMax, TaskRetries, PerNode} \subseteq Nat \ {0}
    /\ SchedRetries \in Nat /\ IsFiniteSet(GwTasks) /\ OwnTasks \subseteq GwTasks
    /\ NoNode \notin WorkNodes

GwtTypeOK ==
    /\ key \in [GwTasks -> DedupKeys] /\ state \in [GwTasks -> TaskStates]
    /\ cancelled \subseteq GwTasks /\ ended \subseteq GwTasks /\ stored \subseteq GwTasks
    /\ retries \in [GwTasks -> Nat] /\ nodeID \in [GwTasks -> WorkNodes \cup {NoNode}]
    /\ waiting \in Seq(GwTasks) /\ Len(waiting) <= MaxQueueSize /\ dedupSet \subseteq DedupKeys
    /\ exec \in [GwTasks -> {"none", "taken", "infer", "commit"}]
    /\ sched \in [GwTasks -> {"none", "select", "execute", "backoff"}]
    /\ attempt \in [GwTasks -> 0..SchedRetries]
    /\ holds \in [GwTasks -> WorkNodes \cup {NoNode}]
    /\ active \in [WorkNodes -> Nat] /\ nodesUp \subseteq WorkNodes

GwtInit ==
    /\ key \in [GwTasks -> DedupKeys] /\ state = [t \in GwTasks |-> "pending"]
    /\ cancelled = {} /\ ended = {} /\ retries = [t \in GwTasks |-> 0]
    /\ nodeID = [t \in GwTasks |-> NoNode]
    /\ stored = {} /\ waiting = <<>> /\ dedupSet = {}
    /\ exec = [t \in GwTasks |-> "none"] /\ sched = [t \in GwTasks |-> "none"]
    /\ attempt = [t \in GwTasks |-> 0] /\ holds = [t \in GwTasks |-> NoNode]
    /\ active = [n \in WorkNodes |-> 0] /\ nodesUp = WorkNodes

NodeTurns(n) ==
    /\ nodesUp' = IF n \in nodesUp THEN nodesUp \ {n} ELSE nodesUp \cup {n}
    /\ UNCHANGED <<key, fieldVars, cancelled, queueVars, exec, schedVars>>
-----------------------------------------------------------------------------
(* TaskQueueManager; every method holds the lock. *)

SetField(f, t, v) == [f EXCEPT ![t] = v]

\* a task that is stored has its own key in dedupSet: it is refused as well
Accepts(t) == Len(waiting) < MaxQueueSize /\ key[t] \notin dedupSet

\* Enqueue of a task whose state the caller has set to st before
Enqueue(t, st) ==
    IF Accepts(t)
    THEN /\ stored' = stored \cup {t} /\ waiting' = Append(waiting, t)
         /\ dedupSet' = dedupSet \cup {key[t]} /\ state' = SetField(state, t, "queued")
    ELSE state' = SetField(state, t, st) /\ UNCHANGED queueVars

\* UpdateTask of a task whose state the caller has set to st before
UpdateTask(t, st, new) ==
    IF t \notin stored \/ st = "cancelled"
    THEN state' = SetField(state, t, st) /\ UNCHANGED ended
    ELSE /\ state' = SetField(state, t, new)
         /\ ended' = IF new \in Terminal THEN ended \cup {t} ELSE ended

\* CancelTask, and CancelMainTask for one task of its main task; no CompletedAt
CancelTask(t) ==
    /\ t \in stored /\ state[t] \notin Terminal
    /\ state' = SetField(state, t, "cancelled") /\ cancelled' = cancelled \cup {t}
    /\ UNCHANGED <<key, ended, retries, nodeID, queueVars, exec, schedVars, nodesUp>>

\* the entry of the queue, if there is one, stays
CleanupCompleted(t) ==
    /\ t \in stored /\ state[t] \in Terminal /\ t \in ended
    /\ stored' = stored \ {t} /\ dedupSet' = dedupSet \ {key[t]}
    /\ UNCHANGED <<key, fieldVars, cancelled, waiting, exec, schedVars, nodesUp>>

\* a task that waits for the executor, or one whose caller runs it (SubmitTask)
Submit(t) ==
    /\ state[t] = "pending" /\ Accepts(t) /\ Enqueue(t, "pending")
    /\ sched' = IF t \in OwnTasks THEN SetField(sched, t, "select") ELSE sched
    /\ UNCHANGED <<key, cancelled, ended, retries, nodeID, exec, attempt, holds, active, nodesUp>>
-----------------------------------------------------------------------------
(* AsyncTaskExecutor *)

Busy == {t \in GwTasks : exec[t] # "none"}

\* Dequeue drops what is not stored, not queued or cancelled
Dequeue ==
    /\ Cardinality(Busy) < ExecMax /\ waiting # <<>>
    /\ LET usable(t) == t \in stored /\ state[t] = "queued" /\ t \notin cancelled
           i == SelectInSeq(waiting, usable)
           dropped == IF i = 0 THEN ToSet(waiting) ELSE ToSet(SubSeq(waiting, 1, i - 1))
       IN /\ waiting' = IF i = 0 THEN <<>> ELSE SubSeq(waiting, i + 1, Len(waiting))
          /\ state' = [t \in GwTasks |->
                CASE i # 0 /\ t = waiting[i] -> "dispatched"
                  [] t \in dropped /\ t \in stored /\ state[t] = "queued" -> "cancelled"
                  [] OTHER -> state[t]]
          /\ exec' = IF i = 0 THEN exec ELSE SetField(exec, waiting[i], "taken")
    /\ UNCHANGED <<key, cancelled, ended, retries, nodeID, stored, dedupSet, schedVars, nodesUp>>

\* executeTask: the state is set once more, outside the lock, whatever UpdateTask did
ExecStarts(t) ==
    /\ exec[t] = "taken" /\ exec' = SetField(exec, t, "infer")
    /\ state' = SetField(state, t, "running")
    /\ UNCHANGED <<key, cancelled, ended, retries, nodeID, queueVars, schedVars, nodesUp>>

ExecFails(t) ==
    /\ exec[t] = "infer" /\ exec' = SetField(exec, t, "none")
    /\ retries' = SetField(retries, t, retries[t] + 1)
    /\ IF retries'[t] < TaskRetries
       THEN /\ Enqueue(t, "queued") /\ nodeID' = SetField(nodeID, t, NoNode) /\ UNCHANGED ended
       ELSE /\ state' = SetField(state, t, "failed") /\ ended' = ended \cup {t}
            /\ UNCHANGED <<nodeID, queueVars>>
    /\ UNCHANGED <<key, cancelled, schedVars, nodesUp>>

ExecSucceeds(t) ==
    /\ exec[t] = "infer"
    /\ exec' = SetField(exec, t, IF t \in cancelled THEN "none" ELSE "commit")
    /\ UNCHANGED <<key, fieldVars, cancelled, queueVars, schedVars, nodesUp>>
ExecCommits(t) ==
    /\ exec[t] = "commit" /\ exec' = SetField(exec, t, "none")
    /\ state' = SetField(state, t, "completed") /\ ended' = ended \cup {t}
    /\ \E n \in WorkNodes : nodeID' = SetField(nodeID, t, n)
    /\ UNCHANGED <<key, cancelled, retries, queueVars, schedVars, nodesUp>>

\* checkStuckTasks: a running task whose node is gone
CheckStuckTask(t) ==
    /\ t \in stored /\ state[t] = "running" /\ nodeID[t] \notin nodesUp \cup {NoNode}
    /\ IF retries[t] < TaskRetries
       THEN /\ retries' = SetField(retries, t, retries[t] + 1)
            /\ Enqueue(t, "queued") /\ nodeID' = SetField(nodeID, t, NoNode) /\ UNCHANGED ended
       ELSE UpdateTask(t, "running", "failed") /\ UNCHANGED <<retries, nodeID, queueVars>>
    /\ UNCHANGED <<key, cancelled, exec, schedVars, nodesUp>>

\* StuckTaskDetector: started more than 15 minutes ago
DetectStuck(t) ==
    /\ t \in stored /\ state[t] = "running" /\ UpdateTask(t, "running", "failed")
    /\ UNCHANGED <<key, cancelled, retries, nodeID, queueVars, exec, schedVars, nodesUp>>
-----------------------------------------------------------------------------
(* TaskScheduler.executeWithRetry, in the goroutine of the caller. *)

FreeNodes == {n \in nodesUp : active[n] < PerNode}

\* SubmitTask reports the way it ended to the queue
Over(t, st, new) ==
    sched' = SetField(sched, t, "none") /\ UpdateTask(t, st, new)

\* SelectAndAcquireNode takes one of the least loaded
SchedSelect(t) ==
    /\ sched[t] = "select"
    /\ \/ t \in cancelled /\ Over(t, state[t], "cancelled") /\ UNCHANGED <<nodeID, holds, active>>
       \/ /\ t \notin cancelled /\ FreeNodes = {} /\ Over(t, state[t], "failed")
          /\ UNCHANGED <<nodeID, holds, active>>
       \/ /\ t \notin cancelled
          /\ \E n \in FreeNodes :
                /\ \A m \in FreeNodes : active[n] <= active[m]
                /\ active' = [active EXCEPT ![n] = @ + 1]
                /\ holds' = SetField(holds, t, n) /\ nodeID' = SetField(nodeID, t, n)
          /\ state' = SetField(state, t, "running") /\ sched' = SetField(sched, t, "execute")
          /\ UNCHANGED ended
    /\ UNCHANGED <<key, cancelled, retries, queueVars, exec, attempt, nodesUp>>

Release(t) == /\ active' = [active EXCEPT ![holds[t]] = @ - 1]
              /\ holds' = SetField(holds, t, NoNode)

SchedReturns(t) ==
    /\ sched[t] = "execute" /\ Release(t)
    /\ \/ /\ t \in cancelled /\ Over(t, state[t], "cancelled") /\ UNCHANGED <<retries, attempt>>
       \/ /\ t \notin cancelled /\ UNCHANGED <<retries, attempt>>
          /\ sched' = SetField(sched, t, "none")
          /\ state' = SetField(state, t, "completed") /\ ended' = ended \cup {t}
       \/ /\ t \notin cancelled
          /\ IF attempt[t] < SchedRetries
             THEN /\ sched' = SetField(sched, t, "backoff")
                  /\ attempt' = SetField(attempt, t, attempt[t] + 1)
                  /\ retries' = SetField(retries, t, attempt[t] + 1)
                  /\ UNCHANGED <<state, ended>>
             ELSE /\ sched' = SetField(sched, t, "none")
                  /\ state' = SetField(state, t, "failed") /\ ended' = ended \cup {t}
                  /\ UNCHANGED <<retries, attempt>>
    /\ UNCHANGED <<key, cancelled, nodeID, queueVars, exec, nodesUp>>

SchedBackoff(t) ==
    /\ sched[t] = "backoff"
    /\ IF t \in cancelled THEN Over(t, state[t], "cancelled")
       ELSE sched' = SetField(sched, t, "select") /\ UNCHANGED <<state, ended>>
    /\ UNCHANGED <<key, cancelled, retries, nodeID, queueVars, exec, attempt, holds, active, nodesUp>>
-----------------------------------------------------------------------------
GwtNext ==
    \/ Dequeue \/ \E n \in WorkNodes : NodeTurns(n)
    \/ \E t \in GwTasks :
          \/ Submit(t) \/ CancelTask(t) \/ CleanupCompleted(t) \/ CheckStuckTask(t) \/ DetectStuck(t)
          \/ ExecStarts(t) \/ ExecFails(t) \/ ExecSucceeds(t) \/ ExecCommits(t)
          \/ SchedSelect(t) \/ SchedReturns(t) \/ SchedBackoff(t)

GwtSpec == GwtInit /\ [][GwtNext]_gwtVars
-----------------------------------------------------------------------------
(* No two stored tasks have the same key, and dedupSet has the keys of the stored
   tasks and no others, though tasks are put back, fail as stuck and are cleaned up
   while somebody still runs them (task_queue.go:44-63, 216-240). *)
OneTaskPerKey ==
    /\ dedupSet = {key[t] : t \in stored}
    /\ \A t, u \in stored : key[t] = key[u] => t = u

(* A node is counted once for every caller that runs a task on it and never more
   often than allowed: each way out of executeWithRetry gives the slot back, also
   of a task that was cancelled, put back or failed by others meanwhile
   (scheduler.go:117-248). *)
SlotsAreHeld ==
    \A n \in WorkNodes :
        active[n] = Cardinality({t \in GwTasks : holds[t] = n}) /\ active[n] <= PerNode
=============================================================================
