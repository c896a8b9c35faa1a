------------------------------- MODULE VlmTasks -------------------------------
(* Asynchronous VLM analysis in the gateway: admission by a counter, one goroutine
   per task with a monitor that may cancel it, the history and the result that is
   pushed. Source: gateway/internal/api/handlers.go. The nodes are external (their
   number changes at any time); what an inference does is the dispatch's promise
   (VlmService): it ends, with an answer or an error, and soon after its context is
   done. A task is a number in the order of admission. *)
EXTENDS Naturals, FiniteSets, Sequences

CONSTANTS VlmHandlers,    \* concurrent requests with ?async=true
          VlmMaxLimit,    \* vlmAsyncMaxLimit
          MaxLlamaNodes,  \* bound: nodes with a healthy llama-server
          HistoryMax,     \* VLMHistoryStore.maxItems
          MaxVlmTasks     \* bound: tasks of a run

ASSUME VlmAssumption ==
    /\ IsFiniteSet(VlmHandlers) /\ VlmMaxLimit \in Nat \ {0} /\ MaxLlamaNodes \in Nat
    /\ HistoryMax \in Nat \ {0} /\ MaxVlmTasks \in Nat

VARIABLES llamaNodes,   \* len(GetHealthyWithLlama())
          vlmCount,     \* vlmAsyncTaskCount
          handler,      \* where a request is
          admitted,     \* number of tasks so far
          vlmTask,      \* what the goroutine of a task does
          ctx,          \* the task's context
          watcher,      \* what its monitor does
          outcome,      \* what was pushed to the WebSocket clients
          history       \* VLMHistoryStore.items, newest first

taskVars == <<admitted, vlmTask, ctx, watcher, outcome, history>>
vlmVars == <<llamaNodes, vlmCount, handler, admitted, vlmTask, ctx, watcher,
             outcome, history>>

VlmTask == 1..MaxVlmTasks

VlmTypeOK ==
    /\ llamaNodes \in 0..MaxLlamaNodes /\ vlmCount \in Nat
    /\ handler \in [VlmHandlers -> {"idle", "passed"}]
    /\ admitted \in 0..MaxVlmTasks
    /\ vlmTask \in [VlmTask -> {"none", "infer", "failed", "answered", "stored", "over", "gone"}]
    /\ ctx \in [VlmTask -> {"open", "deadline", "cancelled"}]
    /\ watcher \in [VlmTask -> {"none", "watching", "gone"}]
    /\ outcome \in [VlmTask -> {"none", "result", "error", "timeout", "cancelled"}]
    /\ history \in Seq(VlmTask) /\ Len(history) <= HistoryMax

VlmInit ==
    /\ llamaNodes \in 0..MaxLlamaNodes /\ vlmCount = 0 /\ admitted = 0
    /\ handler = [h \in VlmHandlers |-> "idle"]
    /\ vlmTask = [t \in VlmTask |-> "none"] /\ ctx = [t \in VlmTask |-> "open"]
    /\ watcher = [t \in VlmTask |-> "none"] /\ outcome = [t \in VlmTask |-> "none"]
    /\ history = <<>>

NodesChange ==
    /\ llamaNodes' \in 0..MaxLlamaNodes
    /\ UNCHANGED <<vlmCount, handler, taskVars>>
-----------------------------------------------------------------------------
(* The request: nothing joins the test of the counter with its increment. *)

\* getVLMAsyncLimit
AsyncLimit(n) == IF n = 0 THEN 1 ELSE IF n > VlmMaxLimit THEN VlmMaxLimit ELSE n

\* the limit and the counter are read right after each other
LimitTest(h) ==
    /\ handler[h] = "idle" /\ vlmCount < AsyncLimit(llamaNodes)
    /\ handler' = [handler EXCEPT ![h] = "passed"]
    /\ UNCHANGED <<llamaNodes, vlmCount, taskVars>>

\* no node: the request is refused after all
Refuse(h) ==
    /\ handler[h] = "passed" /\ llamaNodes = 0
    /\ handler' = [handler EXCEPT ![h] = "idle"]
    /\ UNCHANGED <<llamaNodes, vlmCount, taskVars>>

\* the nodes were tested some steps ago
Admit(h) ==
    /\ handler[h] = "passed" /\ admitted < MaxVlmTasks
    /\ handler' = [handler EXCEPT ![h] = "idle"]
    /\ vlmCount' = vlmCount + 1 /\ admitted' = admitted + 1
    /\ vlmTask' = [vlmTask EXCEPT ![admitted'] = "infer"]
    /\ watcher' = [watcher EXCEPT ![admitted'] = "watching"]
    /\ UNCHANGED <<llamaNodes, ctx, outcome, history>>
-----------------------------------------------------------------------------
(* The task and its monitor. *)

\* 120 seconds
Deadline(t) ==
    /\ vlmTask[t] \in {"infer", "failed", "answered", "stored"} /\ ctx[t] = "open"
    /\ ctx' = [ctx EXCEPT ![t] = "deadline"]
    /\ UNCHANGED <<llamaNodes, vlmCount, handler, admitted, vlmTask, watcher,
                   outcome, history>>

\* every five seconds: no node is left, or there are two tasks more than nodes
MonitorTick(t) ==
    /\ watcher[t] = "watching" /\ ctx[t] = "open"
    /\ llamaNodes = 0 \/ vlmCount > llamaNodes + 1
    /\ ctx' = [ctx EXCEPT ![t] = "cancelled"]
    /\ watcher' = [watcher EXCEPT ![t] = "gone"]
    /\ UNCHANGED <<llamaNodes, vlmCount, handler, admitted, vlmTask, outcome, history>>

MonitorEnds(t) ==
    /\ watcher[t] = "watching" /\ ctx[t] # "open"
    /\ watcher' = [watcher EXCEPT ![t] = "gone"]
    /\ UNCHANGED <<llamaNodes, vlmCount, handler, admitted, vlmTask, ctx,
                   outcome, history>>

InferenceReturns(t) ==
    /\ vlmTask[t] = "infer"
    /\ \E r \in {"answered", "failed"} : vlmTask' = [vlmTask EXCEPT ![t] = r]
    /\ UNCHANGED <<llamaNodes, vlmCount, handler, admitted, ctx, watcher,
                   outcome, history>>

\* the kind of error is what the context says when the error is reported
ReportError(t) ==
    /\ vlmTask[t] = "failed" /\ vlmTask' = [vlmTask EXCEPT ![t] = "over"]
    /\ outcome' = [outcome EXCEPT ![t] = CASE ctx[t] = "deadline" -> "timeout"
                                           [] ctx[t] = "cancelled" -> "cancelled"
                                           [] OTHER -> "error"]
    /\ UNCHANGED <<llamaNodes, vlmCount, handler, admitted, ctx, watcher, history>>

(* Wrong variant of AddHistory: the history is not cut. *)
AddHistoryUncut(t) ==
    /\ vlmTask[t] = "answered" /\ vlmTask' = [vlmTask EXCEPT ![t] = "stored"]
    /\ history' = <<t>> \o history
    /\ UNCHANGED <<llamaNodes, vlmCount, handler, admitted, ctx, watcher, outcome>>
\* VLMHistoryStore.Add
AddHistory(t) ==
    /\ vlmTask[t] = "answered" /\ vlmTask' = [vlmTask EXCEPT ![t] = "stored"]
    /\ history' = SubSeq(<<t>> \o history, 1,
                         IF Len(history) < HistoryMax THEN Len(history) + 1 ELSE HistoryMax)
    /\ UNCHANGED <<llamaNodes, vlmCount, handler, admitted, ctx, watcher, outcome>>

ReportResult(t) ==
    /\ vlmTask[t] = "stored" /\ vlmTask' = [vlmTask EXCEPT ![t] = "over"]
    /\ outcome' = [outcome EXCEPT ![t] = "result"]
    /\ UNCHANGED <<llamaNodes, vlmCount, handler, admitted, ctx, watcher, history>>

\* the deferred functions: cancel, and the decrement; from now on only the monitor
\* asks whether the context is done
TaskEnds(t) ==
    /\ vlmTask[t] = "over" /\ vlmTask' = [vlmTask EXCEPT ![t] = "gone"]
    /\ vlmCount' = vlmCount - 1
    /\ ctx' = [ctx EXCEPT ![t] = "cancelled"]
    /\ UNCHANGED <<llamaNodes, handler, admitted, watcher, outcome, history>>

TaskStep(t) == \/ InferenceReturns(t) \/ ReportError(t) \/ AddHistory(t)
               \/ ReportResult(t) \/ TaskEnds(t)

VlmNext ==
    \/ NodesChange
    \/ \E h \in VlmHandlers : LimitTest(h) \/ Refuse(h) \/ Admit(h)
    \/ \E t \in VlmTask : Deadline(t) \/ MonitorTick(t) \/ MonitorEnds(t) \/ TaskStep(t)

VlmSpec == VlmInit /\ [][VlmNext]_vlmVars
-----------------------------------------------------------------------------
Running == {t \in VlmTask : vlmTask[t] \notin {"none", "gone"}}

(* The counter is the number of tasks that run: no way out of a task, error,
   timeout, cancellation or result, forgets or repeats the decrement. And never do
   more run than the limit and the other requests that were between the test of
   the counter and its increment, though limit and nodes change meanwhile
   (handlers.go:235-275). *)
AdmissionBounded ==
    /\ vlmCount = Cardinality(Running)
    /\ vlmCount <= VlmMaxLimit + Cardinality(VlmHandlers) - 1
=============================================================================
