----------------------------- MODULE AsyncTasks -----------------------------
(***************************************************************************)
(* The asynchronous tasks of the gateway's API: AsyncTaskManager and the    *)
(* handlers SubmitAsyncTask and BatchSubmitAsyncTasks.                      *)
(*                                                                         *)
(* A handler takes the tasks of its request one by one; for each it looks   *)
(* the task id up and, if it is not there, enqueues it, which are two       *)
(* critical sections.  A single submission is a batch of one.  The other    *)
(* handlers only read: AcknowledgeAsyncTask would change something for a    *)
(* completed task, and no code makes a task anything but queued.            *)
(*                                                                         *)
(* A task id stands for a task: GenerateTaskID is taken to be injective.    *)
(***************************************************************************)
EXTENDS Naturals, FiniteSets, Sequences

CONSTANTS
    Call,           \* slots for handlers
    Task,           \* task ids
    Main,           \* main task ids
    MainOf,         \* the main task of a task
    QueueSize,      \* maxQueueSize
    MaxBatch        \* bound on the tasks of a request

ASSUME MainOfAssumption == MainOf \in [Task -> Main]
ASSUME QueueSizeAssumption == QueueSize \in Nat \ {0}
ASSUME TaskAssumption == IsFiniteSet(Task)

VARIABLES
    state,          \* the state of a stored task, or "none"
    index,          \* mainTaskIndex
    call,           \* where a handler is, what it has still to do, its responses
    accepted        \* how often a task was answered as newly queued (for the properties only)

vars == <<state, index, call, accepted>>

State == {"none", "queued", "dispatched", "running", "completed", "failed", "cancelled", "timeout"}

Batch == UNION {[1 .. k -> Task] : k \in 1 .. MaxBatch}
Verdict == {"queued", "duplicate", "full"}
Handler == [at : {"idle", "lookup", "enqueue"}, todo : Seq(Task), responses : Seq(Verdict)]

Stored == {t \in Task : state[t] # "none"}

Init ==
    /\ state = [t \in Task |-> "none"]
    /\ index = [m \in Main |-> << >>]
    /\ call = [c \in Call |-> [at |-> "idle", todo |-> << >>, responses |-> << >>]]
    /\ accepted = [t \in Task |-> 0]

-----------------------------------------------------------------------------
Current(c) == Head(call[c].todo)

(* The current task has been answered: the next one, or the reply, which    *)
(* has the responses to all.                                               *)
Answered(c, verdict) ==
    call' = [call EXCEPT ![c] =
                [at |-> IF Tail(@.todo) = << >> THEN "idle" ELSE "lookup",
                 todo |-> Tail(@.todo),
                 responses |-> Append(@.responses, verdict)]]

Submit(c, batch) ==
    /\ call[c].at = "idle"
    /\ call' = [call EXCEPT ![c] = [at |-> "lookup", todo |-> batch, responses |-> << >>]]
    /\ UNCHANGED <<state, index, accepted>>

(* GetTask: a known task is answered with its state.                        *)
AnswerKnown(c) ==
    /\ call[c].at = "lookup"
    /\ Current(c) \in Stored
    /\ Answered(c, "duplicate")
    /\ UNCHANGED <<state, index, accepted>>

GoOn(c) ==
    /\ call[c].at = "lookup"
    /\ Current(c) \notin Stored
    /\ call' = [call EXCEPT ![c].at = "enqueue"]
    /\ UNCHANGED <<state, index, accepted>>

(* Enqueue finds the task: another handler was faster.                      *)
EnqueueDuplicate(c) ==
    /\ call[c].at = "enqueue"
    /\ Current(c) \in Stored
    /\ Answered(c, "duplicate")
    /\ UNCHANGED <<state, index, accepted>>

(* Wrong variant of EnqueueFull: the room is tested before the task.        *)
EnqueueFullFirst(c) ==
    /\ call[c].at = "enqueue"
    /\ Cardinality(Stored) >= QueueSize
    /\ Answered(c, "full")
    /\ UNCHANGED <<state, index, accepted>>

(* 503, or an error entry of the batch's reply.                             *)
EnqueueFull(c) ==
    /\ call[c].at = "enqueue"
    /\ Current(c) \notin Stored
    /\ Cardinality(Stored) >= QueueSize
    /\ Answered(c, "full")
    /\ UNCHANGED <<state, index, accepted>>

Store(t) ==
    /\ state' = [state EXCEPT ![t] = "queued"]
    /\ index' = [index EXCEPT ![MainOf[t]] = Append(@, t)]
    /\ accepted' = [accepted EXCEPT ![t] = @ + 1]

(* Wrong variant of EnqueueNew: it relies on the handler's lookup.          *)
EnqueueUnchecked(c) ==
    /\ call[c].at = "enqueue"
    /\ Cardinality(Stored) < QueueSize
    /\ Store(Current(c))
    /\ Answered(c, "queued")

(* Wrong variant of EnqueueNew: the state is left to the caller.            *)
EnqueueStateless(c) ==
    /\ call[c].at = "enqueue"
    /\ Current(c) \notin Stored
    /\ Cardinality(Stored) < QueueSize
    /\ state' = [state EXCEPT ![Current(c)] = ""]
    /\ index' = [index EXCEPT ![MainOf[Current(c)]] = Append(@, Current(c))]
    /\ accepted' = [accepted EXCEPT ![Current(c)] = @ + 1]
    /\ Answered(c, "queued")

EnqueueNew(c) ==
    /\ call[c].at = "enqueue"
    /\ Current(c) \notin Stored
    /\ Cardinality(Stored) < QueueSize
    /\ Store(Current(c))
    /\ Answered(c, "queued")

CallStep(c) ==
    AnswerKnown(c) \/ GoOn(c) \/ EnqueueDuplicate(c) \/ EnqueueFull(c) \/ EnqueueNew(c)

Next ==
    \/ \E c \in Call, batch \in Batch : Submit(c, batch)
    \/ \E c \in Call : CallStep(c)

Spec == Init /\ [][Next]_vars

(* A handler that has begun goes on; nobody has to submit anything.         *)
FairSpec == Spec /\ \A c \in Call : WF_vars(CallStep(c))

-----------------------------------------------------------------------------
(* Properties.                                                             *)

TypeOK ==
    /\ state \in [Task -> State]
    /\ index \in [Main -> Seq(Task)]
    /\ call \in [Call -> Handler]
    /\ accepted \in [Task -> Nat]

(* However the handlers that submit a task race, one of them is told that   *)
(* it was queued, and the others that it is a duplicate.                    *)
AcceptedOnce == \A t \in Task : accepted[t] = IF t \in Stored THEN 1 ELSE 0

(* A main task's index lists each of its stored tasks once, and no other:   *)
(* GetMainTaskProgress counts every task once.                              *)
IndexedOnce ==
    \A m \in Main :
        /\ {index[m][i] : i \in DOMAIN index[m]} = {t \in Stored : MainOf[t] = m}
        /\ \A i, j \in DOMAIN index[m] : index[m][i] = index[m][j] => i = j

(* The tests of the queue's length and the insertions are atomic: racing    *)
(* handlers do not overfill it.                                            *)
QueueBounded == Cardinality(Stored) <= QueueSize

(* A handler that looks a task up, and enqueues it later, answers as if it  *)
(* did both at the later moment: the submissions implement TaskStore.       *)
TheStore == INSTANCE TaskStore WITH
    Batches <- Batch,
    stored <- Stored,
    todo <- [c \in Call |-> call[c].todo],
    responses <- [c \in Call |-> call[c].responses]

(* Racing handlers cannot make the API answer what a store that is asked    *)
(* once per task would not: no task is taken twice, refused while there is  *)
(* room, or called a duplicate of one that is not there                     *)
(* (async_tasks.go:77-102, 295-335, 483-524).                               *)
AnswersAsStore == TheStore!Spec

(* async_tasks.go:347: a queued task waits to be executed.  Violated: there *)
(* is no code that takes a task out of the queue.                           *)
QueuedIsExecuted == \A t \in Task : (state[t] = "queued") ~> (state[t] # "queued")
=============================================================================
