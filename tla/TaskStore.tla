------------------------------ MODULE TaskStore ------------------------------
(***************************************************************************)
(* What the submission of asynchronous tasks promises, however its handlers *)
(* race: each task of a request is answered in one step, by what the store  *)
(* holds in that step.  A new task is taken if there is room, a known one   *)
(* is recognised, and nothing else changes the store.                      *)
(*                                                                         *)
(* The look-up before the insertion, which AsyncTasks has as a step of its  *)
(* own, and the index of the main tasks do not occur here.                  *)
(***************************************************************************)
EXTENDS Naturals, FiniteSets, Sequences

CONSTANTS Call, Task, Batches, QueueSize

VARIABLES
    stored,     \* the tasks that were taken
    todo,       \* what a request still asks for
    responses   \* its answers so far

store == <<stored, todo, responses>>

Init ==
    /\ stored = {}
    /\ todo = [c \in Call |-> << >>]
    /\ responses = [c \in Call |-> << >>]

Ask(c, batch) ==
    /\ todo[c] = << >>
    /\ todo' = [todo EXCEPT ![c] = batch]
    /\ responses' = [responses EXCEPT ![c] = << >>]
    /\ UNCHANGED stored

(* The answer to the first task a request still asks for.                   *)
Answer(c, verdict) ==
    /\ todo[c] # << >>
    /\ todo' = [todo EXCEPT ![c] = Tail(@)]
    /\ responses' = [responses EXCEPT ![c] = Append(@, verdict)]

Accept(c) ==
    /\ Answer(c, "queued")
    /\ Head(todo[c]) \notin stored
    /\ Cardinality(stored) < QueueSize
    /\ stored' = stored \cup {Head(todo[c])}

Recognise(c) ==
    /\ Answer(c, "duplicate")
    /\ Head(todo[c]) \in stored
    /\ UNCHANGED stored

Refuse(c) ==
    /\ Answer(c, "full")
    /\ Head(todo[c]) \notin stored
    /\ Cardinality(stored) >= QueueSize
    /\ UNCHANGED stored

Next ==
    \E c \in Call :
        \/ \E batch \in Batches : Ask(c, batch)
        \/ Accept(c) \/ Recognise(c) \/ Refuse(c)

Spec == Init /\ [][Next]_store
=============================================================================
