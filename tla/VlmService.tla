----------------------------- MODULE VlmService -----------------------------
(***************************************************************************)
(* What the gateway promises a VLM request, whatever happens to the nodes:  *)
(* it is served by one node at a time, never by more than MaxConcurrent     *)
(* requests on one node object, each new attempt goes to a node that has    *)
(* not failed it, there are at most MaxRetries + 1 attempts, and a request  *)
(* that is over stays so.  Choosing a node and occupying it are one step.   *)
(*                                                                         *)
(* The registry, the counters, the selection lock and the blacklist, with   *)
(* which NodeDispatch implements this, do not occur here.                   *)
(***************************************************************************)
EXTENDS Naturals, FiniteSets

CONSTANTS Node, Object, Request, MaxConcurrent, MaxRetries, None

VARIABLES
    serving,    \* the object that serves a request, or None
    failed,     \* the nodes that have failed it
    over        \* whether it has ended

service == <<serving, failed, over>>

Init ==
    /\ serving = [r \in Request |-> None]
    /\ failed = [r \in Request |-> {}]
    /\ over = [r \in Request |-> FALSE]

Served(o) == {r \in Request : serving[r] = o}

(* An object with a free place takes the request.                           *)
Serve(r, o) ==
    /\ ~over[r]
    /\ serving[r] = None
    /\ Cardinality(Served(o)) < MaxConcurrent
    /\ serving' = [serving EXCEPT ![r] = o]
    /\ UNCHANGED <<failed, over>>

(* The attempt ends the request: with an answer, or one that is of no use.  *)
Answer(r) ==
    /\ serving[r] # None
    /\ serving' = [serving EXCEPT ![r] = None]
    /\ over' = [over EXCEPT ![r] = TRUE]
    /\ UNCHANGED failed

(* The attempt fails on a node that had not failed the request before, and  *)
(* the last one ends it.                                                    *)
Fail(r, n) ==
    /\ serving[r] # None
    /\ n \notin failed[r]
    /\ serving' = [serving EXCEPT ![r] = None]
    /\ failed' = [failed EXCEPT ![r] = @ \cup {n}]
    /\ over' = [over EXCEPT ![r] = Cardinality(failed[r]) = MaxRetries]

(* The request is refused, or no node is found for it in time.              *)
GiveUp(r) ==
    /\ serving[r] = None
    /\ ~over[r]
    /\ over' = [over EXCEPT ![r] = TRUE]
    /\ UNCHANGED <<serving, failed>>

Next ==
    \E r \in Request :
        \/ \E o \in Object : Serve(r, o)
        \/ \E n \in Node : Fail(r, n)
        \/ Answer(r)
        \/ GiveUp(r)

Spec == Init /\ [][Next]_service
=============================================================================
