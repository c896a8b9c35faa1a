-------------------------- MODULE AsyncTasks_proofs --------------------------
(***************************************************************************)
(* Proofs about AsyncTasks for any tasks, handlers, batches and queue size. *)
(* Everything rests on Enqueue's own test for a stored task; the lookup the *)
(* handler does before has no part in it.                                   *)
(***************************************************************************)
EXTENDS AsyncTasks, FiniteSetTheorems, TLAPS

LEMMA TypeInit == Init => TypeOK
BY MainOfAssumption DEF Init, TypeOK, State, Handler, Verdict

(* A request is in progress as long as it has a current task.               *)
Busy == \A c \in Call : call[c].at = "idle" <=> call[c].todo = << >>

Inv == TypeOK /\ Busy

LEMMA BatchIsSeq == ASSUME NEW batch \in Batch PROVE batch \in Seq(Task) /\ batch # << >>
<1>1. PICK k \in 1 .. MaxBatch : batch \in [1 .. k -> Task]
  BY DEF Batch
<1>2. k \in Nat /\ k >= 1
  BY <1>1
<1>3. batch \in Seq(Task)
  BY <1>1, <1>2
<1>4. DOMAIN batch = 1 .. k
  BY <1>1
<1>5. 1 \in DOMAIN batch
  BY <1>2, <1>4
<1>6. DOMAIN (<< >>) = {}
  OBVIOUS
<1> QED
  BY <1>3, <1>5, <1>6

LEMMA Rest ==
    ASSUME NEW s \in Seq(Task), s # << >>
    PROVE  Head(s) \in Task /\ Tail(s) \in Seq(Task)
OBVIOUS

(* What a handler in progress has, and what it has after an answer.         *)
LEMMA InProgress ==
    ASSUME Inv, NEW c \in Call, call[c].at # "idle"
    PROVE  /\ call[c] \in Handler
           /\ call[c].todo \in Seq(Task) /\ call[c].todo # << >>
           /\ Current(c) \in Task
           /\ Tail(call[c].todo) \in Seq(Task)
<1>1. call[c] \in Handler /\ call[c].todo # << >>
  BY DEF Inv, TypeOK, Busy
<1>2. call[c].todo \in Seq(Task)
  BY <1>1 DEF Handler
<1> QED
  BY <1>1, <1>2, Rest DEF Current

LEMMA AnsweredKeeps ==
    ASSUME Inv, NEW c \in Call, call[c].at # "idle", NEW v \in Verdict, Answered(c, v)
    PROVE  call' \in [Call -> Handler] /\ Busy'
<1> DEFINE next == [at |-> IF Tail(call[c].todo) = << >> THEN "idle" ELSE "lookup",
                    todo |-> Tail(call[c].todo),
                    responses |-> Append(call[c].responses, v)]
<1>1. call' = [call EXCEPT ![c] = next]
  BY DEF Answered
<1>2. Append(call[c].responses, v) \in Seq(Verdict)
  BY InProgress DEF Handler
<1>3. next \in Handler
  BY <1>2, InProgress DEF Handler
<1>4. next.at = "idle" <=> next.todo = << >>
  OBVIOUS
<1> HIDE DEF next
<1> QED
  BY <1>1, <1>3, <1>4 DEF Inv, TypeOK, Busy

LEMMA CurrentIsTask ==
    ASSUME Inv, NEW c \in Call, call[c].at # "idle"
    PROVE  Current(c) \in Task
BY InProgress

LEMMA InvInit == Init => Inv
BY TypeInit DEF Inv, Busy, Init

LEMMA InvNext == Inv /\ [Next]_vars => Inv'
<1> SUFFICES ASSUME Inv, [Next]_vars PROVE Inv'
  OBVIOUS
<1>1. ASSUME NEW c \in Call, NEW batch \in Batch, Submit(c, batch) PROVE Inv'
  <2>1. batch \in Seq(Task) /\ batch # << >>
    BY BatchIsSeq
  <2> DEFINE next == [at |-> "lookup", todo |-> batch, responses |-> << >>]
  <2>2. next \in Handler /\ next.at # "idle" /\ next.todo # << >>
    BY <2>1 DEF Handler
  <2>3. call' = [call EXCEPT ![c] = next] /\ UNCHANGED <<state, index, accepted>>
    BY <1>1 DEF Submit
  <2> HIDE DEF next
  <2> QED
    BY <2>2, <2>3 DEF Inv, TypeOK, Busy
<1>2. ASSUME NEW c \in Call, AnswerKnown(c) \/ EnqueueDuplicate(c) \/ EnqueueFull(c) PROVE Inv'
  <2>1. /\ call[c].at # "idle"
        /\ Answered(c, "duplicate") \/ Answered(c, "full")
        /\ UNCHANGED <<state, index, accepted>>
    BY <1>2 DEF AnswerKnown, EnqueueDuplicate, EnqueueFull
  <2>2. "duplicate" \in Verdict /\ "full" \in Verdict
    BY DEF Verdict
  <2>3. call' \in [Call -> Handler] /\ Busy'
    BY <2>1, <2>2, AnsweredKeeps
  <2> QED
    BY <2>1, <2>3 DEF Inv, TypeOK
<1>3. ASSUME NEW c \in Call, GoOn(c) PROVE Inv'
  <2>1. call[c] \in Handler /\ call[c].todo # << >>
    BY <1>3, InProgress DEF GoOn
  <2> DEFINE next == [call[c] EXCEPT !.at = "enqueue"]
  <2>2. call' = [call EXCEPT ![c] = next]
    BY <1>3 DEF GoOn
  <2>3. UNCHANGED <<state, index, accepted>>
    BY <1>3 DEF GoOn
  <2>4. next \in Handler /\ next.at # "idle" /\ next.todo # << >>
    BY <2>1 DEF Handler
  <2> HIDE DEF next
  <2> QED
    BY <2>2, <2>3, <2>4 DEF Inv, TypeOK, Busy
<1>4. ASSUME NEW c \in Call, EnqueueNew(c) PROVE Inv'
  <2>1. call[c].at # "idle" /\ Answered(c, "queued") /\ Store(Current(c))
    BY <1>4 DEF EnqueueNew
  <2>2. Current(c) \in Task
    BY <2>1, CurrentIsTask
  <2>3. MainOf[Current(c)] \in Main
    BY <2>2, MainOfAssumption
  <2>4. state' \in [Task -> State]
    BY <2>1, <2>2 DEF Store, Inv, TypeOK, State
  <2>5. index' \in [Main -> Seq(Task)]
    BY <2>1, <2>2, <2>3 DEF Store, Inv, TypeOK
  <2>6. accepted' \in [Task -> Nat]
    BY <2>1, <2>2 DEF Store, Inv, TypeOK
  <2>7. "queued" \in Verdict
    BY DEF Verdict
  <2> QED
    BY <2>1, <2>4, <2>5, <2>6, <2>7, AnsweredKeeps DEF Inv, TypeOK
<1>5. CASE UNCHANGED vars
  BY <1>5 DEF vars, Inv, TypeOK, Busy
<1> QED
  BY <1>1, <1>2, <1>3, <1>4, <1>5 DEF Next, CallStep

(* Every variable keeps its type.                                           *)
THEOREM TypeCorrect == Spec => []TypeOK
<1>1. Inv => TypeOK
  BY DEF Inv
<1> QED
  BY <1>1, InvInit, InvNext, PTL DEF Spec

-----------------------------------------------------------------------------
(* Only EnqueueNew changes what is stored, and it stores what was not.      *)
LEMMA OnlyNewStores ==
    ASSUME Inv, [Next]_vars
    PROVE  \/ UNCHANGED <<state, index, accepted>>
           \/ \E t \in Task : t \notin Stored /\ Cardinality(Stored) < QueueSize /\ Store(t)
<1>1. ASSUME NEW c \in Call, EnqueueNew(c)
      PROVE \E t \in Task : t \notin Stored /\ Cardinality(Stored) < QueueSize /\ Store(t)
  <2>1. call[c].at # "idle"
    BY <1>1 DEF EnqueueNew
  <2> QED
    BY <1>1, <2>1, CurrentIsTask DEF EnqueueNew
<1>2. CASE \A c \in Call : ~EnqueueNew(c)
  BY <1>2 DEF Next, CallStep, Submit, AnswerKnown, GoOn, EnqueueDuplicate, EnqueueFull, vars
<1> QED
  BY <1>1, <1>2

LEMMA StoreStores ==
    ASSUME Inv, NEW t \in Task, Store(t)
    PROVE  Stored' = Stored \cup {t}
BY DEF Inv, TypeOK, State, Store, Stored

LEMMA AcceptedNext == Inv /\ AcceptedOnce /\ [Next]_vars => AcceptedOnce'
<1> SUFFICES ASSUME Inv, AcceptedOnce, [Next]_vars PROVE AcceptedOnce'
  OBVIOUS
<1>1. CASE UNCHANGED <<state, index, accepted>>
  BY <1>1 DEF AcceptedOnce, Stored
<1>2. ASSUME NEW t \in Task, t \notin Stored, Store(t) PROVE AcceptedOnce'
  <2>1. Stored' = Stored \cup {t}
    BY <1>2, StoreStores
  <2>2. accepted[t] = 0
    BY <1>2 DEF AcceptedOnce
  <2>3. /\ accepted'[t] = 1
        /\ \A u \in Task \ {t} : accepted'[u] = accepted[u]
    BY <1>2, <2>2 DEF Store, Inv, TypeOK
  <2> QED
    BY <2>1, <2>3 DEF AcceptedOnce
<1> QED
  BY <1>1, <1>2, OnlyNewStores

(* Of all the submissions of a task that is stored exactly one was answered *)
(* as newly queued, for any handlers and tasks.                             *)
THEOREM OneAcceptance == Spec => []AcceptedOnce
<1>1. Init => AcceptedOnce
  BY DEF Init, AcceptedOnce, Stored
<1> QED
  BY <1>1, InvInit, InvNext, AcceptedNext, PTL DEF Spec

-----------------------------------------------------------------------------
Listed(m) == {index[m][i] : i \in DOMAIN index[m]}
Distinct(m) == \A i, j \in DOMAIN index[m] : index[m][i] = index[m][j] => i = j

LEMMA AppendLists ==
    ASSUME NEW s \in Seq(Task), NEW t \in Task, NEW u, u = Append(s, t)
    PROVE  /\ DOMAIN u = DOMAIN s \cup {Len(s) + 1}
           /\ Len(s) + 1 \notin DOMAIN s
           /\ u[Len(s) + 1] = t
           /\ \A i \in DOMAIN s : u[i] = s[i]
OBVIOUS

LEMMA IndexNext == Inv /\ IndexedOnce /\ [Next]_vars => IndexedOnce'
<1> SUFFICES ASSUME Inv, IndexedOnce, [Next]_vars PROVE IndexedOnce'
  OBVIOUS
<1>1. CASE UNCHANGED <<state, index, accepted>>
  BY <1>1 DEF IndexedOnce, Stored
<1>2. ASSUME NEW t \in Task, t \notin Stored, Store(t), NEW m \in Main
      PROVE  /\ {index[m][i] : i \in DOMAIN index[m]}' = {u \in Stored' : MainOf[u] = m}
             /\ \A i, j \in DOMAIN index'[m] : index'[m][i] = index'[m][j] => i = j
  <2>1. Stored' = Stored \cup {t}
    BY <1>2, StoreStores
  <2>2. MainOf[t] \in Main
    BY MainOfAssumption
  <2>3. CASE m # MainOf[t]
    <3>1. index'[m] = index[m]
      BY <1>2, <2>2, <2>3 DEF Store, Inv, TypeOK
    <3> QED
      BY <2>1, <2>3, <3>1 DEF IndexedOnce
  <2>4. CASE m = MainOf[t]
    <3>1. index'[m] = Append(index[m], t)
      BY <1>2, <2>2, <2>4 DEF Store, Inv, TypeOK
    <3> DEFINE s == index[m]
               u == index'[m]
    <3>2. s \in Seq(Task)
      BY DEF Inv, TypeOK
    <3>3. /\ DOMAIN u = DOMAIN s \cup {Len(s) + 1}
          /\ Len(s) + 1 \notin DOMAIN s
          /\ u[Len(s) + 1] = t
          /\ \A i \in DOMAIN s : u[i] = s[i]
      BY <3>1, <3>2, AppendLists
    <3>4. {s[i] : i \in DOMAIN s} = {v \in Stored : MainOf[v] = m}
      BY DEF IndexedOnce
    <3>5. \A i, j \in DOMAIN s : s[i] = s[j] => i = j
      BY DEF IndexedOnce
    <3>6. \A i \in DOMAIN s : s[i] # t
      BY <1>2, <3>4
    <3> HIDE DEF s, u
    <3>7. {u[i] : i \in DOMAIN u} = {s[i] : i \in DOMAIN s} \cup {t}
      BY <3>3
    <3>8. \A i, j \in DOMAIN u : u[i] = u[j] => i = j
      BY <3>3, <3>5, <3>6
    <3>9. {u[i] : i \in DOMAIN u} = {v \in Stored' : MainOf[v] = m}
      BY <2>1, <2>4, <3>4, <3>7
    <3> QED
      BY <3>8, <3>9 DEF u
  <2> QED
    BY <2>3, <2>4
<1>3. ASSUME NEW t \in Task, t \notin Stored, Store(t) PROVE IndexedOnce'
  BY <1>2, <1>3 DEF IndexedOnce
<1> QED
  BY <1>1, <1>3, OnlyNewStores

(* A main task's index lists its stored tasks, each once.                   *)
THEOREM IndexCorrect == Spec => []IndexedOnce
<1>1. Init => IndexedOnce
  BY DEF Init, IndexedOnce, Stored
<1> QED
  BY <1>1, InvInit, InvNext, IndexNext, PTL DEF Spec

-----------------------------------------------------------------------------
LEMMA StoredFinite == IsFiniteSet(Stored) /\ Cardinality(Stored) \in Nat
<1>1. Stored \subseteq Task
  BY DEF Stored
<1> QED
  BY <1>1, TaskAssumption, FS_Subset, FS_CardinalityType

LEMMA BoundedNext == Inv /\ QueueBounded /\ [Next]_vars => QueueBounded'
<1> SUFFICES ASSUME Inv, QueueBounded, [Next]_vars PROVE QueueBounded'
  OBVIOUS
<1>1. CASE UNCHANGED <<state, index, accepted>>
  BY <1>1 DEF QueueBounded, Stored
<1>2. ASSUME NEW t \in Task, t \notin Stored, Cardinality(Stored) < QueueSize, Store(t)
      PROVE QueueBounded'
  <2>1. Stored' = Stored \cup {t}
    BY <1>2, StoreStores
  <2>2. Cardinality(Stored') = Cardinality(Stored) + 1
    BY <1>2, <2>1, StoredFinite, FS_AddElement
  <2> QED
    BY <1>2, <2>2, StoredFinite, QueueSizeAssumption DEF QueueBounded
<1> QED
  BY <1>1, <1>2, OnlyNewStores

(* The queue never holds more than QueueSize tasks.                         *)
THEOREM NeverOverfull == Spec => []QueueBounded
<1>1. Init => QueueBounded
  <2>1. Init => Stored = {}
    BY DEF Init, Stored
  <2> QED
    BY <2>1, FS_EmptySet, QueueSizeAssumption DEF QueueBounded
<1> QED
  BY <1>1, InvInit, InvNext, BoundedNext, PTL DEF Spec
-----------------------------------------------------------------------------
(* Refinement: a look-up that finds nothing is a stutter of TaskStore, every *)
(* other step of a handler is the step of TaskStore with its answer.        *)
todoOf == [c \in Call |-> call[c].todo]
responsesOf == [c \in Call |-> call[c].responses]

LEMMA Mapped ==
    \A c \in Call : todoOf[c] = call[c].todo /\ responsesOf[c] = call[c].responses
BY DEF todoOf, responsesOf

LEMMA StoreInit == Init => TheStore!Init
BY DEF Init, TheStore!Init, Stored

LEMMA AnsweredMaps ==
    ASSUME Inv, NEW c \in Call, call[c].at # "idle", NEW v, Answered(c, v)
    PROVE  /\ TheStore!Answer(c, v)
           /\ todoOf[c] = call[c].todo
<1>1. call[c].todo # << >>
  BY InProgress
<1>2. /\ \A d \in Call \ {c} : call'[d] = call[d]
      /\ call'[c].todo = Tail(call[c].todo)
      /\ call'[c].responses = Append(call[c].responses, v)
  BY DEF Answered, Inv, TypeOK
<1>3. todoOf' = [todoOf EXCEPT ![c] = Tail(todoOf[c])]
  BY <1>2 DEF todoOf
<1>4. responsesOf' = [responsesOf EXCEPT ![c] = Append(responsesOf[c], v)]
  BY <1>2 DEF responsesOf
<1> QED
  BY <1>1, <1>3, <1>4, Mapped DEF TheStore!Answer, todoOf, responsesOf

LEMMA StoreNext == Inv /\ [Next]_vars => [TheStore!Next]_TheStore!store
<1> SUFFICES ASSUME Inv, [Next]_vars PROVE [TheStore!Next]_TheStore!store
  OBVIOUS
<1>1. ASSUME NEW c \in Call, NEW batch \in Batch, Submit(c, batch)
      PROVE  TheStore!Ask(c, batch)
  <2>1. todoOf[c] = << >>
    BY <1>1 DEF Submit, Inv, Busy, todoOf
  <2>2. /\ \A d \in Call \ {c} : call'[d] = call[d]
        /\ call'[c].todo = batch /\ call'[c].responses = << >>
    BY <1>1 DEF Submit, Inv, TypeOK
  <2>3. /\ todoOf' = [todoOf EXCEPT ![c] = batch]
        /\ responsesOf' = [responsesOf EXCEPT ![c] = << >>]
    BY <2>2 DEF todoOf, responsesOf
  <2>4. Stored' = Stored
    BY <1>1 DEF Submit, Stored
  <2> QED
    BY <2>1, <2>3, <2>4 DEF TheStore!Ask, todoOf, responsesOf
<1>2. ASSUME NEW c \in Call, AnswerKnown(c) \/ EnqueueDuplicate(c)
      PROVE  TheStore!Recognise(c)
  <2>1. /\ call[c].at # "idle" /\ Answered(c, "duplicate")
        /\ Current(c) \in Stored /\ Stored' = Stored
    BY <1>2 DEF AnswerKnown, EnqueueDuplicate, Stored
  <2> QED
    BY <2>1, AnsweredMaps DEF TheStore!Recognise, Current, todoOf
<1>3. ASSUME NEW c \in Call, EnqueueFull(c) PROVE TheStore!Refuse(c)
  <2>1. /\ call[c].at # "idle" /\ Answered(c, "full")
        /\ Current(c) \notin Stored /\ Cardinality(Stored) >= QueueSize /\ Stored' = Stored
    BY <1>3 DEF EnqueueFull, Stored
  <2> QED
    BY <2>1, AnsweredMaps DEF TheStore!Refuse, TheStore!Cardinality, Cardinality, Current, todoOf
<1>4. ASSUME NEW c \in Call, EnqueueNew(c) PROVE TheStore!Accept(c)
  <2>1. /\ call[c].at # "idle" /\ Answered(c, "queued")
        /\ Current(c) \notin Stored /\ Cardinality(Stored) < QueueSize /\ Store(Current(c))
    BY <1>4 DEF EnqueueNew
  <2>2. Stored' = Stored \cup {Current(c)}
    BY <2>1, CurrentIsTask, StoreStores
  <2> QED
    BY <2>1, <2>2, AnsweredMaps DEF TheStore!Accept, TheStore!Cardinality, Cardinality, Current, todoOf
<1>5. ASSUME NEW c \in Call, GoOn(c) PROVE UNCHANGED TheStore!store
  <2>1. \A d \in Call : call'[d].todo = call[d].todo /\ call'[d].responses = call[d].responses
    BY <1>5, InProgress DEF GoOn, Inv, TypeOK, Handler
  <2>2. Stored' = Stored
    BY <1>5 DEF GoOn, Stored
  <2> QED
    BY <2>1, <2>2 DEF TheStore!store
<1>6. CASE UNCHANGED vars
  BY <1>6 DEF vars, TheStore!store, Stored
<1> QED
  BY <1>1, <1>2, <1>3, <1>4, <1>5, <1>6 DEF Next, CallStep, TheStore!Next

(* Handlers that look a task up and enqueue it in two critical sections     *)
(* answer as a store that is asked once per task, for any handlers, batches *)
(* and queue size.                                                         *)
THEOREM SubmissionsAreAtomic == Spec => AnswersAsStore
<1>1. Init => TheStore!Init
  BY StoreInit
<1>2. Inv /\ [Next]_vars => [TheStore!Next]_TheStore!store
  BY StoreNext
<1> QED
  BY <1>1, <1>2, InvInit, InvNext, PTL DEF Spec, AnswersAsStore, TheStore!Spec
=============================================================================
