------------------------- MODULE NodeDispatch_proofs -------------------------
(***************************************************************************)
(* Proofs about NodeDispatch for any sets of nodes, objects, requests and  *)
(* forwards, any limit and any number of retries.                          *)
(*                                                                         *)
(* First the types, the pointers and the exclusiveness of the selection    *)
(* lock; from them the accounting of the counters; from both the cap on    *)
(* the VLM requests of one object; and, separately, that retries visit     *)
(* distinct nodes.                                                         *)
(***************************************************************************)
EXTENDS NodeDispatch, FiniteSetTheorems, TLAPS

Base == TypeOK /\ PointersOK /\ SelectionExclusive /\ AttemptsBounded

LEMMA BaseInit == Init => Base
<1> SUFFICES ASSUME Init PROVE Base
  OBVIOUS
<1> USE NoneAssumption, MaxRetriesAssumption DEF Init
<1>1. TypeOK
  <2>1. attempt \in [Request -> 0 .. MaxRetries + 1]
    OBVIOUS
  <2> QED
    BY <2>1 DEF TypeOK, RequestState, ForwardState, DrainState
<1>2. PointersOK
  BY DEF PointersOK, Holding, Choosing
<1>3. SelectionExclusive
  BY DEF SelectionExclusive, Choosing
<1>4. AttemptsBounded
  BY DEF AttemptsBounded
<1> QED
  BY <1>1, <1>2, <1>3, <1>4 DEF Base

(* The registered objects are allocated objects.                            *)
LEMMA RegisteredAllocated ==
    ASSUME Base, NEW o \in Registered
    PROVE  o \in Object /\ owner[o] \in Node
BY NoneAssumption DEF Base, TypeOK, PointersOK, Registered

(* Each action of a request preserves the base invariant.                   *)
LEMMA BaseRequest ==
    ASSUME Base, NEW r \in Request, RequestStep(r)
    PROVE  Base'
<1> USE NoneAssumption, MaxRetriesAssumption
<1> USE DEF Base, TypeOK, PointersOK, SelectionExclusive, AttemptsBounded, RequestState, Holding,
            Choosing, nodeVars, requestVars, forwardVars, drainVars, Goto
<1>1. CASE Start(r)
  BY <1>1 DEF Start
<1>2. CASE Select(r)
  <2>1. PICK o \in Available(r) : held' = [held EXCEPT ![r] = o]
    BY <1>2 DEF Select
  <2>2. o \in Object /\ owner[o] \in Node
    BY <2>1, RegisteredAllocated DEF Available
  <2>3. QED
    BY <1>2, <2>1, <2>2 DEF Select
<1>3. CASE SelectNothing(r)
  BY <1>3 DEF SelectNothing
<1>4. CASE Recheck(r)
  BY <1>4 DEF Recheck
<1>5. CASE Acquire(r)
  BY <1>5 DEF Acquire
<1>6. CASE WaitGivesUp(r)
  BY <1>6 DEF WaitGivesUp
<1>7. ASSUME NEW next \in {"done", "recordFailure", "recordSuccess"}, Release(r, next)
      PROVE  Base'
  BY <1>7 DEF Release, Decrement
<1>8. CASE RecordSuccess(r)
  BY <1>8 DEF RecordSuccess
<1>9. CASE RecordFailure(r)
  BY <1>9 DEF RecordFailure
<1> QED
  BY <1>1, <1>2, <1>3, <1>4, <1>5, <1>6, <1>7, <1>8, <1>9 DEF RequestStep

(* So do the actions of a forward, ...                                      *)
LEMMA BaseForward ==
    ASSUME Base, NEW f \in Forward, ForwardStep(f)
    PROVE  Base'
<1> USE NoneAssumption
<1> USE DEF Base, TypeOK, PointersOK, SelectionExclusive, AttemptsBounded, ForwardState,
            nodeVars, requestVars, forwardVars, drainVars
<1>1. CASE ForwardChoose(f)
  <2>1. PICK o \in Registered : target' = [target EXCEPT ![f] = o]
    BY <1>1 DEF ForwardChoose
  <2>2. o \in Object /\ owner[o] \in Node
    BY RegisteredAllocated
  <2>3. QED
    BY <1>1, <2>1, <2>2 DEF ForwardChoose
<1>2. CASE ForwardBegin(f)
  BY <1>2 DEF ForwardBegin
<1>3. CASE ForwardEnd(f)
  BY <1>3 DEF ForwardEnd, Decrement
<1> QED
  BY <1>1, <1>2, <1>3 DEF ForwardStep

(* ... those of the registry and of the nodes, ...                          *)
LEMMA BaseNode ==
    ASSUME Base, NEW n \in Node, NodeStep(n)
    PROVE  Base'
<1> USE NoneAssumption
<1> USE DEF Base, TypeOK, PointersOK, SelectionExclusive, AttemptsBounded,
            nodeVars, requestVars, forwardVars, drainVars
<1>1. ASSUME NEW o \in Object, Register(n, o)
      PROVE  Base'
  BY <1>1 DEF Register
<1>2. CASE Unregister(n)
  BY <1>2 DEF Unregister
<1>3. CASE ChangeReadiness(n)
  BY <1>3 DEF ChangeReadiness
<1>4. CASE BlacklistExpires(n)
  BY <1>4 DEF BlacklistExpires
<1> QED
  BY <1>1, <1>2, <1>3, <1>4 DEF NodeStep

(* ... and those of the shutdown.                                           *)
LEMMA BaseDrain ==
    ASSUME Base, ShutdownBegin \/ DrainStep
    PROVE  Base'
<1> USE DEF Base, TypeOK, PointersOK, SelectionExclusive, AttemptsBounded, DrainState,
            nodeVars, requestVars, forwardVars, drainVars
<1>1. CASE ShutdownBegin
  BY <1>1 DEF ShutdownBegin
<1>2. CASE DrainPoll
  BY <1>2 DEF DrainPoll, Registered
<1>3. ASSUME NEW o \in Object, DrainCheck(o)
      PROVE  Base'
  BY <1>3 DEF DrainCheck
<1>4. CASE DrainCompleted
  BY <1>4 DEF DrainCompleted
<1>5. CASE DrainTimeout
  BY <1>5 DEF DrainTimeout
<1> QED
  BY <1>1, <1>2, <1>3, <1>4, <1>5 DEF DrainStep

LEMMA BaseNext == Base /\ [Next]_vars => Base'
<1> SUFFICES ASSUME Base, [Next]_vars PROVE Base'
  OBVIOUS
<1>1. CASE UNCHANGED vars
  BY <1>1 DEF Base, TypeOK, PointersOK, SelectionExclusive, AttemptsBounded, vars,
              nodeVars, requestVars, forwardVars, drainVars
<1>2. CASE Next
  BY <1>2, BaseRequest, BaseForward, BaseNode, BaseDrain DEF Next
<1> QED
  BY <1>1, <1>2

LEMMA BaseAlways == Spec => []Base
BY BaseInit, BaseNext, PTL DEF Spec

(* Every variable keeps its type; in particular a request makes at most     *)
(* MaxRetries + 1 attempts (the loop of requestWithNode).                   *)
THEOREM TypeCorrect == Spec => []TypeOK
<1>1. Base => TypeOK
  BY DEF Base
<1> QED
  BY <1>1, BaseAlways, PTL

-----------------------------------------------------------------------------
(* Which requests and forwards use an object after a step.                  *)

Leaving == {"done", "recordFailure", "recordSuccess"}

LEMMA HoldersFinite ==
    ASSUME NEW o \in Object
    PROVE  /\ IsFiniteSet(VlmHolders(o)) /\ Cardinality(VlmHolders(o)) \in Nat
           /\ IsFiniteSet(YoloHolders(o)) /\ Cardinality(YoloHolders(o)) \in Nat
<1>1. VlmHolders(o) \in SUBSET Request /\ YoloHolders(o) \in SUBSET Forward
  BY DEF VlmHolders, YoloHolders
<1>2. IsFiniteSet(VlmHolders(o)) /\ IsFiniteSet(YoloHolders(o))
  BY <1>1, FiniteAssumption, FS_Subset
<1> QED
  BY <1>2, FS_CardinalityType

LEMMA AcquireEffect ==
    ASSUME Base, NEW r \in Request, Acquire(r), NEW o \in Object
    PROVE  /\ r \notin VlmHolders(o)
           /\ VlmHolders(o)' = IF o = held[r] THEN VlmHolders(o) \cup {r} ELSE VlmHolders(o)
BY DEF Base, TypeOK, RequestState, Acquire, Goto, VlmHolders

LEMMA ReleaseEffect ==
    ASSUME Base, NEW r \in Request, NEW next \in Leaving, Release(r, next), NEW o \in Object
    PROVE  /\ o = held[r] => r \in VlmHolders(o)
           /\ VlmHolders(o)' = IF o = held[r] THEN VlmHolders(o) \ {r} ELSE VlmHolders(o)
BY DEF Base, TypeOK, RequestState, Release, Goto, VlmHolders, Leaving

(* The other steps of a request change neither the users of an object nor   *)
(* the counters.                                                            *)
QuietStep(r) ==
    \/ Start(r) \/ Select(r) \/ SelectNothing(r) \/ Recheck(r) \/ WaitGivesUp(r)
    \/ RecordSuccess(r) \/ RecordFailure(r)

LEMMA QuietEffect ==
    ASSUME Base, NEW r \in Request, QuietStep(r)
    PROVE  /\ \A o \in Object : VlmHolders(o)' = VlmHolders(o)
           /\ UNCHANGED <<nodeVars, forwardVars>>
<1>1. /\ pc[r] # "sending" /\ pc'[r] # "sending"
      /\ \A q \in Request \ {r} : pc'[q] = pc[q] /\ held'[q] = held[q]
      /\ UNCHANGED <<nodeVars, forwardVars>>
  BY DEF Base, TypeOK, QuietStep, Start, Select, SelectNothing, Recheck, WaitGivesUp,
         RecordSuccess, RecordFailure, Goto, nodeVars, forwardVars
<1>2. \A o \in Object : VlmHolders(o)' = VlmHolders(o)
  BY <1>1 DEF VlmHolders
<1> QED
  BY <1>1, <1>2

LEMMA ForwardBeginEffect ==
    ASSUME Base, NEW f \in Forward, ForwardBegin(f), NEW o \in Object
    PROVE  /\ f \notin YoloHolders(o)
           /\ YoloHolders(o)' = IF o = target[f] THEN YoloHolders(o) \cup {f}
                                ELSE YoloHolders(o)
BY DEF Base, TypeOK, ForwardState, ForwardBegin, YoloHolders

LEMMA ForwardEndEffect ==
    ASSUME Base, NEW f \in Forward, ForwardEnd(f), NEW o \in Object
    PROVE  /\ o = target[f] => f \in YoloHolders(o)
           /\ YoloHolders(o)' = IF o = target[f] THEN YoloHolders(o) \ {f}
                                ELSE YoloHolders(o)
BY DEF Base, TypeOK, ForwardState, ForwardEnd, YoloHolders

LEMMA ForwardChooseEffect ==
    ASSUME Base, NEW f \in Forward, ForwardChoose(f), NEW o \in Object
    PROVE  YoloHolders(o)' = YoloHolders(o)
BY DEF Base, TypeOK, ForwardState, ForwardChoose, YoloHolders

-----------------------------------------------------------------------------
(* The accounting.                                                         *)

(* An object without an owner is used by nobody, so Register starts from an *)
(* object whose only count is the one it copies.                            *)
LEMMA UnallocatedUnused ==
    ASSUME Base, NEW o \in Object, owner[o] = None
    PROVE  VlmHolders(o) = {} /\ YoloHolders(o) = {}
BY NoneAssumption DEF Base, PointersOK, VlmHolders, YoloHolders, Holding

LEMMA AccountingInit == Init => SlotAccounting
<1> SUFFICES ASSUME Init, NEW o \in Object
             PROVE  active[o] = Cardinality(VlmHolders(o)) + Cardinality(YoloHolders(o))
                                  + inherited[o]
  BY DEF SlotAccounting
<1>1. VlmHolders(o) = {} /\ YoloHolders(o) = {}
  BY DEF Init, VlmHolders, YoloHolders
<1> QED
  BY <1>1, FS_EmptySet DEF Init

LEMMA AccountingRequest ==
    ASSUME Base, SlotAccounting, NEW r \in Request, RequestStep(r)
    PROVE  SlotAccounting'
<1> SUFFICES ASSUME NEW o \in Object
             PROVE  active'[o] = Cardinality(VlmHolders(o)') + Cardinality(YoloHolders(o)')
                                   + inherited'[o]
  BY DEF SlotAccounting
<1>0. /\ active[o] = Cardinality(VlmHolders(o)) + Cardinality(YoloHolders(o)) + inherited[o]
      /\ active[o] \in Nat /\ inherited[o] \in Nat
  BY DEF SlotAccounting, Base, TypeOK
<1>1. CASE Acquire(r)
  <2>1. /\ inherited'[o] = inherited[o] /\ YoloHolders(o)' = YoloHolders(o)
        /\ active'[o] = IF o = held[r] THEN active[o] + 1 ELSE active[o]
    BY <1>1 DEF Acquire, YoloHolders, forwardVars, Base, TypeOK
  <2>2. Cardinality(VlmHolders(o) \cup {r}) = Cardinality(VlmHolders(o)) + 1
    BY <1>1, AcquireEffect, HoldersFinite, FS_AddElement
  <2>3. VlmHolders(o)' = IF o = held[r] THEN VlmHolders(o) \cup {r} ELSE VlmHolders(o)
    BY <1>1, AcquireEffect
  <2>4. Cardinality(VlmHolders(o)) \in Nat /\ Cardinality(YoloHolders(o)) \in Nat
    BY HoldersFinite
  <2> QED
    BY <1>0, <2>1, <2>2, <2>3, <2>4
<1>2. ASSUME NEW next \in Leaving, Release(r, next)
      PROVE  active'[o] = Cardinality(VlmHolders(o)') + Cardinality(YoloHolders(o)')
                            + inherited'[o]
  <2>1. /\ inherited'[o] = inherited[o] /\ YoloHolders(o)' = YoloHolders(o)
        /\ active'[o] = IF o = held[r] THEN Decrement(active[o]) ELSE active[o]
    BY <1>2 DEF Release, YoloHolders, forwardVars, Base, TypeOK
  <2>2. CASE o = held[r]
    <3>1. /\ Cardinality(VlmHolders(o) \ {r}) = Cardinality(VlmHolders(o)) - 1
          /\ Cardinality(VlmHolders(o) \ {r}) \in Nat
      BY <1>2, <2>2, ReleaseEffect, HoldersFinite, FS_RemoveElement, FS_CardinalityType
    <3>2. VlmHolders(o)' = VlmHolders(o) \ {r}
      BY <1>2, <2>2, ReleaseEffect
    <3>3. Cardinality(VlmHolders(o)) \in Nat /\ Cardinality(YoloHolders(o)) \in Nat
      BY HoldersFinite
    <3> QED
      BY <1>0, <2>1, <2>2, <3>1, <3>2, <3>3 DEF Decrement
  <2>3. CASE o # held[r]
    BY <1>0, <1>2, <2>1, <2>3, ReleaseEffect
  <2> QED
    BY <2>2, <2>3
<1>3. CASE QuietStep(r)
  BY <1>0, <1>3, QuietEffect DEF nodeVars, forwardVars, YoloHolders
<1> QED
  BY <1>1, <1>2, <1>3 DEF RequestStep, QuietStep, Leaving

LEMMA AccountingForward ==
    ASSUME Base, SlotAccounting, NEW f \in Forward, ForwardStep(f)
    PROVE  SlotAccounting'
<1> SUFFICES ASSUME NEW o \in Object
             PROVE  active'[o] = Cardinality(VlmHolders(o)') + Cardinality(YoloHolders(o)')
                                   + inherited'[o]
  BY DEF SlotAccounting
<1>0. /\ active[o] = Cardinality(VlmHolders(o)) + Cardinality(YoloHolders(o)) + inherited[o]
      /\ active[o] \in Nat /\ inherited[o] \in Nat
  BY DEF SlotAccounting, Base, TypeOK
<1>1. VlmHolders(o)' = VlmHolders(o) /\ inherited'[o] = inherited[o]
  BY DEF ForwardStep, ForwardChoose, ForwardBegin, ForwardEnd, VlmHolders, requestVars,
         nodeVars
<1>2. CASE ForwardChoose(f)
  BY <1>0, <1>1, <1>2, ForwardChooseEffect DEF ForwardChoose, nodeVars
<1>3. CASE ForwardBegin(f)
  <2>1. active'[o] = IF o = target[f] THEN active[o] + 1 ELSE active[o]
    BY <1>3 DEF ForwardBegin, Base, TypeOK
  <2>2. Cardinality(YoloHolders(o) \cup {f}) = Cardinality(YoloHolders(o)) + 1
    BY <1>3, ForwardBeginEffect, HoldersFinite, FS_AddElement
  <2>3. YoloHolders(o)' = IF o = target[f] THEN YoloHolders(o) \cup {f} ELSE YoloHolders(o)
    BY <1>3, ForwardBeginEffect
  <2>4. Cardinality(VlmHolders(o)) \in Nat /\ Cardinality(YoloHolders(o)) \in Nat
    BY HoldersFinite
  <2> QED
    BY <1>0, <1>1, <2>1, <2>2, <2>3, <2>4
<1>4. CASE ForwardEnd(f)
  <2>1. active'[o] = IF o = target[f] THEN Decrement(active[o]) ELSE active[o]
    BY <1>4 DEF ForwardEnd, Base, TypeOK
  <2>2. CASE o = target[f]
    <3>1. /\ Cardinality(YoloHolders(o) \ {f}) = Cardinality(YoloHolders(o)) - 1
          /\ Cardinality(YoloHolders(o) \ {f}) \in Nat
      BY <1>4, <2>2, ForwardEndEffect, HoldersFinite, FS_RemoveElement, FS_CardinalityType
    <3>2. YoloHolders(o)' = YoloHolders(o) \ {f}
      BY <1>4, <2>2, ForwardEndEffect
    <3>3. Cardinality(VlmHolders(o)) \in Nat /\ Cardinality(YoloHolders(o)) \in Nat
      BY HoldersFinite
    <3> QED
      BY <1>0, <1>1, <2>1, <2>2, <3>1, <3>2, <3>3 DEF Decrement
  <2>3. CASE o # target[f]
    BY <1>0, <1>1, <1>4, <2>1, <2>3, ForwardEndEffect
  <2> QED
    BY <2>2, <2>3
<1> QED
  BY <1>2, <1>3, <1>4 DEF ForwardStep

LEMMA AccountingNode ==
    ASSUME Base, SlotAccounting, NEW n \in Node, NodeStep(n)
    PROVE  SlotAccounting'
<1> SUFFICES ASSUME NEW o \in Object
             PROVE  active'[o] = Cardinality(VlmHolders(o)') + Cardinality(YoloHolders(o)')
                                   + inherited'[o]
  BY DEF SlotAccounting
<1>0. /\ active[o] = Cardinality(VlmHolders(o)) + Cardinality(YoloHolders(o)) + inherited[o]
      /\ active[o] \in Nat /\ inherited[o] \in Nat
  BY DEF SlotAccounting, Base, TypeOK
<1>1. VlmHolders(o)' = VlmHolders(o) /\ YoloHolders(o)' = YoloHolders(o)
  BY DEF NodeStep, Register, Unregister, ChangeReadiness, BlacklistExpires, VlmHolders,
         YoloHolders, requestVars, forwardVars
<1>2. ASSUME NEW p \in Object, Register(n, p), p = o
      PROVE  active'[o] = Cardinality(VlmHolders(o)) + Cardinality(YoloHolders(o))
                            + inherited'[o]
  <2>1. Cardinality(VlmHolders(o)) = 0 /\ Cardinality(YoloHolders(o)) = 0
    BY <1>2, UnallocatedUnused, FS_EmptySet DEF Register
  <2>2. active'[o] = inherited'[o] /\ inherited'[o] \in Nat
    BY <1>2, NoneAssumption DEF Register, Base, TypeOK
  <2> QED
    BY <2>1, <2>2
<1>3. ASSUME NEW p \in Object, Register(n, p), p # o
      PROVE  active'[o] = active[o] /\ inherited'[o] = inherited[o]
  BY <1>3 DEF Register, Base, TypeOK
<1>4. CASE Unregister(n) \/ ChangeReadiness(n) \/ BlacklistExpires(n)
  BY <1>0, <1>1, <1>4 DEF Unregister, ChangeReadiness, BlacklistExpires, nodeVars
<1> QED
  BY <1>0, <1>1, <1>2, <1>3, <1>4 DEF NodeStep

LEMMA AccountingNext == Base /\ SlotAccounting /\ [Next]_vars => SlotAccounting'
<1> SUFFICES ASSUME Base, SlotAccounting, [Next]_vars PROVE SlotAccounting'
  OBVIOUS
<1>1. CASE UNCHANGED vars \/ ShutdownBegin \/ DrainStep
  BY <1>1 DEF SlotAccounting, VlmHolders, YoloHolders, vars, nodeVars, requestVars,
              forwardVars, ShutdownBegin, DrainStep, DrainPoll, DrainCheck,
              DrainCompleted, DrainTimeout
<1>2. CASE Next
  BY <1>1, <1>2, AccountingRequest, AccountingForward, AccountingNode DEF Next
<1> QED
  BY <1>1, <1>2

(* The counter of every object is the number of its users plus the count it *)
(* took over: no interleaving of requestWithNode, ForwardYOLO and Register  *)
(* loses or repeats a release.                                              *)
THEOREM SlotsAccounted == Spec => []SlotAccounting
BY BaseAlways, AccountingInit, AccountingNext, PTL DEF Spec

-----------------------------------------------------------------------------
(* The cap on the VLM requests of one object.                              *)

Capped == VlmCapPerObject /\ TestedSlotStaysFree

LEMMA CapInit == Init => Capped
<1> SUFFICES ASSUME Init PROVE Capped
  OBVIOUS
<1>1. \A o : VlmHolders(o) = {}
  BY DEF Init, VlmHolders
<1> QED
  BY <1>1, FS_EmptySet, MaxConcurrentAssumption
     DEF Init, Capped, VlmCapPerObject, TestedSlotStaysFree

(* The counter bounds the number of VLM requests from above, so the second  *)
(* test of the counter establishes a free slot.                             *)
LEMMA TestedSlotIsFree ==
    ASSUME Base, SlotAccounting, NEW o \in Object, active[o] < MaxConcurrent
    PROVE  Cardinality(VlmHolders(o)) < MaxConcurrent
<1>1. active[o] = Cardinality(VlmHolders(o)) + Cardinality(YoloHolders(o)) + inherited[o]
  BY DEF SlotAccounting
<1>2. /\ Cardinality(VlmHolders(o)) \in Nat /\ Cardinality(YoloHolders(o)) \in Nat
      /\ active[o] \in Nat /\ inherited[o] \in Nat
  BY HoldersFinite DEF Base, TypeOK
<1> QED
  BY <1>1, <1>2, MaxConcurrentAssumption

LEMMA CapRequest ==
    ASSUME Base, SlotAccounting, Capped, NEW r \in Request, RequestStep(r)
    PROVE  Capped'
<1>0. /\ \A q \in Request : q # r => pc'[q] = pc[q] /\ held'[q] = held[q]
      /\ \A q \in Request : pc[q] = "rechecked" => held[q] \in Object
  BY DEF Base, TypeOK, PointersOK, Holding, Choosing, RequestStep, Start, Select,
         SelectNothing, Recheck, Acquire, WaitGivesUp, Release, RecordSuccess,
         RecordFailure, Goto
<1>1. CASE Acquire(r)
  <2>1. \A q \in Request : pc'[q] # "rechecked"
    BY <1>0, <1>1 DEF Base, TypeOK, SelectionExclusive, Choosing, Acquire, Goto
  <2>2. ASSUME NEW o \in Object PROVE Cardinality(VlmHolders(o)') <= MaxConcurrent
    <3>1. CASE o = held[r]
      <4>1. Cardinality(VlmHolders(o)) < MaxConcurrent
        BY <1>1, <3>1 DEF Capped, TestedSlotStaysFree, Acquire
      <4>2. Cardinality(VlmHolders(o) \cup {r}) = Cardinality(VlmHolders(o)) + 1
        BY <1>1, AcquireEffect, HoldersFinite, FS_AddElement
      <4>3. VlmHolders(o)' = VlmHolders(o) \cup {r}
        BY <1>1, <3>1, AcquireEffect
      <4> QED
        BY <4>1, <4>2, <4>3, HoldersFinite, MaxConcurrentAssumption
    <3>2. CASE o # held[r]
      <4>1. VlmHolders(o)' = VlmHolders(o)
        BY <1>1, <3>2, AcquireEffect
      <4> QED
        BY <4>1 DEF Capped, VlmCapPerObject
    <3> QED
      BY <3>1, <3>2
  <2> QED
    BY <2>1, <2>2 DEF Capped, VlmCapPerObject, TestedSlotStaysFree
<1>2. ASSUME NEW next \in Leaving, Release(r, next)
      PROVE  Capped'
  <2>1. ASSUME NEW o \in Object
        PROVE  /\ Cardinality(VlmHolders(o)') <= Cardinality(VlmHolders(o))
               /\ Cardinality(VlmHolders(o)') \in Nat
    <3>1. VlmHolders(o)' \in SUBSET VlmHolders(o)
      BY <1>2, ReleaseEffect
    <3> QED
      BY <3>1, HoldersFinite, FS_Subset, FS_CardinalityType
  <2>2. \A q \in Request : pc'[q] = "rechecked" => pc[q] = "rechecked" /\ held'[q] = held[q]
    BY <1>0, <1>2 DEF Release, Goto, Leaving, Base, TypeOK
  <2> QED
    BY <1>0, <2>1, <2>2, HoldersFinite, MaxConcurrentAssumption
       DEF Capped, VlmCapPerObject, TestedSlotStaysFree
<1>3. CASE QuietStep(r)
  <2>1. \A o \in Object : VlmHolders(o)' = VlmHolders(o)
    BY <1>3, QuietEffect
  <2>2. VlmCapPerObject'
    BY <2>1 DEF Capped, VlmCapPerObject
  <2>3. ASSUME NEW q \in Request, pc'[q] = "rechecked"
        PROVE  held'[q] \in Object /\ Cardinality(VlmHolders(held'[q])) < MaxConcurrent
    <3>1. CASE pc[q] = "rechecked" /\ held'[q] = held[q]
      BY <1>0, <3>1 DEF Capped, TestedSlotStaysFree
    <3>2. CASE /\ q = r /\ held'[q] = held[q] /\ held[q] \in Object
               /\ active[held[q]] < MaxConcurrent
      BY <3>2, TestedSlotIsFree
    <3>3. CASE Recheck(r)
      BY <1>0, <2>3, <3>1, <3>2, <3>3
         DEF Recheck, Goto, Base, TypeOK, PointersOK, Holding, Choosing
    <3>4. CASE ~Recheck(r)
      BY <1>0, <1>3, <2>3, <3>1, <3>4
         DEF QuietStep, Start, Select, SelectNothing, WaitGivesUp, RecordSuccess,
             RecordFailure, Goto, Base, TypeOK
    <3> QED
      BY <3>3, <3>4
  <2>4. TestedSlotStaysFree'
    BY <2>1, <2>3 DEF TestedSlotStaysFree
  <2> QED
    BY <2>2, <2>4 DEF Capped
<1> QED
  BY <1>1, <1>2, <1>3 DEF RequestStep, QuietStep, Leaving

LEMMA CapNext == Base /\ SlotAccounting /\ Capped /\ [Next]_vars => Capped'
<1> SUFFICES ASSUME Base, SlotAccounting, Capped, [Next]_vars PROVE Capped'
  OBVIOUS
<1>1. CASE UNCHANGED requestVars
  BY <1>1 DEF Capped, VlmCapPerObject, TestedSlotStaysFree, VlmHolders, requestVars
<1>2. CASE UNCHANGED vars
  BY <1>1, <1>2 DEF vars
<1>3. CASE \E r \in Request : RequestStep(r)
  BY <1>3, CapRequest
<1>4. CASE \E f \in Forward : ForwardStep(f)
  BY <1>1, <1>4 DEF ForwardStep, ForwardChoose, ForwardBegin, ForwardEnd
<1>5. CASE \E n \in Node : NodeStep(n)
  BY <1>1, <1>5 DEF NodeStep, Register, Unregister, ChangeReadiness, BlacklistExpires
<1>6. CASE ShutdownBegin \/ DrainStep
  BY <1>1, <1>6 DEF ShutdownBegin, DrainStep, DrainPoll, DrainCheck, DrainCompleted,
                    DrainTimeout
<1> QED
  BY <1>2, <1>3, <1>4, <1>5, <1>6 DEF Next

(* No Node object serves more than maxConcurrent VLM requests at a time:    *)
(* selectionMu closes the gap between the test and the increment, although  *)
(* forwards increment the same counter without it.                          *)
THEOREM ObjectCapped == Spec => []VlmCapPerObject
<1>1. Spec => []Capped
  BY BaseAlways, SlotsAccounted, CapInit, CapNext, PTL DEF Spec
<1>2. Capped => VlmCapPerObject
  BY DEF Capped
<1> QED
  BY <1>1, <1>2, PTL

-----------------------------------------------------------------------------
(* The slot of the selection lock: between the choice of a node and the     *)
(* second test no VLM request and no registration takes the free slot.      *)

SlotKept ==
    \A r \in Request :
        pc[r] = "picked" => Cardinality(VlmHolders(held[r])) + inherited[held[r]] < MaxConcurrent

LEMMA SlotKeptInit == Init => SlotKept
BY DEF Init, SlotKept

(* What the selection reads leaves room for one VLM request more.           *)
LEMMA AvailableHasRoom ==
    ASSUME Base, SlotAccounting, NEW o \in Object, active[o] < MaxConcurrent
    PROVE  Cardinality(VlmHolders(o)) + inherited[o] < MaxConcurrent
<1>1. active[o] = Cardinality(VlmHolders(o)) + Cardinality(YoloHolders(o)) + inherited[o]
  BY DEF SlotAccounting
<1>2. /\ Cardinality(VlmHolders(o)) \in Nat /\ Cardinality(YoloHolders(o)) \in Nat
      /\ active[o] \in Nat /\ inherited[o] \in Nat
  BY HoldersFinite DEF Base, TypeOK
<1> QED
  BY <1>1, <1>2, MaxConcurrentAssumption

LEMMA SlotKeptRequest ==
    ASSUME Base, SlotAccounting, SlotKept, NEW r \in Request, RequestStep(r)
    PROVE  SlotKept'
<1> SUFFICES ASSUME NEW q \in Request, pc'[q] = "picked"
             PROVE  Cardinality(VlmHolders(held[q])') + inherited'[held'[q]] < MaxConcurrent
  BY DEF SlotKept
<1>1. CASE Acquire(r)
  BY <1>1 DEF Base, TypeOK, SelectionExclusive, Choosing, Acquire, Goto
<1>2. ASSUME NEW next \in Leaving, Release(r, next)
      PROVE  Cardinality(VlmHolders(held[q])') + inherited'[held'[q]] < MaxConcurrent
  <2>1. pc[q] = "picked" /\ held' = held /\ inherited' = inherited /\ held[q] \in Object
    BY <1>2 DEF Base, TypeOK, PointersOK, Holding, Choosing, Release, Goto, Leaving
  <2>2. VlmHolders(held[q])' \in SUBSET VlmHolders(held[q])
    BY <1>2, <2>1, ReleaseEffect
  <2>3. /\ Cardinality(VlmHolders(held[q])') <= Cardinality(VlmHolders(held[q]))
        /\ Cardinality(VlmHolders(held[q])') \in Nat /\ Cardinality(VlmHolders(held[q])) \in Nat
        /\ inherited[held[q]] \in Nat
    BY <2>1, <2>2, HoldersFinite, FS_Subset, FS_CardinalityType DEF Base, TypeOK
  <2>4. Cardinality(VlmHolders(held[q])) + inherited[held[q]] < MaxConcurrent
    BY <2>1 DEF SlotKept
  <2>5. PICK o \in Object : o = held[q]
    BY <2>1
  <2> QED
    BY <2>1, <2>3, <2>4, <2>5, MaxConcurrentAssumption DEF VlmHolders
<1>3. CASE QuietStep(r)
  <2>1. (\A o \in Object : VlmHolders(o)' = VlmHolders(o)) /\ inherited' = inherited
    BY <1>3, QuietEffect DEF nodeVars
  <2>2. /\ held'[q] \in Object
        /\ Cardinality(VlmHolders(held'[q])) + inherited[held'[q]] < MaxConcurrent
    <3>1. CASE pc[q] = "picked" /\ held'[q] = held[q]
      BY <3>1 DEF SlotKept, Base, PointersOK, Holding, Choosing
    <3>2. CASE Select(r) /\ q = r
      <4>1. PICK o \in Available(r) : held' = [held EXCEPT ![r] = o]
        BY <3>2 DEF Select
      <4>2. o \in Object /\ active[o] < MaxConcurrent
        BY <4>1, RegisteredAllocated DEF Available
      <4> QED
        BY <3>2, <4>1, <4>2, AvailableHasRoom DEF Base, TypeOK
    <3> QED
      BY <1>3, <3>1, <3>2
         DEF QuietStep, Start, Select, SelectNothing, Recheck, WaitGivesUp, RecordSuccess,
             RecordFailure, Goto, Base, TypeOK
  <2>3. PICK o \in Object : o = held'[q]
    BY <2>2
  <2> QED
    BY <2>1, <2>2, <2>3 DEF VlmHolders
<1> QED
  BY <1>1, <1>2, <1>3 DEF RequestStep, QuietStep, Leaving

LEMMA SlotKeptNode ==
    ASSUME Base, SlotKept, NEW n \in Node, NodeStep(n)
    PROVE  SlotKept'
<1>1. UNCHANGED requestVars
  BY DEF NodeStep, Register, Unregister, ChangeReadiness, BlacklistExpires
<1>2. \A q \in Request : pc[q] = "picked" => inherited'[held[q]] = inherited[held[q]]
  BY NoneAssumption
     DEF NodeStep, Register, Unregister, ChangeReadiness, BlacklistExpires, nodeVars, Base,
         TypeOK, PointersOK, Holding, Choosing
<1> QED
  BY <1>1, <1>2 DEF SlotKept, VlmHolders, requestVars

LEMMA SlotKeptNext == Base /\ SlotAccounting /\ SlotKept /\ [Next]_vars => SlotKept'
<1> SUFFICES ASSUME Base, SlotAccounting, SlotKept, [Next]_vars PROVE SlotKept'
  OBVIOUS
<1>1. CASE UNCHANGED <<requestVars, inherited>>
  BY <1>1 DEF SlotKept, VlmHolders, requestVars
<1>2. CASE UNCHANGED vars
  BY <1>1, <1>2 DEF vars, nodeVars
<1>3. CASE \E r \in Request : RequestStep(r)
  BY <1>3, SlotKeptRequest
<1>4. CASE \E f \in Forward : ForwardStep(f)
  BY <1>1, <1>4 DEF ForwardStep, ForwardChoose, ForwardBegin, ForwardEnd, nodeVars
<1>5. CASE \E n \in Node : NodeStep(n)
  BY <1>5, SlotKeptNode
<1>6. CASE ShutdownBegin \/ DrainStep
  BY <1>1, <1>6 DEF ShutdownBegin, DrainStep, DrainPoll, DrainCheck, DrainCompleted,
                    DrainTimeout, nodeVars
<1> QED
  BY <1>2, <1>3, <1>4, <1>5, <1>6 DEF Next

(* When the second test of SelectAndAcquire finds the node full, a YOLO     *)
(* forward is using it: no other VLM request and no registration can take a *)
(* slot away between the two tests.                                         *)
THEOREM OnlyForwardsFailTheRecheck == Spec => []RecheckFailsForForwards
<1>1. Spec => []SlotKept
  BY BaseAlways, SlotsAccounted, SlotKeptInit, SlotKeptNext, PTL DEF Spec
<1>2. Base /\ SlotAccounting /\ SlotKept => RecheckFailsForForwards
  <2> SUFFICES ASSUME Base, SlotAccounting, SlotKept, NEW r \in Request, pc[r] = "picked",
                      active[held[r]] >= MaxConcurrent
               PROVE  YoloHolders(held[r]) # {}
    BY DEF RecheckFailsForForwards
  <2>1. held[r] \in Object
    BY DEF Base, PointersOK, Holding, Choosing
  <2>2. active[held[r]] = Cardinality(VlmHolders(held[r])) + Cardinality(YoloHolders(held[r]))
                            + inherited[held[r]]
    BY <2>1 DEF SlotAccounting
  <2>3. /\ Cardinality(VlmHolders(held[r])) \in Nat /\ Cardinality(YoloHolders(held[r])) \in Nat
        /\ inherited[held[r]] \in Nat
    BY <2>1, HoldersFinite DEF Base, TypeOK
  <2>4. Cardinality(VlmHolders(held[r])) + inherited[held[r]] < MaxConcurrent
    BY DEF SlotKept
  <2>5. Cardinality(YoloHolders(held[r])) > 0
    BY <2>2, <2>3, <2>4, MaxConcurrentAssumption
  <2> QED
    BY <2>5, FS_EmptySet
<1> QED
  BY <1>1, <1>2, BaseAlways, SlotsAccounted, PTL

-----------------------------------------------------------------------------
(* The progress of a request.                                              *)

(* The steps of a request take it nearer to its end, except those of the    *)
(* polling loop of waitForNodeSmart; the other requests stay where they are.*)
LEMMA RequestAdvances ==
    ASSUME Base, NEW r \in Request, RequestStep(r), NEW q \in Request
    PROVE  Advances(q)
<1>0. /\ attempt[q] \in Nat /\ MaxRetries \in Nat /\ pc[q] \in RequestState
      /\ pc[q] # "done" => attempt[q] <= MaxRetries
      /\ pc \in [Request -> RequestState] /\ attempt \in [Request -> 0 .. MaxRetries + 1]
  BY MaxRetriesAssumption DEF Base, TypeOK, AttemptsBounded
<1>1. CASE pc'[q] = pc[q] /\ attempt'[q] = attempt[q]
  BY <1>1 DEF StepsLeft, Advances
<1>2. CASE q # r
  BY <1>0, <1>1, <1>2
     DEF RequestStep, Start, Select, SelectNothing, Recheck, Acquire, WaitGivesUp, Release,
         RecordSuccess, RecordFailure, Goto
<1>3. CASE q = r /\ RecordFailure(r)
  <2>1. /\ pc[q] = "recordFailure" /\ attempt'[q] = attempt[q] + 1
        /\ pc'[q] = IF attempt[q] < MaxRetries THEN "try" ELSE "done"
    BY <1>0, <1>3 DEF RecordFailure, Goto
  <2> QED
    BY <1>0, <2>1 DEF StepsLeft, Advances
<1>4. CASE q = r /\ ~RecordFailure(r)
  <2>1. attempt'[q] = attempt[q]
    BY <1>0, <1>4 DEF RequestStep, Start, Select, SelectNothing, Recheck, Acquire, WaitGivesUp,
                      Release, RecordSuccess
  <2>2. \/ pc[q] = "new" /\ pc'[q] \in {"done", "try"}
        \/ pc[q] \in {"try", "wait"} /\ pc'[q] = "picked"
        \/ pc[q] = "try" /\ pc'[q] = "wait"
        \/ pc[q] = "picked" /\ pc'[q] \in {"rechecked", "wait"}
        \/ pc[q] = "rechecked" /\ pc'[q] = "sending"
        \/ pc[q] = "wait" /\ pc'[q] = "done"
        \/ pc[q] = "sending" /\ pc'[q] \in {"done", "recordFailure", "recordSuccess"}
        \/ pc[q] = "recordSuccess" /\ pc'[q] = "done"
    BY <1>0, <1>4 DEF RequestStep, Start, Select, SelectNothing, Recheck, Acquire, WaitGivesUp,
                      Release, RecordSuccess, Goto
  <2> QED
    BY <1>0, <2>1, <2>2 DEF StepsLeft, Polls, Advances
<1> QED
  BY <1>2, <1>3, <1>4

(* No interleaving takes a request back: every step of a request brings it  *)
(* nearer to its end or is a round of the polling loop, and no other        *)
(* goroutine moves it.                                                      *)
THEOREM RequestsGoForward == Spec => RequestsOnlyAdvance
<1>1. ASSUME Base, [Next]_vars, NEW q \in Request
      PROVE  Advances(q)
  <2>1. CASE UNCHANGED requestVars
    BY <2>1 DEF StepsLeft, Advances, requestVars
  <2>2. CASE UNCHANGED vars
    BY <2>1, <2>2 DEF vars
  <2>3. CASE \E r \in Request : RequestStep(r)
    BY <1>1, <2>3, RequestAdvances
  <2>4. CASE \E f \in Forward : ForwardStep(f)
    BY <2>1, <2>4 DEF ForwardStep, ForwardChoose, ForwardBegin, ForwardEnd
  <2>5. CASE \E n \in Node : NodeStep(n)
    BY <2>1, <2>5 DEF NodeStep, Register, Unregister, ChangeReadiness, BlacklistExpires
  <2>6. CASE ShutdownBegin \/ DrainStep
    BY <2>1, <2>6 DEF ShutdownBegin, DrainStep, DrainPoll, DrainCheck, DrainCompleted,
                      DrainTimeout
  <2> QED
    BY <1>1, <2>2, <2>3, <2>4, <2>5, <2>6 DEF Next
<1>2. Base /\ [Next]_vars => NobodyTurnsBack
  BY <1>1 DEF NobodyTurnsBack
<1> QED
  BY <1>2, BaseAlways, PTL DEF Spec, RequestsOnlyAdvance

-----------------------------------------------------------------------------
(* Retries.                                                                *)

RetryInv == AttemptIsNew /\ RetriesVisitDistinctNodes

LEMMA RetryInit == Init => RetryInv
BY FS_EmptySet
   DEF Init, RetryInv, AttemptIsNew, RetriesVisitDistinctNodes

LEMMA RetryRequest ==
    ASSUME Base, RetryInv, NEW r \in Request, RequestStep(r)
    PROVE  RetryInv'
<1>0. /\ owner' = owner
      /\ \A q \in Request : q # r => /\ pc'[q] = pc[q] /\ held'[q] = held[q]
                                     /\ excluded'[q] = excluded[q]
                                     /\ attempt'[q] = attempt[q]
  BY DEF Base, TypeOK, RequestStep, Start, Select, SelectNothing, Recheck, Acquire,
         WaitGivesUp, Release, RecordSuccess, RecordFailure, Goto, nodeVars
<1>1. CASE RecordFailure(r)
  <2>1. /\ excluded'[r] = excluded[r] \cup {owner[held[r]]}
        /\ attempt'[r] = attempt[r] + 1
        /\ pc'[r] \in {"try", "done"}
        /\ owner[held[r]] \notin excluded[r] /\ IsFiniteSet(excluded[r])
        /\ Cardinality(excluded[r]) = attempt[r]
    BY <1>1 DEF RecordFailure, Goto, Base, TypeOK, RetryInv, AttemptIsNew,
                RetriesVisitDistinctNodes
  <2>2. /\ IsFiniteSet(excluded'[r])
        /\ Cardinality(excluded'[r]) = attempt'[r]
    <3>1. /\ IsFiniteSet(excluded[r] \cup {owner[held[r]]})
          /\ Cardinality(excluded[r] \cup {owner[held[r]]}) = Cardinality(excluded[r]) + 1
      BY <2>1, FS_AddElement
    <3> QED
      BY <2>1, <3>1
  <2> QED
    BY <1>0, <2>1, <2>2 DEF RetryInv, AttemptIsNew, RetriesVisitDistinctNodes
<1>2. CASE ~RecordFailure(r)
  <2>1. excluded'[r] = excluded[r] /\ attempt'[r] = attempt[r]
    BY <1>2 DEF Base, TypeOK, RequestStep, Start, Select, SelectNothing, Recheck, Acquire,
                WaitGivesUp, Release, RecordSuccess, Goto
  <2>2. CASE Select(r)
    <3>1. owner[held'[r]] \notin excluded[r]
      BY <2>2 DEF Select, Available, Base, TypeOK
    <3> QED
      BY <1>0, <2>1, <3>1 DEF RetryInv, AttemptIsNew, RetriesVisitDistinctNodes
  <2>3. CASE ~Select(r)
    <3>1. pc'[r] \in {"picked", "rechecked", "sending", "recordFailure"} =>
            /\ held'[r] = held[r]
            /\ pc[r] \in {"picked", "rechecked", "sending"}
      BY <1>2, <2>3 DEF Base, TypeOK, RequestStep, Start, SelectNothing, Recheck, Acquire,
                        WaitGivesUp, Release, RecordSuccess, Goto
    <3> QED
      BY <1>0, <2>1, <3>1 DEF RetryInv, AttemptIsNew, RetriesVisitDistinctNodes
  <2> QED
    BY <2>2, <2>3
<1> QED
  BY <1>1, <1>2

(* Registering an object gives an id to an object nobody holds.             *)
LEMMA RetryNode ==
    ASSUME Base, RetryInv, NEW n \in Node, NodeStep(n)
    PROVE  RetryInv'
<1>1. /\ UNCHANGED requestVars
      /\ \A o \in Object : owner[o] \in Node => owner'[o] = owner[o]
  BY NoneAssumption DEF Base, TypeOK, NodeStep, Register, Unregister, ChangeReadiness,
                        BlacklistExpires, nodeVars
<1> QED
  BY <1>1 DEF Base, PointersOK, Holding, Choosing, RetryInv, AttemptIsNew,
              RetriesVisitDistinctNodes, requestVars

LEMMA RetryNext == Base /\ RetryInv /\ [Next]_vars => RetryInv'
<1> SUFFICES ASSUME Base, RetryInv, [Next]_vars PROVE RetryInv'
  OBVIOUS
<1>1. CASE UNCHANGED <<owner, requestVars>>
  BY <1>1 DEF RetryInv, AttemptIsNew, RetriesVisitDistinctNodes, requestVars
<1>2. CASE UNCHANGED vars
  BY <1>1, <1>2 DEF vars, nodeVars
<1>3. CASE \E r \in Request : RequestStep(r)
  BY <1>3, RetryRequest
<1>4. CASE \E f \in Forward : ForwardStep(f)
  BY <1>1, <1>4 DEF ForwardStep, ForwardChoose, ForwardBegin, ForwardEnd, nodeVars
<1>5. CASE \E n \in Node : NodeStep(n)
  BY <1>5, RetryNode
<1>6. CASE ShutdownBegin \/ DrainStep
  BY <1>1, <1>6 DEF ShutdownBegin, DrainStep, DrainPoll, DrainCheck, DrainCompleted,
                    DrainTimeout, nodeVars
<1> QED
  BY <1>2, <1>3, <1>4, <1>5, <1>6 DEF Next

(* The failed attempts of a request were on as many different nodes.        *)
THEOREM RetriesDistinct == Spec => []RetriesVisitDistinctNodes
<1>1. Spec => []RetryInv
  BY BaseAlways, RetryInit, RetryNext, PTL DEF Spec
<1>2. RetryInv => RetriesVisitDistinctNodes
  BY DEF RetryInv
<1> QED
  BY <1>1, <1>2, PTL

-----------------------------------------------------------------------------
(* The dispatch implements VlmService.                                     *)

SInv == Base /\ SlotAccounting /\ Capped /\ RetryInv

LEMMA ServiceInit == Init => Service!Init
BY DEF Init, Service!Init, serving, failed, over

(* What a step of one request does to the service the others get: nothing.  *)
LEMMA OthersServed ==
    ASSUME Base, NEW r \in Request, RequestStep(r), NEW q \in Request, q # r
    PROVE  serving'[q] = serving[q] /\ failed'[q] = failed[q] /\ over'[q] = over[q]
<1>1. /\ owner' = owner
      /\ pc'[q] = pc[q] /\ held'[q] = held[q]
      /\ excluded'[q] = excluded[q] /\ attempt'[q] = attempt[q]
  BY DEF Base, TypeOK, RequestStep, Start, Select, SelectNothing, Recheck, Acquire,
         WaitGivesUp, Release, RecordSuccess, RecordFailure, Goto, nodeVars
<1> QED
  BY <1>1 DEF serving, failed, over

(* So the service changes as it does for the request.                       *)
LEMMA ServiceChange ==
    ASSUME Base, NEW r \in Request, RequestStep(r)
    PROVE  /\ serving' = [serving EXCEPT ![r] = serving'[r]]
           /\ failed' = [failed EXCEPT ![r] = failed'[r]]
           /\ over' = [over EXCEPT ![r] = over'[r]]
<1>1. /\ serving' = [q \in Request |-> serving'[q]]
      /\ failed' = [q \in Request |-> failed'[q]]
      /\ over' = [q \in Request |-> over'[q]]
  BY DEF serving, failed, over
<1>2. DOMAIN serving = Request /\ DOMAIN failed = Request /\ DOMAIN over = Request
  BY DEF serving, failed, over
<1> QED
  BY <1>1, <1>2, OthersServed

(* The cardinality of VlmService is that of its own copy of FiniteSets.     *)
LEMMA SameCardinality == \A S : Service!Cardinality(S) = Cardinality(S)
BY DEF Service!Cardinality, Cardinality

(* What the service says of a request, now and in the next state.           *)
LEMMA ServiceOf ==
    ASSUME NEW r \in Request
    PROVE  /\ serving[r] = IF pc[r] = "sending" THEN held[r] ELSE None
           /\ serving'[r] = IF pc'[r] = "sending" THEN held'[r] ELSE None
           /\ failed[r] = IF pc[r] = "recordFailure"
                             THEN excluded[r] \cup {owner[held[r]]} ELSE excluded[r]
           /\ failed'[r] = IF pc'[r] = "recordFailure"
                              THEN excluded'[r] \cup {owner'[held'[r]]} ELSE excluded'[r]
           /\ over[r] = (\/ pc[r] \in {"recordSuccess", "done"}
                         \/ pc[r] = "recordFailure" /\ attempt[r] = MaxRetries)
           /\ over'[r] = (\/ pc'[r] \in {"recordSuccess", "done"}
                          \/ pc'[r] = "recordFailure" /\ attempt'[r] = MaxRetries)
BY DEF serving, failed, over

LEMMA ServedAre == \A o \in Object : Service!Served(o) = VlmHolders(o)
BY NoneAssumption DEF Service!Served, serving, VlmHolders

(* Choosing, waiting, and keeping the books are not visible.                *)
LEMMA ServiceSame ==
    ASSUME Base, NEW r \in Request, RequestStep(r),
           \/ Start(r) /\ ~shuttingDown
           \/ Select(r)
           \/ SelectNothing(r)
           \/ Recheck(r)
           \/ RecordSuccess(r)
           \/ RecordFailure(r)
    PROVE  UNCHANGED <<serving, failed, over>>
<1>1. serving'[r] = serving[r] /\ failed'[r] = failed[r] /\ over'[r] = over[r]
  <2> USE ServiceOf DEF Base, TypeOK, Goto
  <2>1. CASE Start(r) /\ ~shuttingDown
    BY <2>1 DEF Start
  <2>2. CASE Select(r) \/ SelectNothing(r) \/ Recheck(r)
    BY <2>2 DEF Select, SelectNothing, Recheck
  <2>3. CASE RecordSuccess(r)
    BY <2>3 DEF RecordSuccess
  <2>4. CASE RecordFailure(r)
    <3>1. attempt[r] \in 0 .. MaxRetries
      BY <2>4, MaxRetriesAssumption DEF RecordFailure, AttemptsBounded
    <3>2. attempt[r] < MaxRetries <=> attempt[r] # MaxRetries
      BY <3>1, MaxRetriesAssumption
    <3> QED
      BY <2>4, <3>2 DEF RecordFailure
  <2> QED
    BY <2>1, <2>2, <2>3, <2>4
<1>2. /\ serving = [serving EXCEPT ![r] = serving[r]]
      /\ failed = [failed EXCEPT ![r] = failed[r]]
      /\ over = [over EXCEPT ![r] = over[r]]
  BY DEF serving, failed, over
<1> QED
  BY <1>1, <1>2, ServiceChange

(* The increment of the counter is the step in which the service begins.    *)
LEMMA ServiceServe ==
    ASSUME SInv, NEW r \in Request, Acquire(r)
    PROVE  Service!Serve(r, held[r]) /\ held[r] \in Object
<1>1. Base /\ RequestStep(r)
  BY DEF SInv, RequestStep
<1>2. /\ ~over[r] /\ serving[r] = None
      /\ serving'[r] = held[r] /\ failed'[r] = failed[r] /\ over'[r] = over[r]
  BY <1>1, ServiceOf DEF Acquire, Goto, Base, TypeOK
<1>3. held[r] \in Object
  BY <1>1 DEF Acquire, Base, PointersOK, Holding, Choosing
<1>4. Cardinality(Service!Served(held[r])) < MaxConcurrent
  BY <1>3, ServedAre DEF Acquire, SInv, Capped, TestedSlotStaysFree
<1>5. failed = [failed EXCEPT ![r] = failed[r]] /\ over = [over EXCEPT ![r] = over[r]]
  BY DEF failed, over
<1> QED
  BY <1>1, <1>2, <1>3, <1>4, <1>5, ServiceChange, SameCardinality DEF Service!Serve

(* The release of the object is the step in which an attempt ends.          *)
LEMMA ServiceEnds ==
    ASSUME SInv, NEW r \in Request, NEW next \in {"done", "recordFailure", "recordSuccess"},
           Release(r, next)
    PROVE  Service!Answer(r) \/ \E n \in Node : Service!Fail(r, n)
<1>1. Base /\ RequestStep(r)
  BY DEF SInv, RequestStep
<1>2. pc[r] = "sending" /\ held[r] \in Object /\ owner[held[r]] \in Node
  BY <1>1 DEF Release, Base, PointersOK, Holding
<1>3. serving[r] # None /\ serving'[r] = None
  BY <1>1, <1>2, ServiceOf, NoneAssumption DEF Release, Goto, Base, TypeOK
<1>4. CASE next # "recordFailure"
  <2>1. failed'[r] = failed[r] /\ over'[r] = TRUE
    BY <1>1, <1>2, <1>4, ServiceOf DEF Release, Goto, Base, TypeOK
  <2>2. failed = [failed EXCEPT ![r] = failed[r]]
    BY DEF failed
  <2> QED
    BY <1>1, <1>3, <2>1, <2>2, ServiceChange DEF Service!Answer
<1>5. CASE next = "recordFailure"
  <2>1. /\ failed[r] = excluded[r]
        /\ failed'[r] = excluded[r] \cup {owner[held[r]]}
        /\ over'[r] = (attempt[r] = MaxRetries)
    BY <1>1, <1>2, <1>5, ServiceOf DEF Release, Goto, Base, TypeOK
  <2>2. owner[held[r]] \notin failed[r] /\ Cardinality(failed[r]) = attempt[r]
    BY <1>2, <2>1 DEF SInv, RetryInv, AttemptIsNew, RetriesVisitDistinctNodes
  <2>3. Service!Fail(r, owner[held[r]])
    BY <1>1, <1>3, <2>1, <2>2, ServiceChange, SameCardinality DEF Service!Fail
  <2> QED
    BY <1>2, <2>3
<1> QED
  BY <1>4, <1>5

(* A request is refused at once, or gives up waiting.                       *)
LEMMA ServiceGivesUp ==
    ASSUME SInv, NEW r \in Request, (Start(r) /\ shuttingDown) \/ WaitGivesUp(r)
    PROVE  Service!GiveUp(r)
<1>1. Base /\ RequestStep(r)
  BY DEF SInv, RequestStep
<1>2. /\ serving[r] = None /\ ~over[r]
      /\ serving'[r] = serving[r] /\ failed'[r] = failed[r] /\ over'[r] = TRUE
  BY <1>1, ServiceOf DEF Start, WaitGivesUp, Goto, Base, TypeOK
<1>3. serving = [serving EXCEPT ![r] = serving[r]] /\ failed = [failed EXCEPT ![r] = failed[r]]
  BY DEF serving, failed
<1> QED
  BY <1>1, <1>2, <1>3, ServiceChange DEF Service!GiveUp

(* Registering nodes, forwards and the shutdown are not visible.            *)
LEMMA ServiceApart ==
    ASSUME Base, UNCHANGED requestVars,
           \A o \in Object : owner[o] \in Node => owner'[o] = owner[o]
    PROVE  UNCHANGED <<serving, failed, over>>
<1>1. \A r \in Request : pc[r] = "recordFailure" => owner'[held[r]] = owner[held[r]]
  BY DEF Base, PointersOK, Holding
<1> QED
  BY <1>1 DEF serving, failed, over, requestVars

LEMMA ServiceNext == SInv /\ [Next]_vars => [Service!Next]_(Service!service)
<1> SUFFICES ASSUME SInv, [Next]_vars PROVE Service!Next \/ UNCHANGED <<serving, failed, over>>
  BY DEF Service!service
<1> USE DEF SInv
<1>1. CASE \E r \in Request : RequestStep(r)
  <2>1. PICK r \in Request : RequestStep(r)
    BY <1>1
  <2>2. CASE Acquire(r)
    BY <2>2, ServiceServe DEF Service!Next
  <2>3. CASE \E next \in {"done", "recordFailure", "recordSuccess"} : Release(r, next)
    BY <2>3, ServiceEnds DEF Service!Next
  <2>4. CASE (Start(r) /\ shuttingDown) \/ WaitGivesUp(r)
    BY <2>4, ServiceGivesUp DEF Service!Next
  <2> QED
    BY <2>1, <2>2, <2>3, <2>4, ServiceSame DEF RequestStep
<1>2. CASE UNCHANGED <<owner, requestVars>>
  BY <1>2, ServiceApart
<1>3. CASE \E n \in Node : NodeStep(n)
  <2>1. /\ UNCHANGED requestVars
        /\ \A o \in Object : owner[o] \in Node => owner'[o] = owner[o]
    BY <1>3, NoneAssumption DEF Base, TypeOK, NodeStep, Register, Unregister, ChangeReadiness,
                                BlacklistExpires, nodeVars
  <2> QED
    BY <2>1, ServiceApart
<1>4. CASE \E f \in Forward : ForwardStep(f)
  BY <1>2, <1>4 DEF ForwardStep, ForwardChoose, ForwardBegin, ForwardEnd, nodeVars
<1>5. CASE ShutdownBegin \/ DrainStep \/ UNCHANGED vars
  BY <1>2, <1>5 DEF ShutdownBegin, DrainStep, DrainPoll, DrainCheck, DrainCompleted,
                    DrainTimeout, nodeVars, vars
<1> QED
  BY <1>1, <1>3, <1>4, <1>5 DEF Next

(* The dispatch implements the service: the registry, the counters and the  *)
(* lock keep its promises for any nodes, requests, limits and retries.      *)
THEOREM DispatchServes == Spec => ServesVlm
<1>1. Spec => []SInv
  <2>1. SInv <=> Base /\ SlotAccounting /\ Capped /\ RetryInv
    BY DEF SInv
  <2> QED
    BY <2>1, BaseAlways, SlotsAccounted, CapInit, CapNext, RetryInit, RetryNext, PTL DEF Spec
<1> QED
  BY <1>1, ServiceInit, ServiceNext, PTL DEF Spec, ServesVlm, Service!Spec

=============================================================================
