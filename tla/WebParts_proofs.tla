-------------------------- MODULE WebParts_proofs ---------------------------
(* Proofs about the parts of the web UI: its WebSocket hub, the bridge to OWL, the
   tracker behind the YOLO pipeline, the semantic index and the command itself. *)
EXTENDS WebSocketHub, OwlBridge, YoloTracker, SemanticStore, WebUi, FiniteSetTheorems,
        FunctionTheorems, SequenceTheorems, WellFoundedInduction, TLAPS

(* WebSocketHub. Where a client can be follows from where its reading goroutine is:
   it is nowhere before it registers; a multiplexed one is in channels only while
   its goroutine reads or leaves them, the other ones only while they are clients;
   whoever is closed is nowhere any more. *)
InNoChannel(c) == \A k \in HubChannels : c \notin channels[k]

PlaceOf(c) ==
    /\ reader[c] \in {"none", "registering"} => c \notin clients /\ InNoChannel(c)
    /\ c \in clients => ~sendClosed[c]
    /\ sendClosed[c] => reader[c] \in {"closing", "gone"} /\ InNoChannel(c)
    /\ \A k \in HubChannels : c \in channels[k] =>
          IF Mux(c) THEN reader[c] \in {"reading", "unsubscribing"}
                    ELSE k = ClientChannel[c] /\ c \in clients

(* The client of a job is where the rendezvous has left it, or further. *)
JobRight ==
    /\ hubJob # Panic
    /\ hubJob.kind = "register" => reader[hubJob.of] \in {"reading", "unsubscribing", "unregistering"}
    /\ hubJob.kind = "unregister" => reader[hubJob.of] \in {"closing", "gone"}

HubInv == HubTypeOK /\ JobRight /\ \A c \in HubClients : PlaceOf(c)

LEMMA HubSizes == SendBuffer \in Nat /\ SendBuffer > 0 /\ QueueSize \in Nat /\ QueueSize > 0
<1>1. SendBuffer \in Nat \ {0} /\ QueueSize \in Nat \ {0}
  BY HubAssumption, Zenon DEF HubAssumption
<1> QED  BY <1>1

LEMMA MuxHasNoChannel == \A c \in HubClients : Mux(c) => ClientChannel[c] \notin HubChannels
  BY HubAssumption, Zenon DEF HubAssumption, Mux

LEMMA HubInitInv == HubInit => HubInv
<1> SUFFICES ASSUME HubInit PROVE HubInv
  OBVIOUS
<1>1. HubTypeOK
  BY HubSizes DEF HubInit, HubTypeOK
<1>2. JobRight
  BY DEF HubInit, JobRight, Idle, Panic
<1>3. ASSUME NEW c \in HubClients PROVE PlaceOf(c)
  BY DEF HubInit, PlaceOf, InNoChannel
<1> QED  BY <1>1, <1>2, <1>3 DEF HubInv

(* The pumps write and break connections: the hub keeps what it has. *)
LEMMA PumpInv ==
    ASSUME HubInv,
           NEW c \in HubClients,
           ConnectionBreaks(c) \/ Write(c) \/ WriteEnds(c) \/ WriteTimesOut(c)
    PROVE  HubInv'
<1>1. UNCHANGED <<hubJob, hubQueue, clients, channels, sendClosed, reader>>
  BY DEF ConnectionBreaks, Write, WriteEnds, WriteTimesOut
<1>2. HubTypeOK'
  <2>1. buffered[c] > 0 => buffered[c] - 1 \in 0..SendBuffer
    BY HubSizes DEF HubInv, HubTypeOK
  <2>2. buffered' \in [HubClients -> 0..SendBuffer]
    BY <2>1 DEF HubInv, HubTypeOK, ConnectionBreaks, Write, WriteEnds, WriteTimesOut
  <2>3. connDown' \in [HubClients -> BOOLEAN]
    BY DEF HubInv, HubTypeOK, ConnectionBreaks, Write, WriteEnds, WriteTimesOut
  <2>4. writer' \in [HubClients -> {"none", "running", "gone"}]
    BY DEF HubInv, HubTypeOK, ConnectionBreaks, Write, WriteEnds, WriteTimesOut
  <2> QED  BY <1>1, <2>2, <2>3, <2>4 DEF HubInv, HubTypeOK
<1>3. JobRight'
  BY <1>1 DEF HubInv, JobRight
<1>4. ASSUME NEW d \in HubClients PROVE PlaceOf(d)'
  BY <1>1, <1>4 DEF HubInv, PlaceOf, InNoChannel, Mux
<1> QED  BY <1>2, <1>3, <1>4 DEF HubInv

(* The reading goroutine of a client goes on, joins a channel or leaves some. *)
LEMMA ReaderInv ==
    ASSUME HubInv,
           NEW c \in HubClients,
           \/ ClientConnects(c) \/ ReadFails(c) \/ UnsubscribeAllChannels(c) \/ CloseConnection(c)
           \/ \E k \in HubChannels : SubscribeChannel(c, k) \/ UnsubscribeChannel(c, k)
    PROVE  HubInv'
<1> USE DEF ClientConnects, ReadFails, UnsubscribeAllChannels, CloseConnection,
            SubscribeChannel, UnsubscribeChannel
<1>1. HubTypeOK'
  <2>1. CASE ClientConnects(c) \/ ReadFails(c) \/ CloseConnection(c)
    BY <2>1 DEF HubInv, HubTypeOK
  <2>2. CASE UnsubscribeAllChannels(c)
    BY <2>2 DEF HubInv, HubTypeOK
  <2>3. CASE \E k \in HubChannels : SubscribeChannel(c, k) \/ UnsubscribeChannel(c, k)
    BY <2>3 DEF HubInv, HubTypeOK
  <2> QED  BY <2>1, <2>2, <2>3
<1>2. JobRight'
  BY DEF HubInv, HubTypeOK, JobRight, Jobs, Idle, Panic
<1>3. ASSUME NEW d \in HubClients PROVE PlaceOf(d)'
  <2>1. CASE ClientConnects(c) \/ ReadFails(c) \/ CloseConnection(c)
    BY <1>3, <2>1 DEF HubInv, HubTypeOK, PlaceOf, InNoChannel, Mux
  <2>2. CASE UnsubscribeAllChannels(c)
    BY <1>3, <2>2 DEF HubInv, HubTypeOK, PlaceOf, InNoChannel, Mux
  <2>3. ASSUME NEW k \in HubChannels, SubscribeChannel(c, k) \/ UnsubscribeChannel(c, k)
        PROVE  PlaceOf(d)'
    <3>1. Mux(c) /\ reader[c] = "reading" /\ ~sendClosed[c]
      BY <2>3 DEF HubInv, PlaceOf
    <3>2. UNCHANGED <<clients, sendClosed, reader>>
      BY <2>3
    <3>3. \A j \in HubChannels : d \in channels'[j] => d = c \/ d \in channels[j]
      <4>1. channels \in [HubChannels -> SUBSET HubClients]
        BY DEF HubInv, HubTypeOK
      <4>2. CASE channels' = [channels EXCEPT ![k] = channels[k] \cup {c}]
        BY <4>1, <4>2, Zenon
      <4>3. CASE channels' = [channels EXCEPT ![k] = channels[k] \ {c}]
        BY <4>1, <4>3, Zenon
      <4> QED  BY <2>3, <4>2, <4>3
    <3> QED  BY <1>3, <3>1, <3>2, <3>3 DEF HubInv, PlaceOf, InNoChannel, Mux
  <2> QED  BY <2>1, <2>2, <2>3
<1> QED  BY <1>1, <1>2, <1>3 DEF HubInv

(* The hub takes a job. *)
LEMMA TakeInv ==
    ASSUME HubInv,
           \/ TakeMessage \/ \E k \in HubChannels : SendToChannel(k)
           \/ \E c \in HubClients : TakeRegister(c) \/ TakeUnregister(c)
    PROVE  HubInv'
<1> USE DEF TakeMessage, SendToChannel, TakeRegister, TakeUnregister
<1>1. HubTypeOK'
  <2>1. CASE TakeMessage
    <3>1. Head(hubQueue) \in HubChannels /\ Tail(hubQueue) \in Seq(HubChannels)
          /\ Len(Tail(hubQueue)) <= QueueSize
      BY <2>1, HubSizes DEF HubInv, HubTypeOK
    <3>2. hubJob' \in Jobs
      BY <2>1, <3>1 DEF Jobs
    <3> QED  BY <2>1, <3>1, <3>2 DEF HubInv, HubTypeOK
  <2>2. ASSUME NEW k \in HubChannels, SendToChannel(k) PROVE HubTypeOK'
    BY <2>2, HubSizes DEF HubInv, HubTypeOK
  <2>3. ASSUME NEW c \in HubClients, TakeRegister(c) \/ TakeUnregister(c) PROVE HubTypeOK'
    <3>1. hubJob' \in Jobs
      BY <2>3 DEF Jobs
    <3> QED  BY <2>3, <3>1 DEF HubInv, HubTypeOK
  <2> QED  BY <2>1, <2>2, <2>3
<1>2. JobRight'
  BY DEF HubInv, HubTypeOK, JobRight, Jobs, Idle, Panic
<1>3. ASSUME NEW d \in HubClients PROVE PlaceOf(d)'
  BY <1>3 DEF HubInv, HubTypeOK, PlaceOf, InNoChannel, Mux
<1> QED  BY <1>1, <1>2, <1>3 DEF HubInv

(* The hub does its job: no send channel it closes or sends to is closed. *)
LEMMA JobInv == ASSUME HubInv, HubJob PROVE HubInv'
<1>1. CASE DoRegister
  <2> USE <1>1 DEF DoRegister
  <2>1. hubJob.of \in HubClients /\ reader[hubJob.of] \in {"reading", "unsubscribing", "unregistering"}
    BY DEF HubInv, HubTypeOK, JobRight, Jobs, Idle, Panic
  <2>2. HubTypeOK'
    BY <2>1 DEF HubInv, HubTypeOK
  <2>3. JobRight'
    BY DEF JobRight, Idle, Panic
  <2>4. ASSUME NEW d \in HubClients PROVE PlaceOf(d)'
    BY <2>1, <2>4, MuxHasNoChannel DEF HubInv, HubTypeOK, PlaceOf, InNoChannel, Mux
  <2> QED  BY <2>2, <2>3, <2>4 DEF HubInv
<1>2. CASE DoUnregister
  <2> USE <1>2 DEF DoUnregister
  <2>1. hubJob.of \in HubClients /\ reader[hubJob.of] \in {"closing", "gone"}
    BY DEF HubInv, HubTypeOK, JobRight, Jobs, Idle, Panic
  <2>2. hubJob' = Idle
    BY <2>1 DEF HubInv, PlaceOf
  <2>3. HubTypeOK'
    <3>1. clients' \subseteq HubClients /\ channels' \in [HubChannels -> SUBSET HubClients]
      BY <2>1 DEF HubInv, HubTypeOK
    <3>2. sendClosed' \in [HubClients -> BOOLEAN]
      BY <2>1 DEF HubInv, HubTypeOK
    <3> QED  BY <2>2, <3>1, <3>2 DEF HubInv, HubTypeOK
  <2>4. JobRight'
    BY <2>2 DEF JobRight, Idle, Panic
  <2>5. ASSUME NEW d \in HubClients PROVE PlaceOf(d)'
    <3>1. CASE hubJob.of \notin clients
      BY <2>5, <3>1 DEF HubInv, PlaceOf, InNoChannel, Mux
    <3>2. CASE hubJob.of \in clients /\ d # hubJob.of
      <4>1. /\ d \in clients' <=> d \in clients
            /\ sendClosed'[d] = sendClosed[d]
            /\ \A k \in HubChannels : d \in channels'[k] <=> d \in channels[k]
        BY <2>5, <3>2 DEF HubInv, HubTypeOK
      <4> QED  BY <2>5, <4>1 DEF HubInv, PlaceOf, InNoChannel, Mux
    <3>3. CASE hubJob.of \in clients /\ d = hubJob.of
      <4>1. d \notin clients' /\ sendClosed'[d]
        BY <2>1, <3>3 DEF HubInv, HubTypeOK
      <4>2. \A k \in HubChannels : d \notin channels'[k]
        BY <2>1, <3>3 DEF HubInv, PlaceOf, Mux
      <4> QED  BY <2>1, <3>3, <4>1, <4>2 DEF PlaceOf, InNoChannel
    <3> QED  BY <3>1, <3>2, <3>3
  <2> QED  BY <2>3, <2>4, <2>5 DEF HubInv
<1>3. CASE DoMessage
  <2> USE <1>3 DEF DoMessage
  <2>1. hubJob.of \in HubChannels
    BY DEF HubInv, HubTypeOK, Jobs, Idle, Panic
  <2>2. hubJob' = Idle
    BY <2>1 DEF HubInv, HubTypeOK, PlaceOf, InNoChannel
  <2>3. HubTypeOK'
    BY <2>2, HubSizes DEF HubInv, HubTypeOK
  <2>4. JobRight'
    BY <2>2 DEF JobRight, Idle, Panic
  <2>5. ASSUME NEW d \in HubClients PROVE PlaceOf(d)'
    BY <2>5 DEF HubInv, PlaceOf, InNoChannel, Mux
  <2> QED  BY <2>3, <2>4, <2>5 DEF HubInv
<1> QED  BY <1>1, <1>2, <1>3 DEF HubJob

LEMMA HubStepInv == HubInv /\ [HubNext]_hubVars => HubInv'
<1>1. ASSUME HubInv, HubNext PROVE HubInv'
  BY <1>1, PumpInv, ReaderInv, TakeInv, JobInv DEF HubNext
<1>2. ASSUME HubInv, UNCHANGED hubVars PROVE HubInv'
  BY <1>2 DEF HubInv, HubTypeOK, JobRight, PlaceOf, InNoChannel, Mux, hubVars
<1> QED  BY <1>1, <1>2

LEMMA HubInvSafe == HubInv => HubNeverPanics
  BY DEF HubInv, HubTypeOK, JobRight, PlaceOf, InNoChannel, HubNeverPanics

(* For any number of connections, channels and messages, in whatever order the hub
   takes them: no send channel is closed twice or sent to when closed (hub.go:83-127,
   yolo_handler.go:74-79). *)
THEOREM HubIsSafe == HubSpec => []HubNeverPanics
<1>1. HubSpec => []HubInv
  BY HubInitInv, HubStepInv, PTL DEF HubSpec
<1> QED  BY <1>1, HubInvSafe, PTL

-----------------------------------------------------------------------------
(* OwlBridge. A user at work on a channel holds the bridge's mutex in the second half
   of a play and of a stop. *)
Holds(u) == owlCall[u].pc \in {"fetch", "add", "remove", "halt"}
LockRight == \A u \in OwlUsers : Holds(u) <=> bridgeLock = u

StoppingOf(c) == \E u \in OwlUsers : owlCall[u].pc \in {"drop", "remove", "halt"} /\ owlCall[u].c = c
AboutToDrop(c) == \E u \in OwlUsers : owlCall[u].pc = "drop" /\ owlCall[u].c = c

(* An entry stands for a stream that plays, or the one who stopped it is on the way to
   forget it; the same of an entry that is about to be made, whose stream can only
   have been stopped by somebody who waits for the mutex. *)
EntriesPlay == \A c \in OwlPlayed : bridgeCache[c].gen = owlGen => c \in owlPlaying \/ StoppingOf(c)
NewEntriesPlay ==
    \A u \in OwlUsers : owlCall[u].pc = "add" /\ owlCall[u].gen = owlGen =>
        owlCall[u].c \in owlPlaying \/ AboutToDrop(owlCall[u].c)

\* no entry is of a restart to come
NoneOfTheFuture ==
    /\ \A c \in OwlPlayed : bridgeCache[c] = NoEntry \/ bridgeCache[c].gen <= owlGen
    /\ \A u \in OwlUsers : owlCall[u].pc = "add" => owlCall[u].gen <= owlGen

StreamInv == LockRight /\ EntriesPlay /\ NewEntriesPlay /\ NoneOfTheFuture

(* A listing all pages of which came as they should has what is on them. *)
PagesOf(s, n) == {s[i] : i \in 1..n}
Pages(n) == {owlList[i] : i \in 1..n}
ListingRight(u) ==
    owlCall[u].steady /\ owlCall[u].clean =>
       /\ owlCall[u].pc = "page" => /\ owlCall[u].page <= Len(owlList) + 1
                                    /\ owlCall[u].got = Pages(owlCall[u].page - 1)
       /\ owlCall[u].pc = "listed" /\ owlCall[u].ok /\ Len(owlList) <= OwlMaxPages =>
             owlCall[u].got = Pages(Len(owlList))
ListingInv == \A u \in OwlUsers : owlCall[u].pc \in {"page", "listed"} => ListingRight(u)

OwlInv == OwlTypeOK /\ StreamInv /\ ListingInv

LEMMA OwlSizes == /\ OwlRestarts \in Nat /\ OwlMaxPages \in Nat /\ OwlMaxPages > 0
                  /\ NoUser \notin OwlUsers
<1>1. OwlRestarts \in Nat /\ OwlMaxPages \in Nat \ {0} /\ NoUser \notin OwlUsers
  BY OwlAssumption, Zenon DEF OwlAssumption
<1> QED  BY <1>1

LEMMA ListLength ==
    ASSUME NEW s \in ChannelLists
    PROVE  /\ s \in Seq(OwlChannels) /\ Len(s) \in Nat /\ DOMAIN s = 1..Len(s)
           /\ \A i \in 1..Len(s) : s[i] \in OwlChannels
           /\ \A i, j \in 1..Len(s) : s[i] = s[j] => i = j
<1>1. PICK n \in 0..Cardinality(OwlChannels) : s \in [1..n -> OwlChannels]
  BY DEF ChannelLists
<1>2. n \in Nat
  OBVIOUS
<1>3. s \in Seq(OwlChannels)
  BY <1>1, <1>2, SeqDef
<1>4. \A i, j \in DOMAIN s : s[i] = s[j] => i = j
  BY DEF ChannelLists
<1> QED  BY <1>3, <1>4, LenProperties, ElementOfSeq

(* What a call is follows from where it is. *)
LEMMA CallKind ==
    ASSUME OwlTypeOK, NEW u \in OwlUsers
    PROVE  /\ owlCall[u].pc \in OwlPcs => owlCall[u] \in StreamCall
           /\ owlCall[u].pc \in {"page", "listed"} => owlCall[u] \in ListCall
           /\ owlCall[u].pc \in OwlPcs \cup {"idle", "page", "listed"}
<1>1. owlCall[u] \in {OwlIdle} \cup StreamCall \cup ListCall
  BY DEF OwlTypeOK
<1>2. OwlIdle.pc = "idle"
  BY DEF OwlIdle
<1>3. \A x \in StreamCall : x.pc \in OwlPcs
  BY DEF StreamCall
<1>4. \A x \in ListCall : x.pc \in {"page", "listed"}
  BY DEF ListCall
<1>5. "idle" \notin OwlPcs /\ "page" \notin OwlPcs /\ "listed" \notin OwlPcs
  BY DEF OwlPcs
<1> QED  BY <1>1, <1>2, <1>3, <1>4, <1>5

(* A step of one call, with the call it becomes. *)
LEMMA CallSet ==
    ASSUME OwlTypeOK, NEW u \in OwlUsers, NEW r \in {OwlIdle} \cup StreamCall \cup ListCall,
           owlCall' = [owlCall EXCEPT ![u] = r]
    PROVE  /\ owlCall' \in [OwlUsers -> {OwlIdle} \cup StreamCall \cup ListCall]
           /\ \A v \in OwlUsers : owlCall'[v] = IF v = u THEN r ELSE owlCall[v]
<1> DEFINE T == {OwlIdle} \cup StreamCall \cup ListCall
<1>1. owlCall \in [OwlUsers -> T] /\ r \in T
  BY DEF OwlTypeOK
<1> HIDE DEF T
<1>2. owlCall' \in [OwlUsers -> T] /\ \A v \in OwlUsers : owlCall'[v] = IF v = u THEN r ELSE owlCall[v]
  BY <1>1
<1> QED  BY <1>2 DEF T

LEMMA GoesTo ==
    ASSUME OwlTypeOK, NEW u \in OwlUsers, NEW pc \in OwlPcs, owlCall[u].pc \in OwlPcs, OwlGoto(u, pc)
    PROVE  /\ owlCall' \in [OwlUsers -> {OwlIdle} \cup StreamCall \cup ListCall]
           /\ \A v \in OwlUsers : v # u => owlCall'[v] = owlCall[v]
           /\ owlCall'[u].pc = pc /\ owlCall'[u].c = owlCall[u].c /\ owlCall'[u].gen = owlCall[u].gen
<1> DEFINE r == [owlCall[u] EXCEPT !.pc = pc]
<1>1. owlCall[u] \in StreamCall
  BY CallKind
<1>2. r \in StreamCall /\ r.pc = pc /\ r.c = owlCall[u].c /\ r.gen = owlCall[u].gen
  BY <1>1 DEF StreamCall
<1>3. owlCall' = [owlCall EXCEPT ![u] = r]
  BY DEF OwlGoto
<1> HIDE DEF r
<1> QED  BY <1>2, <1>3, CallSet

LEMMA CallEnds ==
    ASSUME OwlTypeOK, NEW u \in OwlUsers, OwlEnds(u)
    PROVE  /\ owlCall' \in [OwlUsers -> {OwlIdle} \cup StreamCall \cup ListCall]
           /\ \A v \in OwlUsers : v # u => owlCall'[v] = owlCall[v]
           /\ owlCall'[u].pc = "idle"
<1>1. owlCall' = [owlCall EXCEPT ![u] = OwlIdle]
  BY DEF OwlEnds
<1>2. OwlIdle.pc = "idle"
  BY DEF OwlIdle
<1> QED  BY <1>1, <1>2, CallSet

(* A step of a play or a stop leaves the listings alone. *)
LEMMA ListingsKept ==
    ASSUME OwlInv, NEW u \in OwlUsers, UNCHANGED owlList,
           \A v \in OwlUsers : v # u => owlCall'[v] = owlCall[v],
           owlCall'[u].pc \notin {"page", "listed"}
    PROVE  ListingInv'
  BY DEF OwlInv, ListingInv, ListingRight, Pages

LEMMA TokenTyped ==
    ASSUME OwlTypeOK, NEW t \in LoginGives \cup EnsureLoginGives PROVE t \in {"none", "good", "stale"}
  BY DEF OwlTypeOK, LoginGives, EnsureLoginGives

LEMMA OwlInitInv == OwlInit => OwlInv
<1> SUFFICES ASSUME OwlInit PROVE OwlInv
  OBVIOUS
<1>1. OwlFirstList \in ChannelLists /\ OwlCalls \subseteq [stream : Nat, list : Nat]
  BY OwlAssumption, Zenon DEF OwlAssumption
<1>2. /\ OwlIdle.pc = "idle" /\ \A u \in OwlUsers : owlCall[u] = OwlIdle
      /\ NoEntry.gen = OwlRestarts + 1 /\ \A c \in OwlPlayed : bridgeCache[c] = NoEntry
      /\ bridgeLock = NoUser /\ owlGen = 0
  BY DEF OwlInit, OwlIdle, NoEntry
<1>3. OwlTypeOK
  <2>1. owlCall \in [OwlUsers -> {OwlIdle} \cup StreamCall \cup ListCall]
    BY DEF OwlInit
  <2>2. owlLeft \in [stream : Nat, list : Nat]
    BY <1>1, Zenon DEF OwlInit
  <2>3. bridgeCache \in [OwlPlayed -> [fresh : BOOLEAN, gen : 0..OwlRestarts] \cup {NoEntry}]
    BY DEF OwlInit
  <2>4. owlGen \in 0..OwlRestarts
    BY OwlSizes DEF OwlInit
  <2> QED  BY <1>1, <2>1, <2>2, <2>3, <2>4 DEF OwlInit, OwlTypeOK
<1>4. LockRight
  BY <1>2, OwlSizes DEF LockRight, Holds
<1>5. EntriesPlay /\ NewEntriesPlay /\ NoneOfTheFuture
  BY <1>2, OwlSizes DEF EntriesPlay, NewEntriesPlay, NoneOfTheFuture
<1>6. ListingInv
  BY <1>2 DEF ListingInv
<1> QED  BY <1>3, <1>4, <1>5, <1>6 DEF OwlInv, StreamInv

(* A step of one user who is, before and after, at no place the invariant of the
   streams speaks of, while OWL stops nothing. *)
LEMMA StreamsKept ==
    ASSUME StreamInv, NEW u \in OwlUsers, UNCHANGED <<owlGen, bridgeCache, bridgeLock>>,
           \A v \in OwlUsers : v # u => owlCall'[v] = owlCall[v],
           owlPlaying \subseteq owlPlaying',
           owlCall[u].pc \notin {"fetch", "add", "drop", "remove", "halt"},
           owlCall'[u].pc \notin {"fetch", "add", "drop", "remove", "halt"}
    PROVE  StreamInv'
<1>1. LockRight'
  BY DEF StreamInv, LockRight, Holds
<1>2. EntriesPlay'
  <2> SUFFICES ASSUME NEW c \in OwlPlayed, bridgeCache[c].gen = owlGen
               PROVE  c \in owlPlaying' \/ StoppingOf(c)'
    BY DEF EntriesPlay
  <2>1. CASE c \in owlPlaying
    BY <2>1
  <2>2. CASE StoppingOf(c)
    BY <2>2 DEF StoppingOf
  <2> QED  BY <2>1, <2>2 DEF StreamInv, EntriesPlay
<1>3. NewEntriesPlay'
  <2> SUFFICES ASSUME NEW v \in OwlUsers, owlCall'[v].pc = "add", owlCall'[v].gen = owlGen
               PROVE  (owlCall[v].c \in owlPlaying \/ AboutToDrop(owlCall[v].c))'
    BY DEF NewEntriesPlay
  <2>1. v # u /\ owlCall'[v] = owlCall[v]
    OBVIOUS
  <2>2. owlCall[v].c \in owlPlaying \/ AboutToDrop(owlCall[v].c)
    BY <2>1 DEF StreamInv, NewEntriesPlay
  <2> QED  BY <2>1, <2>2 DEF AboutToDrop
<1>4. NoneOfTheFuture'
  BY DEF StreamInv, NoneOfTheFuture
<1> QED  BY <1>1, <1>2, <1>3, <1>4 DEF StreamInv

LEMMA RequestStep == ASSUME OwlInv, NEW u \in OwlUsers, OwlRequest(u) PROVE OwlInv'
<1> USE DEF OwlRequest
<1>1. OwlTypeOK /\ StreamInv
  BY DEF OwlInv
<1>2. OwlIdle.pc = "idle" /\ owlCall[u].pc = "idle"
  BY DEF OwlIdle
<1>3. CASE \E c \in OwlPlayed, pc \in {"play", "stop"} :
             owlCall' = [owlCall EXCEPT ![u] = [pc |-> pc, c |-> c, gen |-> 0]] /\
             owlLeft.stream > 0 /\ owlLeft' = [owlLeft EXCEPT !.stream = @ - 1]
  <2>1. PICK c \in OwlPlayed, pc \in {"play", "stop"} :
             owlCall' = [owlCall EXCEPT ![u] = [pc |-> pc, c |-> c, gen |-> 0]]
    BY <1>3
  <2> DEFINE r == [pc |-> pc, c |-> c, gen |-> 0]
  <2>2. r \in StreamCall /\ r.pc = pc
    BY OwlSizes DEF StreamCall, OwlPcs
  <2>3. owlCall' = [owlCall EXCEPT ![u] = r]
    BY <2>1
  <2> HIDE DEF r
  <2>4. /\ owlCall' \in [OwlUsers -> {OwlIdle} \cup StreamCall \cup ListCall]
        /\ \A v \in OwlUsers : v # u => owlCall'[v] = owlCall[v]
        /\ owlCall'[u].pc = pc
    BY <1>1, <2>2, <2>3, CallSet
  <2>5. owlLeft' \in [stream : Nat, list : Nat]
    BY <1>1, <1>3 DEF OwlTypeOK
  <2>6. OwlTypeOK'
    BY <1>1, <2>4, <2>5 DEF OwlTypeOK
  <2>7. StreamInv'
    BY <1>1, <1>2, <2>4, StreamsKept
  <2>8. ListingInv'
    BY <2>4, ListingsKept
  <2> QED  BY <2>6, <2>7, <2>8 DEF OwlInv
<1>4. CASE /\ owlLeft.list > 0
           /\ owlLeft' = [owlLeft EXCEPT !.list = @ - 1]
           /\ owlCall' = [owlCall EXCEPT ![u] =
               [pc |-> "page", page |-> 1, got |-> {}, retried |-> FALSE,
                steady |-> TRUE, clean |-> TRUE, ok |-> TRUE]]
  <2> DEFINE r == [pc |-> "page", page |-> 1, got |-> {}, retried |-> FALSE,
                   steady |-> TRUE, clean |-> TRUE, ok |-> TRUE]
  <2>1. r \in ListCall /\ r.pc = "page" /\ r.page = 1 /\ r.got = {} /\ r.steady
    BY OwlSizes DEF ListCall
  <2>2. owlCall' = [owlCall EXCEPT ![u] = r]
    BY <1>4
  <2> HIDE DEF r
  <2>3. /\ owlCall' \in [OwlUsers -> {OwlIdle} \cup StreamCall \cup ListCall]
        /\ \A v \in OwlUsers : v # u => owlCall'[v] = owlCall[v]
        /\ owlCall'[u] = r
    BY <1>1, <2>1, <2>2, CallSet
  <2>4. owlLeft' \in [stream : Nat, list : Nat]
    BY <1>1, <1>4 DEF OwlTypeOK
  <2>5. OwlTypeOK'
    BY <1>1, <2>3, <2>4 DEF OwlTypeOK
  <2>6. StreamInv'
    BY <1>1, <1>2, <2>1, <2>3, StreamsKept
  <2>7. \A v \in OwlUsers : v # u /\ owlCall'[v].pc \in {"page", "listed"} => ListingRight(v)'
    BY <2>3 DEF OwlInv, ListingInv, ListingRight, Pages
  <2>8. ListingRight(u)'
    <3>1. Len(owlList) \in Nat
      BY <1>1, ListLength DEF OwlTypeOK
    <3>2. Pages(0) = {}
      BY DEF Pages
    <3> QED  BY <2>1, <2>3, <3>1, <3>2 DEF ListingRight, Pages
  <2> QED  BY <2>5, <2>6, <2>7, <2>8 DEF OwlInv, ListingInv
<1> QED  BY <1>3, <1>4

LEMMA ClientPlayStep == ASSUME OwlInv, NEW u \in OwlUsers, ClientPlay(u) PROVE OwlInv'
<1> USE DEF ClientPlay
<1>1. OwlTypeOK /\ StreamInv /\ owlCall[u].pc = "play"
  BY DEF OwlInv
<1>2. PICK t \in EnsureLoginGives : owlToken' = t /\ owlPlaying' \in AfterPlay(u, t)
  OBVIOUS
<1>3. owlCall[u].c \in OwlPlayed
  BY <1>1, CallKind DEF OwlPcs, StreamCall
<1>4. owlPlaying \subseteq owlPlaying' /\ owlPlaying' \subseteq OwlPlayed
  BY <1>1, <1>2, <1>3 DEF AfterPlay, OwlTypeOK
<1>5. OwlEnds(u) \/ OwlGoto(u, "ensure")
  OBVIOUS
<1>6. /\ owlCall' \in [OwlUsers -> {OwlIdle} \cup StreamCall \cup ListCall]
      /\ \A v \in OwlUsers : v # u => owlCall'[v] = owlCall[v]
      /\ owlCall'[u].pc \in {"idle", "ensure"}
  BY <1>1, <1>5, CallEnds, GoesTo DEF OwlPcs
<1>7. OwlTypeOK'
  <2>1. owlToken' \in {"none", "good", "stale"}
    BY <1>1, <1>2, TokenTyped
  <2> QED  BY <1>1, <1>4, <1>6, <2>1 DEF OwlTypeOK
<1>8. StreamInv'
  BY <1>1, <1>4, <1>6, StreamsKept
<1>9. ListingInv'
  BY <1>6, ListingsKept
<1> QED  BY <1>7, <1>8, <1>9 DEF OwlInv

LEMMA EnsureStreamStep == ASSUME OwlInv, NEW u \in OwlUsers, EnsureStream(u) PROVE OwlInv'
<1> USE DEF EnsureStream
<1>1. OwlTypeOK /\ StreamInv /\ owlCall[u].pc = "ensure"
  BY DEF OwlInv
<1>2. CASE OwlEnds(u) /\ UNCHANGED bridgeLock
  <2>1. /\ owlCall' \in [OwlUsers -> {OwlIdle} \cup StreamCall \cup ListCall]
        /\ \A v \in OwlUsers : v # u => owlCall'[v] = owlCall[v]
        /\ owlCall'[u].pc = "idle"
    BY <1>1, <1>2, CallEnds
  <2>2. OwlTypeOK'
    BY <1>1, <1>2, <2>1 DEF OwlTypeOK
  <2>3. StreamInv'
    BY <1>1, <1>2, <2>1, StreamsKept
  <2> QED  BY <2>1, <2>2, <2>3, ListingsKept DEF OwlInv
<1>3. CASE OwlGoto(u, "fetch") /\ bridgeLock' = u
  <2>1. /\ owlCall' \in [OwlUsers -> {OwlIdle} \cup StreamCall \cup ListCall]
        /\ \A v \in OwlUsers : v # u => owlCall'[v] = owlCall[v]
        /\ owlCall'[u].pc = "fetch"
    BY <1>1, <1>3, GoesTo DEF OwlPcs
  <2>2. OwlTypeOK'
    BY <1>1, <1>3, <2>1 DEF OwlTypeOK
  <2>3. LockRight'
    BY <1>1, <1>3, <2>1, OwlSizes DEF StreamInv, LockRight, Holds
  <2>4. EntriesPlay'
    BY <1>1, <2>1 DEF StreamInv, EntriesPlay, StoppingOf
  <2>5. NewEntriesPlay'
    BY <1>1, <2>1 DEF StreamInv, NewEntriesPlay, AboutToDrop
  <2>6. NoneOfTheFuture'
    BY <1>1, <2>1 DEF StreamInv, NoneOfTheFuture
  <2> QED  BY <2>1, <2>2, <2>3, <2>4, <2>5, <2>6, ListingsKept DEF OwlInv, StreamInv
<1> QED  BY <1>2, <1>3

LEMMA EnsureFetchStep == ASSUME OwlInv, NEW u \in OwlUsers, EnsureFetch(u) PROVE OwlInv'
<1> USE DEF EnsureFetch
<1>1. OwlTypeOK /\ StreamInv /\ owlCall[u].pc = "fetch"
  BY DEF OwlInv
<1>2. PICK t \in EnsureLoginGives :
        /\ owlToken' = t
        /\ owlPlaying' \in AfterPlay(u, t)
        /\ \/ OwlEnds(u) /\ bridgeLock' = NoUser
           \/ /\ owlCall[u].c \in owlPlaying'
              /\ owlCall' = [owlCall EXCEPT ![u] = [pc |-> "add", c |-> owlCall[u].c, gen |-> owlGen]]
              /\ UNCHANGED bridgeLock
  OBVIOUS
<1>3. owlCall[u] \in StreamCall /\ owlCall[u].c \in OwlPlayed
  BY <1>1, CallKind DEF OwlPcs, StreamCall
<1>4. owlPlaying \subseteq owlPlaying' /\ owlPlaying' \subseteq OwlPlayed
  BY <1>1, <1>2, <1>3 DEF AfterPlay, OwlTypeOK
<1>5. owlToken' \in {"none", "good", "stale"}
  BY <1>1, <1>2, TokenTyped
<1>6. bridgeLock = u /\ owlGen \in 0..OwlRestarts /\ owlGen \in Nat
  BY <1>1, OwlSizes DEF StreamInv, LockRight, Holds, OwlTypeOK
<1>7. CASE OwlEnds(u) /\ bridgeLock' = NoUser
  <2>1. /\ owlCall' \in [OwlUsers -> {OwlIdle} \cup StreamCall \cup ListCall]
        /\ \A v \in OwlUsers : v # u => owlCall'[v] = owlCall[v]
        /\ owlCall'[u].pc = "idle"
    BY <1>1, <1>7, CallEnds
  <2>2. OwlTypeOK'
    BY <1>1, <1>4, <1>5, <1>7, <2>1 DEF OwlTypeOK
  <2>3. LockRight'
    BY <1>1, <1>6, <1>7, <2>1, OwlSizes DEF StreamInv, LockRight, Holds
  <2>4. EntriesPlay'
    BY <1>1, <1>4, <2>1 DEF StreamInv, EntriesPlay, StoppingOf
  <2>5. NewEntriesPlay'
    BY <1>1, <1>4, <2>1 DEF StreamInv, NewEntriesPlay, AboutToDrop
  <2>6. NoneOfTheFuture'
    BY <1>1, <2>1 DEF StreamInv, NoneOfTheFuture
  <2> QED  BY <2>1, <2>2, <2>3, <2>4, <2>5, <2>6, ListingsKept DEF OwlInv, StreamInv
<1>8. CASE /\ owlCall[u].c \in owlPlaying'
           /\ owlCall' = [owlCall EXCEPT ![u] = [pc |-> "add", c |-> owlCall[u].c, gen |-> owlGen]]
           /\ UNCHANGED bridgeLock
  <2> DEFINE r == [pc |-> "add", c |-> owlCall[u].c, gen |-> owlGen]
  <2>1. r \in StreamCall /\ r.pc = "add" /\ r.c = owlCall[u].c /\ r.gen = owlGen
    BY <1>3, <1>6 DEF StreamCall, OwlPcs
  <2>2. owlCall' = [owlCall EXCEPT ![u] = r]
    BY <1>8
  <2> HIDE DEF r
  <2>3. /\ owlCall' \in [OwlUsers -> {OwlIdle} \cup StreamCall \cup ListCall]
        /\ \A v \in OwlUsers : v # u => owlCall'[v] = owlCall[v]
        /\ owlCall'[u].pc = "add" /\ owlCall'[u].c = owlCall[u].c /\ owlCall'[u].gen = owlGen
    BY <1>1, <2>1, <2>2, CallSet
  <2>4. OwlTypeOK'
    BY <1>1, <1>4, <1>5, <1>8, <2>3 DEF OwlTypeOK
  <2>5. LockRight'
    BY <1>1, <1>6, <1>8, <2>3 DEF StreamInv, LockRight, Holds
  <2>6. EntriesPlay'
    BY <1>1, <1>4, <2>3 DEF StreamInv, EntriesPlay, StoppingOf
  <2>7. NewEntriesPlay'
    BY <1>1, <1>4, <1>8, <2>3 DEF StreamInv, NewEntriesPlay, AboutToDrop
  <2>8. NoneOfTheFuture'
    BY <1>1, <1>6, <2>3 DEF StreamInv, NoneOfTheFuture
  <2> QED  BY <2>3, <2>4, <2>5, <2>6, <2>7, <2>8, ListingsKept DEF OwlInv, StreamInv
<1> QED  BY <1>2, <1>7, <1>8

LEMMA EnsureAddStep == ASSUME OwlInv, NEW u \in OwlUsers, EnsureAdd(u) PROVE OwlInv'
<1> USE DEF EnsureAdd
<1>1. OwlTypeOK /\ StreamInv /\ owlCall[u].pc = "add"
  BY DEF OwlInv
<1> DEFINE c == owlCall[u].c
           e == [fresh |-> TRUE, gen |-> owlCall[u].gen]
<1>2. owlCall[u] \in StreamCall /\ c \in OwlPlayed /\ owlCall[u].gen \in 0..OwlRestarts
  BY <1>1, CallKind DEF OwlPcs, StreamCall
<1>3. e \in [fresh : BOOLEAN, gen : 0..OwlRestarts] /\ e.gen = owlCall[u].gen
  BY <1>2
<1>4. bridgeCache' = [bridgeCache EXCEPT ![c] = e]
  OBVIOUS
<1> HIDE DEF c, e
<1>5. /\ bridgeCache' \in [OwlPlayed -> [fresh : BOOLEAN, gen : 0..OwlRestarts] \cup {NoEntry}]
      /\ \A d \in OwlPlayed : bridgeCache'[d] = IF d = c THEN e ELSE bridgeCache[d]
  <2> DEFINE T == [fresh : BOOLEAN, gen : 0..OwlRestarts] \cup {NoEntry}
  <2>1. bridgeCache \in [OwlPlayed -> T] /\ e \in T
    BY <1>1, <1>3 DEF OwlTypeOK
  <2> HIDE DEF T
  <2>2. bridgeCache' \in [OwlPlayed -> T] /\ \A d \in OwlPlayed : bridgeCache'[d] = IF d = c THEN e ELSE bridgeCache[d]
    BY <1>2, <1>4, <2>1
  <2> QED  BY <2>2 DEF T
<1>6. /\ owlCall' \in [OwlUsers -> {OwlIdle} \cup StreamCall \cup ListCall]
      /\ \A v \in OwlUsers : v # u => owlCall'[v] = owlCall[v]
      /\ owlCall'[u].pc = "idle"
  BY <1>1, CallEnds
<1>7. g2rStreams' \subseteq OwlPlayed
  BY <1>1, <1>2 DEF OwlTypeOK, c
<1>8. OwlTypeOK'
  BY <1>1, <1>5, <1>6, <1>7 DEF OwlTypeOK
<1>9. LockRight'
  BY <1>1, <1>6, OwlSizes DEF StreamInv, LockRight, Holds
<1>10. EntriesPlay'
  <2> SUFFICES ASSUME NEW d \in OwlPlayed, bridgeCache'[d].gen = owlGen
               PROVE  d \in owlPlaying \/ StoppingOf(d)'
    BY DEF EntriesPlay
  <2>1. CASE d = c
    <3>1. c \in owlPlaying \/ AboutToDrop(c)
      BY <1>1, <1>3, <1>5, <2>1 DEF StreamInv, NewEntriesPlay, c
    <3> QED  BY <1>1, <1>6, <2>1, <3>1 DEF AboutToDrop, StoppingOf
  <2>2. CASE d # c
    <3>1. d \in owlPlaying \/ StoppingOf(d)
      BY <1>1, <1>5, <2>2 DEF StreamInv, EntriesPlay
    <3> QED  BY <1>1, <1>6, <3>1 DEF StoppingOf
  <2> QED  BY <2>1, <2>2
<1>11. NewEntriesPlay'
  BY <1>1, <1>6 DEF StreamInv, NewEntriesPlay, AboutToDrop
<1>12. NoneOfTheFuture'
  BY <1>1, <1>3, <1>5, <1>6 DEF StreamInv, NoneOfTheFuture
<1> QED  BY <1>6, <1>8, <1>9, <1>10, <1>11, <1>12, ListingsKept DEF OwlInv, StreamInv

LEMMA ClientStopStep == ASSUME OwlInv, NEW u \in OwlUsers, ClientStop(u) PROVE OwlInv'
<1> USE DEF ClientStop
<1>1. OwlTypeOK /\ StreamInv /\ owlCall[u].pc = "stop"
  BY DEF OwlInv
<1>2. PICK t \in EnsureLoginGives :
        /\ owlToken' = t
        /\ \/ OwlEnds(u) /\ UNCHANGED owlPlaying
           \/ OwlGoto(u, "drop") /\ owlPlaying' \in AfterStopCall(u, t)
  OBVIOUS
<1>3. owlToken' \in {"none", "good", "stale"}
  BY <1>1, <1>2, TokenTyped
<1>4. CASE OwlEnds(u) /\ UNCHANGED owlPlaying
  <2>1. /\ owlCall' \in [OwlUsers -> {OwlIdle} \cup StreamCall \cup ListCall]
        /\ \A v \in OwlUsers : v # u => owlCall'[v] = owlCall[v]
        /\ owlCall'[u].pc = "idle"
    BY <1>1, <1>4, CallEnds
  <2>2. OwlTypeOK'
    BY <1>1, <1>3, <1>4, <2>1 DEF OwlTypeOK
  <2>3. StreamInv'
    BY <1>1, <1>4, <2>1, StreamsKept
  <2> QED  BY <2>1, <2>2, <2>3, ListingsKept DEF OwlInv
<1>5. CASE OwlGoto(u, "drop") /\ owlPlaying' \in AfterStopCall(u, t)
  <2>1. /\ owlCall' \in [OwlUsers -> {OwlIdle} \cup StreamCall \cup ListCall]
        /\ \A v \in OwlUsers : v # u => owlCall'[v] = owlCall[v]
        /\ owlCall'[u].pc = "drop" /\ owlCall'[u].c = owlCall[u].c
    BY <1>1, <1>5, GoesTo DEF OwlPcs
  <2>2. /\ owlPlaying' \subseteq owlPlaying
        /\ \A c \in owlPlaying : c # owlCall[u].c => c \in owlPlaying'
    BY <1>5 DEF AfterStopCall
  <2>3. OwlTypeOK'
    BY <1>1, <1>3, <2>1, <2>2 DEF OwlTypeOK
  <2>4. LockRight'
    BY <1>1, <2>1 DEF StreamInv, LockRight, Holds
  <2>5. EntriesPlay'
    BY <1>1, <2>1, <2>2 DEF StreamInv, EntriesPlay, StoppingOf
  <2>6. NewEntriesPlay'
    <3> SUFFICES ASSUME NEW v \in OwlUsers, owlCall'[v].pc = "add", owlCall'[v].gen = owlGen
                 PROVE  (owlCall[v].c \in owlPlaying \/ AboutToDrop(owlCall[v].c))'
      BY DEF NewEntriesPlay
    <3>1. v # u /\ owlCall'[v] = owlCall[v]
      BY <2>1
    <3>2. owlCall[v].c \in owlPlaying \/ AboutToDrop(owlCall[v].c)
      BY <1>1, <3>1 DEF StreamInv, NewEntriesPlay
    <3> QED  BY <1>1, <2>1, <2>2, <3>1, <3>2 DEF AboutToDrop
  <2>7. NoneOfTheFuture'
    BY <1>1, <2>1 DEF StreamInv, NoneOfTheFuture
  <2> QED  BY <2>1, <2>3, <2>4, <2>5, <2>6, <2>7, ListingsKept DEF OwlInv, StreamInv
<1> QED  BY <1>2, <1>4, <1>5

LEMMA StopStreamStep == ASSUME OwlInv, NEW u \in OwlUsers, StopStream(u) PROVE OwlInv'
<1> USE DEF StopStream
<1>1. OwlTypeOK /\ StreamInv /\ owlCall[u].pc = "drop" /\ bridgeLock = NoUser
  BY DEF OwlInv
<1>2. \A v \in OwlUsers : ~Holds(v)
  BY <1>1, OwlSizes DEF StreamInv, LockRight
<1>3. NoEntry.gen # owlGen
  BY <1>1, OwlSizes DEF NoEntry, OwlTypeOK
<1>4. CASE /\ bridgeCache[owlCall[u].c] = NoEntry
           /\ OwlEnds(u) /\ UNCHANGED bridgeLock
  <2>1. /\ owlCall' \in [OwlUsers -> {OwlIdle} \cup StreamCall \cup ListCall]
        /\ \A v \in OwlUsers : v # u => owlCall'[v] = owlCall[v]
        /\ owlCall'[u].pc = "idle"
    BY <1>1, <1>4, CallEnds
  <2>2. OwlTypeOK'
    BY <1>1, <1>4, <2>1 DEF OwlTypeOK
  <2>3. LockRight'
    BY <1>1, <1>4, <2>1 DEF StreamInv, LockRight, Holds
  <2>4. EntriesPlay'
    BY <1>1, <1>3, <1>4, <2>1 DEF StreamInv, EntriesPlay, StoppingOf
  <2>5. NewEntriesPlay'
    BY <1>2, <2>1 DEF NewEntriesPlay, Holds
  <2>6. NoneOfTheFuture'
    BY <1>1, <2>1 DEF StreamInv, NoneOfTheFuture
  <2> QED  BY <2>1, <2>2, <2>3, <2>4, <2>5, <2>6, ListingsKept DEF OwlInv, StreamInv
<1>5. CASE OwlGoto(u, "remove") /\ bridgeLock' = u
  <2>1. /\ owlCall' \in [OwlUsers -> {OwlIdle} \cup StreamCall \cup ListCall]
        /\ \A v \in OwlUsers : v # u => owlCall'[v] = owlCall[v]
        /\ owlCall'[u].pc = "remove" /\ owlCall'[u].c = owlCall[u].c
    BY <1>1, <1>5, GoesTo DEF OwlPcs
  <2>2. OwlTypeOK'
    BY <1>1, <1>5, <2>1 DEF OwlTypeOK
  <2>3. LockRight'
    BY <1>2, <1>5, <2>1, OwlSizes DEF LockRight, Holds
  <2>4. EntriesPlay'
    BY <1>1, <2>1 DEF StreamInv, EntriesPlay, StoppingOf
  <2>5. NewEntriesPlay'
    BY <1>2, <2>1 DEF NewEntriesPlay, Holds
  <2>6. NoneOfTheFuture'
    BY <1>1, <2>1 DEF StreamInv, NoneOfTheFuture
  <2> QED  BY <2>1, <2>2, <2>3, <2>4, <2>5, <2>6, ListingsKept DEF OwlInv, StreamInv
<1> QED  BY <1>4, <1>5

LEMMA StopRemovesStep == ASSUME OwlInv, NEW u \in OwlUsers, StopRemoves(u) PROVE OwlInv'
<1> USE DEF StopRemoves
<1>1. OwlTypeOK /\ StreamInv /\ owlCall[u].pc = "remove"
  BY DEF OwlInv
<1>2. /\ owlCall' \in [OwlUsers -> {OwlIdle} \cup StreamCall \cup ListCall]
      /\ \A v \in OwlUsers : v # u => owlCall'[v] = owlCall[v]
      /\ owlCall'[u].pc = "halt" /\ owlCall'[u].c = owlCall[u].c
  BY <1>1, GoesTo DEF OwlPcs
<1>3. OwlTypeOK'
  BY <1>1, <1>2 DEF OwlTypeOK
<1>4. LockRight'
  BY <1>1, <1>2 DEF StreamInv, LockRight, Holds
<1>5. EntriesPlay'
  BY <1>1, <1>2 DEF StreamInv, EntriesPlay, StoppingOf
<1>6. NewEntriesPlay'
  <2>1. \A v \in OwlUsers : Holds(v) => v = u
    BY <1>1 DEF StreamInv, LockRight, Holds
  <2> QED  BY <1>2, <2>1 DEF NewEntriesPlay, Holds
<1>7. NoneOfTheFuture'
  BY <1>1, <1>2 DEF StreamInv, NoneOfTheFuture
<1> QED  BY <1>2, <1>3, <1>4, <1>5, <1>6, <1>7, ListingsKept DEF OwlInv, StreamInv

LEMMA StopForgetsStep == ASSUME OwlInv, NEW u \in OwlUsers, StopForgets(u) PROVE OwlInv'
<1> USE DEF StopForgets
<1>1. OwlTypeOK /\ StreamInv /\ owlCall[u].pc = "halt"
  BY DEF OwlInv
<1> DEFINE c == owlCall[u].c
<1>2. PICK t \in EnsureLoginGives : owlToken' = t /\ owlPlaying' \in AfterStopCall(u, t)
  OBVIOUS
<1>3. owlToken' \in {"none", "good", "stale"}
  BY <1>1, <1>2, TokenTyped
<1>4. owlPlaying' \subseteq owlPlaying /\ \A d \in owlPlaying : d # c => d \in owlPlaying'
  BY <1>2 DEF AfterStopCall
<1>5. c \in OwlPlayed
  BY <1>1, CallKind DEF OwlPcs, StreamCall
<1>6. bridgeCache' = [bridgeCache EXCEPT ![c] = NoEntry]
  OBVIOUS
<1> HIDE DEF c
<1>7. /\ bridgeCache' \in [OwlPlayed -> [fresh : BOOLEAN, gen : 0..OwlRestarts] \cup {NoEntry}]
      /\ \A d \in OwlPlayed : bridgeCache'[d] = IF d = c THEN NoEntry ELSE bridgeCache[d]
  <2> DEFINE T == [fresh : BOOLEAN, gen : 0..OwlRestarts] \cup {NoEntry}
  <2>1. bridgeCache \in [OwlPlayed -> T] /\ NoEntry \in T
    BY <1>1 DEF OwlTypeOK
  <2> HIDE DEF T
  <2>2. bridgeCache' \in [OwlPlayed -> T] /\ \A d \in OwlPlayed : bridgeCache'[d] = IF d = c THEN NoEntry ELSE bridgeCache[d]
    BY <1>5, <1>6, <2>1
  <2> QED  BY <2>2 DEF T
<1>8. /\ owlCall' \in [OwlUsers -> {OwlIdle} \cup StreamCall \cup ListCall]
      /\ \A v \in OwlUsers : v # u => owlCall'[v] = owlCall[v]
      /\ owlCall'[u].pc = "idle"
  BY <1>1, CallEnds
<1>9. OwlTypeOK'
  BY <1>1, <1>3, <1>4, <1>7, <1>8 DEF OwlTypeOK
<1>10. NoEntry.gen # owlGen
  BY <1>1, OwlSizes DEF NoEntry, OwlTypeOK
<1>11. \A v \in OwlUsers : Holds(v) => v = u
  BY <1>1 DEF StreamInv, LockRight, Holds
<1>12. LockRight'
  BY <1>8, <1>11, OwlSizes DEF LockRight, Holds
<1>13. EntriesPlay'
  <2> SUFFICES ASSUME NEW d \in OwlPlayed, bridgeCache'[d].gen = owlGen
               PROVE  d \in owlPlaying' \/ StoppingOf(d)'
    BY DEF EntriesPlay
  <2>1. d # c /\ bridgeCache[d].gen = owlGen
    BY <1>7, <1>10
  <2>2. d \in owlPlaying \/ StoppingOf(d)
    BY <1>1, <2>1 DEF StreamInv, EntriesPlay
  <2>3. CASE StoppingOf(d)
    <3>1. PICK v \in OwlUsers : owlCall[v].pc \in {"drop", "remove", "halt"} /\ owlCall[v].c = d
      BY <2>3 DEF StoppingOf
    <3>2. v # u
      BY <2>1, <3>1 DEF c
    <3> QED  BY <1>8, <3>1, <3>2 DEF StoppingOf
  <2> QED  BY <1>4, <2>1, <2>2, <2>3
<1>14. NewEntriesPlay'
  BY <1>1, <1>8, <1>11 DEF NewEntriesPlay, Holds
<1>15. NoneOfTheFuture'
  BY <1>1, <1>7, <1>8 DEF StreamInv, NoneOfTheFuture
<1> QED  BY <1>8, <1>9, <1>12, <1>13, <1>14, <1>15, ListingsKept DEF OwlInv, StreamInv

(* The pages a listing has read, without a repetition: as many as their number. *)
LEMMA PagesCounted ==
    ASSUME NEW s \in ChannelLists, NEW n \in 0..Len(s)
    PROVE  /\ IsFiniteSet({s[i] : i \in 1..n})
           /\ Cardinality({s[i] : i \in 1..n}) \in Nat
           /\ Cardinality({s[i] : i \in 1..n}) <= n
<1> DEFINE P == {s[i] : i \in 1..n}
<1>1. n \in Nat /\ 1..n \subseteq 1..Len(s)
  BY ListLength
<1>2. IsFiniteSet(1..n) /\ Cardinality(1..n) = n
  BY <1>1, FS_Interval
<1> DEFINE f == [i \in 1..n |-> s[i]]
<1>3. f \in Surjection(1..n, P)
  <2>1. f \in [1..n -> P] /\ \A x \in P : \E i \in 1..n : f[i] = x
    OBVIOUS
  <2> QED  BY <2>1, Zenon DEF Surjection
<1>4. Surjection(1..n, P) # {}
  BY <1>3
<1> HIDE DEF P, f
<1>5. IsFiniteSet(P) /\ Cardinality(P) <= n
  BY <1>2, <1>4, FS_Surjection
<1>6. Cardinality(P) \in Nat
  BY <1>5, FS_CardinalityType
<1> QED  BY <1>5, <1>6 DEF P

(* One page of a steady listing. *)
LEMMA PageRead ==
    ASSUME NEW s \in ChannelLists, NEW p \in 1..(Len(s) + 1), NEW got, NEW page,
           got = PagesOf(s, p - 1), page = IF p <= Len(s) THEN {s[p]} ELSE {}
    PROVE  /\ p <= Len(s) => /\ page \ got # {}
                             /\ got \cup page = PagesOf(s, p)
           /\ p > Len(s) => /\ p = Len(s) + 1 /\ page \ got = {}
                            /\ got \cup page = PagesOf(s, Len(s))
<1> USE DEF PagesOf
<1>1. Len(s) \in Nat /\ \A i, j \in 1..Len(s) : s[i] = s[j] => i = j
  BY ListLength
<1>2. CASE p <= Len(s)
  <2>1. page = {s[p]}
    BY <1>2
  <2>2. s[p] \notin got
    BY <1>1, <1>2
  <2>3. got \cup {s[p]} = {s[i] : i \in 1..p}
    <3>1. 1..p = 1..(p - 1) \cup {p}
      OBVIOUS
    <3> QED  BY <3>1
  <2> QED  BY <1>1, <1>2, <2>1, <2>2, <2>3
<1>3. CASE p > Len(s)
  <2>1. p = Len(s) + 1 /\ p - 1 = Len(s)
    BY <1>1, <1>3
  <2>2. page = {}
    BY <1>1, <1>3
  <2>3. got = {s[i] : i \in 1..Len(s)}
    BY <2>1
  <2> QED  BY <1>1, <1>3, <2>1, <2>2, <2>3
<1> QED  BY <1>1, <1>2, <1>3

LEMMA SteadyPage ==
    ASSUME NEW call, owlList \in ChannelLists, call.page \in 1..(Len(owlList) + 1),
           call.got = PagesOf(owlList, call.page - 1)
    PROVE  /\ call.page <= Len(owlList) =>
                /\ PageOf(call.page) \ call.got # {}
                /\ call.got \cup PageOf(call.page) = PagesOf(owlList, call.page)
           /\ call.page > Len(owlList) =>
                /\ call.page = Len(owlList) + 1 /\ PageOf(call.page) \ call.got = {}
                /\ call.got \cup PageOf(call.page) = PagesOf(owlList, Len(owlList))
<1>1. PageOf(call.page) = IF call.page <= Len(owlList) THEN {owlList[call.page]} ELSE {}
  BY DEF PageOf
<1> QED  BY <1>1, PageRead

(* A step of a listing leaves the streams and the other calls alone. *)
LEMMA ListingSteps ==
    ASSUME OwlInv, NEW u \in OwlUsers, NEW r \in {OwlIdle} \cup ListCall,
           owlCall' = [owlCall EXCEPT ![u] = r], owlCall[u].pc \in {"page", "listed"},
           owlToken' \in {"none", "good", "stale"},
           UNCHANGED <<owlLeft, owlPlaying, owlGen, owlList, bridgeCache, bridgeLock, g2rStreams>>,
           (r \in ListCall => ListingRight(u)')
    PROVE  OwlInv'
<1>1. /\ owlCall' \in [OwlUsers -> {OwlIdle} \cup StreamCall \cup ListCall]
      /\ \A v \in OwlUsers : v # u => owlCall'[v] = owlCall[v]
      /\ owlCall'[u] = r
  BY CallSet DEF OwlInv
<1>2. OwlTypeOK'
  BY <1>1 DEF OwlInv, OwlTypeOK
<1>3. r.pc \in {"idle", "page", "listed"}
  BY DEF OwlIdle, ListCall
<1>4. StreamInv'
  BY <1>1, <1>3, StreamsKept DEF OwlInv
<1>5. \A v \in OwlUsers : v # u /\ owlCall'[v].pc \in {"page", "listed"} => ListingRight(v)'
  BY <1>1 DEF OwlInv, ListingInv, ListingRight, Pages
<1>6. OwlIdle.pc = "idle"
  BY DEF OwlIdle
<1>7. ListingInv'
  BY <1>1, <1>5, <1>6 DEF ListingInv
<1> QED  BY <1>2, <1>4, <1>7 DEF OwlInv

LEMMA ListTakesStep ==
    ASSUME OwlInv, NEW u \in OwlUsers, NEW items \in SUBSET OwlChannels, NEW total,
           NEW clean \in BOOLEAN, ListTakes(u, items, total, clean),
           clean => /\ items = PageOf(owlCall[u].page) /\ total = Len(owlList)
                    /\ owlCall[u].clean
    PROVE  OwlInv'
<1> USE DEF ListTakes
<1> DEFINE call == owlCall[u]
           new == items \ call.got
           got == call.got \cup items
           done == ListDone(got, new, total, call.page)
           r == IF done THEN [call EXCEPT !.got = got, !.clean = clean, !.pc = "listed"]
                ELSE [call EXCEPT !.got = got, !.clean = clean, !.page = @ + 1]
<1>1. OwlTypeOK /\ call \in ListCall /\ call.pc = "page"
  BY CallKind DEF OwlInv
<1>2. /\ call.page \in 1..OwlMaxPages /\ call.page \in Nat /\ call.got \in SUBSET OwlChannels
      /\ owlList \in ChannelLists /\ Len(owlList) \in Nat
      /\ OwlMaxPages \in Nat
  BY <1>1, ListLength, OwlSizes DEF ListCall, OwlTypeOK
<1>3. got \in SUBSET OwlChannels
  BY <1>2
<1>4. owlCall' = [owlCall EXCEPT ![u] = r]
  OBVIOUS
<1>5. owlToken' \in {"none", "good", "stale"}
  BY <1>1, TokenTyped
<1>6. r \in ListCall
  <2>1. CASE done
    <3>1. r = [call EXCEPT !.got = got, !.clean = clean, !.pc = "listed"]
      BY <2>1
    <3> HIDE DEF got, r
    <3> QED  BY <1>1, <1>3, <3>1 DEF ListCall
  <2>2. CASE ~done
    <3>1. r = [call EXCEPT !.got = got, !.clean = clean, !.page = @ + 1]
      BY <2>2
    <3>2. call.page + 1 \in 1..OwlMaxPages
      BY <1>2, <2>2 DEF ListDone
    <3> HIDE DEF got, r
    <3> QED  BY <1>1, <1>3, <3>1, <3>2 DEF ListCall
  <2> QED  BY <2>1, <2>2
<1>7. ASSUME call.steady, clean
      PROVE  /\ call.page \in 1..(Len(owlList) + 1)
             /\ call.got = {owlList[i] : i \in 1..(call.page - 1)}
  BY <1>1, <1>2, <1>7 DEF OwlInv, ListingInv, ListingRight, Pages
<1>8. ASSUME call.steady, clean
      PROVE  /\ call.page <= Len(owlList) => /\ new # {}
                                             /\ got = {owlList[i] : i \in 1..call.page}
             /\ call.page > Len(owlList) => /\ call.page = Len(owlList) + 1 /\ new = {}
                                            /\ got = {owlList[i] : i \in 1..Len(owlList)}
  BY <1>2, <1>7, <1>8, SteadyPage DEF PagesOf
<1>9. ListingRight(u)'
  <2>1. owlCall'[u] = r
    BY <1>1, <1>4, <1>6, CallSet
  <2>2. CASE done
    <3>1. r.pc = "listed" /\ r.steady = call.steady /\ r.clean = clean /\ r.got = got
      <4>1. r = [call EXCEPT !.got = got, !.clean = clean, !.pc = "listed"]
        BY <2>2
      <4> HIDE DEF got, r
      <4> QED  BY <1>1, <4>1 DEF ListCall
    <3>2. ASSUME call.steady, clean, Len(owlList) <= OwlMaxPages, call.page <= Len(owlList)
          PROVE  call.page = Len(owlList)
      <4>1. CASE Cardinality(got) >= Len(owlList)
        <5>1. call.page \in 0..Len(owlList)
          BY <1>2, <3>2
        <5>2. Cardinality(got) \in Nat /\ Cardinality(got) <= call.page
          <6> HIDE DEF got
          <6> QED  BY <1>2, <1>8, <3>2, <5>1, PagesCounted
        <5> HIDE DEF got
        <5> QED  BY <1>2, <3>2, <4>1, <5>2
      <4>2. CASE new = {}
        BY <1>8, <3>2, <4>2
      <4>3. CASE call.page = OwlMaxPages
        BY <1>2, <3>2, <4>3
      <4> QED  BY <2>2, <3>2, <4>1, <4>2, <4>3 DEF ListDone
    <3>3. ASSUME call.steady, clean, Len(owlList) <= OwlMaxPages
          PROVE  got = Pages(Len(owlList))
      <4> HIDE DEF got, new
      <4> QED  BY <1>2, <1>8, <3>2, <3>3 DEF Pages
    <3> HIDE DEF r, got, new
    <3> QED  BY <2>1, <3>1, <3>3 DEF ListingRight, Pages
  <2>3. CASE ~done
    <3>1. /\ r.pc = "page" /\ r.steady = call.steady /\ r.clean = clean
          /\ r.got = got /\ r.page = call.page + 1
      <4>1. r = [call EXCEPT !.got = got, !.clean = clean, !.page = @ + 1]
        BY <2>3
      <4> HIDE DEF got, r
      <4> QED  BY <1>1, <4>1 DEF ListCall
    <3>2. ASSUME call.steady, clean
          PROVE  call.page + 1 <= Len(owlList) + 1 /\ got = Pages(call.page)
      <4>1. new # {}
        BY <2>3 DEF ListDone
      <4> HIDE DEF got, new
      <4> QED  BY <1>2, <1>8, <3>2, <4>1 DEF Pages
    <3>3. (call.page + 1) - 1 = call.page
      BY <1>2
    <3>4. owlList' = owlList /\ Len(owlList)' = Len(owlList)
      OBVIOUS
    <3> HIDE DEF r, got, new, done, ListTakes
    <3> QED  BY <2>1, <3>1, <3>2, <3>3, <3>4 DEF ListingRight, Pages
  <2> QED  BY <2>2, <2>3
<1> HIDE DEF r
<1> QED  BY <1>1, <1>4, <1>5, <1>6, <1>9, ListingSteps

LEMMA ListPageStep ==
    ASSUME OwlInv, NEW u \in OwlUsers, ListPage(u) \/ ListPageEmpty(u) \/ ListByDevices(u)
    PROVE  OwlInv'
<1>1. OwlTypeOK /\ owlList \in ChannelLists
  BY DEF OwlInv, OwlTypeOK
<1>2. ASSUME NEW call \in ListCall
      PROVE  PageOf(call.page) \in SUBSET OwlChannels /\ call.clean \in BOOLEAN
  BY <1>1, <1>2, ListLength DEF PageOf, ListCall
<1>3. CASE ListPage(u)
  <2>1. owlCall[u] \in ListCall
    BY <1>1, <1>3, CallKind DEF ListPage, ListTakes
  <2> QED  BY <1>2, <1>3, <2>1, ListTakesStep DEF ListPage
<1>4. CASE ListPageEmpty(u)
  BY <1>4, ListTakesStep DEF ListPageEmpty
<1>5. CASE ListByDevices(u)
  <2>1. {owlList[i] : i \in DOMAIN owlList} \subseteq OwlChannels
    BY <1>1, ListLength
  <2>2. PICK items \in SUBSET OwlChannels : ListTakes(u, items, Cardinality(items), FALSE)
    BY <1>5, <2>1 DEF ListByDevices
  <2> QED  BY <2>2, ListTakesStep
<1> QED  BY <1>3, <1>4, <1>5

LEMMA ListFailsStep == ASSUME OwlInv, NEW u \in OwlUsers, ListFails(u) PROVE OwlInv'
<1> USE DEF ListFails
<1> DEFINE call == owlCall[u]
<1>1. OwlTypeOK /\ call \in ListCall /\ call.pc = "page"
  BY CallKind DEF OwlInv
<1>2. PICK t \in EnsureLoginGives \cup LoginGives :
         /\ owlToken' = t
         /\ owlCall' = [owlCall EXCEPT ![u] =
              IF ~call.retried /\ OwlAccepts(t)
                THEN [call EXCEPT !.page = 1, !.got = {}, !.retried = TRUE, !.steady = TRUE,
                                  !.clean = TRUE]
                ELSE [call EXCEPT !.pc = "listed", !.ok = FALSE]]
  OBVIOUS
<1>3. owlToken' \in {"none", "good", "stale"}
  BY <1>1, <1>2, TokenTyped
<1>4. owlList \in ChannelLists /\ Len(owlList) \in Nat /\ 1 \in 1..OwlMaxPages
  BY <1>1, ListLength, OwlSizes DEF OwlTypeOK
<1>5. CASE ~call.retried /\ OwlAccepts(t)
  <2> DEFINE r == [call EXCEPT !.page = 1, !.got = {}, !.retried = TRUE, !.steady = TRUE,
                            !.clean = TRUE]
  <2>1. r \in ListCall /\ r.pc = "page" /\ r.page = 1 /\ r.got = {}
    BY <1>1, <1>4 DEF ListCall
  <2>2. owlCall' = [owlCall EXCEPT ![u] = r]
    BY <1>2, <1>5
  <2> HIDE DEF r
  <2>3. owlCall'[u] = r
    BY <1>1, <2>1, <2>2, CallSet
  <2>4. Pages(0) = {}
    BY DEF Pages
  <2>5. ListingRight(u)'
    BY <1>4, <2>1, <2>3, <2>4 DEF ListingRight, Pages
  <2> QED  BY <1>1, <1>3, <2>1, <2>2, <2>5, ListingSteps
<1>6. CASE ~(~call.retried /\ OwlAccepts(t))
  <2> DEFINE r == [call EXCEPT !.pc = "listed", !.ok = FALSE]
  <2>1. r \in ListCall /\ r.pc = "listed" /\ ~r.ok
    BY <1>1 DEF ListCall
  <2>2. owlCall' = [owlCall EXCEPT ![u] = r]
    BY <1>2, <1>6
  <2> HIDE DEF r
  <2>3. owlCall'[u] = r
    BY <1>1, <2>1, <2>2, CallSet
  <2>4. ListingRight(u)'
    BY <2>1, <2>3 DEF ListingRight
  <2> QED  BY <1>1, <1>3, <2>1, <2>2, <2>4, ListingSteps
<1> QED  BY <1>5, <1>6

LEMMA ListAnswersStep == ASSUME OwlInv, NEW u \in OwlUsers, ListAnswers(u) PROVE OwlInv'
<1>1. owlCall' = [owlCall EXCEPT ![u] = OwlIdle] /\ owlCall[u].pc = "listed"
  BY DEF ListAnswers, OwlEnds
<1>2. owlToken' \in {"none", "good", "stale"}
  BY DEF ListAnswers, OwlInv, OwlTypeOK
<1>3. OwlIdle \notin ListCall
  BY DEF OwlIdle, ListCall
<1> QED  BY <1>1, <1>2, <1>3, ListingSteps DEF ListAnswers

(* The token, the age of an entry, and go2rtc are nobody's concern here. *)
LEMMA OwlAsideStep ==
    ASSUME OwlInv, owlToken' \in {"none", "good", "stale"}, g2rStreams' \subseteq OwlPlayed,
           UNCHANGED <<owlCall, owlLeft, owlPlaying, owlGen, owlList, bridgeLock>>,
           bridgeCache' \in [OwlPlayed -> [fresh : BOOLEAN, gen : 0..OwlRestarts] \cup {NoEntry}],
           \A c \in OwlPlayed : bridgeCache'[c].gen = bridgeCache[c].gen,
           \A c \in OwlPlayed : bridgeCache[c] = NoEntry => bridgeCache'[c] = NoEntry
    PROVE  OwlInv'
<1>1. OwlTypeOK'
  BY DEF OwlInv, OwlTypeOK
<1>2. LockRight'
  BY DEF OwlInv, StreamInv, LockRight, Holds
<1>3. EntriesPlay'
  BY DEF OwlInv, StreamInv, EntriesPlay, StoppingOf
<1>4. NewEntriesPlay'
  BY DEF OwlInv, StreamInv, NewEntriesPlay, AboutToDrop
<1>5. NoneOfTheFuture'
  BY DEF OwlInv, StreamInv, NoneOfTheFuture
<1>6. ListingInv'
  BY DEF OwlInv, ListingInv, ListingRight, Pages
<1> QED  BY <1>1, <1>2, <1>3, <1>4, <1>5, <1>6 DEF OwlInv, StreamInv

LEMMA UrlExpiresStep == ASSUME OwlInv, NEW c \in OwlPlayed, UrlExpires(c) PROVE OwlInv'
<1> DEFINE e == [bridgeCache[c] EXCEPT !.fresh = FALSE]
           T == [fresh : BOOLEAN, gen : 0..OwlRestarts]
<1>1. bridgeCache \in [OwlPlayed -> T \cup {NoEntry}] /\ bridgeCache[c].fresh
  BY DEF OwlInv, OwlTypeOK, UrlExpires
<1>2. ~NoEntry.fresh
  BY DEF NoEntry
<1>3. bridgeCache[c] \in T /\ bridgeCache[c] # NoEntry
  BY <1>1, <1>2
<1>4. e \in T /\ e.gen = bridgeCache[c].gen
  BY <1>3
<1>5. bridgeCache' = [bridgeCache EXCEPT ![c] = e]
  BY DEF UrlExpires
<1> HIDE DEF e, T
<1>6. /\ bridgeCache' \in [OwlPlayed -> T \cup {NoEntry}]
      /\ \A d \in OwlPlayed : bridgeCache'[d] = IF d = c THEN e ELSE bridgeCache[d]
  BY <1>1, <1>4, <1>5
<1>7. \A d \in OwlPlayed : /\ bridgeCache'[d].gen = bridgeCache[d].gen
                           /\ bridgeCache[d] = NoEntry => bridgeCache'[d] = NoEntry
  BY <1>3, <1>4, <1>6
<1> USE DEF T
<1> QED  BY <1>6, <1>7, OwlAsideStep DEF UrlExpires, OwlInv, OwlTypeOK

LEMMA OwlRestartStep == ASSUME OwlInv, OwlRestart PROVE OwlInv'
<1> USE DEF OwlRestart
<1>1. OwlTypeOK /\ StreamInv /\ owlGen' = owlGen + 1 /\ owlGen \in Nat /\ OwlRestarts \in Nat
      /\ owlGen < OwlRestarts
  BY OwlSizes DEF OwlInv, OwlTypeOK
<1>2. OwlTypeOK'
  <2>1. owlGen' \in 0..OwlRestarts
    BY <1>1
  <2> QED  BY <1>1, <2>1 DEF OwlTypeOK
<1>3. LockRight'
  BY <1>1 DEF StreamInv, LockRight, Holds
<1>4. NoEntry.gen = OwlRestarts + 1
  BY DEF NoEntry
<1>5. \A c \in OwlPlayed : bridgeCache[c].gen # owlGen'
  <2> SUFFICES ASSUME NEW c \in OwlPlayed PROVE bridgeCache[c].gen # owlGen + 1
    BY <1>1
  <2>1. CASE bridgeCache[c] = NoEntry
    BY <1>1, <1>4, <2>1
  <2>2. CASE bridgeCache[c].gen <= owlGen /\ bridgeCache[c] # NoEntry
    <3>1. bridgeCache[c].gen \in Nat
      BY <1>1, <2>2 DEF OwlTypeOK
    <3> QED  BY <1>1, <2>2, <3>1
  <2> QED  BY <1>1, <2>1, <2>2 DEF StreamInv, NoneOfTheFuture
<1>6. EntriesPlay'
  BY <1>5 DEF EntriesPlay
<1>7. \A u \in OwlUsers : owlCall[u].pc = "add" => owlCall[u].gen \in Nat /\ owlCall[u].gen <= owlGen
  <2> SUFFICES ASSUME NEW u \in OwlUsers, owlCall[u].pc = "add"
               PROVE  owlCall[u].gen \in Nat /\ owlCall[u].gen <= owlGen
    OBVIOUS
  <2>1. owlCall[u] \in StreamCall
    BY <1>1, CallKind DEF OwlPcs
  <2> QED  BY <1>1, <2>1 DEF StreamCall, StreamInv, NoneOfTheFuture
<1>8. NewEntriesPlay'
  BY <1>1, <1>7 DEF NewEntriesPlay
<1>9. NoneOfTheFuture'
  <2>1. \A c \in OwlPlayed : bridgeCache[c] = NoEntry \/ bridgeCache[c].gen <= owlGen + 1
    <3> SUFFICES ASSUME NEW c \in OwlPlayed, bridgeCache[c] # NoEntry PROVE bridgeCache[c].gen <= owlGen + 1
      OBVIOUS
    <3>1. bridgeCache[c].gen \in Nat /\ bridgeCache[c].gen <= owlGen
      BY <1>1 DEF OwlTypeOK, StreamInv, NoneOfTheFuture
    <3> QED  BY <1>1, <3>1
  <2>2. \A u \in OwlUsers : owlCall[u].pc = "add" => owlCall[u].gen <= owlGen + 1
    BY <1>1, <1>7
  <2> QED  BY <1>1, <2>1, <2>2 DEF NoneOfTheFuture
<1>10. ListingInv'
  BY DEF OwlInv, ListingInv, ListingRight, Pages
<1> QED  BY <1>2, <1>3, <1>6, <1>8, <1>9, <1>10 DEF OwlInv, StreamInv

LEMMA ListChangesStep == ASSUME OwlInv, OwlListChanges PROVE OwlInv'
<1> USE DEF OwlListChanges
<1>1. OwlTypeOK /\ StreamInv
  BY DEF OwlInv
<1>2. \A u \in OwlUsers :
        /\ owlCall[u].pc \in {"page", "listed"} =>
             owlCall'[u] \in ListCall /\ owlCall'[u].pc = owlCall[u].pc /\ ~owlCall'[u].steady
        /\ owlCall[u].pc \notin {"page", "listed"} => owlCall'[u] = owlCall[u]
  <2> SUFFICES ASSUME NEW u \in OwlUsers
               PROVE  /\ owlCall[u].pc \in {"page", "listed"} =>
                           owlCall'[u] \in ListCall /\ owlCall'[u].pc = owlCall[u].pc /\ ~owlCall'[u].steady
                      /\ owlCall[u].pc \notin {"page", "listed"} => owlCall'[u] = owlCall[u]
    OBVIOUS
  <2>1. CASE owlCall[u].pc \in {"page", "listed"}
    <3>1. owlCall[u] \in ListCall
      BY <1>1, <2>1, CallKind
    <3>2. owlCall'[u] = [owlCall[u] EXCEPT !.steady = FALSE]
      BY <2>1
    <3> QED  BY <2>1, <3>1, <3>2 DEF ListCall
  <2>2. CASE owlCall[u].pc \notin {"page", "listed"}
    BY <2>2
  <2> QED  BY <2>1, <2>2
<1>3. OwlTypeOK'
  <2>1. owlCall' \in [OwlUsers -> {OwlIdle} \cup StreamCall \cup ListCall]
    <3> DEFINE T == {OwlIdle} \cup StreamCall \cup ListCall
               f(u) == IF owlCall[u].pc \in {"page", "listed"}
                         THEN [owlCall[u] EXCEPT !.steady = FALSE] ELSE owlCall[u]
    <3>1. owlCall \in [OwlUsers -> T] /\ \A u \in OwlUsers : owlCall'[u] \in T
      BY <1>1, <1>2 DEF OwlTypeOK
    <3>2. owlCall' = [u \in OwlUsers |-> f(u)]
      OBVIOUS
    <3> HIDE DEF T, f
    <3>3. owlCall' \in [OwlUsers -> T]
      BY <3>1, <3>2
    <3> QED  BY <3>3 DEF T
  <2> QED  BY <1>1, <2>1 DEF OwlTypeOK
<1>4. LockRight'
  <2>1. \A u \in OwlUsers : Holds(u)' <=> Holds(u)
    BY <1>2 DEF Holds
  <2> QED  BY <1>1, <2>1 DEF StreamInv, LockRight
<1>5. EntriesPlay'
  BY <1>1, <1>2 DEF StreamInv, EntriesPlay, StoppingOf
<1>6. NewEntriesPlay'
  <2> SUFFICES ASSUME NEW u \in OwlUsers, owlCall'[u].pc = "add", owlCall'[u].gen = owlGen
               PROVE  (owlCall[u].c \in owlPlaying \/ AboutToDrop(owlCall[u].c))'
    BY DEF NewEntriesPlay
  <2>1. owlCall'[u] = owlCall[u]
    BY <1>2
  <2>2. owlCall[u].c \in owlPlaying \/ AboutToDrop(owlCall[u].c)
    BY <1>1, <2>1 DEF StreamInv, NewEntriesPlay
  <2> QED  BY <1>2, <2>1, <2>2 DEF AboutToDrop
<1>7. NoneOfTheFuture'
  BY <1>1, <1>2 DEF StreamInv, NoneOfTheFuture
<1>8. ListingInv'
  BY <1>2 DEF ListingInv, ListingRight
<1> QED  BY <1>3, <1>4, <1>5, <1>6, <1>7, <1>8 DEF OwlInv, StreamInv

LEMMA OwlStepInv == OwlInv /\ [OwlNext]_owlVars => OwlInv'
<1> SUFFICES ASSUME OwlInv, [OwlNext]_owlVars PROVE OwlInv'
  OBVIOUS
<1>1. OwlTypeOK /\ g2rStreams \subseteq OwlPlayed
      /\ bridgeCache \in [OwlPlayed -> [fresh : BOOLEAN, gen : 0..OwlRestarts] \cup {NoEntry}]
  BY DEF OwlInv, OwlTypeOK
<1>2. ASSUME NEW u \in OwlUsers,
             \/ OwlRequest(u) \/ ClientPlay(u) \/ EnsureStream(u) \/ EnsureFetch(u) \/ EnsureAdd(u)
             \/ ClientStop(u) \/ StopStream(u) \/ StopRemoves(u) \/ StopForgets(u)
      PROVE  OwlInv'
  BY <1>2, RequestStep, ClientPlayStep, EnsureStreamStep, EnsureFetchStep, EnsureAddStep,
     ClientStopStep, StopStreamStep, StopRemovesStep, StopForgetsStep
<1>3. ASSUME NEW u \in OwlUsers,
             \/ ListPage(u) \/ ListPageEmpty(u) \/ ListByDevices(u)
             \/ ListFails(u) \/ ListAnswers(u)
      PROVE  OwlInv'
  BY <1>3, ListPageStep, ListFailsStep, ListAnswersStep
<1>4. ASSUME NEW c \in OwlPlayed, UrlExpires(c) PROVE OwlInv'
  BY <1>4, UrlExpiresStep
<1>5. CASE QueryRetried \/ QueryOnce
  BY <1>1, <1>5, TokenTyped, OwlAsideStep DEF QueryRetried, QueryOnce
<1>6. CASE OwlTokenExpires
  BY <1>1, <1>6, OwlAsideStep DEF OwlTokenExpires
<1>7. CASE OwlRestart
  BY <1>7, OwlRestartStep
<1>8. CASE OwlListChanges
  BY <1>8, ListChangesStep
<1>9. CASE Go2rtcRestart
  BY <1>1, <1>9, OwlAsideStep DEF Go2rtcRestart, OwlTypeOK
<1>10. CASE UNCHANGED owlVars
  BY <1>1, <1>10, OwlAsideStep DEF owlVars, OwlTypeOK
<1> QED  BY <1>2, <1>3, <1>4, <1>5, <1>6, <1>7, <1>8, <1>9, <1>10 DEF OwlNext

LEMMA OwlInvSafe == OwlInv => CachedStreamPlays /\ CleanListingIsComplete
<1> SUFFICES ASSUME OwlInv PROVE CachedStreamPlays /\ CleanListingIsComplete
  OBVIOUS
<1>1. CachedStreamPlays
  BY DEF OwlInv, StreamInv, EntriesPlay, StoppingOf, CachedStreamPlays, OwlPcs
<1>2. CleanListingIsComplete
  BY ListLength DEF OwlInv, OwlTypeOK, ListingInv, ListingRight, Pages,
                    CleanListingIsComplete, Undisturbed, Complete
<1> QED  BY <1>1, <1>2

(* An entry of the bridge nobody is at work on stands for a stream that plays, and a
   listing that went undisturbed, with no page from a fallback, is complete
   (owl_bridge.go:56-219, client.go:448-456, 537-581). *)
THEOREM BridgeIsRight == OwlSpec => []CachedStreamPlays /\ []CleanListingIsComplete
<1>1. OwlInit => OwlInv
  BY OwlInitInv
<1>2. OwlInv /\ [OwlNext]_owlVars => OwlInv'
  BY OwlStepInv
<1>3. OwlInv => CachedStreamPlays /\ CleanListingIsComplete
  BY OwlInvSafe
<1> QED  BY <1>1, <1>2, <1>3, PTL DEF OwlSpec

-----------------------------------------------------------------------------
(* YoloTracker. The box of an object in pixels. *)
Px(o) == ToPixels(ObjectBox[o])

(* All boxes there are, and all detections. *)
Boxes == {Px(o) : o \in TrkObjects} \cup {ZeroBox}
AllDetections == {[o |-> o, box |-> Px(o)] : o \in TrkObjects} \cup {[o |-> Junk, box |-> ZeroBox]}
TrackType == [box : Boxes, missed : 0..TrackBuffer]

LEMMA TrkFacts ==
    /\ IsFiniteSet(TrkObjects) /\ Junk \notin TrkObjects
    /\ TrackBuffer \in Nat \ {0} /\ {FrameWidth, MaxTrackId, MaxJunk} \subseteq Nat
    /\ ObjectBox \in [TrkObjects -> Nat \X Nat]
    /\ \A o \in TrkObjects : ToPixels(ObjectBox[o])[1] < ToPixels(ObjectBox[o])[2]
  BY TrackerAssumption, Zenon DEF TrackerAssumption

LEMMA TimesNat == \A x, y \in Nat : x * y \in Nat
  OBVIOUS

LEMMA PixelBox ==
    ASSUME NEW o \in TrkObjects
    PROVE  /\ Px(o)[1] \in Nat /\ Px(o)[2] \in Nat /\ Px(o)[1] < Px(o)[2]
           /\ Px(o) \in Nat \X Nat
<1> DEFINE b == ObjectBox[o]
           x1 == b[1] * PixelsWide
           x2 == b[2] * PixelsWide
<1>1. b \in Nat \X Nat /\ PixelsWide \in Nat
  BY TrkFacts DEF PixelsWide
<1>2. b[1] \in Nat /\ b[2] \in Nat
  BY <1>1
<1>3. x1 \in Nat /\ x2 \in Nat
  BY <1>1, <1>2, TimesNat
<1>4. Px(o) = <<x1 \div 100, x2 \div 100>>
  BY DEF Px, ToPixels
<1> HIDE DEF x1, x2, b
<1>5. x1 \div 100 \in Nat /\ x2 \div 100 \in Nat
  BY <1>3
<1>6. Px(o)[1] < Px(o)[2]
  BY TrkFacts DEF Px
<1> QED  BY <1>4, <1>5, <1>6

(* Two boxes that have nothing in common do not match; a box that is not empty
   matches itself. *)
LEMMA Apart ==
    ASSUME NEW a \in Nat \X Nat, NEW b \in Nat \X Nat,
           a[1] <= a[2], b[1] <= b[2], Intersection(a, b) = 0
    PROVE  ~Matches(a, b) /\ UnionOf(a, b) \in Nat
<1>1. UnionOf(a, b) \in Nat
  BY DEF UnionOf
<1> QED  BY <1>1 DEF Matches

LEMMA Meet ==
    ASSUME NEW a \in Nat \X Nat, NEW b \in Nat \X Nat
    PROVE  Intersection(a, b) = Intersection(b, a) /\ Intersection(a, b) \in Nat
  BY DEF Intersection, MinOf, MaxOf

LEMMA Itself ==
    ASSUME NEW a \in Nat \X Nat, a[1] < a[2]
    PROVE  /\ Intersection(a, a) = a[2] - a[1] /\ UnionOf(a, a) = a[2] - a[1]
           /\ Intersection(a, a) \in Nat /\ Intersection(a, a) # 0 /\ Matches(a, a)
<1>1. Intersection(a, a) = a[2] - a[1]
  BY DEF Intersection, MinOf, MaxOf
<1>2. UnionOf(a, a) = a[2] - a[1]
  BY <1>1 DEF UnionOf
<1> QED  BY <1>1, <1>2 DEF Matches

LEMMA BoxType == ASSUME NEW c \in Boxes PROVE c \in Nat \X Nat /\ c[1] <= c[2]
<1>1. CASE c = ZeroBox
  BY <1>1 DEF ZeroBox
<1>2. ASSUME NEW o \in TrkObjects, c = Px(o) PROVE c \in Nat \X Nat /\ c[1] <= c[2]
  BY <1>2, PixelBox
<1> QED  BY <1>1, <1>2 DEF Boxes

(* What is not the box of an isolated object has nothing in common with it. *)
LEMMA OthersApart ==
    ASSUME NEW o \in Isolated, NEW c \in Boxes, c # Px(o)
    PROVE  Intersection(c, Px(o)) = 0 /\ Intersection(Px(o), c) = 0
<1>1. o \in TrkObjects /\ Px(o) \in Nat \X Nat /\ c \in Nat \X Nat
  BY PixelBox, BoxType DEF Isolated
<1>2. CASE c = ZeroBox
  <2>1. c[1] = 0 /\ c[2] = 0 /\ Px(o)[1] \in Nat /\ Px(o)[2] \in Nat
    BY <1>1, <1>2, PixelBox DEF ZeroBox
  <2>2. Intersection(c, Px(o)) = 0
    BY <2>1 DEF Intersection, MinOf, MaxOf
  <2> QED  BY <1>1, <2>2, Meet
<1>3. ASSUME NEW p \in TrkObjects, c = Px(p) PROVE Intersection(Px(o), c) = 0
  <2>1. p # o
    BY <1>3
  <2> QED  BY <2>1, <1>3 DEF Isolated, Px
<1> QED  BY <1>1, <1>2, <1>3, Meet DEF Boxes

LEMMA OwnBox ==
    ASSUME NEW o \in Isolated
    PROVE  /\ o \in TrkObjects /\ Px(o) \in Boxes /\ Px(o) # ZeroBox
           /\ \A p \in TrkObjects : p # o => Px(p) # Px(o)
<1>1. o \in TrkObjects /\ Px(o) \in Boxes
  BY DEF Isolated, Boxes
<1>2. Px(o) # ZeroBox
  BY <1>1, PixelBox DEF ZeroBox
<1>3. Intersection(Px(o), Px(o)) # 0
  BY <1>1, PixelBox, Itself
<1> QED  BY <1>1, <1>2, <1>3 DEF Isolated, Px

(* The tracks a detection is given to, as an isolated object sees it. *)
LEMMA OwnTracks ==
    ASSUME NEW o \in Isolated, NEW ts, \A i \in DOMAIN ts : ts[i].box \in Boxes
    PROVE  Best(ts, Px(o)) = {i \in DOMAIN ts : ts[i].box = Px(o)}
<1>1. /\ o \in TrkObjects /\ Px(o) \in Nat \X Nat /\ Px(o)[1] < Px(o)[2] /\ Px(o)[1] <= Px(o)[2]
      /\ Px(o)[1] \in Nat /\ Px(o)[2] \in Nat
  BY OwnBox, PixelBox
<1>2. \A c \in Boxes : c # Px(o) => ~Matches(c, Px(o)) /\ UnionOf(c, Px(o)) \in Nat
  BY <1>1, OthersApart, BoxType, Apart
<1>3. /\ Matches(Px(o), Px(o)) /\ Intersection(Px(o), Px(o)) \in Nat
      /\ Intersection(Px(o), Px(o)) = UnionOf(Px(o), Px(o))
  BY <1>1, Itself
<1>4. \A c \in Boxes : ~Closer(c, Px(o), Px(o))
  <2> TAKE c \in Boxes
  <2>1. CASE c = Px(o)
    BY <1>3, <2>1, TimesNat DEF Closer
  <2>2. CASE c # Px(o)
    <3>1. Intersection(c, Px(o)) = 0 /\ UnionOf(c, Px(o)) \in Nat
      BY <1>2, <2>2, OthersApart
    <3>2. Intersection(Px(o), Px(o)) * UnionOf(c, Px(o)) \in Nat
      BY <1>3, <3>1, TimesNat
    <3> QED  BY <1>3, <3>1, <3>2 DEF Closer
  <2> QED  BY <2>1, <2>2
<1> QED  BY <1>2, <1>3, <1>4 DEF Best

LEMMA OthersTracks ==
    ASSUME NEW o \in Isolated, NEW box \in Boxes, box # Px(o),
           NEW ts, NEW i \in Best(ts, box)
    PROVE  ts[i].box # Px(o)
<1>1. Intersection(Px(o), box) = 0
  BY OthersApart
<1>2. Px(o) \in Boxes
  BY OwnBox
<1>3. ~Matches(Px(o), box)
  BY <1>1, <1>2, BoxType, Apart
<1> QED  BY <1>3 DEF Best

(* A state of the tracker, between two detections. *)
Good(ts, next, given) ==
    /\ next \in Nat \ {0} /\ DOMAIN ts \subseteq 1..(next - 1)
    /\ \A i \in DOMAIN ts : ts[i] \in TrackType
    /\ given \in [TrkObjects -> 0..(next - 1)]

(* An isolated object has one track at most, that of its last detection. *)
OneTrack(ts, given) == \A o \in Isolated, i \in DOMAIN ts : ts[i].box = Px(o) => i = given[o]

HasTrack(ts, i, o) == i \in DOMAIN ts /\ ts[i].box = Px(o)

(* What has become of the isolated objects since the frame began. *)
Followed(st, o, done) ==
    /\ HasTrack(tracks, shownId[o], o) => st.given[o] = shownId[o]
    /\ o \in done => HasTrack(st.ts, st.given[o], o) /\ st.ts[st.given[o]].missed = 0
    /\ o \notin done =>
          /\ st.given[o] = shownId[o]
          /\ HasTrack(tracks, shownId[o], o) =>
                shownId[o] \in DOMAIN st.ts /\ st.ts[shownId[o]] = tracks[shownId[o]]

Midway(st, done) ==
    /\ Good(st.ts, st.next, st.given) /\ OneTrack(st.ts, st.given)
    /\ \A o \in Isolated : Followed(st, o, done)

Receivers(st, d) == IF Best(st.ts, d.box) = {} THEN {st.next} ELSE Best(st.ts, d.box)

LEMMA DetectionType ==
    ASSUME NEW d \in AllDetections
    PROVE  /\ d.box \in Boxes /\ d.o \in TrkObjects \cup {Junk}
           /\ \A o \in Isolated : d.box = Px(o) <=> d.o = o
<1>1. CASE d = [o |-> Junk, box |-> ZeroBox]
  <2>1. d.box = ZeroBox /\ d.o = Junk
    BY <1>1
  <2> QED  BY <2>1, OwnBox, TrkFacts DEF Boxes
<1>2. ASSUME NEW p \in TrkObjects, d = [o |-> p, box |-> Px(p)]
      PROVE  /\ d.box \in Boxes /\ d.o \in TrkObjects
             /\ \A o \in Isolated : d.box = Px(o) <=> d.o = o
  <2>1. d.box = Px(p) /\ d.o = p
    BY <1>2
  <2> QED  BY <2>1, OwnBox DEF Boxes
<1> QED  BY <1>1, <1>2 DEF AllDetections

(* Between two detections of a frame: what holds before one holds after it. *)
LEMMA OneDetection ==
    ASSUME NEW st, NEW done, Midway(st, done), NEW d \in AllDetections,
           NEW st2 \in AssignDetection(st, d)
    PROVE  Midway(st2, done \cup {d.o})
<1>1. PICK i \in Receivers(st, d) :
        /\ st2.ts = Put(st.ts, i, d.box)
        /\ st2.next = IF i = st.next THEN st.next + 1 ELSE st.next
        /\ st2.given = Give(st.given, d.o, i)
  BY DEF AssignDetection, Receivers
<1>2. /\ Good(st.ts, st.next, st.given) /\ OneTrack(st.ts, st.given)
      /\ \A o \in Isolated : Followed(st, o, done)
  BY DEF Midway
<1>3. /\ d.box \in Boxes /\ d.o \in TrkObjects \cup {Junk}
      /\ \A o \in Isolated : d.box = Px(o) <=> d.o = o
  BY DetectionType
<1>4. /\ st.next \in Nat \ {0} /\ DOMAIN st.ts \subseteq 1..(st.next - 1)
      /\ \A j \in DOMAIN st.ts : st.ts[j] \in TrackType /\ st.ts[j].box \in Boxes
      /\ st.given \in [TrkObjects -> 0..(st.next - 1)]
      /\ st.next \notin DOMAIN st.ts
  BY <1>2 DEF Good, TrackType
<1>5. i \in DOMAIN st.ts \/ i = st.next
  BY <1>1 DEF Receivers, Best
<1>6. /\ DOMAIN st2.ts = DOMAIN st.ts \cup {i} /\ st2.ts[i] = [box |-> d.box, missed |-> 0]
      /\ \A j \in DOMAIN st.ts : j # i => st2.ts[j] = st.ts[j]
  BY <1>1 DEF Put
<1>7. Good(st2.ts, st2.next, st2.given)
  <2>1. st2.next \in Nat \ {0} /\ st2.next >= st.next /\ i \in 1..(st2.next - 1)
    BY <1>1, <1>4, <1>5
  <2>2. DOMAIN st2.ts \subseteq 1..(st2.next - 1)
    BY <1>4, <1>6, <2>1
  <2>3. [box |-> d.box, missed |-> 0] \in TrackType
    BY <1>3, TrkFacts DEF TrackType
  <2>4. \A j \in DOMAIN st2.ts : st2.ts[j] \in TrackType
    BY <1>4, <1>6, <2>3
  <2>5. st2.given \in [TrkObjects -> 0..(st2.next - 1)]
    <3>1. st.given \in [TrkObjects -> 0..(st2.next - 1)] /\ i \in 0..(st2.next - 1)
      BY <1>4, <2>1
    <3> QED  BY <1>1, <3>1 DEF Give
  <2> QED  BY <2>1, <2>2, <2>4, <2>5 DEF Good
<1>8. ASSUME NEW o \in Isolated
      PROVE  /\ \A j \in DOMAIN st2.ts : st2.ts[j].box = Px(o) => j = st2.given[o]
             /\ Followed(st2, o, done \cup {d.o})
  <2>1. o \in TrkObjects /\ o # Junk
    BY OwnBox, TrkFacts
  <2>2. \A j \in DOMAIN st.ts : st.ts[j].box = Px(o) => j = st.given[o]
    BY <1>2 DEF OneTrack
  <2>3. CASE d.o = o
    <3>1. d.box = Px(o) /\ st2.given[o] = i
      BY <1>1, <1>3, <1>4, <2>1, <2>3 DEF Give
    <3>2. HasTrack(st.ts, st.given[o], o) => i = st.given[o]
      BY <1>1, <1>4, <2>2, <3>1, OwnTracks DEF HasTrack, Receivers
    <3>3. ~HasTrack(st.ts, st.given[o], o) => i = st.next
      BY <1>1, <1>4, <2>2, <3>1, OwnTracks DEF HasTrack, Receivers
    <3>4. \A j \in DOMAIN st2.ts : st2.ts[j].box = Px(o) => j = st2.given[o]
      BY <1>6, <2>2, <3>1, <3>2, <3>3 DEF HasTrack
    <3>5. HasTrack(st2.ts, st2.given[o], o) /\ st2.ts[st2.given[o]].missed = 0
      BY <1>6, <3>1 DEF HasTrack
    <3>6. HasTrack(tracks, shownId[o], o) => HasTrack(st.ts, st.given[o], o) /\ st.given[o] = shownId[o]
      BY <1>2 DEF Followed, HasTrack
    <3> QED  BY <2>3, <3>1, <3>2, <3>4, <3>5, <3>6 DEF Followed
  <2>4. CASE d.o # o
    <3>1. d.box # Px(o) /\ st2.given[o] = st.given[o]
      BY <1>1, <1>3, <1>4, <2>1, <2>4 DEF Give
    <3>2. i \in DOMAIN st.ts => st.ts[i].box # Px(o)
      BY <1>1, <1>3, <1>4, <3>1, OthersTracks DEF Receivers
    <3>3. \A j \in DOMAIN st.ts : st.ts[j].box = Px(o) => j # i
      BY <3>2
    <3>4. \A j \in DOMAIN st2.ts : st2.ts[j].box = Px(o) => j = st2.given[o]
      BY <1>6, <2>2, <3>1
    <3>5. Followed(st, o, done) /\ (o \in done \cup {d.o} <=> o \in done)
      BY <1>2, <2>4
    <3>6. \A j : HasTrack(st.ts, j, o) => j \in DOMAIN st2.ts /\ st2.ts[j] = st.ts[j]
      BY <1>6, <3>3 DEF HasTrack
    <3> QED  BY <3>1, <3>4, <3>5, <3>6 DEF Followed, HasTrack
  <2> QED  BY <2>3, <2>4
<1> QED  BY <1>7, <1>8 DEF Midway, OneTrack

(* Induction over the numbers that are in a set. *)
LEMMA CountUp ==
    ASSUME NEW S, 0 \in S, \A n \in Nat : n \in S => n + 1 \in S
    PROVE  Nat \subseteq S
<1> DEFINE T == Nat \ S
<1> SUFFICES ASSUME T # {} PROVE FALSE
  OBVIOUS
<1>1. PICK n \in T : \A m \in T : <<m, n>> \notin OpToRel(<, Nat)
  BY NatLessThanWellFounded, WFMin
<1>2. n # 0 /\ n - 1 \in Nat /\ n - 1 < n
  OBVIOUS
<1>3. n - 1 \in S => n \in S
  BY <1>2
<1>4. <<n - 1, n>> \in OpToRel(<, Nat)
  BY <1>2 DEF OpToRel
<1> QED  BY <1>1, <1>2, <1>3, <1>4

(* What the detections of a frame lead to: the recursive definition of Updates has
   a solution, and its values are states in which the objects detected so far have
   been followed. *)
Start == [ts |-> tracks, next |-> nextTrackId, given |-> shownId]

Assigned(S, d) == UNION {AssignDetection(st, d) : st \in S}

IsRun(f, n, dets) == f = [k \in 0..n |-> IF k = 0 THEN {Start} ELSE Assigned(f[k - 1], dets[k])]

LEMMA RunExists == ASSUME NEW dets PROVE \A n \in Nat : \E f : IsRun(f, n, dets)
<1> DEFINE S == {n \in Nat : \E f : IsRun(f, n, dets)}
<1>1. 0 \in S
  <2> DEFINE f == [k \in 0..0 |-> {Start}]
  <2>1. IsRun(f, 0, dets)
    BY DEF IsRun
  <2> QED  BY <2>1
<1>2. ASSUME NEW n \in Nat, n \in S PROVE n + 1 \in S
  <2>1. PICK f : IsRun(f, n, dets)
    BY <1>2
  <2> DEFINE g == [k \in 0..(n + 1) |-> IF k = n + 1 THEN Assigned(f[n], dets[n + 1]) ELSE f[k]]
             r(k) == IF k = 0 THEN {Start} ELSE Assigned(g[k - 1], dets[k])
  <2>2. \A k \in 0..n : f[k] = IF k = 0 THEN {Start} ELSE Assigned(f[k - 1], dets[k])
    BY <2>1 DEF IsRun
  <2>3. ASSUME NEW k \in 0..(n + 1) PROVE g[k] = r(k)
    <3>1. CASE k = n + 1
      <4>1. k # 0 /\ k - 1 = n /\ n \in 0..(n + 1) /\ n # n + 1
        BY <3>1
      <4>2. g[k - 1] = f[n] /\ g[k] = Assigned(f[n], dets[n + 1])
        BY <3>1, <4>1
      <4> QED  BY <3>1, <4>1, <4>2
    <3>2. CASE k # n + 1 /\ k # 0
      <4>1. k \in 0..n /\ k - 1 \in 0..(n + 1) /\ k - 1 # n + 1
        BY <2>3, <3>2
      <4>2. g[k] = f[k] /\ g[k - 1] = f[k - 1]
        BY <2>3, <3>2, <4>1
      <4> QED  BY <2>2, <3>2, <4>1, <4>2
    <3>3. CASE k = 0
      <4>1. k \in 0..n /\ k # n + 1
        BY <3>3
      <4> QED  BY <2>2, <3>3, <4>1
    <3> QED  BY <3>1, <3>2, <3>3
  <2>4. g = [k \in 0..(n + 1) |-> r(k)]
    <3>1. g = [k \in 0..(n + 1) |-> g[k]]
      OBVIOUS
    <3> HIDE DEF g
    <3>2. [k \in 0..(n + 1) |-> g[k]] = [k \in 0..(n + 1) |-> r(k)]
      BY <2>3
    <3> QED  BY <3>1, <3>2
  <2>5. IsRun(g, n + 1, dets)
    BY <2>4 DEF IsRun
  <2> QED  BY <2>5
<1> HIDE DEF S
<1>3. Nat \subseteq S
  BY <1>1, <1>2, CountUp
<1> QED  BY <1>3 DEF S

LEMMA UpdatesRun ==
    ASSUME NEW dets, Len(dets) \in Nat
    PROVE  \E f : IsRun(f, Len(dets), dets) /\ Updates(dets) = f[Len(dets)]
<1> DEFINE n == Len(dets)
           f == CHOOSE f : f = [k \in 0..n |-> IF k = 0 THEN {Start} ELSE Assigned(f[k - 1], dets[k])]
<1>1. \E h : h = [k \in 0..n |-> IF k = 0 THEN {Start} ELSE Assigned(h[k - 1], dets[k])]
  BY RunExists DEF IsRun
<1>2. f = [k \in 0..n |-> IF k = 0 THEN {Start} ELSE Assigned(f[k - 1], dets[k])]
  BY <1>1
<1>3. Updates(dets) = f[n]
  BY DEF Updates, Start, Assigned
<1> QED  BY <1>2, <1>3 DEF IsRun

DetectedBy(dets, k) == {dets[j].o : j \in 1..k}

LEMMA UpdatesFollow ==
    ASSUME NEW dets \in Seq(AllDetections), Midway(Start, {}), NEW st \in Updates(dets)
    PROVE  Midway(st, DetectedBy(dets, Len(dets)))
<1>1. Len(dets) \in Nat /\ \A k \in 1..Len(dets) : dets[k] \in AllDetections
  OBVIOUS
<1>2. PICK f : IsRun(f, Len(dets), dets) /\ Updates(dets) = f[Len(dets)]
  BY <1>1, UpdatesRun
<1>3. \A k \in 0..Len(dets) :
        f[k] = IF k = 0 THEN {Start} ELSE Assigned(f[k - 1], dets[k])
  BY <1>2 DEF IsRun
<1> DEFINE Right(k) == \A s \in f[k] : Midway(s, DetectedBy(dets, k))
           S == {k \in Nat : k <= Len(dets) => Right(k)}
<1>4. 0 \in S
  <2>1. DetectedBy(dets, 0) = {}
    BY DEF DetectedBy
  <2>2. f[0] = {Start}
    BY <1>1, <1>3
  <2> QED  BY <2>1, <2>2
<1>5. ASSUME NEW k \in Nat, k \in S PROVE k + 1 \in S
  <2> SUFFICES ASSUME k + 1 <= Len(dets), NEW s2 \in f[k + 1]
               PROVE  Midway(s2, DetectedBy(dets, k + 1))
    OBVIOUS
  <2>1. k + 1 \in 0..Len(dets) /\ k + 1 # 0 /\ (k + 1) - 1 = k /\ k + 1 \in 1..Len(dets) /\ k <= Len(dets)
    BY <1>1
  <2>2. f[k + 1] = Assigned(f[k], dets[k + 1])
    BY <1>3, <2>1
  <2>3. PICK s \in f[k] : s2 \in AssignDetection(s, dets[k + 1])
    BY <2>2 DEF Assigned
  <2>4. Midway(s, DetectedBy(dets, k))
    BY <1>5, <2>1, <2>3
  <2>5. dets[k + 1] \in AllDetections
    BY <1>1, <2>1
  <2>6. DetectedBy(dets, k + 1) = DetectedBy(dets, k) \cup {dets[k + 1].o}
    <3>1. 1..(k + 1) = 1..k \cup {k + 1}
      OBVIOUS
    <3> QED  BY <3>1 DEF DetectedBy
  <2> QED  BY <2>3, <2>4, <2>5, <2>6, OneDetection
<1> HIDE DEF S
<1>6. Nat \subseteq S
  BY <1>4, <1>5, CountUp
<1>7. Right(Len(dets))
  BY <1>1, <1>6 DEF S
<1> QED  BY <1>2, <1>7

(* The detections of a frame are those of the objects seen, and boxes of no object. *)
Seen(seen) == {[o |-> o, box |-> Px(o)] : o \in seen}
JunkBoxes(junk) == [k \in 1..junk |-> [o |-> Junk, box |-> ZeroBox]]

LEMMA OrderFacts ==
    ASSUME NEW seen \in SUBSET TrkObjects, NEW order \in SetToSeqs(Seen(seen))
    PROVE  /\ order \in Seq(Seen(seen))
           /\ \A d \in Seen(seen) : \E k \in 1..Len(order) : order[k] = d
<1> DEFINE S == Seen(seen)
           n == Cardinality(S)
           name == [d \in S |-> d.o]
<1>1. IsFiniteSet(seen)
  BY TrkFacts, FS_Subset
<1>2. name \in Injection(S, seen)
  BY DEF Injection, IsInjective, Seen
<1>3. IsFiniteSet(S)
  BY <1>1, <1>2, FS_Injection
<1>4. n \in Nat
  BY <1>3, FS_CardinalityType
<1>5. order \in [1..n -> S] /\ \A i, j \in 1..n : i # j => order[i] # order[j]
  BY DEF SetToSeqs
<1> HIDE DEF S, n
<1>6. order \in Injection(1..n, S)
  BY <1>5 DEF Injection, IsInjective
<1>7. IsFiniteSet(1..n) /\ Cardinality(1..n) = n
  BY <1>4, FS_Interval
<1>8. order \in Surjection(1..n, S)
  BY <1>3, <1>6, <1>7, FS_Injection DEF n
<1>9. order \in Seq(S) /\ Len(order) = n
  BY <1>4, <1>5
<1> QED  BY <1>8, <1>9 DEF S, Surjection

LEMMA FrameFacts ==
    ASSUME NEW seen \in SUBSET TrkObjects, NEW order \in SetToSeqs(Seen(seen)),
           NEW junk \in Nat
    PROVE  LET dets == order \o JunkBoxes(junk) IN
           /\ dets \in Seq(AllDetections)
           /\ \A o \in TrkObjects : o \in DetectedBy(dets, Len(dets)) <=> o \in seen
<1> DEFINE dets == order \o JunkBoxes(junk)
<1>1. /\ order \in Seq(Seen(seen)) /\ Len(order) \in Nat
      /\ \A d \in Seen(seen) : \E k \in 1..Len(order) : order[k] = d
  BY OrderFacts
<1>2. Seen(seen) \subseteq AllDetections
  BY DEF Seen, AllDetections
<1>3. order \in Seq(AllDetections)
  BY <1>1, <1>2
<1>4. JunkBoxes(junk) \in Seq(AllDetections) /\ Len(JunkBoxes(junk)) = junk
  BY DEF JunkBoxes, AllDetections
<1>5. /\ dets \in Seq(AllDetections) /\ Len(dets) = Len(order) + junk
      /\ \A k \in 1..Len(dets) :
            dets[k] = IF k <= Len(order) THEN order[k] ELSE JunkBoxes(junk)[k - Len(order)]
  BY <1>3, <1>4, ConcatProperties
<1>6. ASSUME NEW k \in 1..Len(dets) PROVE dets[k].o \in seen \/ dets[k].o = Junk
  <2>1. CASE k <= Len(order)
    <3>1. order[k] \in Seen(seen)
      BY <1>1, <1>6, <2>1
    <3> QED  BY <1>5, <1>6, <2>1, <3>1 DEF Seen
  <2>2. CASE ~(k <= Len(order))
    <3>1. k - Len(order) \in 1..junk
      BY <1>1, <1>5, <1>6, <2>2
    <3> QED  BY <1>5, <1>6, <2>2, <3>1 DEF JunkBoxes
  <2> QED  BY <2>1, <2>2
<1>7. ASSUME NEW o \in seen PROVE \E k \in 1..Len(dets) : dets[k].o = o
  <2>1. PICK k \in 1..Len(order) : order[k] = [o |-> o, box |-> Px(o)]
    BY <1>1 DEF Seen
  <2>2. k \in 1..Len(dets) /\ dets[k] = order[k]
    BY <1>1, <1>5
  <2> QED  BY <2>1, <2>2
<1>8. \A o \in TrkObjects : o \in DetectedBy(dets, Len(dets)) <=> o \in seen
  BY <1>6, <1>7, TrkFacts DEF DetectedBy
<1> QED  BY <1>5, <1>8

(* A track is given up after more than TrackBuffer updates without a detection; an
   object that was missed less often still has the track of its last detection. *)
Remembered ==
    \A o \in Isolated :
        shownId[o] # 0 /\ unseen[o] < TrackBuffer =>
            HasTrack(tracks, shownId[o], o) /\ tracks[shownId[o]].missed <= unseen[o] + 1

TrkInv ==
    /\ TrkTypeOK /\ Good(tracks, nextTrackId, shownId)
    /\ OneTrack(tracks, shownId) /\ Remembered

LEMMA TrkInitInv == TrkInit => TrkInv
<1> SUFFICES ASSUME TrkInit PROVE TrkInv
  OBVIOUS
<1>1. /\ DOMAIN tracks = {} /\ nextTrackId = 1 /\ 1 \in 1..(MaxTrackId + 1)
      /\ shownId = [o \in TrkObjects |-> 0] /\ unseen = [o \in TrkObjects |-> 0]
      /\ 0 \in 0..MaxTrackId /\ 0 \in 0..TrackBuffer
  BY TrkFacts DEF TrkInit
<1>2. TrkTypeOK
  BY <1>1 DEF TrkTypeOK
<1>3. Good(tracks, nextTrackId, shownId)
  BY <1>1 DEF Good
<1>4. \A o \in Isolated : shownId[o] = 0
  BY <1>1 DEF Isolated
<1> QED  BY <1>1, <1>2, <1>3, <1>4 DEF TrkInv, OneTrack, Remembered

LEMMA StartMidway == ASSUME TrkInv PROVE Midway(Start, {})
  BY DEF TrkInv, Midway, Start, Followed, HasTrack

LEMMA AgeFacts ==
    ASSUME NEW ts, \A i \in DOMAIN ts : ts[i] \in TrackType
    PROVE  /\ DOMAIN AgeTracks(ts) = {i \in DOMAIN ts : ts[i].missed < TrackBuffer}
           /\ \A i \in DOMAIN AgeTracks(ts) :
                 /\ AgeTracks(ts)[i] \in TrackType
                 /\ AgeTracks(ts)[i].box = ts[i].box
                 /\ AgeTracks(ts)[i].missed = ts[i].missed + 1
<1>1. \A i \in DOMAIN ts : ts[i].missed \in 0..TrackBuffer /\ ts[i].box \in Boxes
  BY DEF TrackType
<1>2. TrackBuffer \in Nat
  BY TrkFacts
<1>3. DOMAIN AgeTracks(ts) = {i \in DOMAIN ts : ts[i].missed + 1 <= TrackBuffer}
  BY DEF AgeTracks
<1>4. ASSUME NEW i \in DOMAIN AgeTracks(ts)
      PROVE  /\ AgeTracks(ts)[i] \in TrackType
             /\ AgeTracks(ts)[i].box = ts[i].box
             /\ AgeTracks(ts)[i].missed = ts[i].missed + 1
  <2>1. i \in DOMAIN ts /\ ts[i].missed + 1 <= TrackBuffer
    BY <1>3
  <2>2. AgeTracks(ts)[i] = [ts[i] EXCEPT !.missed = ts[i].missed + 1]
    BY <1>3 DEF AgeTracks
  <2>3. ts[i].missed + 1 \in 0..TrackBuffer
    BY <1>1, <1>2, <2>1
  <2> QED  BY <2>1, <2>2, <2>3 DEF TrackType
<1>5. \A i \in DOMAIN ts : ts[i].missed + 1 <= TrackBuffer <=> ts[i].missed < TrackBuffer
  BY <1>1, <1>2
<1> QED  BY <1>3, <1>4, <1>5

LEMMA FrameKeeps ==
    ASSUME TrkInv, NEW cam, FrameOf(cam)
    PROVE  /\ TrkInv'
           /\ \A o \in Isolated : shownId[o] # 0 /\ unseen[o] < TrackBuffer => shownId'[o] = shownId[o]
<1>1. PICK seen, junk, order, st :
        /\ seen \in SUBSET TrkObjects /\ junk \in Nat
        /\ order \in SetToSeqs(Seen(seen)) /\ st \in Updates(order \o JunkBoxes(junk))
        /\ st.next <= MaxTrackId + 1
        /\ tracks' = AgeTracks(st.ts) /\ nextTrackId' = st.next /\ shownId' = st.given
        /\ unseen' = [o \in TrkObjects |-> IF o \in seen THEN 0 ELSE MinOf(unseen[o] + 1, TrackBuffer)]
  <2>1. 0..MaxJunk \subseteq Nat
    BY TrkFacts
  <2> QED  BY <2>1 DEF FrameOf, Seen, JunkBoxes, Px
<1> DEFINE dets == order \o JunkBoxes(junk)
           done == DetectedBy(dets, Len(dets))
<1>2. dets \in Seq(AllDetections) /\ \A o \in TrkObjects : o \in done <=> o \in seen
  BY <1>1, FrameFacts
<1>3. Midway(st, done)
  BY <1>1, <1>2, StartMidway, UpdatesFollow
<1> HIDE DEF dets, done
<1>4. /\ TrkTypeOK /\ OneTrack(tracks, shownId) /\ Remembered
      /\ Good(st.ts, st.next, st.given) /\ OneTrack(st.ts, st.given)
      /\ \A o \in Isolated : Followed(st, o, done)
  BY <1>3 DEF TrkInv, Midway
<1>5. /\ st.next \in Nat \ {0} /\ DOMAIN st.ts \subseteq 1..(st.next - 1)
      /\ \A i \in DOMAIN st.ts : st.ts[i] \in TrackType
      /\ \A i \in DOMAIN st.ts : st.ts[i].missed \in 0..TrackBuffer
      /\ st.given \in [TrkObjects -> 0..(st.next - 1)]
  BY <1>4 DEF Good, TrackType
<1>6. /\ DOMAIN tracks' = {i \in DOMAIN st.ts : st.ts[i].missed < TrackBuffer}
      /\ \A i \in DOMAIN tracks' :
            tracks'[i] \in TrackType /\ tracks'[i].box = st.ts[i].box
            /\ tracks'[i].missed = st.ts[i].missed + 1
  BY <1>1, <1>5, AgeFacts
<1>7. TrackBuffer \in Nat \ {0} /\ MaxTrackId \in Nat
  BY TrkFacts
<1>8. unseen \in [TrkObjects -> 0..TrackBuffer] /\ unseen' \in [TrkObjects -> 0..TrackBuffer]
  <2>1. unseen \in [TrkObjects -> 0..TrackBuffer]
    BY <1>4 DEF TrkTypeOK
  <2>2. \A o \in TrkObjects : MinOf(unseen[o] + 1, TrackBuffer) \in 0..TrackBuffer
    BY <1>7, <2>1 DEF MinOf
  <2> QED  BY <1>1, <1>7, <2>1, <2>2
<1>9. Good(tracks', nextTrackId', shownId')
  BY <1>1, <1>5, <1>6 DEF Good
<1>10. TrkTypeOK'
  <2>1. nextTrackId' \in 1..(MaxTrackId + 1) /\ 0..(nextTrackId' - 1) \subseteq 0..MaxTrackId
    BY <1>1, <1>5, <1>7
  <2>2. \A i \in DOMAIN tracks' : tracks'[i].missed \in 1..TrackBuffer
    BY <1>5, <1>6, <1>7
  <2> QED  BY <1>8, <1>9, <2>1, <2>2 DEF TrkTypeOK, Good
<1>11. OneTrack(tracks', shownId')
  BY <1>1, <1>4, <1>6 DEF OneTrack
<1>12. ASSUME NEW o \in Isolated, shownId[o] # 0, unseen[o] < TrackBuffer
       PROVE  shownId'[o] = shownId[o]
  BY <1>1, <1>4, <1>12 DEF Remembered, Followed
<1>13. ASSUME NEW o \in Isolated, shownId'[o] # 0, unseen'[o] < TrackBuffer
       PROVE  HasTrack(tracks', shownId'[o], o) /\ tracks'[shownId'[o]].missed <= unseen'[o] + 1
  <2>1. o \in TrkObjects /\ Followed(st, o, done) /\ shownId'[o] = st.given[o]
    BY <1>1, <1>4, OwnBox
  <2>2. CASE o \in seen
    <3>1. HasTrack(st.ts, st.given[o], o) /\ st.ts[st.given[o]].missed = 0
      BY <1>2, <2>1, <2>2 DEF Followed
    <3>2. unseen'[o] = 0
      BY <1>1, <2>1, <2>2
    <3> QED  BY <1>6, <1>7, <2>1, <3>1, <3>2 DEF HasTrack
  <2>3. CASE o \notin seen
    <3>1. unseen'[o] = MinOf(unseen[o] + 1, TrackBuffer) /\ unseen[o] \in 0..TrackBuffer
      BY <1>1, <1>8, <2>1, <2>3
    <3>2. unseen'[o] = unseen[o] + 1 /\ unseen[o] < TrackBuffer
      BY <1>7, <1>13, <3>1 DEF MinOf
    <3>3. st.given[o] = shownId[o] /\ shownId[o] # 0
      BY <1>2, <1>13, <2>1, <2>3 DEF Followed
    <3>4. HasTrack(tracks, shownId[o], o) /\ tracks[shownId[o]].missed <= unseen[o] + 1
      BY <1>4, <3>2, <3>3 DEF Remembered
    <3>5. shownId[o] \in DOMAIN st.ts /\ st.ts[shownId[o]] = tracks[shownId[o]]
      BY <1>2, <2>1, <2>3, <3>4 DEF Followed
    <3>6. st.ts[shownId[o]].missed < TrackBuffer /\ st.ts[shownId[o]].box = Px(o)
      BY <1>5, <1>7, <1>13, <3>1, <3>2, <3>4, <3>5 DEF HasTrack
    <3> QED  BY <1>5, <1>6, <2>1, <3>1, <3>2, <3>3, <3>4, <3>5, <3>6 DEF HasTrack
  <2> QED  BY <2>2, <2>3
<1> QED  BY <1>9, <1>10, <1>11, <1>12, <1>13 DEF TrkInv, Remembered

LEMMA TrkStepInv == ASSUME TrkInv, [TrkNext]_trkVars PROVE TrkInv'
<1>1. CASE UNCHANGED trkVars
  <2> USE DEF trkVars
  <2>1. TrkTypeOK' /\ Good(tracks', nextTrackId', shownId') /\ OneTrack(tracks', shownId')
    BY <1>1 DEF TrkInv, TrkTypeOK
  <2>2. Remembered'
    BY <1>1 DEF TrkInv, Remembered
  <2> QED  BY <2>1, <2>2 DEF TrkInv
<1> QED  BY <1>1, FrameKeeps DEF TrkNext

(* An object no other object overlaps, on any camera, keeps its track id for as long
   as it is not missing in TrackBuffer updates one after the other, for any number of
   objects and cameras (tracker.go:46-130). *)
THEOREM IsolatedObjectsKeepTheirId == TrkSpec => []TrkTypeOK /\ IsolatedKeepsId
<1>1. TrkInv /\ [TrkNext]_trkVars =>
        [\A o \in Isolated : shownId[o] # 0 /\ unseen[o] < TrackBuffer => shownId'[o] = shownId[o]]_trkVars
  BY FrameKeeps DEF TrkNext
<1>2. TrkInv => TrkTypeOK
  BY DEF TrkInv
<1> QED  BY <1>1, <1>2, TrkInitInv, TrkStepInv, PTL DEF TrkSpec, IsolatedKeepsId

-----------------------------------------------------------------------------
(* SemanticStore. The batch of v is in a table of rows. *)
BatchIn(table, v) == \A i \in DOMAIN BatchOf[v] : table[BatchOf[v][i].task] # NoRow

(* The mutex, the open transaction and the upload in its loop are one. *)
OneTransaction ==
    /\ openTx = storeLock
    /\ \A u \in Uploads : upload[u].pc = "item" <=> storeLock = u

(* What an open transaction sees: the items it has written are there, and each row
   of another upload comes with the rest of that batch. *)
OwnRows(u) ==
    /\ \A t \in IndexTasks : upload[u].own[t] # NoRow =>
          LET v == upload[u].own[t].by IN v # u => v \in committed /\ BatchIn(upload[u].own, v)
    /\ \A i \in DOMAIN BatchOf[u] :
          i < upload[u].at => upload[u].own[BatchOf[u][i].task] # NoRow

RowsWhole ==
    \A t \in IndexTasks : rows[t] # NoRow => rows[t].by \in committed /\ BatchIn(rows, rows[t].by)

IndexInv ==
    /\ IndexTypeOK /\ OneTransaction /\ RowsWhole
    /\ \A u \in Uploads : upload[u].pc = "item" => OwnRows(u)

(* A row has an author, and none where there is no row. *)
LEMMA IndexParts ==
    /\ "nobody" \notin Uploads /\ MaxBackfills \in Nat /\ IsFiniteSet(IndexTasks)
    /\ BatchOf \in [Uploads -> Seq([task : IndexTasks, thumb : Thumbnails \cup {""}])]
  BY IndexAssumption, Zenon DEF IndexAssumption

LEMMA RowIsNoRow == \A r \in Row : r # NoRow /\ r.by \in Uploads
<1> SUFFICES ASSUME NEW r \in Row PROVE r # NoRow /\ r.by \in Uploads
  OBVIOUS
<1>1. r.by \in Uploads
  BY DEF Row
<1>2. "nobody" \notin Uploads
  BY IndexParts, Zenon
<1> QED  BY <1>1, <1>2 DEF NoRow

LEMMA RowImage == \A r \in Row \cup {NoRow} : r.image \in Thumbnails \cup {"null"}
<1>1. \A r \in Row : r.image \in Thumbnails \cup {"null"}
  BY DEF Row
<1>2. NoRow.image = "null"
  BY DEF NoRow
<1> QED  BY <1>1, <1>2, Zenon

LEMMA BatchType ==
    ASSUME NEW u \in Uploads
    PROVE  /\ BatchOf[u] \in Seq([task : IndexTasks, thumb : Thumbnails \cup {""}])
           /\ Len(BatchOf[u]) \in Nat /\ DOMAIN BatchOf[u] = 1..Len(BatchOf[u])
           /\ \A i \in DOMAIN BatchOf[u] : /\ BatchOf[u][i].task \in IndexTasks
                                           /\ BatchOf[u][i].thumb \in Thumbnails \cup {""}
<1> DEFINE Items == [task : IndexTasks, thumb : Thumbnails \cup {""}]
<1>1. BatchOf[u] \in Seq(Items)
  BY IndexParts, Zenon
<1>2. \A x \in Items : x.task \in IndexTasks /\ x.thumb \in Thumbnails \cup {""}
  OBVIOUS
<1>3. /\ Len(BatchOf[u]) \in Nat /\ DOMAIN BatchOf[u] = 1..Len(BatchOf[u])
      /\ \A i \in DOMAIN BatchOf[u] : BatchOf[u][i] \in Items
  <2> HIDE DEF Items
  <2> QED  BY <1>1, LenProperties, ElementOfSeq
<1> QED  BY <1>1, <1>2, <1>3, Zenon

LEMMA BatchLength ==
    \A u \in Uploads : Len(BatchOf[u]) \in Nat /\ DOMAIN BatchOf[u] = 1..Len(BatchOf[u])
  BY BatchType, Zenon

LEMMA ItemTyped ==
    ASSUME IndexTypeOK, NEW u \in Uploads
    PROVE  /\ upload[u] \in [pc : {"new", "item", "done", "lost"}, at : Nat,
                             own : [IndexTasks -> Row \cup {NoRow}], images : Seq(ImageJob)]
           /\ upload[u].at \in Nat /\ upload[u].at \in 1..Len(BatchOf[u]) + 1
           /\ upload[u].own \in [IndexTasks -> Row \cup {NoRow}]
           /\ upload[u].images \in Seq(ImageJob)
  BY DEF IndexTypeOK

(* A new record of one upload. *)
LEMMA UploadSet ==
    ASSUME IndexTypeOK, NEW u \in Uploads,
           NEW r \in [pc : {"new", "item", "done", "lost"}, at : Nat,
                      own : [IndexTasks -> Row \cup {NoRow}], images : Seq(ImageJob)],
           r.at \in 1..Len(BatchOf[u]) + 1, upload' = [upload EXCEPT ![u] = r]
    PROVE  /\ upload' \in [Uploads -> [pc : {"new", "item", "done", "lost"}, at : Nat,
                               own : [IndexTasks -> Row \cup {NoRow}], images : Seq(ImageJob)]]
           /\ \A v \in Uploads : upload'[v].at \in 1..Len(BatchOf[v]) + 1
           /\ \A v \in Uploads : upload'[v] = IF v = u THEN r ELSE upload[v]
  BY DEF IndexTypeOK

LEMMA FreshUpload ==
    ASSUME NEW pc \in {"new", "item", "done", "lost"}, NEW own \in [IndexTasks -> Row \cup {NoRow}]
    PROVE  [pc |-> pc, at |-> 1, own |-> own, images |-> <<>>] \in
             [pc : {"new", "item", "done", "lost"}, at : Nat,
              own : [IndexTasks -> Row \cup {NoRow}], images : Seq(ImageJob)]
  OBVIOUS

LEMMA NoRows == [t \in IndexTasks |-> NoRow] \in [IndexTasks -> Row \cup {NoRow}]
  OBVIOUS

LEMMA FirstItem == \A u \in Uploads : 1 \in 1..Len(BatchOf[u]) + 1
  BY BatchLength

LEMMA IndexInitInv == IndexInit => IndexInv
<1> SUFFICES ASSUME IndexInit PROVE IndexInv
  OBVIOUS
<1>1. upload \in [Uploads -> [pc : {"new", "item", "done", "lost"}, at : Nat,
                              own : [IndexTasks -> Row \cup {NoRow}], images : Seq(ImageJob)]]
  BY FreshUpload, NoRows DEF IndexInit, NotStarted
<1>2. \A u \in Uploads : upload[u].at = 1 /\ upload[u].pc = "new"
  BY DEF IndexInit, NotStarted
<1>3. IndexTypeOK
  <2>1. rows \in [IndexTasks -> Row \cup {NoRow}]
    BY DEF IndexInit
  <2>2. DOMAIN imageJobs = {}
    BY DEF IndexInit
  <2>3. backfills \in 0..MaxBackfills
    <3>1. MaxBackfills \in Nat
      BY IndexParts, Zenon
    <3> QED  BY <3>1 DEF IndexInit
  <2> QED  BY <1>1, <1>2, <2>1, <2>2, <2>3, FirstItem DEF IndexInit, IndexTypeOK, FirstProvider
<1>4. OneTransaction
  BY <1>2, IndexParts DEF IndexInit, OneTransaction
<1>5. RowsWhole
  BY DEF IndexInit, RowsWhole
<1> QED  BY <1>2, <1>3, <1>4, <1>5 DEF IndexInv

(* The steps of a transaction: rows and jobs of the others are left alone. *)
LEMMA BeginsInv == ASSUME IndexInv, NEW u \in Uploads, UpsertBegins(u) PROVE IndexInv'
<1> DEFINE r == [pc |-> "item", at |-> 1, own |-> rows, images |-> <<>>]
<1>1. /\ upload' = [upload EXCEPT ![u] = r]
      /\ storeLock = "nobody" /\ openTx = "nobody" /\ storeLock' = u /\ openTx' = u
      /\ UNCHANGED <<rows, imageJobs, backfills, embedUp, activeProvider, committed>>
  BY DEF UpsertBegins
<1>2. r \in [pc : {"new", "item", "done", "lost"}, at : Nat,
             own : [IndexTasks -> Row \cup {NoRow}], images : Seq(ImageJob)]
  BY FreshUpload DEF IndexInv, IndexTypeOK
<1>3. /\ upload' \in [Uploads -> [pc : {"new", "item", "done", "lost"}, at : Nat,
                         own : [IndexTasks -> Row \cup {NoRow}], images : Seq(ImageJob)]]
      /\ \A v \in Uploads : upload'[v].at \in 1..Len(BatchOf[v]) + 1
      /\ \A v \in Uploads : upload'[v] = IF v = u THEN r ELSE upload[v]
  <2> HIDE DEF r
  <2>1. r.at \in 1..Len(BatchOf[u]) + 1
    BY FirstItem DEF r
  <2> QED  BY <1>1, <1>2, <2>1, UploadSet DEF IndexInv
<1>4. IndexTypeOK'
  BY <1>1, <1>3 DEF IndexInv, IndexTypeOK
<1>5. OneTransaction'
  BY <1>1, <1>3, IndexParts DEF IndexInv, OneTransaction
<1>6. RowsWhole'
  BY <1>1 DEF IndexInv, RowsWhole, BatchIn
<1>7. ASSUME NEW v \in Uploads, upload'[v].pc = "item" PROVE OwnRows(v)'
  <2>1. v = u
    BY <1>1, <1>3, <1>7, IndexParts DEF IndexInv, OneTransaction
  <2>2. upload'[u].own = rows /\ upload'[u].at = 1
    BY <1>3
  <2>3. \A i \in DOMAIN BatchOf[u] : ~(i < 1)
    BY BatchLength
  <2> QED  BY <1>1, <2>1, <2>2, <2>3 DEF IndexInv, RowsWhole, OwnRows, BatchIn
<1> QED  BY <1>4, <1>5, <1>6, <1>7 DEF IndexInv

LEMMA ItemInv == ASSUME IndexInv, NEW u \in Uploads, UpsertItem(u) PROVE IndexInv'
<1> DEFINE item == BatchOf[u][upload[u].at]
           old == upload[u].own
           row == [thumb |-> item.thumb, text |-> FirstProvider(embedUp),
                   image |-> old[item.task].image, by |-> u]
           new == [old EXCEPT ![item.task] = row]
           images == WithThumbnail(u)
           r == [pc |-> "item", at |-> upload[u].at + 1, own |-> new, images |-> images]
<1>1. /\ upload' = [upload EXCEPT ![u] = r] /\ upload[u].pc = "item"
      /\ upload[u].at <= Len(BatchOf[u])
      /\ activeProvider' = FirstProvider(embedUp)
      /\ UNCHANGED <<rows, storeLock, openTx, imageJobs, backfills, embedUp, committed>>
  BY DEF UpsertItem, Upserted, IndexInv, IndexTypeOK
<1>2. /\ upload[u].at \in DOMAIN BatchOf[u]
      /\ item.task \in IndexTasks /\ item.thumb \in Thumbnails \cup {""}
  <2>1. upload[u].at \in DOMAIN BatchOf[u]
    BY <1>1, ItemTyped, BatchLength DEF IndexInv
  <2> QED  BY <2>1, BatchType, Zenon
<1>3. old \in [IndexTasks -> Row \cup {NoRow}]
  BY ItemTyped DEF IndexInv
<1>4. row \in Row
  <2>1. old[item.task].image \in Thumbnails \cup {"null"}
    BY <1>2, <1>3, RowImage
  <2> QED  BY <1>2, <2>1 DEF Row, FirstProvider
<1>5. new \in [IndexTasks -> Row \cup {NoRow}]
      /\ \A t \in IndexTasks : new[t] = IF t = item.task THEN row ELSE old[t]
  <2> HIDE DEF item, old, row
  <2> QED  BY <1>2, <1>3, <1>4
<1>6. images \in Seq(ImageJob)
  <2>1. upload[u].images \in Seq(ImageJob)
    BY ItemTyped DEF IndexInv
  <2>2. CASE item.thumb # ""
    <3>1. [task |-> item.task, thumb |-> item.thumb, emb |-> FALSE] \in ImageJob
      BY <1>2, <2>2 DEF ImageJob
    <3>2. images = Append(upload[u].images, [task |-> item.task, thumb |-> item.thumb, emb |-> FALSE])
      BY <2>2 DEF WithThumbnail
    <3> QED  BY <2>1, <3>1, <3>2, AppendProperties
  <2> QED  BY <2>1, <2>2 DEF WithThumbnail
<1>7. /\ upload' \in [Uploads -> [pc : {"new", "item", "done", "lost"}, at : Nat,
                         own : [IndexTasks -> Row \cup {NoRow}], images : Seq(ImageJob)]]
      /\ \A v \in Uploads : upload'[v].at \in 1..Len(BatchOf[v]) + 1
      /\ \A v \in Uploads : upload'[v] = IF v = u THEN r ELSE upload[v]
  <2>1. upload[u].at + 1 \in Nat /\ upload[u].at + 1 \in 1..Len(BatchOf[u]) + 1
    BY <1>1, ItemTyped, BatchLength DEF IndexInv
  <2> HIDE DEF new, images
  <2>2. r \in [pc : {"new", "item", "done", "lost"}, at : Nat,
               own : [IndexTasks -> Row \cup {NoRow}], images : Seq(ImageJob)]
    BY <1>5, <1>6, <2>1
  <2>3. r.at \in 1..Len(BatchOf[u]) + 1
    BY <2>1
  <2> HIDE DEF r
  <2> QED  BY <1>1, <2>2, <2>3, UploadSet DEF IndexInv
<1>8. IndexTypeOK'
  BY <1>1, <1>7 DEF IndexInv, IndexTypeOK, FirstProvider
<1>9. OneTransaction'
  BY <1>1, <1>7 DEF IndexInv, OneTransaction
<1>10. RowsWhole'
  BY <1>1 DEF IndexInv, RowsWhole, BatchIn
<1>11. ASSUME NEW v \in Uploads, upload'[v].pc = "item" PROVE OwnRows(v)'
  <2>1. v = u
    BY <1>1, <1>7, <1>11 DEF IndexInv, OneTransaction
  <2>2. upload'[u].own = new /\ upload'[u].at = upload[u].at + 1
    BY <1>7
  <2>3. row # NoRow
    BY <1>4, RowIsNoRow
  <2>4. OwnRows(u)
    BY <1>1 DEF IndexInv
  <2>5. \A t \in IndexTasks : old[t] # NoRow => new[t] # NoRow
    <3> HIDE DEF item, old, row, new
    <3> QED  BY <1>5, <2>3
  <2>6. ASSUME NEW w \in Uploads, BatchIn(old, w) PROVE BatchIn(new, w)
    BY <2>5, <2>6, BatchType DEF BatchIn
  <2>7. ASSUME NEW t \in IndexTasks, new[t] # NoRow, new[t].by # u
        PROVE  new[t].by \in committed /\ BatchIn(new, new[t].by)
    <3>1. new[t] = old[t]
      BY <1>5, <2>7
    <3>2. old[t].by \in Uploads
      BY <1>3, <2>7, <3>1, RowIsNoRow
    <3>3. old[t].by \in committed /\ BatchIn(old, old[t].by)
      BY <2>4, <2>7, <3>1 DEF OwnRows
    <3> QED  BY <2>6, <3>1, <3>2, <3>3
  <2>8. ASSUME NEW i \in DOMAIN BatchOf[u], i < upload[u].at + 1
        PROVE  new[BatchOf[u][i].task] # NoRow
    <3>1. CASE i = upload[u].at
      BY <1>2, <1>5, <2>3, <3>1
    <3>2. CASE i < upload[u].at
      BY <2>4, <2>5, <3>2, BatchType DEF OwnRows
    <3> QED  BY <2>8, <3>1, <3>2, ItemTyped, BatchLength DEF IndexInv
  <2> HIDE DEF new
  <2> QED  BY <1>1, <2>1, <2>2, <2>7, <2>8 DEF OwnRows
<1> QED  BY <1>8, <1>9, <1>10, <1>11 DEF IndexInv

(* An upload that is over has a record of its own again. *)
LEMMA Lost ==
    ASSUME NEW pc \in {"done", "lost"}
    PROVE  /\ [NotStarted EXCEPT !.pc = pc] \in
                [pc : {"new", "item", "done", "lost"}, at : Nat,
                 own : [IndexTasks -> Row \cup {NoRow}], images : Seq(ImageJob)]
           /\ [NotStarted EXCEPT !.pc = pc].pc = pc /\ [NotStarted EXCEPT !.pc = pc].at = 1
<1>1. [NotStarted EXCEPT !.pc = pc] =
        [pc |-> pc, at |-> 1, own |-> [t \in IndexTasks |-> NoRow], images |-> <<>>]
  BY DEF NotStarted
<1> DEFINE r == [pc |-> pc, at |-> 1, own |-> [t \in IndexTasks |-> NoRow], images |-> <<>>]
<1>2. r \in [pc : {"new", "item", "done", "lost"}, at : Nat,
             own : [IndexTasks -> Row \cup {NoRow}], images : Seq(ImageJob)]
  BY FreshUpload, NoRows
<1>3. r.pc = pc /\ r.at = 1
  OBVIOUS
<1> HIDE DEF r
<1> QED  BY <1>1, <1>2, <1>3, Zenon DEF r

(* The transaction is over, and no upload has one any more. *)
LEMMA TransactionEnds ==
    ASSUME IndexInv, NEW u \in Uploads, NEW pc \in {"done", "lost"}, upload[u].pc = "item",
           upload' = [upload EXCEPT ![u] = [NotStarted EXCEPT !.pc = pc]],
           storeLock' = "nobody", openTx' = "nobody"
    PROVE  /\ upload' \in [Uploads -> [pc : {"new", "item", "done", "lost"}, at : Nat,
                               own : [IndexTasks -> Row \cup {NoRow}], images : Seq(ImageJob)]]
           /\ \A v \in Uploads : upload'[v].at \in 1..Len(BatchOf[v]) + 1
           /\ \A v \in Uploads : upload'[v].pc # "item"
           /\ OneTransaction'
<1> DEFINE r == [NotStarted EXCEPT !.pc = pc]
<1>1. r.at \in 1..Len(BatchOf[u]) + 1 /\ r.pc # "item"
  BY Lost, FirstItem
<1>2. /\ upload' \in [Uploads -> [pc : {"new", "item", "done", "lost"}, at : Nat,
                         own : [IndexTasks -> Row \cup {NoRow}], images : Seq(ImageJob)]]
      /\ \A v \in Uploads : upload'[v].at \in 1..Len(BatchOf[v]) + 1
      /\ \A v \in Uploads : upload'[v] = IF v = u THEN r ELSE upload[v]
  <2>1. r \in [pc : {"new", "item", "done", "lost"}, at : Nat,
               own : [IndexTasks -> Row \cup {NoRow}], images : Seq(ImageJob)]
    BY Lost
  <2> HIDE DEF r
  <2> QED  BY <1>1, <2>1, UploadSet DEF r, IndexInv
<1>3. \A v \in Uploads : upload'[v].pc # "item"
  <2> HIDE DEF r
  <2> QED  BY <1>1, <1>2 DEF IndexInv, OneTransaction
<1> QED  BY <1>2, <1>3, IndexParts DEF OneTransaction

LEMMA FailsInv == ASSUME IndexInv, NEW u \in Uploads, UpsertFails(u) PROVE IndexInv'
<1>1. /\ upload' = [upload EXCEPT ![u] = [NotStarted EXCEPT !.pc = "lost"]]
      /\ upload[u].pc = "item" /\ storeLock' = "nobody" /\ openTx' = "nobody"
      /\ UNCHANGED <<rows, imageJobs, backfills, embedUp, activeProvider, committed>>
  BY DEF UpsertFails, RolledBack
<1>2. /\ upload' \in [Uploads -> [pc : {"new", "item", "done", "lost"}, at : Nat,
                         own : [IndexTasks -> Row \cup {NoRow}], images : Seq(ImageJob)]]
      /\ \A v \in Uploads : upload'[v].at \in 1..Len(BatchOf[v]) + 1
      /\ \A v \in Uploads : upload'[v].pc # "item"
      /\ OneTransaction'
  BY <1>1, TransactionEnds
<1>3. IndexTypeOK'
  BY <1>1, <1>2 DEF IndexInv, IndexTypeOK
<1>4. RowsWhole'
  BY <1>1 DEF IndexInv, RowsWhole, BatchIn
<1> QED  BY <1>2, <1>3, <1>4 DEF IndexInv

(* Jobs of the goroutines that embed images. *)
JobsTyped(jobs) == /\ DOMAIN jobs \subseteq Uploads \cup {"backfill"}
                   /\ \A g \in DOMAIN jobs : jobs[g] \in Seq(ImageJob) \ {<<>>}

LEMMA WithTyped ==
    ASSUME NEW jobs, JobsTyped(jobs), NEW g \in Uploads \cup {"backfill"},
           NEW s \in Seq(ImageJob) \ {<<>>}
    PROVE  JobsTyped(With(jobs, g, s))
<1> DEFINE S == Seq(ImageJob) \ {<<>>}
<1>1. With(jobs, g, s) = [x \in DOMAIN jobs \cup {g} |-> IF x = g THEN s ELSE jobs[x]]
  BY DEF With
<1>2. \A x \in DOMAIN jobs : jobs[x] \in S
  BY DEF JobsTyped
<1>3. s \in S
  OBVIOUS
<1>4. DOMAIN jobs \subseteq Uploads \cup {"backfill"}
  BY DEF JobsTyped
<1>5. \A x \in DOMAIN With(jobs, g, s) : With(jobs, g, s)[x] \in S
  <2> HIDE DEF S
  <2> QED  BY <1>1, <1>2, <1>3
<1> QED  BY <1>1, <1>4, <1>5 DEF JobsTyped

LEMMA WithoutTyped ==
    ASSUME NEW jobs, JobsTyped(jobs), NEW g PROVE JobsTyped(Without(jobs, g))
  BY DEF JobsTyped, Without

LEMMA ExceptTyped ==
    ASSUME NEW jobs, JobsTyped(jobs), NEW g \in DOMAIN jobs, NEW s \in Seq(ImageJob) \ {<<>>}
    PROVE  JobsTyped([jobs EXCEPT ![g] = s])
<1> DEFINE S == Seq(ImageJob) \ {<<>>}
<1>2. \A x \in DOMAIN jobs : jobs[x] \in S
  BY DEF JobsTyped
<1>3. s \in S
  OBVIOUS
<1>4. DOMAIN jobs \subseteq Uploads \cup {"backfill"}
  BY DEF JobsTyped
<1>5. DOMAIN [jobs EXCEPT ![g] = s] = DOMAIN jobs
  OBVIOUS
<1>6. \A x \in DOMAIN jobs : [jobs EXCEPT ![g] = s][x] \in S
  <2> HIDE DEF S
  <2> QED  BY <1>2, <1>3
<1> QED  BY <1>4, <1>5, <1>6 DEF JobsTyped

LEMMA CommitsInv == ASSUME IndexInv, NEW u \in Uploads, UpsertCommits(u) PROVE IndexInv'
<1>1. /\ upload[u].pc = "item" /\ upload[u].at = Len(BatchOf[u]) + 1
      /\ storeLock' = "nobody" /\ openTx' = "nobody"
      /\ UNCHANGED <<backfills, embedUp, activeProvider>>
  BY DEF UpsertCommits
<1>2. PICK pc \in {"done", "lost"} : upload' = [upload EXCEPT ![u] = [NotStarted EXCEPT !.pc = pc]]
  BY DEF UpsertCommits
<1>3. /\ upload' \in [Uploads -> [pc : {"new", "item", "done", "lost"}, at : Nat,
                         own : [IndexTasks -> Row \cup {NoRow}], images : Seq(ImageJob)]]
      /\ \A v \in Uploads : upload'[v].at \in 1..Len(BatchOf[v]) + 1
      /\ \A v \in Uploads : upload'[v].pc # "item"
      /\ OneTransaction'
  BY <1>1, <1>2, TransactionEnds
<1>4. CASE UNCHANGED <<rows, committed, imageJobs>>
  <2>1. IndexTypeOK'
    BY <1>1, <1>3, <1>4 DEF IndexInv, IndexTypeOK
  <2>2. RowsWhole'
    BY <1>4 DEF IndexInv, RowsWhole, BatchIn
  <2> QED  BY <1>3, <2>1, <2>2 DEF IndexInv
<1>5. CASE /\ rows' = upload[u].own /\ committed' = committed \cup {u}
           /\ imageJobs' = IF upload[u].images = <<>> THEN imageJobs
                                                      ELSE With(imageJobs, u, upload[u].images)
  <2>1. JobsTyped(imageJobs)
    BY DEF IndexInv, IndexTypeOK, JobsTyped
  <2>2. JobsTyped(imageJobs)'
    <3>1. upload[u].images \in Seq(ImageJob)
      BY ItemTyped DEF IndexInv
    <3>2. CASE upload[u].images = <<>>
      BY <1>5, <2>1, <3>2 DEF JobsTyped
    <3>3. CASE upload[u].images # <<>>
      <4>1. imageJobs' = With(imageJobs, u, upload[u].images)
        BY <1>5, <3>3
      <4> QED  BY <2>1, <3>1, <3>3, <4>1, WithTyped
    <3> QED  BY <3>2, <3>3
  <2>3. rows' \in [IndexTasks -> Row \cup {NoRow}] /\ committed' \subseteq Uploads
    BY <1>5, ItemTyped DEF IndexInv, IndexTypeOK
  <2>4. IndexTypeOK'
    BY <1>1, <1>3, <2>2, <2>3 DEF IndexInv, IndexTypeOK, JobsTyped
  <2>5. OwnRows(u)
    BY <1>1 DEF IndexInv
  <2>6. BatchIn(upload[u].own, u)
    <3>1. \A i \in DOMAIN BatchOf[u] : i < upload[u].at
      BY <1>1, BatchLength
    <3> QED  BY <2>5, <3>1 DEF OwnRows, BatchIn
  <2>7. RowsWhole'
    <3>1. ASSUME NEW t \in IndexTasks, upload[u].own[t] # NoRow
          PROVE  /\ upload[u].own[t].by \in committed \cup {u}
                 /\ BatchIn(upload[u].own, upload[u].own[t].by)
      BY <2>5, <2>6, <3>1 DEF OwnRows
    <3> QED  BY <1>5, <3>1 DEF RowsWhole, BatchIn
  <2> QED  BY <1>3, <2>4, <2>7 DEF IndexInv
<1> QED  BY <1>4, <1>5 DEF UpsertCommits

(* Only the image of a row is new: no row comes, goes or gets another author. *)
ImageSet == \E t \in IndexTasks, thumb \in Thumbnails :
               rows[t] # NoRow /\ rows' = [rows EXCEPT ![t].image = thumb]

LEMMA ImageSetKeeps ==
    ASSUME IndexInv, ImageSet
    PROVE  /\ rows' \in [IndexTasks -> Row \cup {NoRow}]
           /\ \A t \in IndexTasks : /\ rows'[t] = NoRow <=> rows[t] = NoRow
                                    /\ rows[t] # NoRow => rows'[t].by = rows[t].by
<1>1. PICK t \in IndexTasks, thumb \in Thumbnails :
          rows[t] # NoRow /\ rows' = [rows EXCEPT ![t].image = thumb]
  BY DEF ImageSet
<1> DEFINE r == [rows[t] EXCEPT !.image = thumb]
<1>2. rows \in [IndexTasks -> Row \cup {NoRow}]
  BY DEF IndexInv, IndexTypeOK
<1>3. r \in Row /\ r.by = rows[t].by
  <2>1. rows[t] \in Row
    BY <1>1, <1>2
  <2> QED  BY <2>1 DEF Row
<1>4. rows' = [rows EXCEPT ![t] = r]
  BY <1>1
<1>5. r # NoRow
  BY <1>3, RowIsNoRow
<1> HIDE DEF r
<1> QED  BY <1>1, <1>2, <1>3, <1>4, <1>5

LEMMA ImageSetWhole ==
    ASSUME IndexInv, ImageSet, committed' = committed
    PROVE  RowsWhole'
<1>1. \A t \in IndexTasks : /\ rows'[t] = NoRow <=> rows[t] = NoRow
                            /\ rows[t] # NoRow => rows'[t].by = rows[t].by
  BY ImageSetKeeps
<1>2. ASSUME NEW v \in Uploads, BatchIn(rows, v) PROVE BatchIn(rows', v)
  BY <1>1, <1>2, BatchType DEF BatchIn
<1>3. ASSUME NEW t \in IndexTasks, rows'[t] # NoRow
      PROVE  rows'[t].by \in committed /\ BatchIn(rows', rows'[t].by)
  <2>1. rows[t] # NoRow /\ rows'[t].by = rows[t].by
    BY <1>1, <1>3
  <2>2. rows[t].by \in committed /\ BatchIn(rows, rows[t].by)
    BY <2>1 DEF IndexInv, RowsWhole
  <2>3. rows[t].by \in Uploads
    BY <2>2 DEF IndexInv, IndexTypeOK
  <2> QED  BY <1>2, <2>1, <2>2, <2>3
<1> QED  BY <1>3 DEF RowsWhole, BatchIn

(* A step of the goroutines, of a search or of a backfill: it needs the mutex to
   touch a row, and has no transaction. *)
LEMMA IndexStepKeeps ==
    ASSUME IndexInv, UNCHANGED <<upload, storeLock, openTx, committed, activeProvider>>,
           embedUp' \in BOOLEAN, JobsTyped(imageJobs)', backfills' \in 0..MaxBackfills,
           rows' = rows \/ (ImageSet /\ storeLock = "nobody")
    PROVE  IndexInv'
<1>1. rows' \in [IndexTasks -> Row \cup {NoRow}]
  BY ImageSetKeeps DEF IndexInv, IndexTypeOK
<1>2. IndexTypeOK'
  BY <1>1 DEF IndexInv, IndexTypeOK, JobsTyped
<1>3. RowsWhole'
  <2>1. CASE rows' = rows
    BY <2>1 DEF IndexInv, RowsWhole, BatchIn
  <2> QED  BY <2>1, ImageSetWhole
<1>4. OneTransaction'
  BY DEF IndexInv, OneTransaction
<1>5. \A u \in Uploads : upload'[u].pc = "item" => OwnRows(u)'
  BY DEF IndexInv, OwnRows, BatchIn
<1> QED  BY <1>2, <1>3, <1>4, <1>5 DEF IndexInv

LEMMA JobTyped ==
    ASSUME IndexInv, NEW g \in DOMAIN imageJobs
    PROVE  /\ Head(imageJobs[g]) \in ImageJob
           /\ Tail(imageJobs[g]) \in Seq(ImageJob)
           /\ Len(imageJobs[g]) # 1 => Tail(imageJobs[g]) # <<>>
<1>1. imageJobs[g] \in Seq(ImageJob) /\ imageJobs[g] # <<>>
  BY DEF IndexInv, IndexTypeOK
<1>2. /\ Head(imageJobs[g]) \in ImageJob /\ Tail(imageJobs[g]) \in Seq(ImageJob)
      /\ Len(Tail(imageJobs[g])) = Len(imageJobs[g]) - 1 /\ Len(imageJobs[g]) \in Nat
  BY <1>1, HeadTailProperties, LenProperties
<1>3. Len(<<>>) = 0
  OBVIOUS
<1>4. Len(imageJobs[g]) # 1 => Len(Tail(imageJobs[g])) # 0
  BY <1>2
<1> QED  BY <1>2, <1>3, <1>4, Zenon

LEMMA EmbedsInv == ASSUME IndexInv, NEW g \in DOMAIN imageJobs, ImageEmbeds(g) PROVE IndexInv'
<1> DEFINE first == [Head(imageJobs[g]) EXCEPT !.emb = TRUE]
           rest == Tail(imageJobs[g])
<1>1. JobsTyped(imageJobs)
  BY DEF IndexInv, IndexTypeOK, JobsTyped
<1>2. first \in ImageJob
  BY JobTyped DEF ImageJob
<1>3. <<first>> \o rest \in Seq(ImageJob) \ {<<>>}
  <2> HIDE DEF first
  <2>1. <<first>> \in Seq(ImageJob) /\ <<first>> # <<>>
    BY <1>2
  <2>2. rest \in Seq(ImageJob)
    BY JobTyped
  <2> HIDE DEF rest
  <2> QED  BY <2>1, <2>2, ConcatProperties, ConcatSimplifications
<1>4. JobsTyped(imageJobs)'
  <2>1. CASE embedUp
    <3>1. imageJobs' = [imageJobs EXCEPT ![g] = <<first>> \o rest]
      BY <2>1 DEF ImageEmbeds
    <3> HIDE DEF first, rest
    <3> QED  BY <1>1, <1>3, <3>1, ExceptTyped
  <2>2. CASE ~embedUp /\ Len(imageJobs[g]) = 1
    <3>1. imageJobs' = Without(imageJobs, g)
      BY <2>2 DEF ImageEmbeds
    <3> QED  BY <1>1, <3>1, WithoutTyped
  <2>3. CASE ~embedUp /\ Len(imageJobs[g]) # 1
    <3>1. imageJobs' = [imageJobs EXCEPT ![g] = rest]
      BY <2>3 DEF ImageEmbeds
    <3>2. rest \in Seq(ImageJob) \ {<<>>}
      BY <2>3, JobTyped
    <3> HIDE DEF rest
    <3> QED  BY <1>1, <3>1, <3>2, ExceptTyped
  <2> QED  BY <2>1, <2>2, <2>3
<1>5. /\ UNCHANGED <<rows, upload, storeLock, openTx, committed, activeProvider>>
      /\ embedUp' \in BOOLEAN /\ backfills' \in 0..MaxBackfills
  BY DEF ImageEmbeds, IndexInv, IndexTypeOK
<1> QED  BY <1>4, <1>5, IndexStepKeeps

LEMMA StoredInv == ASSUME IndexInv, NEW g \in DOMAIN imageJobs, ImageStored(g) PROVE IndexInv'
<1> DEFINE job == Head(imageJobs[g])
<1>1. JobsTyped(imageJobs)
  BY DEF IndexInv, IndexTypeOK, JobsTyped
<1>2. job.task \in IndexTasks /\ job.thumb \in Thumbnails
  BY JobTyped DEF ImageJob
<1>3. rows' = rows \/ (ImageSet /\ storeLock = "nobody")
  BY <1>2 DEF ImageStored, ImageSet
<1>4. JobsTyped(imageJobs)'
  <2>1. CASE Len(imageJobs[g]) = 1
    <3>1. imageJobs' = Without(imageJobs, g)
      BY <2>1 DEF ImageStored
    <3> QED  BY <1>1, <3>1, WithoutTyped
  <2>2. CASE Len(imageJobs[g]) # 1
    <3>1. imageJobs' = [imageJobs EXCEPT ![g] = Tail(imageJobs[g])]
      BY <2>2 DEF ImageStored
    <3>2. Tail(imageJobs[g]) \in Seq(ImageJob) \ {<<>>}
      BY <2>2, JobTyped
    <3> QED  BY <1>1, <3>1, <3>2, ExceptTyped
  <2> QED  BY <2>1, <2>2
<1>5. /\ UNCHANGED <<upload, storeLock, openTx, committed, activeProvider>>
      /\ embedUp' \in BOOLEAN /\ backfills' \in 0..MaxBackfills
  BY DEF ImageStored, IndexInv, IndexTypeOK
<1> QED  BY <1>3, <1>4, <1>5, IndexStepKeeps

LEMMA BackfillInv == ASSUME IndexInv, BackfillBegins PROVE IndexInv'
<1>1. JobsTyped(imageJobs)
  BY DEF IndexInv, IndexTypeOK, JobsTyped
<1>2. Missing \subseteq IndexTasks /\ \A t \in Missing : rows[t].thumb \in Thumbnails
  <2>1. ASSUME NEW t \in Missing PROVE rows[t].thumb \in Thumbnails
    <3>1. rows[t] \in Row /\ rows[t].thumb # ""
      BY <2>1 DEF Missing, IndexInv, IndexTypeOK
    <3> QED  BY <3>1 DEF Row
  <2> QED  BY <2>1 DEF Missing
<1>3. Cardinality(Missing) \in Nat /\ Cardinality(Missing) # 0
  <2>1. IsFiniteSet(Missing) /\ Missing # {}
    BY <1>2, IndexParts, FS_Subset DEF BackfillBegins
  <2> QED  BY <2>1, FS_CardinalityType, FS_EmptySet
<1>4. PICK order \in Orders(Missing) :
         imageJobs' = With(imageJobs, "backfill",
                           [i \in DOMAIN order |-> [task |-> order[i],
                                                    thumb |-> rows[order[i]].thumb, emb |-> FALSE]])
  BY DEF BackfillBegins
<1> DEFINE n == Cardinality(Missing)
           jobs == [i \in DOMAIN order |-> [task |-> order[i],
                                            thumb |-> rows[order[i]].thumb, emb |-> FALSE]]
<1>5. DOMAIN order = 1..n /\ \A i \in 1..n : order[i] \in Missing
  BY DEF Orders
<1>6. \A i \in 1..n : [task |-> order[i], thumb |-> rows[order[i]].thumb, emb |-> FALSE] \in ImageJob
  BY <1>2, <1>5 DEF ImageJob
<1>7. jobs \in [1..n -> ImageJob]
  BY <1>5, <1>6
<1>8. jobs \in Seq(ImageJob) \ {<<>>}
  <2> HIDE DEF jobs
  <2>1. jobs \in Seq(ImageJob) /\ DOMAIN jobs = 1..n /\ 1 \in 1..n
    BY <1>3, <1>7, SeqDef
  <2>2. DOMAIN <<>> = {}
    OBVIOUS
  <2> QED  BY <2>1, <2>2, Zenon
<1>9. JobsTyped(imageJobs)'
  <2> HIDE DEF jobs
  <2> QED  BY <1>1, <1>4, <1>8, WithTyped DEF jobs
<1>10. /\ UNCHANGED <<rows, upload, storeLock, openTx, committed, activeProvider>>
       /\ embedUp' \in BOOLEAN /\ backfills' \in 0..MaxBackfills
  <2>1. MaxBackfills \in Nat
    BY IndexParts, Zenon
  <2> QED  BY <2>1 DEF BackfillBegins, IndexInv, IndexTypeOK
<1> QED  BY <1>9, <1>10, IndexStepKeeps

LEMMA CrashInv == ASSUME IndexInv, IndexCrash PROVE IndexInv'
<1> DEFINE r == [NotStarted EXCEPT !.pc = "lost"]
           U == [pc : {"new", "item", "done", "lost"}, at : Nat,
                 own : [IndexTasks -> Row \cup {NoRow}], images : Seq(ImageJob)]
<1>1. /\ upload' = [u \in Uploads |-> IF upload[u].pc = "item" THEN r ELSE upload[u]]
      /\ storeLock' = "nobody" /\ openTx' = "nobody" /\ imageJobs' = <<>>
      /\ activeProvider' = FirstProvider(embedUp)
      /\ UNCHANGED <<rows, backfills, embedUp, committed>>
  BY DEF IndexCrash
<1>2. r \in U /\ r.pc # "item" /\ r.at = 1
  BY Lost
<1>3. upload' \in [Uploads -> U]
  <2>1. \A u \in Uploads : upload[u] \in U
    BY ItemTyped DEF IndexInv
  <2> HIDE DEF U, r
  <2> QED  BY <1>1, <1>2, <2>1
<1>4. \A u \in Uploads : /\ upload'[u].at \in 1..Len(BatchOf[u]) + 1
                         /\ upload'[u].pc # "item"
  <2> HIDE DEF r
  <2> QED  BY <1>1, <1>2, FirstItem, ItemTyped DEF IndexInv
<1>5. DOMAIN imageJobs' = {}
  BY <1>1
<1>6. IndexTypeOK'
  <2> HIDE DEF r
  <2> QED  BY <1>1, <1>3, <1>4, <1>5 DEF IndexInv, IndexTypeOK, FirstProvider
<1>7. OneTransaction'
  BY <1>1, <1>4, IndexParts DEF OneTransaction
<1>8. RowsWhole'
  BY <1>1 DEF IndexInv, RowsWhole, BatchIn
<1> QED  BY <1>4, <1>6, <1>7, <1>8 DEF IndexInv

LEMMA IndexStepInv == IndexInv /\ [IndexNext]_indexVars => IndexInv'
<1>1. ASSUME IndexInv,
             EmbedFlips \/ UNCHANGED indexVars
             \/ \E t \in IndexTasks, thumb \in Thumbnails : SearchByImage(t, thumb)
      PROVE  IndexInv'
  <2>1. JobsTyped(imageJobs)' /\ backfills' \in 0..MaxBackfills /\ embedUp' \in BOOLEAN
    BY <1>1 DEF IndexInv, IndexTypeOK, JobsTyped, EmbedFlips, SearchByImage, indexVars
  <2>2. /\ UNCHANGED <<upload, storeLock, openTx, committed, activeProvider>>
        /\ rows' = rows \/ (ImageSet /\ storeLock = "nobody")
    BY <1>1 DEF EmbedFlips, SearchByImage, indexVars, ImageSet
  <2> QED  BY <1>1, <2>1, <2>2, IndexStepKeeps
<1> QED  BY <1>1, BeginsInv, ItemInv, FailsInv, CommitsInv, EmbedsInv, StoredInv, BackfillInv,
            CrashInv DEF IndexNext

LEMMA IndexInvSafe == IndexInv => BatchesAreWhole
  BY DEF IndexInv, RowsWhole, BatchIn, OneTransaction, BatchesAreWhole

(* For any batches, in whatever order the uploads, the goroutines that embed images,
   backfills, searches and crashes come: a batch is in the index as a whole or not at
   all, and no transaction is left open (store.go:127-215). *)
THEOREM UploadsAreAtomic == IndexSpec => []BatchesAreWhole
  BY IndexInitInv, IndexStepInv, IndexInvSafe, PTL DEF IndexSpec

-----------------------------------------------------------------------------
(* WebUi. *)
LEMMA WebUiInitTyped == WebUiInit => WebUiTypeOK
  BY DEF WebUiInit, WebUiTypeOK, WebSteps, Children

LEMMA WebUiStepTyped == ASSUME WebUiTypeOK, [WebUiNext]_webUiVars PROVE WebUiTypeOK'
<1> USE DEF WebUiTypeOK, WebSteps, Children, procVars, relayVars
<1>1. CASE WebMain
  <2>1. CASE StartRtspServer \/ StartGo2rtc
    <3>1. /\ UNCHANGED <<sigChan, sigTaker, webServer, webIndex, relayVars>>
          /\ webMain' \in {"go2rtc", "owl"}
      BY <2>1 DEF StartRtspServer, StartGo2rtc, StartChild
    <3>2. \/ UNCHANGED procVars
          \/ \E c \in Children : /\ webChild' = [webChild EXCEPT ![c] = "running"]
                                 /\ processes' = processes \cup {c}
      BY <2>1 DEF StartRtspServer, StartGo2rtc, StartChild
    <3>3. webChild' \in [Children -> {"none", "running", "ended"}] /\ processes' \subseteq Children
      BY <3>2
    <3> QED  BY <3>1, <3>3
  <2>3. CASE ProbeOwl
    BY <2>3 DEF ProbeOwl
  <2>4. CASE SetUpYolo
    BY <2>4 DEF SetUpYolo
  <2>5. CASE OpenIndex
    BY <2>5 DEF OpenIndex
  <2>6. CASE Serve
    BY <2>6 DEF Serve
  <2>7. CASE StopsWaiting
    BY <2>7 DEF StopsWaiting
  <2>8. CASE KillChildren
    BY <2>8 DEF KillChildren
  <2> QED  BY <1>1, <2>1, <2>3, <2>4, <2>5, <2>6, <2>7, <2>8 DEF WebMain
<1>2. CASE UserInterrupts \/ ServerFails \/ ManagerSelects \/ ManagerTakesSignal
  <2>1. CASE UserInterrupts
    BY <2>1 DEF UserInterrupts
  <2>2. CASE ServerFails
    BY <2>2 DEF ServerFails
  <2>3. CASE ManagerSelects
    BY <2>3 DEF ManagerSelects
  <2>4. CASE ManagerTakesSignal
    BY <2>4 DEF ManagerTakesSignal
  <2> QED  BY <1>2, <2>1, <2>2, <2>3, <2>4
<1>3. ASSUME NEW c \in Children, WebChildExits(c) PROVE WebUiTypeOK'
  BY <1>3 DEF WebChildExits
<1>4. CASE RelayStarts \/ BrowserLeaves \/ Go2rtcBreaks \/ LoopEnds \/ BackEnds \/ RelayReturns
  <2> USE DEF RelayFrame
  <2>1. CASE RelayStarts
    BY <2>1 DEF RelayStarts
  <2>2. CASE BrowserLeaves
    BY <2>2 DEF BrowserLeaves
  <2>5. CASE Go2rtcBreaks
    BY <2>5 DEF Go2rtcBreaks
  <2>3. CASE LoopEnds
    BY <2>3 DEF LoopEnds
  <2>6. CASE BackEnds
    BY <2>6 DEF BackEnds
  <2>4. CASE RelayReturns
    BY <2>4 DEF RelayReturns
  <2> QED  BY <1>4, <2>1, <2>2, <2>3, <2>4, <2>5, <2>6
<1>5. CASE UNCHANGED webUiVars
  BY <1>5 DEF webUiVars
<1> QED  BY <1>1, <1>2, <1>3, <1>4, <1>5 DEF WebUiNext

(* The relay has both its goroutines from its start, or none of them and no connection
   to go2rtc; it does not return before the other one has ended. *)
RelayInv ==
    /\ relay = "none" => relayBack = "none"
    /\ relayBack = "none" => go2rtcEnd = "none"
    /\ relay = "returned" => relayBack # "reading"

LEMMA RelayStepInv == RelayInv /\ [WebUiNext]_webUiVars => RelayInv'
<1> SUFFICES ASSUME RelayInv, [WebUiNext]_webUiVars PROVE RelayInv'
  OBVIOUS
<1>1. CASE UNCHANGED relayVars
  BY <1>1 DEF relayVars, RelayInv
<1>2. CASE RelayStarts \/ BrowserLeaves \/ Go2rtcBreaks \/ LoopEnds \/ BackEnds \/ RelayReturns
  BY <1>2 DEF RelayStarts, BrowserLeaves, Go2rtcBreaks, LoopEnds, BackEnds, RelayReturns, RelayInv
<1>3. CASE WebMain \/ UserInterrupts \/ ServerFails \/ ManagerSelects \/ ManagerTakesSignal
           \/ \E c \in Children : WebChildExits(c)
  <2>1. CASE KillChildren
    BY <2>1 DEF KillChildren, RelayInv
  <2>2. CASE ~KillChildren
    <3>1. UNCHANGED relayVars
      BY <1>3, <2>2 DEF WebMain, StartRtspServer, StartGo2rtc, StartChild, ProbeOwl, SetUpYolo, OpenIndex,
                  Serve, StopsWaiting, UserInterrupts, ServerFails, ManagerSelects,
                  ManagerTakesSignal, WebChildExits
    <3> QED  BY <1>1, <3>1
  <2> QED  BY <2>1, <2>2
<1> QED  BY <1>1, <1>2, <1>3 DEF WebUiNext, webUiVars

(* With the browser and go2rtc gone, no goroutine of the relay waits for one that will
   not end, whatever main does meanwhile (server.go:1104-1130). *)
THEOREM RelayEndsItself == WebUiSpec => []RelayIsReady
<1>1. WebUiInit => RelayInv
  BY DEF WebUiInit, RelayInv
<1>2. WebUiTypeOK /\ RelayInv => RelayIsReady
  BY DEF WebUiTypeOK, RelayInv, RelayIsReady, RelayOver
<1>3. WebUiTypeOK /\ [WebUiNext]_webUiVars => WebUiTypeOK'
  BY WebUiStepTyped
<1> QED  BY <1>1, <1>2, <1>3, WebUiInitTyped, RelayStepInv, PTL DEF WebUiSpec

(* A child that runs is in the list main kills, and none runs once main has killed. *)
ChildrenListed == \A c \in Children : webChild[c] = "running" => c \in processes /\ webMain # "ended"

LEMMA ChildrenStepListed ==
    ASSUME WebUiTypeOK, ChildrenListed, [WebUiNext]_webUiVars
    PROVE  ChildrenListed'
<1> USE DEF ChildrenListed, WebUiTypeOK, procVars
<1>1. CASE UNCHANGED <<procVars, webMain>>
  BY <1>1
<1>2. CASE StartRtspServer \/ StartGo2rtc
  BY <1>2 DEF StartRtspServer, StartGo2rtc, StartChild, Children
<1>3. CASE KillChildren
  BY <1>3 DEF KillChildren
<1>4. ASSUME NEW c \in Children, WebChildExits(c) PROVE ChildrenListed'
  BY <1>4 DEF WebChildExits
<1>5. CASE ProbeOwl \/ SetUpYolo \/ OpenIndex \/ Serve \/ StopsWaiting
  BY <1>5 DEF ProbeOwl, SetUpYolo, OpenIndex, Serve, StopsWaiting
<1>6. CASE \/ UserInterrupts \/ ServerFails \/ ManagerSelects \/ ManagerTakesSignal
           \/ RelayStarts \/ BrowserLeaves \/ Go2rtcBreaks \/ LoopEnds \/ BackEnds \/ RelayReturns
  BY <1>1, <1>6 DEF UserInterrupts, ServerFails, ManagerSelects, ManagerTakesSignal, RelayStarts,
                    BrowserLeaves, Go2rtcBreaks, LoopEnds, BackEnds, RelayReturns, RelayFrame
<1> QED  BY <1>1, <1>2, <1>3, <1>4, <1>5, <1>6 DEF WebUiNext, WebMain, webUiVars

(* Whichever children started, exited or were skipped, and however the command ends,
   it leaves no process of its own behind (webui.go:178, 311, 1033-1049). *)
THEOREM ChildrenEndWithMain == WebUiSpec => []NoChildSurvives
<1>1. WebUiInit => ChildrenListed
  BY DEF WebUiInit, ChildrenListed
<1>2. ChildrenListed => NoChildSurvives
  BY DEF ChildrenListed, NoChildSurvives
<1>3. WebUiTypeOK /\ [WebUiNext]_webUiVars => WebUiTypeOK'
  BY WebUiStepTyped
<1>4. WebUiTypeOK /\ ChildrenListed /\ [WebUiNext]_webUiVars => ChildrenListed'
  BY ChildrenStepListed
<1> QED  BY <1>1, <1>2, <1>3, <1>4, WebUiInitTyped, PTL DEF WebUiSpec
=============================================================================
