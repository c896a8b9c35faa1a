------------------------- MODULE Subsystems_proofs --------------------------
(* Proofs about the parts of the simulators and of a node, and about all fifteen parts
   that share no state together: MCSubsystems has the invariants of each of them. *)
EXTENDS MCSubsystems, GatewayParts_proofs, WebParts_proofs

(* SipDevice. What keeps a session stopped once only: the channels have sessions of
   their own, numbered in the order of the INVITEs, and only sessions that were
   made are stopped; so the next one is open. *)
InvitesFit == Invited <= MaxSessions

OwnSessions ==
    /\ \A c \in Channels : sessions[c] <= created
    /\ \A c, d \in Channels : c # d /\ sessions[c] # 0 => sessions[c] # sessions[d]

ClosedWereCreated == \A s \in Session : closed[s] => s <= created

SipInv == SipTypeOK /\ InvitesFit /\ OwnSessions /\ ClosedWereCreated /\ ByeFindsOpenUntilStop

LEMMA SipSizes == MaxSessions \in Nat /\ MaxInbox \in Nat
  BY SipAssumption DEF SipAssumption

(* How the INVITEs of a queue are counted. *)
LEMMA InvitesType ==
    ASSUME NEW q \in Seq(Message)
    PROVE  /\ IsFiniteSet({i \in DOMAIN q : q[i].kind = "INVITE"})
           /\ InvitesIn(q) \in Nat
<1>1. DOMAIN q = 1..Len(q) /\ Len(q) \in Nat
  OBVIOUS
<1>2. IsFiniteSet(1..Len(q))
  BY <1>1, FS_Interval
<1>3. {i \in DOMAIN q : q[i].kind = "INVITE"} \in SUBSET (1..Len(q))
  BY <1>1
<1>4. IsFiniteSet({i \in DOMAIN q : q[i].kind = "INVITE"})
  BY <1>2, <1>3, FS_Subset
<1> QED  BY <1>4, FS_CardinalityType DEF InvitesIn

LEMMA InvitesAppend ==
    ASSUME NEW q \in Seq(Message), NEW m \in Message
    PROVE  InvitesIn(Append(q, m)) = InvitesIn(q) + (IF m.kind = "INVITE" THEN 1 ELSE 0)
<1> DEFINE S == {i \in DOMAIN q : q[i].kind = "INVITE"}
           T == {i \in DOMAIN Append(q, m) : Append(q, m)[i].kind = "INVITE"}
           n == Len(q) + 1
<1>1. /\ DOMAIN q = 1..Len(q) /\ DOMAIN Append(q, m) = 1..n
      /\ \A i \in 1..Len(q) : Append(q, m)[i] = q[i]
      /\ Append(q, m)[n] = m /\ Len(q) \in Nat
  BY AppendProperties
<1>2. IsFiniteSet(S) /\ Cardinality(S) \in Nat
  BY InvitesType DEF InvitesIn
<1>3. n \notin S
  BY <1>1
<1>4. CASE m.kind = "INVITE"
  <2>1. T = S \cup {n}
    BY <1>1, <1>4
  <2>2. Cardinality(T) = Cardinality(S) + 1
    BY <1>2, <1>3, <2>1, FS_AddElement
  <2> QED  BY <1>4, <2>2 DEF InvitesIn
<1>5. CASE m.kind # "INVITE"
  <2>1. T = S
    BY <1>1, <1>5
  <2>2. InvitesIn(q) = Cardinality(S) /\ InvitesIn(Append(q, m)) = Cardinality(T)
    BY DEF InvitesIn
  <2> HIDE DEF S, T
  <2> QED  BY <1>2, <1>5, <2>1, <2>2
<1> QED  BY <1>4, <1>5

LEMMA InvitesTail ==
    ASSUME NEW q \in Seq(Message), q # <<>>
    PROVE  InvitesIn(q) = InvitesIn(Tail(q)) + (IF Head(q).kind = "INVITE" THEN 1 ELSE 0)
<1> DEFINE S == {i \in DOMAIN Tail(q) : Tail(q)[i].kind = "INVITE"}
           T == {i \in DOMAIN q : q[i].kind = "INVITE"}
           U == T \ {1}
           next == [i \in S |-> i + 1]
<1>1. /\ DOMAIN q = 1..Len(q) /\ Len(q) \in Nat \ {0}
      /\ DOMAIN Tail(q) = 1..(Len(q) - 1)
      /\ \A i \in 1..(Len(q) - 1) : Tail(q)[i] = q[i + 1]
      /\ Head(q) = q[1]
  BY HeadTailProperties, LenProperties
<1>2. IsFiniteSet(S) /\ Cardinality(S) \in Nat
  <2>1. Tail(q) \in Seq(Message)
    BY HeadTailProperties
  <2> QED  BY <2>1, InvitesType DEF InvitesIn
<1>3. IsFiniteSet(T) /\ Cardinality(T) \in Nat
  BY InvitesType DEF InvitesIn
<1>4. next \in [S -> U]
  BY <1>1
<1>5. \A a, b \in S : next[a] = next[b] => a = b
  BY <1>1
<1>6. \A u \in U : \E s \in S : next[s] = u
  <2>1. SUFFICES ASSUME NEW u \in U PROVE u - 1 \in S /\ next[u - 1] = u
    OBVIOUS
  <2> QED  BY <1>1
<1>7. next \in Bijection(S, U)
  <2> HIDE DEF S, U, next
  <2> QED  BY <1>4, <1>5, <1>6, Fun_IsBij
<1>8. Cardinality(U) = Cardinality(S)
  <2> HIDE DEF S, U, next
  <2> QED  BY <1>2, <1>7, FS_Bijection DEF ExistsBijection
<1>9. Cardinality(U) = IF 1 \in T THEN Cardinality(T) - 1 ELSE Cardinality(T)
  <2> HIDE DEF T
  <2> QED  BY <1>3, FS_RemoveElement
<1>10. 1 \in T <=> Head(q).kind = "INVITE"
  BY <1>1
<1>11. InvitesIn(q) = Cardinality(T) /\ InvitesIn(Tail(q)) = Cardinality(S)
  BY DEF InvitesIn
<1> HIDE DEF S, T, U, next
<1> QED  BY <1>2, <1>3, <1>8, <1>9, <1>10, <1>11

LEMMA InvitesFront ==
    ASSUME NEW q \in Seq(Message), q # <<>>
    PROVE  /\ Front(q) \in Seq(Message) /\ Len(Front(q)) <= Len(q)
           /\ InvitesIn(Front(q)) \in Nat /\ InvitesIn(Front(q)) <= InvitesIn(q)
<1>1. /\ Len(q) \in Nat \ {0} /\ DOMAIN q = 1..Len(q)
      /\ \A i \in 1..(Len(q) - 1) : q[i] \in Message
  BY LenProperties
<1>2. /\ Front(q) \in Seq(Message) /\ Len(Front(q)) = Len(q) - 1
      /\ \A i \in 1..(Len(q) - 1) : Front(q)[i] = q[i]
  BY <1>1, SubSeqProperties DEF Front
<1> DEFINE S == {i \in DOMAIN Front(q) : Front(q)[i].kind = "INVITE"}
           T == {i \in DOMAIN q : q[i].kind = "INVITE"}
<1>3. DOMAIN Front(q) = 1..(Len(q) - 1)
  BY <1>2, LenProperties
<1>4. S \in SUBSET T
  BY <1>1, <1>2, <1>3
<1>5. Cardinality(S) <= Cardinality(T)
  <2>1. IsFiniteSet(T)
    BY InvitesType
  <2> HIDE DEF S, T
  <2> QED  BY <1>4, <2>1, FS_Subset
<1>6. InvitesIn(q) = Cardinality(T) /\ InvitesIn(Front(q)) = Cardinality(S)
  BY DEF InvitesIn
<1>7. InvitesIn(Front(q)) \in Nat
  BY <1>2, InvitesType
<1> HIDE DEF S, T
<1> QED  BY <1>1, <1>2, <1>5, <1>6, <1>7

LEMMA SipInitInv == SipInit => SipInv
<1> SUFFICES ASSUME SipInit PROVE SipInv
  OBVIOUS
<1>1. SipTypeOK
  <2>1. inbox \in Seq(Message) /\ Len(inbox) <= MaxInbox
    BY SipSizes DEF SipInit
  <2>2. sessions \in [Channels -> 0..MaxSessions] /\ created \in 0..MaxSessions
    BY SipSizes DEF SipInit
  <2> QED  BY <2>1, <2>2 DEF SipInit, SipTypeOK, Sources
<1>2. InvitesFit
  <2>1. InvitesIn(<<>>) = 0
    <3>1. {i \in DOMAIN <<>> : <<>>[i].kind = "INVITE"} = {}
      OBVIOUS
    <3> QED  BY <3>1, FS_EmptySet DEF InvitesIn
  <2> QED  BY <2>1, SipSizes DEF SipInit, InvitesFit, Invited, NoMessage
<1>3. OwnSessions /\ ClosedWereCreated /\ ByeFindsOpenUntilStop
  BY SipSizes DEF SipInit, OwnSessions, ClosedWereCreated, ByeFindsOpenUntilStop, Session
<1> QED  BY <1>1, <1>2, <1>3 DEF SipInv

(* Steps of the goroutines of a session, and of its encoder. *)
LEMMA MediaStepInv ==
    ASSUME SipInv, NEW s \in Session, RunMedia(s) \/ Kill(s) \/ ChildExits(s) \/ RtcpEnds(s)
    PROVE  SipInv'
<1> USE DEF RunMedia, Stream, StartMissing, StreamNative, StreamTestPattern, StreamRTSP,
            StreamFileH264, StreamFileH265, Starting, StartEncoder, NativeEnds, WaitReturns,
            Kill, ChildExits, RtcpEnds
<1>1. UNCHANGED <<runVars, stopCh, stopper, sessions, created, source, answered, closed, config>>
  OBVIOUS
<1>2. media' \in [Session -> {"none", "starting", "h264", "h265", "native", "done"}]
  BY DEF SipInv, SipTypeOK
<1>3. child' \in [Session -> BOOLEAN] /\ rtcp' \in [Session -> BOOLEAN]
  BY DEF SipInv, SipTypeOK
<1>4. SipTypeOK'
  BY <1>1, <1>2, <1>3 DEF SipInv, SipTypeOK, runVars
<1>5. (InvitesFit /\ OwnSessions /\ ClosedWereCreated /\ ByeFindsOpenUntilStop)'
  BY <1>1 DEF SipInv, InvitesFit, Invited, OwnSessions, ClosedWereCreated,
              ByeFindsOpenUntilStop, runVars
<1> QED  BY <1>4, <1>5 DEF SipInv

(* Steps that make, stop and give away no session. *)
LEMMA SessionsKept ==
    ASSUME SipInv, UNCHANGED <<sessions, mediaVars, stopper>>
    PROVE  (OwnSessions /\ ClosedWereCreated /\ ByeFindsOpenUntilStop)'
  BY DEF SipInv, mediaVars, OwnSessions, ClosedWereCreated, ByeFindsOpenUntilStop

(* The platform and the network: a datagram more, or one less. *)
LEMMA NetworkInv ==
    ASSUME SipInv, PlatformAnswers \/ PlatformRequests \/ Lose
    PROVE  SipInv'
<1>1. UNCHANGED <<run, handling, stopCh, stopper, sessions, mediaVars, config>>
  BY DEF PlatformAnswers, PlatformRequests, Lose
<1>2. asked' \in {"none", "plain", "auth"} /\ accepted' \in BOOLEAN
  BY DEF SipInv, SipTypeOK, PlatformAnswers, PlatformRequests, Lose
<1>3. inbox \in Seq(Message) /\ Len(inbox) <= MaxInbox /\ created \in Nat
      /\ handling \in Message \cup {NoMessage}
  BY SipSizes DEF SipInv, SipTypeOK
<1>4. /\ inbox' \in Seq(Message) /\ Len(inbox') <= MaxInbox
      /\ InvitesFit'
  <2>1. ASSUME NEW m \in Message, Deliver(m), m.kind = "INVITE" => Invited < MaxSessions
        PROVE  inbox' \in Seq(Message) /\ Len(inbox') <= MaxInbox /\ InvitesFit'
    <3>1. inbox' = Append(inbox, m) /\ Len(inbox) < MaxInbox
      BY <2>1 DEF Deliver
    <3>2. inbox' \in Seq(Message) /\ Len(inbox') <= MaxInbox
      BY <1>3, <3>1, SipSizes, AppendProperties
    <3>3. InvitesIn(inbox) \in Nat
          /\ InvitesIn(inbox') = InvitesIn(inbox) + (IF m.kind = "INVITE" THEN 1 ELSE 0)
      BY <1>3, <3>1, InvitesAppend, InvitesType
    <3>4. Invited <= MaxSessions
      BY DEF SipInv, InvitesFit
    <3>5. Invited' = Invited + (IF m.kind = "INVITE" THEN 1 ELSE 0)
      BY <1>1, <1>3, <3>3 DEF Invited, mediaVars
    <3>6. Invited \in Nat
      BY <1>3, <3>3 DEF Invited
    <3> QED  BY <2>1, <3>2, <3>4, <3>5, <3>6, SipSizes DEF InvitesFit
  <2>2. CASE PlatformAnswers
    <3>1. PICK k \in {"200", "401", "403"} : Deliver([kind |-> k])
      BY <2>2 DEF PlatformAnswers
    <3>2. [kind |-> k] \in Message /\ [kind |-> k].kind # "INVITE"
      BY DEF Message
    <3> QED  BY <2>1, <3>1, <3>2
  <2>3. CASE PlatformRequests
    BY <2>1, <2>3 DEF PlatformRequests
  <2>4. CASE UNCHANGED inbox
    BY <1>1, <1>3, <2>4 DEF SipInv, InvitesFit, Invited, mediaVars
  <2>5. CASE inbox # <<>> /\ inbox' = Front(inbox)
    <3>1. /\ inbox' \in Seq(Message) /\ Len(inbox') <= Len(inbox)
          /\ InvitesIn(inbox') \in Nat /\ InvitesIn(inbox') <= InvitesIn(inbox)
          /\ InvitesIn(inbox) \in Nat
      BY <1>3, <2>5, InvitesFront, InvitesType
    <3>2. Invited' <= Invited /\ Invited \in Nat /\ Invited' \in Nat
      BY <1>1, <1>3, <3>1 DEF Invited, mediaVars
    <3>3. Invited <= MaxSessions
      BY DEF SipInv, InvitesFit
    <3>4. InvitesFit'
      BY <3>2, <3>3, SipSizes DEF InvitesFit
    <3> QED  BY <1>3, <3>1, <3>4, SipSizes
  <2> QED  BY <2>2, <2>3, <2>4, <2>5 DEF Lose
<1>5. SipTypeOK'
  BY <1>1, <1>2, <1>4 DEF SipInv, SipTypeOK, mediaVars
<1> QED  BY <1>1, <1>4, <1>5, SessionsKept DEF SipInv

(* Device.Run and its event loop up to the switch: datagrams are read, none is made. *)
LEMMA RunInv ==
    ASSUME SipInv, Dial \/ Register \/ ReceiveFails \/ Receive \/ ReceiveTimesOut \/ HandleOther
    PROVE  SipInv'
<1>1. UNCHANGED <<accepted, stopCh, stopper, sessions, mediaVars, config>>
  BY DEF Dial, Register, ReceiveFails, Receive, ReceiveTimesOut, HandleOther
<1>2. /\ run' \in {"dial", "register", "authorize", "events", "exited"}
      /\ asked' \in {"none", "plain", "auth"}
  BY DEF SipInv, SipTypeOK, Dial, Register, ReceiveFails, Receive, ReceiveTimesOut, HandleOther, Exit
<1>3. /\ inbox \in Seq(Message) /\ Len(inbox) <= MaxInbox /\ created \in Nat
      /\ handling \in Message \cup {NoMessage} /\ Invited <= MaxSessions
      /\ InvitesIn(inbox) \in Nat
  <2>1. inbox \in Seq(Message)
    BY DEF SipInv, SipTypeOK
  <2>2. InvitesIn(inbox) \in Nat
    BY <2>1, InvitesType
  <2> QED  BY <2>1, <2>2, SipSizes DEF SipInv, SipTypeOK, InvitesFit
<1>4. /\ inbox' \in Seq(Message) /\ Len(inbox') <= MaxInbox
      /\ handling' \in Message \cup {NoMessage}
      /\ InvitesFit'
  <2>1. CASE UNCHANGED inbox /\ handling' \in {handling, NoMessage}
    <3>1. Invited' <= Invited
      BY <1>1, <1>3, <2>1 DEF Invited, mediaVars, NoMessage
    <3>2. Invited \in Nat /\ Invited' \in Nat
      BY <1>1, <1>3, <2>1 DEF Invited, mediaVars
    <3>3. InvitesFit'
      BY <1>3, <3>1, <3>2, SipSizes DEF InvitesFit
    <3> QED  BY <1>3, <2>1, <3>3
  <2>2. CASE inbox # <<>> /\ inbox' = Tail(inbox)
             /\ (handling' = handling \/ (handling = NoMessage /\ handling' = Head(inbox)))
    <3>1. /\ Head(inbox) \in Message /\ inbox' \in Seq(Message) /\ Len(inbox') = Len(inbox) - 1
          /\ Len(inbox) \in Nat
      BY <1>3, <2>2, HeadTailProperties
    <3>2. InvitesIn(inbox') \in Nat
          /\ InvitesIn(inbox) = InvitesIn(inbox') + (IF Head(inbox).kind = "INVITE" THEN 1 ELSE 0)
      BY <1>3, <2>2, <3>1, InvitesTail, InvitesType
    <3>3. Invited' <= Invited /\ Invited \in Nat /\ Invited' \in Nat
      BY <1>1, <1>3, <2>2, <3>2 DEF Invited, mediaVars, NoMessage
    <3>4. InvitesFit'
      BY <1>3, <3>3, SipSizes DEF InvitesFit
    <3> QED  BY <1>3, <2>2, <3>1, <3>4, SipSizes
  <2>3. CASE Register \/ Receive
    <3>1. inbox # <<>> /\ inbox' = Tail(inbox)
      BY <2>3, Zenon DEF Register, Receive
    <3>2. handling' = handling \/ (handling = NoMessage /\ handling' = Head(inbox))
      BY <2>3 DEF Register, Receive
    <3> QED  BY <2>2, <3>1, <3>2, Zenon
  <2>4. CASE Dial \/ ReceiveFails \/ ReceiveTimesOut \/ HandleOther
    BY <2>1, <2>4 DEF Dial, ReceiveFails, ReceiveTimesOut, HandleOther
  <2> QED  BY <2>3, <2>4
<1>5. SipTypeOK'
  BY <1>1, <1>2, <1>4 DEF SipInv, SipTypeOK, mediaVars
<1> QED  BY <1>1, <1>4, <1>5, SessionsKept DEF SipInv

(* A new session has a number no channel had before. *)
LEMMA InviteInv == ASSUME SipInv, HandleInvite PROVE SipInv'
<1>1. /\ run' = run /\ UNCHANGED <<asked, accepted, inbox, stopCh, stopper, config>>
      /\ handling' = NoMessage /\ handling.kind = "INVITE"
  BY DEF HandleInvite
<1>2. /\ inbox \in Seq(Message) /\ created \in 0..MaxSessions /\ created \in Nat
      /\ handling \in Message \cup {NoMessage} /\ Invited <= MaxSessions
      /\ InvitesIn(inbox) \in Nat
  <2>1. inbox \in Seq(Message)
    BY DEF SipInv, SipTypeOK
  <2>2. InvitesIn(inbox) \in Nat
    BY <2>1, InvitesType
  <2> QED  BY <2>1, <2>2, SipSizes DEF SipInv, SipTypeOK, InvitesFit
<1>3. Invited = created + InvitesIn(inbox) + 1
  BY <1>1, <1>2 DEF Invited
<1>4. Invited' = created' + InvitesIn(inbox)
      \/ created' \notin Nat
  BY <1>1, <1>2 DEF Invited, NoMessage
<1>5. CASE handling.pt = 0
  <2>1. UNCHANGED <<sessions, mediaVars>>
    BY <1>5 DEF HandleInvite
  <2>2. InvitesFit'
    BY <1>2, <1>3, <1>4, <2>1, SipSizes DEF InvitesFit, mediaVars
  <2>3. SipTypeOK'
    BY <1>1, <2>1 DEF SipInv, SipTypeOK, mediaVars
  <2> QED  BY <1>1, <2>1, <2>2, <2>3, SessionsKept DEF SipInv
<1>6. CASE handling.pt # 0
  <2> DEFINE s == created + 1
             c == handling.ch
  <2>1. /\ created' = s /\ UNCHANGED <<closed, child, rtcp>>
        /\ source' = [source EXCEPT ![s] = SourceOf(c)]
        /\ answered' = [answered EXCEPT ![s] = AnswerPT(InvitePT(handling.pt, SourceOf(c)))]
        /\ sessions' = [sessions EXCEPT ![c] = s]
        /\ media' = [media EXCEPT ![s] = "starting"]
    BY <1>6 DEF HandleInvite
  <2>2. c \in Channels
    BY <1>1, <1>2 DEF Message, NoMessage
  <2>3. s \in Session /\ s \in 0..MaxSessions /\ s # 0
    BY <1>2, <1>3, SipSizes DEF Session
  <2>4. InvitesFit'
    BY <1>2, <1>3, <1>4, <2>1, SipSizes DEF InvitesFit
  <2>5. SourceOf(c) \in Sources
    BY DEF SipInv, SipTypeOK, SourceOf, Sources
  <2>6. AnswerPT(InvitePT(handling.pt, SourceOf(c))) \in PayloadTypes \cup {0}
    BY DEF AnswerPT, PayloadTypes
  <2>7. SipTypeOK'
    <3> HIDE DEF s, c
    <3>1. sessions' \in [Channels -> 0..MaxSessions] /\ created' \in 0..MaxSessions
      BY <2>1, <2>3 DEF SipInv, SipTypeOK
    <3>2. media' \in [Session -> {"none", "starting", "h264", "h265", "native", "done"}]
      BY <2>1 DEF SipInv, SipTypeOK
    <3>3. source' \in [Session -> Sources]
      BY <2>1, <2>5 DEF SipInv, SipTypeOK
    <3>4. answered' \in [Session -> PayloadTypes \cup {0}]
      BY <2>1, <2>6 DEF SipInv, SipTypeOK
    <3> QED  BY <1>1, <2>1, <3>1, <3>2, <3>3, <3>4 DEF SipInv, SipTypeOK
  <2>8. \A d \in Channels : sessions'[d] = IF d = c THEN s ELSE sessions[d]
    BY <2>1, <2>2 DEF SipInv, SipTypeOK
  <2>9. \A d \in Channels : sessions[d] \in Nat /\ sessions[d] <= created
    BY SipSizes DEF SipInv, SipTypeOK, OwnSessions
  <2>10. OwnSessions'
    BY <1>2, <2>1, <2>8, <2>9 DEF SipInv, OwnSessions
  <2>11. ClosedWereCreated'
    BY <1>2, <2>1, SipSizes DEF SipInv, ClosedWereCreated, Session
  <2>12. ~closed[s]
    BY <1>2, <2>3 DEF SipInv, ClosedWereCreated
  <2>13. ByeFindsOpenUntilStop'
    BY <1>1, <2>1, <2>8, <2>12 DEF SipInv, ByeFindsOpenUntilStop
  <2> QED  BY <2>4, <2>7, <2>10, <2>11, <2>13 DEF SipInv
<1> QED  BY <1>5, <1>6

(* The session a BYE stops is the current one of no other channel. *)
LEMMA ByeInv == ASSUME SipInv, HandleBye PROVE SipInv'
<1> DEFINE c == handling.ch
           s == sessions[c]
<1>1. /\ UNCHANGED <<asked, accepted, inbox, stopCh, stopper, created, media, source, answered,
                     child, rtcp, config>>
      /\ handling' = NoMessage /\ handling.kind = "BYE"
      /\ run' \in {run, "exited"}
  BY DEF HandleBye, Exit
<1>2. handling \in Message \cup {NoMessage} /\ c \in Channels
  BY <1>1 DEF SipInv, SipTypeOK, Message, NoMessage
<1>3. InvitesFit'
  BY <1>1 DEF SipInv, InvitesFit, Invited, NoMessage
<1>4. CASE UNCHANGED <<sessions, closed>>
  <2>1. SipTypeOK'
    BY <1>1, <1>4 DEF SipInv, SipTypeOK
  <2> QED  BY <1>1, <1>3, <1>4, <2>1, SessionsKept DEF SipInv, mediaVars
<1>5. CASE /\ s # 0 /\ closed' = [closed EXCEPT ![s] = TRUE]
           /\ sessions' = [sessions EXCEPT ![c] = 0]
  <2>1. s \in Session /\ s <= created
    BY <1>2, <1>5, SipSizes DEF SipInv, SipTypeOK, OwnSessions, Session
  <2>2. SipTypeOK'
    <3> HIDE DEF s, c
    <3>1. closed' \in [Session -> BOOLEAN]
      BY <1>5 DEF SipInv, SipTypeOK
    <3>2. 0 \in 0..MaxSessions
      BY SipSizes
    <3>3. sessions' \in [Channels -> 0..MaxSessions]
      BY <1>5, <3>2 DEF SipInv, SipTypeOK
    <3> QED  BY <1>1, <3>1, <3>3 DEF SipInv, SipTypeOK
  <2>3. \A d \in Channels : sessions'[d] = IF d = c THEN 0 ELSE sessions[d]
    BY <1>2, <1>5 DEF SipInv, SipTypeOK
  <2>4. \A t \in Session : closed'[t] = (t = s \/ closed[t])
    BY <1>5, <2>1 DEF SipInv, SipTypeOK
  <2>5. created \in Nat
    BY SipSizes DEF SipInv, SipTypeOK
  <2>6. OwnSessions'
    BY <1>1, <2>3, <2>5 DEF SipInv, OwnSessions
  <2>7. ClosedWereCreated'
    BY <1>1, <2>1, <2>4 DEF SipInv, ClosedWereCreated
  <2>8. \A d \in Channels : sessions[d] # 0 => sessions[d] \in Session
    BY SipSizes DEF SipInv, SipTypeOK, Session
  <2>9. \A d \in Channels : d # c /\ sessions[d] # 0 => sessions[d] # s
    BY <1>2 DEF SipInv, OwnSessions
  <2>10. ByeFindsOpenUntilStop'
    <3> HIDE DEF s, c
    <3> QED  BY <1>1, <2>3, <2>4, <2>8, <2>9 DEF SipInv, ByeFindsOpenUntilStop
  <2> QED  BY <1>3, <2>2, <2>6, <2>7, <2>10 DEF SipInv
<1> QED  BY <1>4, <1>5 DEF HandleBye

LEMMA StopInv == ASSUME SipInv, Stop \/ StopSessions PROVE SipInv'
<1>1. UNCHANGED <<runVars, sessions, created, media, source, answered, child, rtcp, config>>
  BY DEF Stop, StopSessions, mediaVars
<1>2. InvitesFit' /\ OwnSessions'
  BY <1>1 DEF SipInv, InvitesFit, Invited, OwnSessions, runVars
<1>3. CASE Stop
  <2>1. SipTypeOK'
    BY <1>1, <1>3 DEF Stop, mediaVars, runVars, SipInv, SipTypeOK
  <2> QED  BY <1>2, <1>3, <2>1 DEF Stop, mediaVars, SipInv, ClosedWereCreated, ByeFindsOpenUntilStop
<1>4. CASE StopSessions
  <2>1. closed' = [s \in Session |-> closed[s] \/ \E c \in Channels : sessions[c] = s]
        /\ stopper' = "waiting" /\ stopCh' = stopCh
    BY <1>4 DEF StopSessions
  <2>2. closed' \in [Session -> BOOLEAN]
    BY <2>1 DEF SipInv, SipTypeOK
  <2>3. SipTypeOK'
    BY <1>1, <2>1, <2>2 DEF SipInv, SipTypeOK, runVars
  <2>4. ClosedWereCreated'
    BY <1>1, <2>1 DEF SipInv, OwnSessions, ClosedWereCreated
  <2>5. ByeFindsOpenUntilStop'
    BY <2>1 DEF ByeFindsOpenUntilStop
  <2> QED  BY <1>2, <2>3, <2>4, <2>5 DEF SipInv
<1> QED  BY <1>3, <1>4

LEMMA SipStepInv == SipInv /\ [SipNext]_sipVars => SipInv'
<1>1. ASSUME SipInv, SipNext PROVE SipInv'
  BY <1>1, NetworkInv, RunInv, InviteInv, ByeInv, StopInv, MediaStepInv DEF SipNext, EventLoop
<1>2. ASSUME SipInv, UNCHANGED sipVars PROVE SipInv'
  BY <1>2 DEF sipVars, SipInv, SipTypeOK, InvitesFit, Invited, OwnSessions, ClosedWereCreated,
              ByeFindsOpenUntilStop
<1> QED  BY <1>1, <1>2

(* For any number of channels, sources and sessions: until Stop has closed them all,
   a BYE finds the stop channel of the current session open (device.go:306-315). *)
THEOREM ByeIsSafe == SipSpec => []ByeFindsOpenUntilStop
<1>1. SipInv => ByeFindsOpenUntilStop
  BY DEF SipInv
<1> QED  BY <1>1, SipInitInv, SipStepInv, PTL DEF SipSpec

(* The INVITEs make sessions in order; those that were not made have nothing running. *)
UnmadeIdle == \A s \in Session : s > created => media[s] = "none"

LEMMA SessionStep ==
    ASSUME SipTypeOK, NEW s \in Session, RunMedia(s) \/ Kill(s) \/ ChildExits(s) \/ RtcpEnds(s)
    PROVE  /\ UNCHANGED <<created, closed>>
           /\ \A t \in Session \ {s} : SessionLeft(t)' = SessionLeft(t) /\ media'[t] = media[t]
           /\ SessionLeft(s)' < SessionLeft(s) /\ SessionLeft(s)' <= SessionLeft(s)
           /\ media[s] = "none" => media'[s] = "none"
<1> USE DEF RunMedia, Stream, StartMissing, StreamNative, StreamTestPattern, StreamRTSP,
            StreamFileH264, StreamFileH265, Starting, StartEncoder, NativeEnds, WaitReturns,
            Kill, ChildExits, RtcpEnds, SipTypeOK
<1>1. UNCHANGED <<created, closed>>
  OBVIOUS
<1>2. \A t \in Session \ {s} : media'[t] = media[t] /\ child'[t] = child[t] /\ rtcp'[t] = rtcp[t]
  OBVIOUS
<1>3. \A t \in Session \ {s} : SessionLeft(t)' = SessionLeft(t)
  BY <1>2 DEF SessionLeft
<1>4. \/ /\ media[s] = "starting" /\ media'[s] \in {"h264", "h265", "native", "done"}
      \/ /\ media[s] \in {"h264", "h265", "native"} /\ media'[s] = "done"
         /\ child'[s] = child[s] /\ rtcp'[s] = rtcp[s]
      \/ /\ media'[s] = media[s]
         /\ \/ child[s] /\ ~child'[s] /\ rtcp'[s] = rtcp[s]
            \/ rtcp[s] /\ ~rtcp'[s] /\ child'[s] = child[s]
  OBVIOUS
<1>5. /\ media[s] \in {"none", "starting", "h264", "h265", "native", "done"}
      /\ child[s] \in BOOLEAN /\ rtcp[s] \in BOOLEAN /\ child'[s] \in BOOLEAN /\ rtcp'[s] \in BOOLEAN
  OBVIOUS
<1>6. SessionLeft(s)' < SessionLeft(s) /\ SessionLeft(s)' <= SessionLeft(s)
  BY <1>4, <1>5 DEF SessionLeft
<1> QED  BY <1>1, <1>2, <1>3, <1>4, <1>6

LEMMA SessionLeftType == ASSUME SipTypeOK, NEW s \in Session PROVE SessionLeft(s) \in Nat
  BY DEF SipTypeOK, SessionLeft

(* The other steps: an INVITE begins a session that was not made before. *)
LEMMA OtherSipStep ==
    ASSUME SipInv, UnmadeIdle,
           \/ PlatformAnswers \/ PlatformRequests \/ Lose \/ Dial \/ Register \/ ReceiveFails
           \/ EventLoop \/ Stop \/ StopSessions
    PROVE  /\ UnmadeIdle'
           /\ \A s \in Session : SessionLeft(s)' <= SessionLeft(s) /\ (closed[s] => closed'[s])
<1>1. created \in Nat /\ \A s \in Session : SessionLeft(s) \in Nat
  BY SessionLeftType, SipSizes DEF SipInv, SipTypeOK
<1>2. CASE UNCHANGED <<created, media, child, rtcp>>
  <2>1. UnmadeIdle'
    BY <1>2 DEF UnmadeIdle
  <2>2. \A s \in Session : SessionLeft(s)' = SessionLeft(s)
    BY <1>2 DEF SessionLeft
  <2>3. \A s \in Session : closed[s] => closed'[s]
    BY DEF SipInv, SipTypeOK, PlatformAnswers, PlatformRequests, Lose, Dial, Register, ReceiveFails,
           EventLoop, Receive, ReceiveTimesOut, HandleInvite, HandleBye, HandleOther, Stop,
           StopSessions, mediaVars
  <2> QED  BY <1>1, <2>1, <2>2, <2>3
<1>3. CASE HandleInvite /\ handling.pt # 0
  <2>1. /\ created' = created + 1 /\ UNCHANGED <<closed, child, rtcp>>
        /\ media' = [media EXCEPT ![created + 1] = "starting"]
    BY <1>3 DEF HandleInvite
  <2>2. UnmadeIdle'
    BY <1>1, <2>1, SipSizes DEF UnmadeIdle, SipInv, SipTypeOK, Session
  <2>3. ASSUME NEW s \in Session PROVE SessionLeft(s)' <= SessionLeft(s)
    <3>1. CASE s = created + 1
      <4>1. media[s] = "none" /\ media'[s] = "starting"
        BY <1>1, <2>1, <3>1 DEF UnmadeIdle, SipInv, SipTypeOK
      <4> QED  BY <2>1, <4>1 DEF SessionLeft
    <3>2. CASE s # created + 1
      <4>1. media'[s] = media[s]
        BY <2>1, <3>2 DEF SipInv, SipTypeOK
      <4>2. SessionLeft(s)' = SessionLeft(s)
        BY <2>1, <4>1 DEF SessionLeft
      <4> QED  BY <1>1, <4>2
    <3> QED  BY <3>1, <3>2
  <2> QED  BY <2>1, <2>2, <2>3
<1> QED
  BY <1>2, <1>3
  DEF PlatformAnswers, PlatformRequests, Lose, Dial, Register, ReceiveFails, EventLoop, Receive,
      ReceiveTimesOut, HandleInvite, HandleBye, HandleOther, Stop, StopSessions, mediaVars

LEMMA SipWorkStep ==
    ASSUME SipInv, UnmadeIdle, [SipNext]_sipVars
    PROVE  UnmadeIdle' /\ [SipWork]_sipVars
<1>1. SipTypeOK /\ created \in Nat /\ \A s \in Session : SessionLeft(s) \in Nat
  BY SessionLeftType, SipSizes DEF SipInv, SipTypeOK
<1>2. \A s \in Session : SessionGoesOn(s) => SessionLeft(s)' < SessionLeft(s)
  BY <1>1, SessionStep DEF SessionGoesOn
<1>3. ASSUME NEW s \in Session, RunMedia(s) \/ Kill(s) \/ ChildExits(s) \/ RtcpEnds(s)
      PROVE  /\ UnmadeIdle'
             /\ \A t \in Session : SessionLeft(t)' <= SessionLeft(t) /\ (closed[t] => closed'[t])
  <2>1. /\ UNCHANGED <<created, closed>>
        /\ \A t \in Session \ {s} : SessionLeft(t)' = SessionLeft(t) /\ media'[t] = media[t]
        /\ SessionLeft(s)' <= SessionLeft(s)
        /\ media[s] = "none" => media'[s] = "none"
    BY <1>1, <1>3, SessionStep
  <2>2. UnmadeIdle'
    BY <2>1 DEF UnmadeIdle
  <2>3. \A t \in Session : SessionLeft(t)' <= SessionLeft(t)
    BY <1>1, <2>1
  <2> QED  BY <2>1, <2>2, <2>3
<1>4. CASE UNCHANGED sipVars
  BY <1>4 DEF sipVars, UnmadeIdle
<1>5. CASE SipNext
  <2>1. UnmadeIdle' /\ \A t \in Session : SessionLeft(t)' <= SessionLeft(t) /\ (closed[t] => closed'[t])
    BY <1>3, <1>5, OtherSipStep DEF SipNext
  <2> QED  BY <1>2, <2>1 DEF SipWork
<1> QED  BY <1>4, <1>5

LEMMA UnmadeInit == SipInit => UnmadeIdle
  BY DEF SipInit, UnmadeIdle

(* For any number of sessions: no step of anybody gives a media session steps it had
   not before, each of its own takes one away, and no stop is undone; so a session has
   at most nine steps (media.go:203-302, device.go:262-316). *)
THEOREM SessionsEndInTime == SipSpec => SessionsOnlyEnd
<1>1. SipInv /\ UnmadeIdle /\ [SipNext]_sipVars => SipInv' /\ UnmadeIdle' /\ [SipWork]_sipVars
  BY SipStepInv, SipWorkStep
<1>2. SipInit => SipInv /\ UnmadeIdle
  BY SipInitInv, UnmadeInit
<1> QED  BY <1>1, <1>2, PTL DEF SipSpec, SessionsOnlyEnd

-----------------------------------------------------------------------------
(* OnvifSim. *)
LEMMA OnvifInitTyped == OnvifInit => OnvifTypeOK
  BY DEF OnvifInit, OnvifTypeOK

LEMMA OnvifStepTyped == ASSUME OnvifTypeOK, [OnvifNext]_onvifVars PROVE OnvifTypeOK'
<1> USE DEF OnvifTypeOK, streamVars
<1>1. CASE Startup
  <2>1. CASE StartMediamtx \/ DialSucceeds \/ DialFails \/ StartDone
    BY <2>1 DEF StartMediamtx, DialSucceeds, DialFails, StartDone, Streams
  <2>2. ASSUME NEW p \in Profiles, StartStream(p) PROVE OnvifTypeOK'
    BY <2>2 DEF StartStream
  <2> QED  BY <1>1, <2>1, <2>2 DEF Startup
<1>2. CASE MtxExits \/ CtxKillsMtx \/ Signal
  BY <1>2 DEF MtxExits, CtxKillsMtx, Signal
<1>3. CASE Stopping
  BY <1>3 DEF Stopping, StopStreams, StopMediamtx, Killed
<1>4. ASSUME NEW p \in Profiles, FfExits(p) \/ CtxKills(p) PROVE OnvifTypeOK'
  BY <1>4 DEF FfExits, CtxKills, Killed
<1>5. ASSUME NEW p \in Profiles, Monitor(p) PROVE OnvifTypeOK'
  <2>1. CASE WaitReturned(p)
    BY <2>1 DEF WaitReturned
  <2>2. CASE WakeUp(p)
    BY <2>2 DEF WakeUp
  <2>3. CASE Restart(p) \/ MarkRestarted(p)
    BY <2>3 DEF Restart, MarkRestarted
  <2> QED  BY <1>5, <2>1, <2>2, <2>3 DEF Monitor
<1>6. CASE UNCHANGED onvifVars
  BY <1>6 DEF onvifVars
<1> QED  BY <1>1, <1>2, <1>3, <1>4, <1>5, <1>6 DEF OnvifNext

(* A stop begins when main leaves the service loop, so no start is under way. *)
StopsAtEnd == ctxDone => main \in {"killing", "closing", "closed"}

LEMMA StopsAtEndStep == ASSUME StopsAtEnd, [OnvifNext]_onvifVars PROVE StopsAtEnd'
<1> USE DEF StopsAtEnd
<1>1. CASE Startup
  BY <1>1 DEF Startup, StartMediamtx, DialSucceeds, DialFails, StartDone, StartStream
<1>2. CASE MtxExits \/ CtxKillsMtx \/ Signal \/ Stopping
  BY <1>2 DEF MtxExits, CtxKillsMtx, Signal, Stopping, StopStreams, StopMediamtx
<1>3. CASE \E p \in Profiles : FfExits(p) \/ CtxKills(p) \/ Monitor(p)
  BY <1>3 DEF FfExits, CtxKills, Monitor, WaitReturned, WakeUp, Restart, MarkRestarted
<1>4. CASE UNCHANGED onvifVars
  BY <1>4 DEF onvifVars
<1> QED  BY <1>1, <1>2, <1>3, <1>4 DEF OnvifNext

LEMMA LeftTypes == MainLeft \in Nat /\ \A p \in Profiles : MonitorLeft(p) \in Nat
  BY DEF MainLeft, MonitorLeft

LEMMA MonitorStaysLeft ==
    ASSUME UNCHANGED ffMonitor PROVE \A p \in Profiles : MonitorLeft(p)' = MonitorLeft(p)
  BY DEF MonitorLeft

(* A monitor in the middle of a restart finds the context cancelled. *)
LEMMA MonitorWindsDown ==
    ASSUME OnvifTypeOK, ctxDone, NEW p \in Profiles, Monitor(p)
    PROVE  /\ UNCHANGED <<main, mtx, ff>>
           /\ \A q \in Profiles : MonitorLeft(q)' <= MonitorLeft(q)
           /\ MonitorLeft(p)' < MonitorLeft(p)
<1> USE DEF Monitor, WaitReturned, WakeUp, Restart, MarkRestarted, OnvifTypeOK
<1>1. UNCHANGED <<main, mtx, ff>>
  OBVIOUS
<1>2. \A q \in Profiles \ {p} : ffMonitor'[q] = ffMonitor[q]
  OBVIOUS
<1>3. \A q \in Profiles \ {p} : MonitorLeft(q)' = MonitorLeft(q)
  BY <1>2 DEF MonitorLeft
<1>4. \/ ffMonitor[p] \in {"waiting", "sleeping", "restarting"} /\ ffMonitor'[p] = "gone"
      \/ ffMonitor[p] = "started" /\ ffMonitor'[p] = "waiting"
  OBVIOUS
<1>5. MonitorLeft(p)' < MonitorLeft(p) /\ MonitorLeft(p)' <= MonitorLeft(p)
  BY <1>4 DEF MonitorLeft
<1> QED  BY <1>1, <1>3, <1>5, LeftTypes

LEMMA OnvifWorkStep ==
    ASSUME OnvifTypeOK, StopsAtEnd, [OnvifNext]_onvifVars
    PROVE  [OnvifWork]_onvifVars
<1> SUFFICES ASSUME OnvifNext, ctxDone PROVE NothingStarts /\ SomethingEnds
  BY DEF OnvifWork
<1> USE DEF NothingStarts, SomethingEnds
<1>1. main \in {"killing", "closing", "closed"}
  BY DEF StopsAtEnd
<1>2. CASE Startup \/ Signal
  BY <1>1, <1>2 DEF Startup, StartMediamtx, DialSucceeds, DialFails, StartDone, StartStream, Signal
<1>3. CASE MtxExits \/ CtxKillsMtx
  <2>1. mtx = "running" /\ mtx' = "exited" /\ UNCHANGED <<main, ffMonitor, ff>>
    BY <1>3 DEF MtxExits, CtxKillsMtx, streamVars
  <2>2. MainLeft' = MainLeft
    BY <2>1 DEF MainLeft
  <2> QED  BY <2>1, <2>2, LeftTypes, MonitorStaysLeft
<1>4. CASE Stopping
  <2>1. UNCHANGED ffMonitor /\ (mtx' = "running" => mtx = "running")
        /\ \A p \in Profiles : ff'[p] => ff[p]
    BY <1>4 DEF Stopping, StopStreams, StopMediamtx, Killed, streamVars
  <2>2. \/ main = "killing" /\ main' = "closing"
        \/ main = "closing" /\ main' = "closed"
    BY <1>4 DEF Stopping, StopStreams, StopMediamtx
  <2>3. MainLeft' < MainLeft /\ MainLeft' <= MainLeft
    BY <2>2 DEF MainLeft
  <2> QED  BY <2>1, <2>3, LeftTypes, MonitorStaysLeft
<1>5. ASSUME NEW p \in Profiles, FfExits(p) \/ CtxKills(p) PROVE NothingStarts /\ SomethingEnds
  <2>1. /\ UNCHANGED <<main, mtx, ffMonitor>> /\ ff[p] /\ ~ff'[p]
        /\ \A q \in Profiles : ff'[q] => ff[q]
    BY <1>5 DEF FfExits, CtxKills, Killed, OnvifTypeOK
  <2>2. MainLeft' = MainLeft
    BY <2>1 DEF MainLeft
  <2> QED  BY <2>1, <2>2, LeftTypes, MonitorStaysLeft
<1>6. ASSUME NEW p \in Profiles, Monitor(p) PROVE NothingStarts /\ SomethingEnds
  <2>1. /\ UNCHANGED <<main, mtx, ff>>
        /\ \A q \in Profiles : MonitorLeft(q)' <= MonitorLeft(q)
        /\ MonitorLeft(p)' < MonitorLeft(p)
    BY <1>6, MonitorWindsDown
  <2>2. MainLeft' = MainLeft
    BY <2>1 DEF MainLeft
  <2> QED  BY <2>1, <2>2, LeftTypes
<1> QED  BY <1>2, <1>3, <1>4, <1>5, <1>6 DEF OnvifNext

LEMMA StopsAtEndInit == OnvifInit => StopsAtEnd
  BY DEF OnvifInit, StopsAtEnd

(* For any set of streams: once a stop has begun no step, a monitor's in the middle of
   a restart included, brings a child to life, and each brings one of the children, the
   monitors or main to its end (rtsp.go:254-278, 395-446). *)
THEOREM StopOnlyEndsThings == OnvifSpec => StopOnlyEnds
<1>1. OnvifTypeOK /\ StopsAtEnd /\ [OnvifNext]_onvifVars
      => OnvifTypeOK' /\ StopsAtEnd' /\ [OnvifWork]_onvifVars
  BY OnvifStepTyped, StopsAtEndStep, OnvifWorkStep
<1>2. OnvifInit => OnvifTypeOK /\ StopsAtEnd
  BY OnvifInitTyped, StopsAtEndInit
<1> QED  BY <1>1, <1>2, PTL DEF OnvifSpec, StopOnlyEnds

-----------------------------------------------------------------------------
(* LlamaControl. A server only runs while systemd wants it to; and the steps of a
   call are those of what was asked, so that Stop as a part of Restart is known by
   its name. *)
RunsWhenWanted == llama # "none" => unit

OpOfStep ==
    \A c \in ProcCalls :
        /\ callPc[c] \in {"start", "started"} => callOp[c] \in {"start", "restart"}
        /\ callPc[c] \in {"stop", "stopped"} => callOp[c] \in {"stop", "restart"}
        /\ callPc[c] \in {"restart", "restarted", "pause"} => callOp[c] = "restart"
        /\ callPc[c] = "kill" => callOp[c] \in {"stop", "restart", "kill"}

LlamaInv == LlamaTypeOK /\ RunsWhenWanted /\ OpOfStep /\ StartedIsActive

LEMMA LlamaInitInv == LlamaInit => LlamaInv
  BY DEF LlamaInit, LlamaInv, LlamaTypeOK, RunsWhenWanted, OpOfStep, StartedIsActive

LEMMA ServerStepInv == ASSUME LlamaInv, LlamaAppears \/ LlamaChanges PROVE LlamaInv'
  BY DEF LlamaInv, LlamaTypeOK, RunsWhenWanted, OpOfStep, StartedIsActive, LlamaAppears, LlamaChanges

(* A call that goes on without a command of systemd. *)
LEMMA QuietStepInv ==
    ASSUME LlamaInv, NEW c \in ProcCalls,
           \/ ProcRequest(c) \/ ProcAnswer(c) \/ StartLooks(c) \/ StopLooks(c)
           \/ RestartLooks(c) \/ RestartStarts(c) \/ KillProcesses(c)
    PROVE  LlamaInv'
<1> USE DEF ProcRequest, ProcAnswer, StartLooks, StopLooks, RestartLooks, RestartStarts,
            KillProcesses, Goto, IsRunning, AfterStop, ProcOps
<1>1. LlamaTypeOK'
  BY DEF LlamaInv, LlamaTypeOK
<1>2. RunsWhenWanted'
  BY DEF LlamaInv, RunsWhenWanted
<1>3. OpOfStep'
  BY DEF LlamaInv, LlamaTypeOK, OpOfStep
<1>4. StartedIsActive'
  BY DEF LlamaInv, LlamaTypeOK, RunsWhenWanted, OpOfStep, StartedIsActive
<1> QED  BY <1>1, <1>2, <1>3, <1>4 DEF LlamaInv

(* A command of systemd: a stop, of whichever call, marks the other ones. *)
LEMMA CommandInv ==
    ASSUME LlamaInv, NEW c \in ProcCalls, StartCommand(c) \/ StopCommand(c) \/ RestartCommand(c)
    PROVE  LlamaInv'
<1> USE DEF StartCommand, StopCommand, RestartCommand, Systemctl, Goto, AfterStop, ProcOps
<1>1. LlamaTypeOK'
  BY DEF LlamaInv, LlamaTypeOK
<1>2. RunsWhenWanted'
  BY DEF LlamaInv, RunsWhenWanted
<1>3. OpOfStep'
  BY DEF LlamaInv, LlamaTypeOK, OpOfStep
<1>4. StartedIsActive'
  BY DEF LlamaInv, LlamaTypeOK, RunsWhenWanted, OpOfStep, StartedIsActive
<1> QED  BY <1>1, <1>2, <1>3, <1>4 DEF LlamaInv

LEMMA LlamaStepInv == LlamaInv /\ [LlamaNext]_llamaVars => LlamaInv'
<1>1. ASSUME LlamaInv, UNCHANGED llamaVars PROVE LlamaInv'
  BY <1>1 DEF llamaVars, LlamaInv, LlamaTypeOK, RunsWhenWanted, OpOfStep, StartedIsActive
<1> QED  BY <1>1, ServerStepInv, QuietStepInv, CommandInv DEF LlamaNext, ProcStep

(* For any number of concurrent calls: a start or a restart that was done, and that no
   other call undid, leaves the unit active (process_manager.go:128-148). *)
THEOREM StartIsKept == LlamaSpec => []StartedIsActive
<1>1. LlamaInv => StartedIsActive
  BY DEF LlamaInv
<1> QED  BY <1>1, LlamaInitInv, LlamaStepInv, PTL DEF LlamaSpec

-----------------------------------------------------------------------------
(* AgentHealth. *)
LEMMA AgentInitTyped == HealthInit => HealthTypeOK
  BY DEF HealthInit, HealthTypeOK, Off, Services, ServerStates, Findings

LEMMA AgentStepTyped == ASSUME HealthTypeOK, [HealthNext]_healthVars PROVE HealthTypeOK'
<1> USE DEF HealthTypeOK, Services, ServerStates, Findings
<1>1. ASSUME NEW s \in Services, ServerChanges(s) PROVE HealthTypeOK'
  BY <1>1 DEF ServerChanges
<1>2. CASE Beat
  BY <1>2, AgentHealthAssumption
     DEF AgentHealthAssumption, Beat, BeatFindsLlama, BeatAsksLlama, BeatAsksYolo, BeatStores, Off, Found
<1>3. CASE CheckLlamaProcess \/ CheckEnds
  BY <1>3, AgentHealthAssumption
     DEF AgentHealthAssumption, CheckLlamaProcess, CheckEnds, CheckLlamaAnswers, CheckYolo,
         CheckAnswers, Off, Found, RunningProcess, HealthStatus
<1>4. ASSUME NEW h \in YoloProbes, YoloAsk(h) \/ ProbeEnds(h) PROVE HealthTypeOK'
  BY <1>4 DEF YoloAsk, ProbeEnds, YoloStore, YoloDetect, YoloAnswer
<1>5. CASE UNCHANGED healthVars
  BY <1>5 DEF healthVars
<1> QED  BY <1>1, <1>2, <1>3, <1>4, <1>5 DEF HealthNext

(* Once the flag of YOLOService is right it is kept, for any number of handlers: no
   answer that is still on its way to be stored says the opposite, and none that
   does is got before yolo-server changes (yolo_service.go:39-118). *)
THEOREM FlagIsStable == HealthSpec => FlagLasts
<1>1. HealthTypeOK /\ [HealthNext]_healthVars => FlagKept
  <2> SUFFICES ASSUME HealthTypeOK, [HealthNext]_healthVars PROVE FlagKept
    OBVIOUS
  <2> USE DEF HealthTypeOK, FlagKept, DownIsKnown, UpIsKnown, Services
  <2>1. CASE UNCHANGED healthVars
    BY <2>1 DEF healthVars
  <2>2. ASSUME NEW s \in Services, ServerChanges(s) PROVE FlagKept
    BY <2>2 DEF ServerChanges
  <2>3. CASE Beat
    BY <2>3 DEF Beat, BeatFindsLlama, BeatAsksLlama, BeatAsksYolo, BeatStores, Off, Found
  <2>4. CASE CheckLlamaProcess \/ CheckEnds
    <3>1. CASE CheckLlamaProcess \/ CheckLlamaAnswers
      BY <3>1 DEF CheckLlamaProcess, CheckLlamaAnswers, Off
    <3>2. CASE CheckYolo
      <4>1. /\ seen'["yolo"] = "answers" => server["yolo"] = "up"
            /\ YoloEnabled /\ server["yolo"] = "up" => seen'["yolo"] = "answers"
        BY <3>2 DEF CheckYolo, RunningProcess, Found
      <4> QED  BY <3>2, <4>1 DEF CheckYolo
    <3>3. CASE CheckAnswers
      <4>1. /\ seen["yolo"] # "answers" /\ ~yoloFlag => ~yoloFlag'
            /\ seen["yolo"] # "silent" /\ yoloFlag => yoloFlag'
        BY <3>3 DEF CheckAnswers, Findings
      <4>2. /\ seen'["yolo"] = "off" /\ check = "store" /\ check' = "idle"
            /\ UNCHANGED <<server, probe, beat, heard>>
        BY <3>3 DEF CheckAnswers, Off
      <4> QED  BY <4>1, <4>2
    <3> QED  BY <2>4, <3>1, <3>2, <3>3 DEF CheckEnds
  <2>5. ASSUME NEW h \in YoloProbes, YoloAsk(h) \/ ProbeEnds(h) PROVE FlagKept
    BY <2>5 DEF YoloAsk, ProbeEnds, YoloStore, YoloDetect, YoloAnswer
  <2> QED  BY <2>1, <2>2, <2>3, <2>4, <2>5 DEF HealthNext
<1> QED  BY <1>1, AgentInitTyped, AgentStepTyped, PTL DEF HealthSpec, FlagLasts

-----------------------------------------------------------------------------
(* YoloServer. A request that waits for the pipeline is in exactly one place: a
   queue, a preprocessing thread or the inference thread. Without this an answer
   could be given for a request that still lies in a queue. *)
NoDuplicate(q) == \A i, j \in 1..Len(q) : q[i] = q[j] => i = j
InThread == {pre[p] : p \in PreThreads} \cap Detections

QueuesApart ==
    /\ NoDuplicate(preQueue) /\ NoDuplicate(inferQueue)
    /\ Queued(preQueue) \cap Queued(inferQueue) = {}
ThreadsApart ==
    \A p \in PreThreads : pre[p] \in Detections =>
        /\ pre[p] \notin Queued(preQueue) /\ pre[p] \notin Queued(inferQueue)
        /\ \A q \in PreThreads : pre[q] = pre[p] => q = p
InferenceApart ==
    inferring \in Detections =>
        inferring \notin Queued(preQueue) \cup Queued(inferQueue) \cup InThread
AllAsked ==
    /\ \A r \in Queued(preQueue) \cup Queued(inferQueue) \cup InThread : det[r] = "asked"
    /\ inferring \in Detections => det[inferring] = "asked"

(* Before the first connection is accepted, and once the HTTP threads are joined. *)
Serving == {"accept", "enqueue", "stopping", "stuck"}
QuietOutside ==
    srv \notin Serving =>
        \A r \in Detections : \/ det[r] \in {"idle", "done"}
                              \/ srv = "crashed" /\ det[r] = "accepted"

OnePlace == QueuesApart /\ ThreadsApart /\ InferenceApart /\ AllAsked
ServerInv == YoloServerTypeOK /\ OnePlace /\ QuietOutside

(* What is in a queue after Append and Tail. *)
LEMMA QueuedAppend ==
    ASSUME NEW S, NEW q \in Seq(S), NEW x \in S
    PROVE  /\ Append(q, x) \in Seq(S)
           /\ Queued(Append(q, x)) = Queued(q) \cup {x}
           /\ NoDuplicate(q) /\ x \notin Queued(q) => NoDuplicate(Append(q, x))
<1>1. /\ Append(q, x) \in Seq(S) /\ Len(Append(q, x)) = Len(q) + 1 /\ Len(q) \in Nat
      /\ \A i \in 1..Len(q) : Append(q, x)[i] = q[i]
      /\ Append(q, x)[Len(q) + 1] = x
  OBVIOUS
<1> DEFINE a == Append(q, x)
<1> HIDE DEF a
<1>2. a \in Seq(S) /\ Len(a) = Len(q) + 1 /\ (\A i \in 1..Len(q) : a[i] = q[i]) /\ a[Len(q) + 1] = x
  BY <1>1 DEF a
<1>3. 1..Len(a) = (1..Len(q)) \cup {Len(q) + 1}
  BY <1>1, <1>2
<1>4. Queued(a) = Queued(q) \cup {x}
  BY <1>2, <1>3 DEF Queued
<1>5. ASSUME NoDuplicate(q), x \notin Queued(q) PROVE NoDuplicate(a)
  <2> SUFFICES ASSUME NEW i \in 1..Len(a), NEW j \in 1..Len(a), a[i] = a[j] PROVE i = j
    BY DEF NoDuplicate
  <2>1. CASE i \in 1..Len(q) /\ j \in 1..Len(q)
    BY <1>2, <1>5, <2>1 DEF NoDuplicate
  <2>2. CASE i \in 1..Len(q) /\ j = Len(q) + 1
    BY <1>2, <1>5, <2>2 DEF Queued
  <2>3. CASE i = Len(q) + 1 /\ j \in 1..Len(q)
    BY <1>2, <1>5, <2>3 DEF Queued
  <2> QED  BY <1>3, <2>1, <2>2, <2>3
<1> QED  BY <1>2, <1>4, <1>5 DEF a

LEMMA QueuedTail ==
    ASSUME NEW S, NEW q \in Seq(S), q # <<>>
    PROVE  /\ Tail(q) \in Seq(S) /\ Head(q) \in S
           /\ Queued(q) = Queued(Tail(q)) \cup {Head(q)}
           /\ NoDuplicate(q) => NoDuplicate(Tail(q)) /\ Head(q) \notin Queued(Tail(q))
<1> DEFINE t == Tail(q)
<1>1. /\ t \in Seq(S) /\ Len(q) \in Nat /\ Len(q) >= 1 /\ Len(t) = Len(q) - 1
      /\ \A i \in 1..Len(t) : t[i] = q[i + 1]
      /\ Head(q) = q[1] /\ q[1] \in S
  OBVIOUS
<1> HIDE DEF t
<1>2. \A i \in 1..Len(t) : i + 1 \in 1..Len(q)
  BY <1>1
<1>3. \A i \in 1..Len(q) : i = 1 \/ (i - 1 \in 1..Len(t) /\ t[i - 1] = q[i])
  BY <1>1
<1>4. Queued(q) = Queued(t) \cup {q[1]}
  BY <1>1, <1>2, <1>3 DEF Queued
<1>5. ASSUME NoDuplicate(q) PROVE NoDuplicate(t) /\ q[1] \notin Queued(t)
  <2>1. NoDuplicate(t)
    <3> SUFFICES ASSUME NEW i \in 1..Len(t), NEW j \in 1..Len(t), t[i] = t[j] PROVE i = j
      BY DEF NoDuplicate
    <3>1. i + 1 = j + 1
      BY <1>1, <1>2, <1>5 DEF NoDuplicate
    <3> QED  BY <3>1, <1>1
  <2>2. ASSUME NEW i \in 1..Len(t), t[i] = q[1] PROVE FALSE
    <3>1. i + 1 = 1
      BY <1>1, <1>2, <1>5, <2>2 DEF NoDuplicate
    <3> QED  BY <3>1, <1>1
  <2> QED  BY <2>1, <2>2 DEF Queued
<1> QED  BY <1>1, <1>4, <1>5 DEF t

LEMMA QueuedEmpty == Queued(<<>>) = {} /\ NoDuplicate(<<>>)
  BY DEF Queued, NoDuplicate

LEMMA Unqueued == \A q \in Seq(Detections) : Queued(q) = {} => q = <<>>
<1> SUFFICES ASSUME NEW q \in Seq(Detections), q # <<>> PROVE Queued(q) # {}
  OBVIOUS
<1>1. Len(q) \in Nat /\ Len(q) >= 1
  OBVIOUS
<1>2. 1 \in 1..Len(q)
  BY <1>1
<1> QED  BY <1>2 DEF Queued

LEMMA NoStepIsARequest ==
    /\ \A s \in ThreadSteps : s \notin Detections
    /\ "test" \in ThreadSteps /\ "tested" \in ThreadSteps
    /\ "asleep" \in ThreadSteps /\ "gone" \in ThreadSteps
  BY YoloServerAssumption DEF ThreadSteps

(* The server starts without requests and without threads. *)
LEMMA ServerInitInv == YoloServerInit => ServerInv
<1> SUFFICES ASSUME YoloServerInit PROVE ServerInv
  OBVIOUS
<1>1. YoloServerTypeOK
  <2>1. preQueue \in Seq(Detections) /\ inferQueue \in Seq(Detections)
    BY DEF YoloServerInit
  <2>2. locked \in [YoloWorkers -> Detections \cup {Free}]
    BY DEF YoloServerInit
  <2>3. /\ pre \in [PreThreads -> ThreadSteps \cup Detections]
        /\ inferring \in ThreadSteps \cup Detections
    BY NoStepIsARequest DEF YoloServerInit
  <2> QED  BY <2>1, <2>2, <2>3 DEF YoloServerInit, YoloServerTypeOK, RequestSteps
<1>2. OnePlace
  BY NoStepIsARequest, QueuedEmpty
  DEF YoloServerInit, OnePlace, QueuesApart, ThreadsApart, InferenceApart, AllAsked, InThread
<1>3. QuietOutside
  BY DEF YoloServerInit, QuietOutside, Serving
<1> QED  BY <1>1, <1>2, <1>3 DEF ServerInv

(* A step that leaves queues and the requests in the threads alone and moves no
   request that was asked keeps everything in its place. *)
LEMMA PlacesKept ==
    ASSUME OnePlace, UNCHANGED <<preQueue, inferQueue>>,
           \A p \in PreThreads : pre'[p] = pre[p] \/ pre'[p] \notin Detections,
           inferring' = inferring \/ inferring' \notin Detections,
           \A r \in Detections : det[r] = "asked" => det'[r] = "asked",
           preQueue \in Seq(Detections), inferQueue \in Seq(Detections)
    PROVE  OnePlace'
<1>1. Queued(preQueue)' = Queued(preQueue) /\ Queued(inferQueue)' = Queued(inferQueue)
  BY DEF Queued
<1>2. QueuesApart'
  BY <1>1 DEF OnePlace, QueuesApart, NoDuplicate
<1>3. InThread' \subseteq InThread
  BY DEF InThread
<1>4. ThreadsApart'
  BY <1>1 DEF OnePlace, ThreadsApart
<1>5. InferenceApart'
  BY <1>1, <1>3 DEF OnePlace, InferenceApart
<1>6. Queued(preQueue) \subseteq Detections /\ Queued(inferQueue) \subseteq Detections
      /\ InThread \subseteq Detections
  BY DEF Queued, InThread
<1>7. AllAsked'
  BY <1>1, <1>3, <1>6 DEF OnePlace, AllAsked
<1> QED  BY <1>2, <1>4, <1>5, <1>7 DEF OnePlace

(* main: it comes to the accept loop and leaves it without moving a request. *)
LEMMA MainInv ==
    ASSUME ServerInv, LoadModel \/ Listen \/ SignalStop \/ Ending
    PROVE  ServerInv'
<1>1. UNCHANGED <<det, preQueue, inferQueue, mode, tried, locked>>
  BY DEF LoadModel, Listen, SignalStop, Ending, JoinPool, EnqueueCrashes, ClearRunning, NotifyAll, JoinThreads,
         pipeVars, poolVars
<1>2. /\ \A p \in PreThreads : pre'[p] = pre[p] \/ pre'[p] \in ThreadSteps
      /\ inferring' = inferring \/ inferring' \in ThreadSteps
  BY NoStepIsARequest
  DEF LoadModel, Listen, SignalStop, Ending, JoinPool, EnqueueCrashes, ClearRunning, NotifyAll, JoinThreads, pipeVars
<1>3. pre' \in [PreThreads -> ThreadSteps \cup Detections]
  BY NoStepIsARequest
  DEF ServerInv, YoloServerTypeOK, LoadModel, Listen, SignalStop, Ending, JoinPool, EnqueueCrashes, ClearRunning,
      NotifyAll, JoinThreads, pipeVars
<1>4. /\ srv' \in {"load", "bind", "accept", "stopping", "stuck", "closing", "cleared", "joining",
                    "exited", "crashed"}
      /\ running_' \in BOOLEAN
  BY DEF ServerInv, YoloServerTypeOK, LoadModel, Listen, SignalStop, Ending, JoinPool, EnqueueCrashes,
         ClearRunning, NotifyAll, JoinThreads
<1>5. YoloServerTypeOK'
  BY <1>1, <1>2, <1>3, <1>4 DEF ServerInv, YoloServerTypeOK
<1>6. OnePlace'
  BY <1>1, <1>2, NoStepIsARequest, PlacesKept DEF ServerInv, YoloServerTypeOK
<1>7. QuietOutside'
  <2>1. CASE srv \in Serving
    <3>1. \/ srv' \in Serving
          \/ \A r \in Detections : det[r] \in {"idle", "done"}
          \/ srv' = "crashed" /\ \A r \in Detections : det[r] \in {"idle", "accepted", "done"}
      BY <2>1 DEF Serving, LoadModel, Listen, SignalStop, Ending, JoinPool, EnqueueCrashes,
                  ClearRunning, NotifyAll, JoinThreads
    <3> QED  BY <1>1, <3>1 DEF QuietOutside
  <2>2. CASE srv \notin Serving
    <3>1. srv # "crashed"
      BY <2>2 DEF Serving, LoadModel, Listen, SignalStop, Ending, JoinPool, EnqueueCrashes,
                  ClearRunning, NotifyAll, JoinThreads
    <3>2. \A r \in Detections : det[r] \in {"idle", "done"}
      BY <2>2, <3>1 DEF ServerInv, QuietOutside
    <3> QED  BY <1>1, <3>2 DEF QuietOutside
  <2> QED  BY <2>1, <2>2
<1> QED  BY <1>5, <1>6, <1>7 DEF ServerInv

(* A request that is neither asked nor quiet moves on: no other one does. *)
LEMMA MovesKeeps ==
    ASSUME ServerInv, NEW r \in Detections, NEW from, NEW to, Moves(r, from, to),
           to \in RequestSteps
    PROVE  /\ det' \in [Detections -> RequestSteps]
           /\ det[r] = from /\ det'[r] = to
           /\ \A s \in Detections \ {r} : det'[s] = det[s]
  BY DEF ServerInv, YoloServerTypeOK, Moves

LEMMA QuietKept ==
    ASSUME ServerInv, srv' = srv, NEW r \in Detections, NEW from, NEW to, Moves(r, from, to),
           from \notin {"idle", "accepted", "done"}
    PROVE  QuietOutside'
  BY DEF ServerInv, QuietOutside, Moves

(* main takes a connection and puts it into the queue of the HTTP threads. *)
LEMMA ConnectionInv ==
    ASSUME ServerInv, NEW r \in Detections, Accept(r) \/ EnqueueConnection(r)
    PROVE  ServerInv'
<1>1. /\ UNCHANGED <<mode, running_, preQueue, pre, inferQueue, inferring, tried, locked>>
      /\ srv' \in {"accept", "enqueue"}
      /\ Moves(r, "idle", "accepted") \/ Moves(r, "accepted", "pooled")
  BY DEF Accept, EnqueueConnection, pipeVars, poolVars
<1>2. /\ det' \in [Detections -> RequestSteps]
      /\ \A s \in Detections : det[s] = "asked" => det'[s] = "asked"
  BY <1>1, MovesKeeps DEF RequestSteps
<1>3. YoloServerTypeOK'
  BY <1>1, <1>2 DEF ServerInv, YoloServerTypeOK
<1>4. OnePlace'
  BY <1>1, <1>2, PlacesKept DEF ServerInv, YoloServerTypeOK
<1>5. QuietOutside'
  BY <1>1 DEF QuietOutside, Serving
<1> QED  BY <1>3, <1>4, <1>5 DEF ServerInv

(* The HTTP threads outside the pipeline: requests, answers and the pool of workers. *)
LEMMA HttpInv ==
    ASSUME ServerInv, NEW r \in Detections,
           \/ TakeConnection(r) \/ ClientSends(r) \/ Respond(r) \/ LockWorker(r) \/ Detect(r)
           \/ \E w \in YoloWorkers : TryWorker(r, w) \/ WaitForWorker(r, w)
    PROVE  ServerInv'
<1>1. UNCHANGED <<srv, mode, running_, preQueue, pre, inferQueue, inferring>>
  BY DEF TakeConnection, ClientSends, Respond, LockWorker, Detect, TryWorker, WaitForWorker, pipeVars
<1>2. \/ Moves(r, "pooled", "reading") \/ Moves(r, "reading", "asking")
      \/ Moves(r, "reading", "done") \/ Moves(r, "answered", "done") \/ Moves(r, "asking", "holding")
      \/ Moves(r, "asking", "locking") \/ Moves(r, "locking", "holding")
      \/ Moves(r, "holding", "answered") \/ UNCHANGED det
  BY DEF TakeConnection, ClientSends, Respond, LockWorker, Detect, TryWorker, WaitForWorker
<1>3. tried' \in [Detections -> SUBSET YoloWorkers]
  BY DEF ServerInv, YoloServerTypeOK, TakeConnection, ClientSends, Respond, LockWorker, Detect,
         TryWorker, WaitForWorker, poolVars
<1>4. locked' \in [YoloWorkers -> Detections \cup {Free}]
  <2>1. locked \in [YoloWorkers -> Detections \cup {Free}]
    BY DEF ServerInv, YoloServerTypeOK
  <2>2. CASE UNCHANGED locked
    BY <2>1, <2>2
  <2>3. CASE Detect(r)
    BY <2>1, <2>3 DEF Detect
  <2>4. CASE LockWorker(r) \/ \E w \in YoloWorkers : TryWorker(r, w)
    BY <2>1, <2>4 DEF LockWorker, TryWorker
  <2> QED  BY <2>2, <2>3, <2>4 DEF TakeConnection, ClientSends, Respond, WaitForWorker, poolVars
<1>5. /\ det' \in [Detections -> RequestSteps]
      /\ \A s \in Detections : det[s] = "asked" => det'[s] = "asked"
  BY <1>2, MovesKeeps DEF RequestSteps, HandlerSteps, ServerInv, YoloServerTypeOK
<1>6. YoloServerTypeOK'
  BY <1>1, <1>3, <1>4, <1>5 DEF ServerInv, YoloServerTypeOK
<1>7. OnePlace'
  BY <1>1, <1>5, PlacesKept DEF ServerInv, YoloServerTypeOK
<1>8. QuietOutside'
  <2>1. CASE UNCHANGED det
    BY <1>1, <2>1 DEF ServerInv, QuietOutside
  <2> QED  BY <1>1, <1>2, <2>1, QuietKept
<1> QED  BY <1>6, <1>7, <1>8 DEF ServerInv

(* What the types say of the queues. *)
LEMMA QueueTypes ==
    ASSUME ServerInv
    PROVE  /\ preQueue \in Seq(Detections) /\ inferQueue \in Seq(Detections)
           /\ Queued(preQueue) \subseteq Detections /\ Queued(inferQueue) \subseteq Detections
           /\ pre \in [PreThreads -> ThreadSteps \cup Detections]
           /\ inferring \in ThreadSteps \cup Detections
  BY DEF ServerInv, YoloServerTypeOK, Queued

LEMMA WakePreThreadTyped ==
    ASSUME ServerInv, WakePreThread
    PROVE  /\ pre' \in [PreThreads -> ThreadSteps \cup Detections]
           /\ \A p \in PreThreads : pre'[p] = pre[p] \/ pre'[p] \notin Detections
  BY NoStepIsARequest DEF ServerInv, YoloServerTypeOK, WakePreThread

(* detect_async: the new request is in no other place, because it was not asked. *)
LEMMA DetectAsyncInv ==
    ASSUME ServerInv, NEW r \in Detections, DetectAsync(r)
    PROVE  ServerInv'
<1>1. det[r] = "asking" /\ UNCHANGED <<srv, mode, inferQueue, inferring, running_, tried, locked>>
  BY DEF DetectAsync, poolVars
<1>2. CASE UNCHANGED <<preQueue, pre>> /\ \E to \in {"answered", "full"} : Moves(r, "asking", to)
  <2>1. /\ det' \in [Detections -> RequestSteps]
        /\ \A s \in Detections : det[s] = "asked" => det'[s] = "asked"
    BY <1>2, MovesKeeps DEF RequestSteps, HandlerSteps
  <2>2. YoloServerTypeOK'
    BY <1>1, <1>2, <2>1 DEF ServerInv, YoloServerTypeOK
  <2>3. OnePlace'
    BY <1>1, <1>2, <2>1, QueueTypes, PlacesKept DEF ServerInv
  <2>4. QuietOutside'
    BY <1>1, <1>2, QuietKept
  <2> QED  BY <2>2, <2>3, <2>4 DEF ServerInv
<1>3. CASE Moves(r, "asking", "asked") /\ preQueue' = Append(preQueue, r) /\ WakePreThread
  <2>1. /\ det' \in [Detections -> RequestSteps]
        /\ det'[r] = "asked" /\ \A s \in Detections : det[s] = "asked" => det'[s] = "asked"
    BY <1>3, MovesKeeps DEF RequestSteps, HandlerSteps
  <2>2. /\ pre' \in [PreThreads -> ThreadSteps \cup Detections]
        /\ \A p \in PreThreads : pre'[p] = pre[p] \/ pre'[p] \notin Detections
    BY <1>3, WakePreThreadTyped
  <2>3. r \notin Queued(preQueue) \cup Queued(inferQueue) \cup InThread /\ r # inferring
    BY <1>1 DEF ServerInv, OnePlace, AllAsked
  <2>4. /\ preQueue' \in Seq(Detections) /\ NoDuplicate(preQueue)'
        /\ Queued(preQueue)' = Queued(preQueue) \cup {r}
    <3>1. NoDuplicate(preQueue) /\ r \notin Queued(preQueue)
      BY <2>3 DEF ServerInv, OnePlace, QueuesApart
    <3>2. /\ Append(preQueue, r) \in Seq(Detections) /\ NoDuplicate(Append(preQueue, r))
          /\ Queued(Append(preQueue, r)) = Queued(preQueue) \cup {r}
      BY <3>1, QueueTypes, QueuedAppend
    <3> QED  BY <1>3, <3>2 DEF Queued, NoDuplicate
  <2>5. Queued(inferQueue)' = Queued(inferQueue) /\ NoDuplicate(inferQueue)' /\ InThread' \subseteq InThread
    BY <1>1, <2>2 DEF ServerInv, OnePlace, QueuesApart, Queued, NoDuplicate, InThread
  <2>6. YoloServerTypeOK'
    BY <1>1, <2>1, <2>2, <2>4 DEF ServerInv, YoloServerTypeOK
  <2>7. QueuesApart'
    BY <2>3, <2>4, <2>5 DEF ServerInv, OnePlace, QueuesApart
  <2>8. ThreadsApart'
    BY <2>2, <2>3, <2>4, <2>5 DEF ServerInv, OnePlace, ThreadsApart, InThread
  <2>9. InferenceApart'
    BY <1>1, <2>3, <2>4, <2>5 DEF ServerInv, OnePlace, InferenceApart
  <2>10. AllAsked'
    BY <1>1, <2>1, <2>4, <2>5, QueueTypes DEF ServerInv, OnePlace, AllAsked, InThread
  <2>11. QuietOutside'
    BY <1>1, <1>3, QuietKept
  <2> QED  BY <2>6, <2>7, <2>8, <2>9, <2>10, <2>11 DEF ServerInv, OnePlace
<1> QED  BY <1>2, <1>3 DEF DetectAsync

(* A thread that sleeps or wakes, and a handler that is told of space, move no request. *)
LEMMA WakeHandlerKeeps ==
    ASSUME ServerInv, WakeHandler, srv' = srv
    PROVE  /\ det' \in [Detections -> RequestSteps]
           /\ \A s \in Detections : det[s] = "asked" => det'[s] = "asked"
           /\ QuietOutside'
<1>1. CASE UNCHANGED det
  BY <1>1 DEF ServerInv, YoloServerTypeOK, QuietOutside
<1>2. CASE \E r \in Detections : Moves(r, "full", "asking")
  BY <1>2, MovesKeeps, QuietKept DEF RequestSteps, HandlerSteps
<1> QED  BY <1>1, <1>2 DEF WakeHandler

(* The head of the first queue goes to the thread that takes it. *)
LEMMA PreTakesInv ==
    ASSUME ServerInv, NEW p \in PreThreads, PreTakes(p)
    PROVE  ServerInv'
<1>1. pre[p] = "test" /\ UNCHANGED <<srv, mode, inferQueue, inferring, running_, tried, locked>>
  BY DEF PreTakes, poolVars
<1>2. CASE preQueue # <<>> /\ WakeHandler /\ preQueue' = Tail(preQueue)
           /\ pre' = [pre EXCEPT ![p] = Head(preQueue)]
  <2> DEFINE r == Head(preQueue)
  <2>1. /\ det' \in [Detections -> RequestSteps]
        /\ \A s \in Detections : det[s] = "asked" => det'[s] = "asked"
        /\ QuietOutside'
    BY <1>1, <1>2, WakeHandlerKeeps
  <2>2. NoDuplicate(preQueue) /\ preQueue \in Seq(Detections)
    BY QueueTypes DEF ServerInv, OnePlace, QueuesApart
  <2>3. /\ Tail(preQueue) \in Seq(Detections) /\ r \in Detections
        /\ Queued(preQueue) = Queued(Tail(preQueue)) \cup {r}
        /\ NoDuplicate(Tail(preQueue)) /\ r \notin Queued(Tail(preQueue))
    BY <1>2, <2>2, QueuedTail
  <2> HIDE DEF r
  <2>4. /\ preQueue' \in Seq(Detections) /\ NoDuplicate(preQueue)'
        /\ Queued(preQueue) = Queued(preQueue)' \cup {r} /\ r \notin Queued(preQueue)'
    BY <1>2, <2>3 DEF NoDuplicate, Queued
  <2>5. Queued(inferQueue)' = Queued(inferQueue) /\ NoDuplicate(inferQueue)'
    BY <1>1 DEF ServerInv, OnePlace, QueuesApart, Queued, NoDuplicate
  <2>6. /\ pre' \in [PreThreads -> ThreadSteps \cup Detections] /\ pre'[p] = r
        /\ \A q \in PreThreads \ {p} : pre'[q] = pre[q]
    BY <1>2, <2>3, QueueTypes DEF r
  <2>7. InThread' \subseteq InThread \cup {r}
    BY <2>6 DEF InThread
  <2>8. YoloServerTypeOK'
    BY <1>1, <2>1, <2>4, <2>6 DEF ServerInv, YoloServerTypeOK
  <2>9. QueuesApart'
    BY <2>4, <2>5 DEF ServerInv, OnePlace, QueuesApart
  <2>10. ThreadsApart'
    <3>1. r \notin Queued(inferQueue) /\ \A q \in PreThreads : pre[q] # r
      BY <2>3 DEF ServerInv, OnePlace, QueuesApart, ThreadsApart
    <3> QED  BY <2>4, <2>5, <2>6, <3>1 DEF ServerInv, OnePlace, ThreadsApart
  <2>11. InferenceApart'
    BY <1>1, <2>3, <2>4, <2>5, <2>7 DEF ServerInv, OnePlace, InferenceApart
  <2>12. AllAsked'
    BY <1>1, <2>1, <2>3, <2>4, <2>5, <2>7, QueueTypes DEF ServerInv, OnePlace, AllAsked, InThread
  <2> QED  BY <2>1, <2>8, <2>9, <2>10, <2>11, <2>12 DEF ServerInv, OnePlace
<1>3. CASE UNCHANGED <<preQueue, det>> /\ \E s \in {"tested", "gone"} : pre' = [pre EXCEPT ![p] = s]
  <2>1. /\ pre' \in [PreThreads -> ThreadSteps \cup Detections]
        /\ \A q \in PreThreads : pre'[q] = pre[q] \/ pre'[q] \notin Detections
    BY <1>3, QueueTypes, NoStepIsARequest
  <2>2. YoloServerTypeOK'
    BY <1>1, <1>3, <2>1 DEF ServerInv, YoloServerTypeOK
  <2>3. OnePlace'
    BY <1>1, <1>3, <2>1, QueueTypes, PlacesKept DEF ServerInv
  <2> QED  BY <1>1, <1>3, <2>2, <2>3 DEF ServerInv, QuietOutside
<1> QED  BY <1>2, <1>3 DEF PreTakes

(* A preprocessed request goes from its thread to the second queue. *)
LEMMA PreprocessInv ==
    ASSUME ServerInv, NEW p \in PreThreads, Preprocess(p)
    PROVE  ServerInv'
<1> DEFINE r == pre[p]
<1>1. /\ r \in Detections
      /\ UNCHANGED <<srv, mode, det, preQueue, running_, tried, locked>>
      /\ inferQueue' = Append(inferQueue, r) /\ pre' = [pre EXCEPT ![p] = "test"]
      /\ inferring' = inferring \/ inferring' = "test"
  BY DEF Preprocess, poolVars
<1>2. /\ r \notin Queued(preQueue) /\ r \notin Queued(inferQueue) /\ r \in InThread
      /\ \A q \in PreThreads : pre[q] = r => q = p
  BY <1>1 DEF ServerInv, OnePlace, ThreadsApart, InThread
<1>3. /\ inferQueue' \in Seq(Detections) /\ NoDuplicate(inferQueue)'
      /\ Queued(inferQueue)' = Queued(inferQueue) \cup {r}
  <2>1. NoDuplicate(inferQueue)
    BY DEF ServerInv, OnePlace, QueuesApart
  <2>2. /\ Append(inferQueue, r) \in Seq(Detections) /\ NoDuplicate(Append(inferQueue, r))
        /\ Queued(Append(inferQueue, r)) = Queued(inferQueue) \cup {r}
    BY <1>1, <1>2, <2>1, QueueTypes, QueuedAppend
  <2> QED  BY <1>1, <2>2 DEF Queued, NoDuplicate
<1>4. /\ pre' \in [PreThreads -> ThreadSteps \cup Detections] /\ pre'[p] \notin Detections
      /\ \A q \in PreThreads \ {p} : pre'[q] = pre[q]
  BY <1>1, QueueTypes, NoStepIsARequest
<1>5. Queued(preQueue)' = Queued(preQueue) /\ NoDuplicate(preQueue)'
  BY <1>1 DEF ServerInv, OnePlace, QueuesApart, Queued, NoDuplicate
<1>6. inferring' \in ThreadSteps \cup Detections /\ (inferring' = inferring \/ inferring' \notin Detections)
  BY <1>1, QueueTypes, NoStepIsARequest
<1> HIDE DEF r
<1>7. InThread' \subseteq InThread /\ InThread \subseteq Detections
  BY <1>4 DEF InThread
<1>8. YoloServerTypeOK'
  BY <1>1, <1>3, <1>4, <1>6 DEF ServerInv, YoloServerTypeOK
<1>9. QueuesApart'
  BY <1>2, <1>3, <1>5 DEF ServerInv, OnePlace, QueuesApart
<1>10. ThreadsApart'
  BY <1>2, <1>3, <1>4, <1>5 DEF ServerInv, OnePlace, ThreadsApart
<1>11. InferenceApart'
  BY <1>2, <1>3, <1>5, <1>6, <1>7 DEF ServerInv, OnePlace, InferenceApart
<1>12. AllAsked'
  BY <1>1, <1>2, <1>3, <1>5, <1>6, <1>7 DEF ServerInv, OnePlace, AllAsked
<1>13. QuietOutside'
  BY <1>1 DEF ServerInv, QuietOutside
<1> QED  BY <1>8, <1>9, <1>10, <1>11, <1>12, <1>13 DEF ServerInv, OnePlace

(* The head of the second queue goes to the inference thread. *)
LEMMA InferTakesInv ==
    ASSUME ServerInv, InferTakes
    PROVE  ServerInv'
<1>1. inferring = "test" /\ UNCHANGED <<srv, mode, det, preQueue, pre, running_, tried, locked>>
  BY DEF InferTakes, poolVars
<1>2. CASE inferQueue # <<>> /\ inferQueue' = Tail(inferQueue) /\ inferring' = Head(inferQueue)
  <2> DEFINE r == Head(inferQueue)
  <2>1. NoDuplicate(inferQueue)
    BY DEF ServerInv, OnePlace, QueuesApart
  <2>2. /\ Tail(inferQueue) \in Seq(Detections) /\ r \in Detections
        /\ Queued(inferQueue) = Queued(Tail(inferQueue)) \cup {r}
        /\ NoDuplicate(Tail(inferQueue)) /\ r \notin Queued(Tail(inferQueue))
    BY <1>2, <2>1, QueueTypes, QueuedTail
  <2>3. inferring' = r
    BY <1>2
  <2> HIDE DEF r
  <2>4. /\ inferQueue' \in Seq(Detections) /\ NoDuplicate(inferQueue)'
        /\ Queued(inferQueue) = Queued(inferQueue)' \cup {r} /\ r \notin Queued(inferQueue)'
    BY <1>2, <2>2 DEF NoDuplicate, Queued
  <2>5. Queued(preQueue)' = Queued(preQueue) /\ NoDuplicate(preQueue)' /\ InThread' = InThread
    BY <1>1 DEF ServerInv, OnePlace, QueuesApart, Queued, NoDuplicate, InThread
  <2>6. YoloServerTypeOK'
    BY <1>1, <2>2, <2>3, <2>4 DEF ServerInv, YoloServerTypeOK
  <2>7. QueuesApart' /\ ThreadsApart'
    BY <1>1, <2>4, <2>5 DEF ServerInv, OnePlace, QueuesApart, ThreadsApart
  <2>8. r \notin Queued(preQueue) /\ r \notin InThread
    BY <2>2 DEF ServerInv, OnePlace, QueuesApart, ThreadsApart, InThread
  <2>9. InferenceApart'
    BY <2>3, <2>4, <2>5, <2>8 DEF InferenceApart
  <2>10. AllAsked'
    BY <1>1, <2>2, <2>3, <2>4, <2>5 DEF ServerInv, OnePlace, AllAsked
  <2>11. QuietOutside'
    BY <1>1 DEF ServerInv, QuietOutside
  <2> QED  BY <2>6, <2>7, <2>9, <2>10, <2>11 DEF ServerInv, OnePlace
<1>3. CASE UNCHANGED inferQueue /\ inferring' \in {"tested", "gone"}
  <2>1. inferring' \in ThreadSteps /\ inferring' \notin Detections
    BY <1>3, NoStepIsARequest
  <2>2. YoloServerTypeOK'
    BY <1>1, <1>3, <2>1 DEF ServerInv, YoloServerTypeOK
  <2>3. OnePlace'
    BY <1>1, <1>3, <2>1, QueueTypes, PlacesKept DEF ServerInv
  <2> QED  BY <1>1, <2>2, <2>3 DEF ServerInv, QuietOutside
<1> QED  BY <1>2, <1>3 DEF InferTakes

(* A thread goes to sleep. *)
LEMMA SleepsInv ==
    ASSUME ServerInv, InferSleeps \/ \E p \in PreThreads : PreSleeps(p)
    PROVE  ServerInv'
<1>1. UNCHANGED <<srv, mode, det, preQueue, inferQueue, running_, tried, locked>>
  BY DEF InferSleeps, PreSleeps, poolVars
<1>2. /\ pre' \in [PreThreads -> ThreadSteps \cup Detections]
      /\ \A p \in PreThreads : pre'[p] = pre[p] \/ pre'[p] \notin Detections
      /\ inferring' \in ThreadSteps \cup Detections
      /\ inferring' = inferring \/ inferring' \notin Detections
  BY QueueTypes, NoStepIsARequest DEF InferSleeps, PreSleeps
<1>3. YoloServerTypeOK'
  BY <1>1, <1>2 DEF ServerInv, YoloServerTypeOK
<1>4. OnePlace'
  BY <1>1, <1>2, QueueTypes, PlacesKept DEF ServerInv
<1> QED  BY <1>1, <1>3, <1>4 DEF ServerInv, QuietOutside

(* The answered request was in the inference thread, so that it is nowhere now. *)
LEMMA InferInv ==
    ASSUME ServerInv, Infer
    PROVE  ServerInv'
<1> DEFINE r == inferring
<1>1. /\ r \in Detections /\ Moves(r, "asked", "answered") /\ inferring' = "test"
      /\ UNCHANGED <<srv, mode, preQueue, pre, inferQueue, running_, tried, locked>>
  BY DEF Infer, poolVars
<1>2. r \notin Queued(preQueue) \cup Queued(inferQueue) \cup InThread
  BY <1>1 DEF ServerInv, OnePlace, InferenceApart
<1> HIDE DEF r
<1>3. /\ det' \in [Detections -> RequestSteps]
      /\ \A s \in Detections \ {r} : det'[s] = det[s]
  BY <1>1, MovesKeeps DEF RequestSteps, HandlerSteps
<1>4. /\ Queued(preQueue)' = Queued(preQueue) /\ Queued(inferQueue)' = Queued(inferQueue)
      /\ InThread' = InThread /\ InThread \subseteq Detections
  BY <1>1 DEF Queued, InThread
<1>5. inferring' \in ThreadSteps /\ inferring' \notin Detections
  BY <1>1, NoStepIsARequest
<1>6. YoloServerTypeOK'
  BY <1>1, <1>3, <1>5 DEF ServerInv, YoloServerTypeOK
<1>7. QueuesApart' /\ ThreadsApart'
  BY <1>1, <1>4 DEF ServerInv, OnePlace, QueuesApart, ThreadsApart, NoDuplicate
<1>8. InferenceApart' /\ AllAsked'
  BY <1>2, <1>3, <1>4, <1>5, QueueTypes DEF ServerInv, OnePlace, InferenceApart, AllAsked
<1>9. QuietOutside'
  BY <1>1, QuietKept
<1> QED  BY <1>6, <1>7, <1>8, <1>9 DEF ServerInv, OnePlace

LEMMA ServerNextInv == ServerInv /\ [YoloServerNext]_yoloServerVars => ServerInv'
<1> SUFFICES ASSUME ServerInv, [YoloServerNext]_yoloServerVars PROVE ServerInv'
  OBVIOUS
<1>1. CASE LoadModel \/ Listen \/ SignalStop \/ Ending
  BY <1>1, MainInv
<1>2. CASE \E r \in Detections : \/ Accept(r) \/ EnqueueConnection(r)
                                 \/ ClientSends(r) \/ Handler(r)
  BY <1>2, ConnectionInv, HttpInv, DetectAsyncInv DEF Handler
<1>3. CASE \E p \in PreThreads : PreThread(p)
  BY <1>3, PreTakesInv, PreprocessInv, SleepsInv DEF PreThread
<1>4. CASE InferThread
  BY <1>4, InferTakesInv, SleepsInv, InferInv DEF InferThread
<1>5. CASE UNCHANGED yoloServerVars
  <2>1. UNCHANGED <<srv, mode, det, preQueue, pre, inferQueue, inferring, running_, tried, locked>>
    BY <1>5 DEF yoloServerVars, pipeVars, poolVars
  <2>2. YoloServerTypeOK' /\ QuietOutside'
    BY <2>1 DEF ServerInv, YoloServerTypeOK, QuietOutside
  <2>3. OnePlace'
    BY <2>1, QueueTypes, PlacesKept DEF ServerInv
  <2> QED  BY <2>2, <2>3 DEF ServerInv
<1> QED  BY <1>1, <1>2, <1>3, <1>4, <1>5 DEF YoloServerNext, Threads

(* When the detector of yolo-server is destroyed no request uses it, waits for it or
   lies in a queue of it: for any number of requests, HTTP and preprocessing threads
   and workers, in both modes (http_server.cpp:53-64, main.cpp:182-198). *)
THEOREM DetectorOutlives == YoloServerSpec => []DetectorOutlivesRequests
<1>1. ServerInv => DetectorOutlivesRequests
  <2> SUFFICES ASSUME ServerInv, srv \in {"closing", "cleared", "joining", "exited"}
               PROVE  /\ \A r \in Detections : det[r] \in {"idle", "done"}
                      /\ preQueue = <<>> /\ inferQueue = <<>>
    BY DEF DetectorOutlivesRequests
  <2>1. \A r \in Detections : det[r] \in {"idle", "done"}
    BY DEF ServerInv, QuietOutside, Serving
  <2>2. Queued(preQueue) = {} /\ Queued(inferQueue) = {}
    BY <2>1, QueueTypes DEF ServerInv, OnePlace, AllAsked
  <2> QED  BY <2>1, <2>2, QueueTypes, Unqueued
<1> QED  BY <1>1, ServerInitInv, ServerNextInv, PTL DEF YoloServerSpec

(* Why no wake-up of yolo-server is lost. Work in a queue has a thread that is awake:
   a thread that has tested its condition holds the mutex, so that nothing is queued
   before it sleeps and can be notified. What a request waits for is in the hands of
   a thread: the pipeline has each request that was asked, a handler that waits for
   space finds the queue filled or another handler about to fill it, and a lock is
   held by a request that uses its worker. *)
WorkIsNoticed ==
    /\ \A p \in PreThreads : pre[p] = "tested" => preQueue = <<>>
    /\ preQueue # <<>> => \E p \in PreThreads : pre[p] \in {"test"} \cup Detections
    /\ inferQueue # <<>> => inferring \in {"test"} \cup Detections
    /\ running_ => inferring # "gone" /\ \A p \in PreThreads : pre[p] # "gone"
InHands(r) == r \in Queued(preQueue) \cup Queued(inferQueue) \cup InThread \cup {inferring}
SpaceIsUsed == preQueue # <<>> \/ \E s \in Detections : det[s] = "asking"
Awaited ==
    \A r \in Detections : /\ det[r] = "asked" => running_ /\ InHands(r)
                          /\ det[r] = "full" => running_ /\ SpaceIsUsed
                          /\ det[r] = "locking" => tried[r] # {}
LocksAreUsed ==
    /\ \A w \in YoloWorkers : locked[w] # Free => det[locked[w]] = "holding"
    /\ mode = "pipeline" => \A r \in Detections : tried[r] = {}
    /\ running_ => mode = "pipeline"
WakeInv == WorkIsNoticed /\ Awaited /\ LocksAreUsed

LEMMA QuietIsEmpty ==
    ASSUME ServerInv, \A r \in Detections : det[r] # "asked"
    PROVE  preQueue = <<>> /\ inferQueue = <<>>
<1>1. Queued(preQueue) = {} /\ Queued(inferQueue) = {}
  BY QueueTypes DEF ServerInv, OnePlace, AllAsked
<1> QED  BY <1>1, QueueTypes, Unqueued

LEMMA WakeInitInv == YoloServerInit => WakeInv
<1> SUFFICES ASSUME YoloServerInit PROVE WakeInv
  OBVIOUS
<1> USE DEF YoloServerInit
<1>1. WorkIsNoticed
  BY DEF WorkIsNoticed
<1>2. Awaited
  BY DEF Awaited
<1>3. LocksAreUsed
  BY DEF LocksAreUsed
<1> QED  BY <1>1, <1>2, <1>3 DEF WakeInv

(* What the types say of requests and locks. *)
LEMMA RequestTypes ==
    ASSUME ServerInv
    PROVE  /\ det \in [Detections -> RequestSteps]
           /\ tried \in [Detections -> SUBSET YoloWorkers]
           /\ locked \in [YoloWorkers -> Detections \cup {Free}]
           /\ mode \in {"pipeline", "worker_pool"} /\ running_ \in BOOLEAN
           /\ Free \notin Detections
  BY YoloServerAssumption DEF ServerInv, YoloServerTypeOK

(* main wakes every thread and stops none that has work. *)
LEMMA MainWake ==
    ASSUME ServerInv, WakeInv, LoadModel \/ Listen \/ SignalStop \/ Ending
    PROVE  WakeInv'
<1>1. UNCHANGED <<det, preQueue, inferQueue, mode, tried, locked>>
  BY DEF LoadModel, Listen, SignalStop, Ending, JoinPool, EnqueueCrashes, ClearRunning, NotifyAll, JoinThreads,
         pipeVars, poolVars
<1>2. CASE UNCHANGED <<pre, inferring, running_>>
  <2>1. WorkIsNoticed'
    BY <1>1, <1>2 DEF WakeInv, WorkIsNoticed
  <2>2. Awaited'
    BY <1>1, <1>2 DEF WakeInv, Awaited, InHands, SpaceIsUsed, Queued, InThread
  <2>3. LocksAreUsed'
    BY <1>1, <1>2 DEF WakeInv, LocksAreUsed
  <2> QED  BY <2>1, <2>2, <2>3 DEF WakeInv
<1>3. CASE LoadModel \/ ClearRunning \/ NotifyAll
  <2>1. \A r \in Detections : det[r] \in {"idle", "done"}
    BY <1>3 DEF ServerInv, QuietOutside, Serving, LoadModel, ClearRunning, NotifyAll
  <2>2. preQueue = <<>> /\ inferQueue = <<>>
    BY <2>1, QuietIsEmpty
  <2>3. CASE LoadModel /\ ~UNCHANGED <<pre, inferring, running_>>
    <3>1. mode = "pipeline" /\ inferring' = "test" /\ pre' = [p \in PreThreads |-> "test"]
      BY <2>3 DEF LoadModel
    <3>2. WorkIsNoticed'
      BY <1>1, <2>2, <3>1 DEF WorkIsNoticed
    <3>3. Awaited'
      BY <1>1, <2>1 DEF Awaited
    <3>4. LocksAreUsed'
      BY <1>1, <3>1 DEF WakeInv, LocksAreUsed
    <3> QED  BY <3>2, <3>3, <3>4 DEF WakeInv
  <2>4. CASE ClearRunning \/ NotifyAll
    <3>1. /\ running_' => running_
          /\ inferring' = "gone" => inferring = "gone"
          /\ \A p \in PreThreads : pre'[p] = "gone" => pre[p] = "gone"
      BY <2>4, QueueTypes, RequestTypes DEF ClearRunning, NotifyAll, pipeVars
    <3>2. WorkIsNoticed'
      BY <1>1, <2>2, <3>1 DEF WakeInv, WorkIsNoticed
    <3>3. Awaited'
      BY <1>1, <2>1 DEF Awaited
    <3>4. LocksAreUsed'
      BY <1>1, <3>1 DEF WakeInv, LocksAreUsed
    <3> QED  BY <3>2, <3>3, <3>4 DEF WakeInv
  <2> QED  BY <1>2, <1>3, <2>3, <2>4
<1>4. CASE EnqueueCrashes
  <2>1. ~running_' /\ \A r \in Detections : det[r] \in {"idle", "accepted", "done"}
    BY <1>4 DEF EnqueueCrashes
  <2>2. preQueue = <<>> /\ inferQueue = <<>>
    BY <2>1, QuietIsEmpty
  <2>3. WorkIsNoticed'
    BY <1>1, <2>1, <2>2 DEF WorkIsNoticed
  <2>4. Awaited'
    BY <1>1, <2>1 DEF Awaited
  <2>5. LocksAreUsed'
    BY <1>1, <2>1 DEF WakeInv, LocksAreUsed
  <2> QED  BY <2>3, <2>4, <2>5 DEF WakeInv
<1> QED  BY <1>2, <1>3, <1>4 DEF Listen, SignalStop, Ending, JoinPool, JoinThreads, pipeVars

(* A step of the HTTP threads: the pipeline does not see it. *)
LEMMA SameWork ==
    ASSUME WakeInv, UNCHANGED <<preQueue, pre, inferQueue, inferring, running_>>
    PROVE  /\ WorkIsNoticed'
           /\ \A r \in Detections : InHands(r) => InHands(r)'
  BY DEF WakeInv, WorkIsNoticed, InHands, Queued, InThread

LEMMA ConnectionWake ==
    ASSUME ServerInv, WakeInv, NEW r \in Detections,
           \/ Accept(r) \/ EnqueueConnection(r)
           \/ TakeConnection(r) \/ ClientSends(r) \/ Respond(r)
    PROVE  WakeInv'
<1>1. UNCHANGED <<mode, running_, preQueue, pre, inferQueue, inferring, tried, locked>>
  BY DEF Accept, EnqueueConnection, TakeConnection, ClientSends, Respond, pipeVars, poolVars
<1>2. \E from, to \in {"idle", "accepted", "pooled", "reading", "asking", "answered", "done"} :
        Moves(r, from, to) /\ from # "asking"
  BY DEF Accept, EnqueueConnection, TakeConnection, ClientSends, Respond
<1>3. \A s \in Detections : \/ det'[s] = det[s]
                            \/ /\ det[s] \in {"idle", "accepted", "pooled", "reading", "answered", "done"}
                               /\ det'[s] \in {"idle", "accepted", "pooled", "reading", "asking",
                                               "answered", "done"}
  BY <1>2, RequestTypes DEF Moves
<1>4. WorkIsNoticed' /\ \A s \in Detections : InHands(s) => InHands(s)'
  BY <1>1, SameWork
<1>5. SpaceIsUsed => SpaceIsUsed'
  BY <1>1, <1>3 DEF SpaceIsUsed
<1>6. Awaited'
  BY <1>1, <1>3, <1>4, <1>5 DEF WakeInv, Awaited
<1>7. LocksAreUsed'
  BY <1>1, <1>3, RequestTypes DEF WakeInv, LocksAreUsed
<1> QED  BY <1>4, <1>6, <1>7 DEF WakeInv

(* Workers: in the mode of the pipeline nobody looks for one. *)
LEMMA WorkerWake ==
    ASSUME ServerInv, WakeInv, NEW r \in Detections,
           \/ LockWorker(r) \/ Detect(r)
           \/ \E w \in YoloWorkers : TryWorker(r, w) \/ WaitForWorker(r, w)
    PROVE  WakeInv'
<1>1. UNCHANGED <<mode, running_, preQueue, pre, inferQueue, inferring>>
  BY DEF LockWorker, Detect, TryWorker, WaitForWorker, pipeVars
<1>2. \A s \in Detections \ {r} : det'[s] = det[s] /\ tried'[s] = tried[s]
  BY RequestTypes DEF LockWorker, Detect, TryWorker, WaitForWorker, Moves
<1> DEFINE Works == /\ det[r] \in {"asking", "locking", "holding"}
                    /\ det'[r] \in {"asking", "locking", "holding", "answered"}
                    /\ det'[r] = "locking" => tried'[r] # {}
                    /\ det[r] = "asking" => mode = "worker_pool"
                    /\ mode = "pipeline" => tried'[r] = {}
                    /\ \A w \in YoloWorkers : locked'[w] # Free =>
                         \/ locked'[w] = r /\ det'[r] = "holding"
                         \/ locked'[w] # r /\ locked'[w] = locked[w]
<1>3. Works
  <2>0. /\ det[r] # "holding" => \A w \in YoloWorkers : locked[w] # r
        /\ r # Free /\ (mode = "pipeline" => tried[r] = {})
    BY RequestTypes DEF WakeInv, LocksAreUsed
  <2>1. CASE LockWorker(r)
    <3>1. det[r] = "locking" /\ det'[r] = "holding" /\ UNCHANGED tried
      BY <2>1, RequestTypes DEF LockWorker, Moves
    <3>2. PICK w \in tried[r] : locked' = [locked EXCEPT ![w] = r]
      BY <2>1 DEF LockWorker
    <3> QED  BY <2>0, <3>1, <3>2, RequestTypes
  <2>2. CASE Detect(r)
    BY <2>0, <2>2, RequestTypes DEF Detect, Moves
  <2>3. ASSUME NEW w \in YoloWorkers, TryWorker(r, w) PROVE Works
    <3>1. det[r] = "asking" /\ mode = "worker_pool"
      BY <2>3 DEF TryWorker
    <3>2. CASE locked' = [locked EXCEPT ![w] = r] /\ Moves(r, "asking", "holding") /\ UNCHANGED tried
      BY <2>0, <3>1, <3>2, RequestTypes DEF Moves
    <3>3. CASE UNCHANGED <<det, locked>>
      BY <2>0, <3>1, <3>3, RequestTypes
    <3> QED  BY <2>3, <3>2, <3>3 DEF TryWorker
  <2>4. ASSUME NEW w \in YoloWorkers, WaitForWorker(r, w) PROVE Works
    <3>1. /\ det[r] = "asking" /\ det'[r] = "locking" /\ tried'[r] = {w} /\ tried[r] # {}
          /\ UNCHANGED locked
      BY <2>4, RequestTypes DEF WaitForWorker, Moves
    <3>2. mode = "worker_pool"
      BY <2>0, <3>1, RequestTypes
    <3> QED  BY <2>0, <3>1, <3>2, RequestTypes
  <2> QED  BY <2>1, <2>2, <2>3, <2>4
<1> HIDE DEF Works
<1>4. WorkIsNoticed' /\ \A s \in Detections : InHands(s) => InHands(s)'
  BY <1>1, SameWork
<1>5. mode = "pipeline" /\ SpaceIsUsed => SpaceIsUsed'
  BY <1>1, <1>2, <1>3 DEF SpaceIsUsed, Works
<1>6. \A s \in Detections : det[s] = "full" => running_ /\ mode = "pipeline" /\ SpaceIsUsed
  BY DEF WakeInv, Awaited, LocksAreUsed
<1>7. Awaited'
  BY <1>1, <1>2, <1>3, <1>4, <1>5, <1>6 DEF WakeInv, Awaited, Works
<1>8. LocksAreUsed'
  BY <1>1, <1>2, <1>3, RequestTypes DEF WakeInv, LocksAreUsed, Works
<1> QED  BY <1>4, <1>7, <1>8 DEF WakeInv

(* A request is queued: a thread is awake, or one is woken. *)
LEMMA AsyncWake ==
    ASSUME ServerInv, WakeInv, NEW r \in Detections, DetectAsync(r)
    PROVE  WakeInv'
<1>1. /\ mode = "pipeline" /\ det[r] = "asking" /\ PreMutexFree
      /\ UNCHANGED <<mode, inferQueue, inferring, running_, tried, locked>>
  BY DEF DetectAsync, poolVars
<1>2. CASE ~running_ /\ Moves(r, "asking", "answered") /\ UNCHANGED <<preQueue, pre>>
  <2>1. /\ det'[r] = "answered" /\ \A s \in Detections \ {r} : det'[s] = det[s]
        /\ r \notin {locked[w] : w \in YoloWorkers}
    BY <1>1, <1>2, RequestTypes DEF Moves, WakeInv, LocksAreUsed
  <2>2. WorkIsNoticed' /\ \A s \in Detections : InHands(s) => InHands(s)'
    BY <1>1, <1>2, SameWork
  <2>3. Awaited'
    BY <1>1, <1>2, <2>1, <2>2 DEF WakeInv, Awaited
  <2>4. LocksAreUsed'
    BY <1>1, <2>1, RequestTypes DEF WakeInv, LocksAreUsed
  <2> QED  BY <2>2, <2>3, <2>4 DEF WakeInv
<1>3. CASE /\ running_ /\ Len(preQueue) >= PreMax /\ Moves(r, "asking", "full")
           /\ UNCHANGED <<preQueue, pre>>
  <2>1. /\ det'[r] = "full" /\ \A s \in Detections \ {r} : det'[s] = det[s]
        /\ r \notin {locked[w] : w \in YoloWorkers}
    BY <1>1, <1>3, RequestTypes DEF Moves, WakeInv, LocksAreUsed
  <2>2. WorkIsNoticed' /\ \A s \in Detections : InHands(s) => InHands(s)'
    BY <1>1, <1>3, SameWork
  <2>3. preQueue # <<>>
    BY <1>3, YoloServerSizes, QueueTypes
  <2>4. Awaited'
    BY <1>1, <1>3, <2>1, <2>2, <2>3 DEF WakeInv, Awaited, SpaceIsUsed
  <2>5. LocksAreUsed'
    BY <1>1, <2>1, RequestTypes DEF WakeInv, LocksAreUsed
  <2> QED  BY <2>2, <2>4, <2>5 DEF WakeInv
<1>4. CASE /\ running_ /\ Moves(r, "asking", "asked") /\ preQueue' = Append(preQueue, r)
           /\ WakePreThread
  <2>1. /\ det'[r] = "asked" /\ \A s \in Detections \ {r} : det'[s] = det[s]
        /\ r \notin {locked[w] : w \in YoloWorkers}
    BY <1>1, <1>4, RequestTypes DEF Moves, WakeInv, LocksAreUsed
  <2>2. /\ Queued(preQueue)' = Queued(preQueue) \cup {r} /\ preQueue' # <<>>
    <3>1. Queued(Append(preQueue, r)) = Queued(preQueue) \cup {r} /\ Append(preQueue, r) # <<>>
      BY QueueTypes, QueuedAppend
    <3> QED  BY <1>4, <3>1 DEF Queued
  <2>3. \/ /\ pre' = pre /\ \A p \in PreThreads : pre[p] # "asleep"
        \/ \E p \in PreThreads : pre[p] = "asleep" /\ pre' = [pre EXCEPT ![p] = "test"]
    BY <1>4 DEF WakePreThread
  <2>4. /\ \A p \in PreThreads : pre'[p] = pre[p] \/ (pre[p] = "asleep" /\ pre'[p] = "test")
        /\ \E p \in PreThreads : pre'[p] \in {"test"} \cup Detections
    <3>1. CASE /\ pre' = pre /\ \A p \in PreThreads : pre[p] # "asleep"
      <4>1. PICK p \in PreThreads : TRUE
        BY YoloServerSizes
      <4>2. pre[p] \notin {"asleep", "tested", "gone"} /\ pre[p] \in ThreadSteps \cup Detections
        BY <1>1, <1>4, <3>1, QueueTypes DEF PreMutexFree, WakeInv, WorkIsNoticed
      <4> QED  BY <3>1, <4>2 DEF ThreadSteps
    <3>2. ASSUME NEW p \in PreThreads, pre[p] = "asleep", pre' = [pre EXCEPT ![p] = "test"]
          PROVE  /\ \A q \in PreThreads : pre'[q] = pre[q] \/ (pre[q] = "asleep" /\ pre'[q] = "test")
                 /\ \E q \in PreThreads : pre'[q] \in {"test"} \cup Detections
      BY <3>2, QueueTypes
    <3> QED  BY <2>3, <3>1, <3>2
  <2>5. WorkIsNoticed'
    BY <1>1, <2>2, <2>4 DEF WakeInv, WorkIsNoticed, PreMutexFree
  <2>6. /\ InThread \subseteq InThread'
        /\ Queued(inferQueue)' = Queued(inferQueue)
    BY <1>1, <2>4, NoStepIsARequest DEF InThread, Queued
  <2>7. InHands(r)' /\ \A s \in Detections : InHands(s) => InHands(s)'
    BY <1>1, <2>2, <2>6 DEF InHands
  <2>8. Awaited'
    BY <1>1, <1>4, <2>1, <2>2, <2>7 DEF WakeInv, Awaited, SpaceIsUsed
  <2>9. LocksAreUsed'
    BY <1>1, <2>1, RequestTypes DEF WakeInv, LocksAreUsed
  <2> QED  BY <2>5, <2>8, <2>9 DEF WakeInv
<1> QED  BY <1>1, <1>2, <1>3, <1>4 DEF DetectAsync

(* A thread takes a request and tells a handler that there is space; or it finds the
   queue empty, and holds the mutex until it sleeps. *)
LEMMA TakesWake ==
    ASSUME ServerInv, WakeInv, NEW p \in PreThreads, PreTakes(p)
    PROVE  WakeInv'
<1>1. /\ pre[p] = "test" /\ PreMutexFree
      /\ UNCHANGED <<mode, inferQueue, inferring, running_, tried, locked>>
  BY DEF PreTakes, poolVars
<1>2. CASE preQueue # <<>> /\ WakeHandler /\ preQueue' = Tail(preQueue)
           /\ pre' = [pre EXCEPT ![p] = Head(preQueue)]
  <2>1. PICK r \in Detections : r = Head(preQueue)
    BY <1>2, QueueTypes
  <2>2. Queued(preQueue) = Queued(preQueue)' \cup {r}
    <3>1. Queued(preQueue) = Queued(Tail(preQueue)) \cup {r}
      BY <1>2, <2>1, QueueTypes, QueuedTail
    <3> QED  BY <1>2, <3>1 DEF Queued
  <2>3. pre'[p] = r /\ \A q \in PreThreads \ {p} : pre'[q] = pre[q]
    BY <1>2, <2>1, QueueTypes
  <2>4. /\ \A s \in Detections : det'[s] = det[s] \/ (det[s] = "full" /\ det'[s] = "asking")
        /\ (\E s \in Detections : det[s] = "full") => \E s \in Detections : det'[s] = "asking"
    BY <1>2, RequestTypes DEF WakeHandler, Moves
  <2>5. WorkIsNoticed'
    BY <1>1, <2>1, <2>3, NoStepIsARequest DEF WakeInv, WorkIsNoticed, PreMutexFree
  <2>6. /\ InThread \cup {r} \subseteq InThread' /\ Queued(inferQueue)' = Queued(inferQueue)
    BY <1>1, <2>1, <2>3, NoStepIsARequest DEF InThread, Queued
  <2>7. \A s \in Detections : InHands(s) => InHands(s)'
    BY <1>1, <2>2, <2>6 DEF InHands
  <2>8. Awaited'
    BY <1>1, <2>4, <2>7 DEF WakeInv, Awaited, SpaceIsUsed
  <2>9. LocksAreUsed'
    BY <1>1, <2>4, RequestTypes DEF WakeInv, LocksAreUsed
  <2> QED  BY <2>5, <2>8, <2>9 DEF WakeInv
<1>3. CASE preQueue = <<>> /\ UNCHANGED <<preQueue, det>>
           /\ pre' = [pre EXCEPT ![p] = IF running_ THEN "tested" ELSE "gone"]
  <2>1. /\ pre'[p] \in {"tested", "gone"} /\ (running_ => pre'[p] # "gone")
        /\ \A q \in PreThreads \ {p} : pre'[q] = pre[q]
    BY <1>3, QueueTypes
  <2>2. WorkIsNoticed'
    BY <1>1, <1>3, <2>1 DEF WakeInv, WorkIsNoticed
  <2>3. InThread \subseteq InThread' /\ Queued(inferQueue)' = Queued(inferQueue)
    BY <1>1, <2>1, NoStepIsARequest DEF InThread, Queued
  <2>4. \A s \in Detections : InHands(s) => InHands(s)'
    BY <1>1, <1>3, <2>3 DEF InHands, Queued
  <2>5. Awaited' /\ LocksAreUsed'
    BY <1>1, <1>3, <2>4 DEF WakeInv, Awaited, SpaceIsUsed, LocksAreUsed
  <2> QED  BY <2>2, <2>5 DEF WakeInv
<1> QED  BY <1>2, <1>3 DEF PreTakes

(* The inference thread is told of a preprocessed request, unless it is awake. *)
LEMMA PreprocessWake ==
    ASSUME ServerInv, WakeInv, NEW p \in PreThreads, Preprocess(p)
    PROVE  WakeInv'
<1>1. PICK r \in Detections : r = pre[p]
  BY DEF Preprocess
<1>2. /\ inferring # "tested" /\ inferQueue' = Append(inferQueue, r)
      /\ pre' = [pre EXCEPT ![p] = "test"]
      /\ inferring' = IF inferring = "asleep" THEN "test" ELSE inferring
      /\ UNCHANGED <<mode, det, preQueue, running_, tried, locked>>
  BY <1>1 DEF Preprocess, poolVars
<1>3. running_ /\ inferring # "gone" /\ inferring \in ThreadSteps \cup Detections
  <2>1. det[r] = "asked"
    BY <1>1 DEF ServerInv, OnePlace, AllAsked, InThread
  <2> QED  BY <2>1, QueueTypes DEF WakeInv, Awaited, WorkIsNoticed
<1>4. inferring' \in {"test"} \cup Detections /\ (inferring \in Detections => inferring' = inferring)
  BY <1>2, <1>3, NoStepIsARequest DEF ThreadSteps
<1>5. pre'[p] = "test" /\ \A q \in PreThreads \ {p} : pre'[q] = pre[q]
  BY <1>2, QueueTypes
<1>6. WorkIsNoticed'
  BY <1>2, <1>4, <1>5, NoStepIsARequest DEF WakeInv, WorkIsNoticed
<1>7. Queued(inferQueue)' = Queued(inferQueue) \cup {r} /\ Queued(preQueue)' = Queued(preQueue)
  <2>1. Queued(Append(inferQueue, r)) = Queued(inferQueue) \cup {r}
    BY QueueTypes, QueuedAppend
  <2> QED  BY <1>2, <2>1 DEF Queued
<1>8. InThread \subseteq InThread' \cup {r}
  BY <1>1, <1>5 DEF InThread
<1>9. \A s \in Detections : InHands(s) => InHands(s)'
  BY <1>4, <1>7, <1>8 DEF InHands
<1>10. Awaited' /\ LocksAreUsed'
  BY <1>2, <1>9 DEF WakeInv, Awaited, SpaceIsUsed, LocksAreUsed
<1> QED  BY <1>6, <1>10 DEF WakeInv

LEMMA InferTakesWake ==
    ASSUME ServerInv, WakeInv, InferTakes
    PROVE  WakeInv'
<1>1. inferring = "test" /\ UNCHANGED <<mode, det, preQueue, pre, running_, tried, locked>>
  BY DEF InferTakes, poolVars
<1>2. CASE inferQueue # <<>> /\ inferring' = Head(inferQueue) /\ inferQueue' = Tail(inferQueue)
  <2>1. PICK r \in Detections : r = Head(inferQueue)
    BY <1>2, QueueTypes
  <2>2. Queued(inferQueue) = Queued(inferQueue)' \cup {r}
    <3>1. Queued(inferQueue) = Queued(Tail(inferQueue)) \cup {r}
      BY <1>2, <2>1, QueueTypes, QueuedTail
    <3> QED  BY <1>2, <3>1 DEF Queued
  <2>3. inferring' = r
    BY <1>2, <2>1
  <2>4. WorkIsNoticed'
    BY <1>1, <2>1, <2>3, NoStepIsARequest DEF WakeInv, WorkIsNoticed
  <2>5. \A s \in Detections : InHands(s) => InHands(s)'
    BY <1>1, <2>2, <2>3, NoStepIsARequest DEF InHands, InThread, Queued
  <2>6. Awaited' /\ LocksAreUsed'
    BY <1>1, <2>5 DEF WakeInv, Awaited, SpaceIsUsed, LocksAreUsed
  <2> QED  BY <2>4, <2>6 DEF WakeInv
<1>3. CASE inferQueue = <<>> /\ inferring' = (IF running_ THEN "tested" ELSE "gone")
           /\ UNCHANGED inferQueue
  <2>1. WorkIsNoticed'
    BY <1>1, <1>3 DEF WakeInv, WorkIsNoticed
  <2>2. \A s \in Detections : InHands(s) => InHands(s)'
    BY <1>1, <1>3, NoStepIsARequest DEF InHands, InThread, Queued
  <2>3. Awaited' /\ LocksAreUsed'
    BY <1>1, <2>2 DEF WakeInv, Awaited, SpaceIsUsed, LocksAreUsed
  <2> QED  BY <2>1, <2>3 DEF WakeInv
<1> QED  BY <1>2, <1>3 DEF InferTakes

(* Nothing was queued since a thread tested: it sleeps with its queue empty. *)
LEMMA SleepsWake ==
    ASSUME ServerInv, WakeInv, InferSleeps \/ \E p \in PreThreads : PreSleeps(p)
    PROVE  WakeInv'
<1>1. UNCHANGED <<mode, det, preQueue, inferQueue, running_, tried, locked>>
  BY DEF InferSleeps, PreSleeps, poolVars
<1>2. /\ \A p \in PreThreads : pre'[p] = pre[p] \/ (pre[p] = "tested" /\ pre'[p] = "asleep")
      /\ inferring' = inferring \/ (inferring = "tested" /\ inferring' = "asleep")
  BY QueueTypes DEF InferSleeps, PreSleeps
<1>3. WorkIsNoticed'
  BY <1>1, <1>2, NoStepIsARequest DEF WakeInv, WorkIsNoticed
<1>4. \A s \in Detections : InHands(s) => InHands(s)'
  BY <1>1, <1>2, NoStepIsARequest DEF InHands, InThread, Queued
<1>5. Awaited' /\ LocksAreUsed'
  BY <1>1, <1>4 DEF WakeInv, Awaited, SpaceIsUsed, LocksAreUsed
<1> QED  BY <1>3, <1>5 DEF WakeInv

LEMMA InferWake ==
    ASSUME ServerInv, WakeInv, Infer
    PROVE  WakeInv'
<1>1. /\ inferring \in Detections /\ Moves(inferring, "asked", "answered") /\ inferring' = "test"
      /\ UNCHANGED <<mode, preQueue, pre, inferQueue, running_, tried, locked>>
  BY DEF Infer, poolVars
<1>2. /\ det[inferring] = "asked" /\ det'[inferring] = "answered"
      /\ \A s \in Detections \ {inferring} : det'[s] = det[s]
  BY <1>1, RequestTypes DEF Moves
<1>3. WorkIsNoticed'
  BY <1>1 DEF WakeInv, WorkIsNoticed
<1>4. \A s \in Detections \ {inferring} : InHands(s) => InHands(s)'
  BY <1>1 DEF InHands, InThread, Queued
<1>5. SpaceIsUsed => SpaceIsUsed'
  BY <1>1, <1>2 DEF SpaceIsUsed
<1>6. Awaited'
  BY <1>1, <1>2, <1>4, <1>5 DEF WakeInv, Awaited
<1>7. LocksAreUsed'
  BY <1>1, <1>2, RequestTypes DEF WakeInv, LocksAreUsed
<1> QED  BY <1>3, <1>6, <1>7 DEF WakeInv

LEMMA WakeNextInv == ServerInv /\ WakeInv /\ [YoloServerNext]_yoloServerVars => WakeInv'
<1> SUFFICES ASSUME ServerInv, WakeInv, [YoloServerNext]_yoloServerVars PROVE WakeInv'
  OBVIOUS
<1>1. CASE LoadModel \/ Listen \/ SignalStop \/ Ending
  BY <1>1, MainWake
<1>2. CASE \E r \in Detections : \/ Accept(r) \/ EnqueueConnection(r)
                                 \/ ClientSends(r) \/ Handler(r)
  BY <1>2, ConnectionWake, WorkerWake, AsyncWake DEF Handler
<1>3. CASE \E p \in PreThreads : PreThread(p)
  BY <1>3, TakesWake, PreprocessWake, SleepsWake DEF PreThread
<1>4. CASE InferThread
  BY <1>4, InferTakesWake, SleepsWake, InferWake DEF InferThread
<1>5. CASE UNCHANGED yoloServerVars
  <2>1. UNCHANGED <<mode, det, preQueue, pre, inferQueue, inferring, running_, tried, locked>>
    BY <1>5 DEF yoloServerVars, pipeVars, poolVars
  <2> QED  BY <2>1, SameWork DEF WakeInv, Awaited, SpaceIsUsed, LocksAreUsed
<1> QED  BY <1>1, <1>2, <1>3, <1>4, <1>5 DEF YoloServerNext, Threads

(* From a request to the thread that has it: whatever it waits for, somebody goes on. *)
LEMMA SomebodyGoesOn ==
    ASSUME ServerInv, WakeInv, NEW r \in Detections,
           det[r] \in HandlerSteps \cup {"locking", "holding"}
    PROVE  PoolGoesOn \/ PipelineGoesOn
<1>1. (\E p \in PreThreads : pre[p] \in {"test"} \cup Detections) => PipelineGoesOn
  BY DEF PipelineGoesOn, PreMutexFree
<1>2. preQueue # <<>> => PipelineGoesOn
  BY <1>1 DEF WakeInv, WorkIsNoticed
<1>3. (\E s \in Detections : det[s] = "asking") => PoolGoesOn \/ PipelineGoesOn
  BY DEF PoolGoesOn, PipelineGoesOn, PreMutexFree
<1>4. CASE det[r] \in {"answered", "holding", "asking"}
  BY <1>3, <1>4 DEF PoolGoesOn
<1>5. CASE det[r] = "full"
  BY <1>2, <1>3, <1>5 DEF WakeInv, Awaited, SpaceIsUsed
<1>6. CASE det[r] = "locking"
  <2>1. PICK w \in tried[r] : w \in YoloWorkers
    BY <1>6, RequestTypes DEF WakeInv, Awaited
  <2>2. CASE locked[w] = Free
    BY <1>6, <2>1, <2>2 DEF PoolGoesOn
  <2>3. CASE locked[w] # Free
    BY <2>1, <2>3, RequestTypes DEF WakeInv, LocksAreUsed, PoolGoesOn
  <2> QED  BY <2>2, <2>3
<1>7. CASE det[r] = "asked"
  <2>1. InHands(r)
    BY <1>7 DEF WakeInv, Awaited
  <2>2. CASE r \in Queued(preQueue)
    BY <1>2, <2>2, QueuedEmpty
  <2>3. CASE r \in Queued(inferQueue)
    <3>1. inferQueue # <<>>
      BY <2>3, QueuedEmpty
    <3> QED  BY <3>1 DEF WakeInv, WorkIsNoticed, PipelineGoesOn
  <2>4. CASE r \in InThread
    BY <1>1, <2>4 DEF InThread
  <2>5. CASE r = inferring
    BY <2>5 DEF PipelineGoesOn
  <2> QED  BY <2>1, <2>2, <2>3, <2>4, <2>5 DEF InHands
<1> QED  BY <1>4, <1>5, <1>6, <1>7 DEF HandlerSteps

(* No request of yolo-server waits for a wake-up that will not come: for any numbers
   of requests, threads and workers and any size of the queue, in both modes, also
   after a signal. It speaks of the requests that were read, and of connections while
   a thread is not kept by a client that sends nothing and main is not stuck
   (http_server.cpp:33-64, yolo_pipeline.cpp:66-177, yolo_detector.cpp:525-563). *)
THEOREM NobodyIsForgotten == YoloServerSpec => []NoWakeUpIsLost
<1>1. ServerInv /\ WakeInv => NoWakeUpIsLost
  <2> SUFFICES ASSUME ServerInv, WakeInv, NEW r \in Detections, AnswerIsDue(r)
               PROVE  PoolGoesOn \/ PipelineGoesOn
    BY DEF NoWakeUpIsLost
  <2>1. CASE det[r] \in HandlerSteps \cup {"locking", "holding"}
    BY <2>1, SomebodyGoesOn
  <2>2. CASE det[r] = "pooled" /\ Cardinality(Silent) < HttpThreads /\ srv # "stuck"
    <3>1. CASE InHand = Silent
      BY <2>2, <3>1 DEF PoolGoesOn
    <3>2. CASE InHand # Silent
      <4>1. PICK s \in Detections : det[s] \in HandlerSteps \cup {"locking", "holding"}
        BY <3>2 DEF InHand, Silent
      <4> QED  BY <4>1, SomebodyGoesOn
    <3> QED  BY <3>1, <3>2
  <2>3. CASE det[r] = "accepted" /\ srv = "enqueue"
    BY <2>3 DEF PoolGoesOn
  <2> QED  BY <2>1, <2>2, <2>3 DEF AnswerIsDue
<1> QED  BY <1>1, ServerInitInv, ServerNextInv, WakeInitInv, WakeNextInv, PTL DEF YoloServerSpec

(* The server moves on. How far a request is depends on what it does and, while it is
   asked, on where it lies. *)
LEMMA StageType == ASSUME YoloServerTypeOK, NEW r \in Detections PROVE Stage(r) \in 0..10
<1>1. det[r] \in RequestSteps
  BY DEF YoloServerTypeOK
<1> QED  BY <1>1 DEF RequestSteps, HandlerSteps, Stage

LEMMA MainStageType == ASSUME YoloServerTypeOK PROVE MainStage \in 0..7
  BY DEF YoloServerTypeOK, MainStage

LEMMA StageKept ==
    ASSUME NEW r \in Detections, det'[r] = det[r],
           det[r] = "asked" =>
               /\ (r \in Queued(preQueue))' <=> r \in Queued(preQueue)
               /\ (r \in Queued(inferQueue))' <=> r \in Queued(inferQueue)
               /\ (\E p \in PreThreads : pre'[p] = r) <=> (\E p \in PreThreads : pre[p] = r)
    PROVE  Stage(r)' = Stage(r)
  BY DEF Stage

LEMMA StagesKept ==
    ASSUME UNCHANGED <<det, preQueue, inferQueue>>,
           \A p \in PreThreads : pre'[p] = pre[p] \/ (pre[p] \notin Detections /\ pre'[p] \notin Detections)
    PROVE  \A r \in Detections : Stage(r)' = Stage(r)
  BY StageKept DEF Queued

LEMMA MainStageKept == ASSUME srv' = srv PROVE MainStage' = MainStage
  BY DEF MainStage

(* One request advances, and the others stay. *)
LEMMA OneAdvances ==
    ASSUME YoloServerTypeOK, MainStage' = MainStage, NEW r \in Detections,
           Stage(r)' < Stage(r), Stage(r)' \in Nat,
           \A s \in Detections \ {r} : Stage(s)' = Stage(s)
    PROVE  SomebodyAdvances
<1>1. MainStage \in Nat
  BY MainStageType
<1>2. \A s \in Detections : Stage(s) \in Nat
  BY StageType
<1>3. \A s \in Detections : Stage(s)' <= Stage(s)
  BY <1>2
<1>4. Stage(r)' # Stage(r)
  BY <1>2
<1> QED  BY <1>1, <1>3, <1>4 DEF SomebodyAdvances, StagesStay

LEMMA MainMovesOn ==
    ASSUME ServerInv, LoadModel \/ Listen \/ SignalStop \/ Ending
    PROVE  SomebodyAdvances
<1>1. UNCHANGED <<det, preQueue, inferQueue>>
  BY DEF LoadModel, Listen, SignalStop, Ending, JoinPool, EnqueueCrashes, ClearRunning, NotifyAll, JoinThreads,
         pipeVars
<1>2. \A r \in Detections : Stage(r)' = Stage(r)
  <2>1. CASE LoadModel
    <3>1. \A r \in Detections : det[r] # "asked"
      BY <2>1 DEF LoadModel, ServerInv, QuietOutside, Serving
    <3> QED  BY <1>1, <3>1, StageKept
  <2>2. CASE Listen \/ SignalStop \/ JoinPool \/ ClearRunning \/ JoinThreads
    BY <1>1, <2>2, StagesKept DEF Listen, SignalStop, JoinPool, ClearRunning, JoinThreads, pipeVars
  <2>3. CASE NotifyAll
    <3>1. \A p \in PreThreads : pre'[p] = pre[p] \/ (pre[p] = "asleep" /\ pre'[p] = "test")
      BY <2>3 DEF NotifyAll
    <3> QED  BY <1>1, <3>1, NoStepIsARequest, StagesKept
  <2>4. CASE EnqueueCrashes
    <3>1. \A r \in Detections : det[r] # "asked"
      BY <2>4 DEF EnqueueCrashes
    <3> QED  BY <1>1, <3>1, StageKept
  <2> QED  BY <2>1, <2>2, <2>3, <2>4 DEF Ending
<1>3. MainStage' < MainStage /\ MainStage' <= MainStage /\ MainStage' # MainStage
  <2>1. \/ srv = "load" /\ srv' \in {"bind", "exited"}
        \/ srv = "bind" /\ srv' \in {"accept", "closing"}
        \/ srv \in {"accept", "enqueue"} /\ srv' = "stopping"
        \/ srv = "enqueue" /\ srv' = "stuck"
        \/ srv = "stopping" /\ srv' \in {"closing", "crashed"}
        \/ srv = "closing" /\ srv' = "cleared"
        \/ srv = "cleared" /\ srv' = "joining"
        \/ srv = "joining" /\ srv' = "exited"
    BY DEF LoadModel, Listen, SignalStop, Ending, JoinPool, EnqueueCrashes, ClearRunning, NotifyAll, JoinThreads
  <2> QED  BY <2>1 DEF MainStage
<1>4. \A r \in Detections : Stage(r) \in Nat
  BY StageType DEF ServerInv
<1> QED  BY <1>2, <1>3, <1>4 DEF SomebodyAdvances, StagesStay

(* A request moves outside the pipeline. *)
LEMMA MoveAdvances ==
    ASSUME ServerInv, NEW r \in Detections, NEW from, NEW to, Moves(r, from, to), from # "asked",
           MainStage' = MainStage, UNCHANGED <<preQueue, pre, inferQueue>>,
           \/ from = "idle" /\ to = "accepted"
           \/ from = "accepted" /\ to = "pooled"
           \/ from = "pooled" /\ to = "reading"
           \/ from = "reading" /\ to \in {"asking", "done"}
           \/ from = "asking" /\ to \in {"holding", "locking", "answered"}
           \/ from = "locking" /\ to = "holding"
           \/ from = "holding" /\ to = "answered"
           \/ from = "answered" /\ to = "done"
    PROVE  SomebodyAdvances
<1>1. /\ det[r] = from /\ det'[r] = to
      /\ \A s \in Detections \ {r} : det'[s] = det[s]
  BY DEF ServerInv, YoloServerTypeOK, Moves
<1>2. \A s \in Detections \ {r} : Stage(s)' = Stage(s)
  BY <1>1, StageKept DEF Queued
<1>3. Stage(r)' < Stage(r) /\ Stage(r)' \in Nat
  BY <1>1 DEF Stage
<1> QED  BY <1>2, <1>3, OneAdvances DEF ServerInv

LEMMA ConnectionMovesOn ==
    ASSUME ServerInv, NEW r \in Detections, Accept(r) \/ EnqueueConnection(r)
    PROVE  SomebodyAdvances
<1>1. /\ UNCHANGED <<preQueue, pre, inferQueue>>
      /\ srv \in {"accept", "enqueue"} /\ srv' \in {"accept", "enqueue"}
      /\ Moves(r, "idle", "accepted") \/ Moves(r, "accepted", "pooled")
  BY DEF Accept, EnqueueConnection, pipeVars
<1>2. MainStage' = MainStage
  BY <1>1 DEF MainStage
<1> QED  BY <1>1, <1>2, MoveAdvances

LEMMA HttpMovesOn ==
    ASSUME ServerInv, NEW r \in Detections,
           \/ TakeConnection(r) \/ ClientSends(r) \/ Respond(r) \/ LockWorker(r) \/ Detect(r)
           \/ \E w \in YoloWorkers : TryWorker(r, w) \/ WaitForWorker(r, w)
    PROVE  SomebodyAdvances \/ (StagesStay /\ SomebodySettles)
<1>1. UNCHANGED <<srv, preQueue, pre, inferQueue, inferring>>
  BY DEF TakeConnection, ClientSends, Respond, LockWorker, Detect, TryWorker, WaitForWorker, pipeVars
<1>2. CASE \/ Moves(r, "pooled", "reading") \/ Moves(r, "reading", "asking")
           \/ Moves(r, "reading", "done") \/ Moves(r, "answered", "done") \/ Moves(r, "asking", "holding")
           \/ Moves(r, "asking", "locking") \/ Moves(r, "locking", "holding")
           \/ Moves(r, "holding", "answered")
  BY <1>1, <1>2, MainStageKept, MoveAdvances
<1>3. ASSUME NEW w \in YoloWorkers, w \notin tried[r], UNCHANGED det,
             tried' = [tried EXCEPT ![r] = @ \cup {w}]
      PROVE  StagesStay /\ SomebodySettles
  <2>1. StagesStay
    BY <1>1, <1>3, StagesKept, MainStageKept DEF StagesStay
  <2>2. /\ \A s \in Detections : tried[s] \subseteq tried'[s]
        /\ tried'[r] # tried[r]
    BY <1>3 DEF ServerInv, YoloServerTypeOK
  <2>3. \A t : Restless(t) \in Nat
    BY DEF Restless
  <2> QED  BY <1>1, <1>3, <2>1, <2>2, <2>3 DEF SomebodySettles
<1> QED  BY <1>2, <1>3 DEF TakeConnection, ClientSends, Respond, LockWorker, Detect, TryWorker, WaitForWorker

LEMMA DetectAsyncMovesOn ==
    ASSUME ServerInv, NEW r \in Detections, DetectAsync(r)
    PROVE  SomebodyAdvances \/ (StagesStay /\ SomebodySettles)
<1>1. det[r] = "asking" /\ UNCHANGED <<srv, inferQueue, inferring, tried>>
  BY DEF DetectAsync, poolVars
<1>2. CASE UNCHANGED <<preQueue, pre>> /\ Moves(r, "asking", "answered")
  BY <1>1, <1>2, MainStageKept, MoveAdvances
<1>3. CASE UNCHANGED <<preQueue, pre>> /\ Moves(r, "asking", "full")
  <2>1. det'[r] = "full" /\ \A s \in Detections \ {r} : det'[s] = det[s]
    BY <1>3 DEF Moves, ServerInv, YoloServerTypeOK
  <2>2. \A s \in Detections \ {r} : Stage(s)' = Stage(s)
    BY <1>1, <1>3, <2>1, StageKept DEF Queued
  <2>3. Stage(r)' = Stage(r)
    BY <1>1, <2>1 DEF Stage
  <2>4. StagesStay
    BY <1>1, <2>2, <2>3, MainStageKept DEF StagesStay
  <2>5. \A t : Restless(t) \in Nat
    BY DEF Restless
  <2> QED  BY <1>1, <1>3, <2>1, <2>4, <2>5 DEF SomebodySettles
<1>4. CASE Moves(r, "asking", "asked") /\ preQueue' = Append(preQueue, r) /\ WakePreThread
  <2>1. det'[r] = "asked" /\ \A s \in Detections \ {r} : det'[s] = det[s]
    BY <1>4 DEF Moves, ServerInv, YoloServerTypeOK
  <2>2. Queued(preQueue)' = Queued(preQueue) \cup {r} /\ Queued(inferQueue)' = Queued(inferQueue)
    <3>1. Queued(Append(preQueue, r)) = Queued(preQueue) \cup {r}
      BY QueueTypes, QueuedAppend
    <3> QED  BY <1>1, <1>4, <3>1 DEF Queued
  <2>3. \A p \in PreThreads : pre'[p] = pre[p] \/ (pre[p] = "asleep" /\ pre'[p] = "test")
    BY <1>4 DEF WakePreThread, ServerInv, YoloServerTypeOK
  <2>4. \A s \in Detections \ {r} : Stage(s)' = Stage(s)
    BY <2>1, <2>2, <2>3, NoStepIsARequest, StageKept
  <2>5. Stage(r) = 6 /\ Stage(r)' = 5
    BY <1>1, <2>1, <2>2 DEF Stage
  <2> QED  BY <1>1, <2>4, <2>5, MainStageKept, OneAdvances DEF ServerInv
<1> QED  BY <1>2, <1>3, <1>4 DEF DetectAsync

LEMMA PreTakesMovesOn ==
    ASSUME ServerInv, NEW p \in PreThreads, PreTakes(p)
    PROVE  SomebodyAdvances \/ (StagesStay /\ SomebodySettles)
<1>1. pre[p] = "test" /\ UNCHANGED <<srv, inferQueue, inferring, tried>>
  BY DEF PreTakes, poolVars
<1>2. CASE preQueue # <<>> /\ WakeHandler /\ preQueue' = Tail(preQueue)
           /\ pre' = [pre EXCEPT ![p] = Head(preQueue)]
  <2>1. NoDuplicate(preQueue) /\ preQueue \in Seq(Detections)
    BY QueueTypes DEF ServerInv, OnePlace, QueuesApart
  <2>0. PICK r \in Detections : r = Head(preQueue)
    BY <1>2, <2>1, QueuedTail
  <2>2. /\ r \in Detections
        /\ Queued(preQueue) = Queued(Tail(preQueue)) \cup {r} /\ r \notin Queued(Tail(preQueue))
    BY <1>2, <2>1, <2>0, QueuedTail
  <2>3. /\ Queued(preQueue) = Queued(preQueue)' \cup {r} /\ r \notin Queued(preQueue)'
        /\ Queued(inferQueue)' = Queued(inferQueue)
    BY <1>1, <1>2, <2>2 DEF Queued
  <2>4. pre'[p] = r /\ \A q \in PreThreads \ {p} : pre'[q] = pre[q]
    BY <1>2, <2>0 DEF ServerInv, YoloServerTypeOK
  <2>5. det[r] = "asked"
    BY <2>2 DEF ServerInv, OnePlace, AllAsked
  <2>6. \A s \in Detections : det'[s] = det[s] \/ (det[s] = "full" /\ det'[s] = "asking")
    BY <1>2 DEF WakeHandler, Moves, ServerInv, YoloServerTypeOK
  <2>7. \A s \in Detections \ {r} : Stage(s)' = Stage(s)
    <3> SUFFICES ASSUME NEW s \in Detections \ {r} PROVE Stage(s)' = Stage(s)
      OBVIOUS
    <3>1. CASE det[s] = "full" /\ det'[s] = "asking"
      BY <3>1 DEF Stage
    <3>2. CASE det'[s] = det[s]
      <4>1. pre[p] # s
        BY <1>1, NoStepIsARequest
      <4>2. (\E q \in PreThreads : pre'[q] = s) <=> (\E q \in PreThreads : pre[q] = s)
        BY <2>4, <4>1
      <4> QED  BY <2>3, <3>2, <4>2, StageKept
    <3> QED  BY <2>6, <3>1, <3>2
  <2>8. Stage(r) = 5 /\ Stage(r)' = 4
    <3>1. det'[r] = "asked"
      BY <2>2, <2>5, <2>6
    <3> QED  BY <2>3, <2>4, <2>5, <3>1 DEF Stage
  <2> QED  BY <1>1, <2>2, <2>7, <2>8, MainStageKept, OneAdvances DEF ServerInv
<1>3. CASE UNCHANGED <<preQueue, det>> /\ \E s \in {"tested", "gone"} : pre' = [pre EXCEPT ![p] = s]
  <2>1. /\ pre'[p] \in {"tested", "gone"} /\ \A q \in PreThreads \ {p} : pre'[q] = pre[q]
    BY <1>3 DEF ServerInv, YoloServerTypeOK
  <2>2. StagesStay
    BY <1>1, <1>3, <2>1, NoStepIsARequest, StagesKept, MainStageKept DEF StagesStay
  <2>3. Restless(pre'[p]) < Restless(pre[p]) /\ Restless(pre'[p]) <= Restless(pre[p])
        /\ \A t : Restless(t) \in Nat
    BY <1>1, <2>1 DEF Restless
  <2> QED  BY <1>1, <1>3, <2>1, <2>2, <2>3 DEF SomebodySettles
<1> QED  BY <1>2, <1>3 DEF PreTakes

LEMMA PreprocessMovesOn ==
    ASSUME ServerInv, NEW p \in PreThreads, Preprocess(p)
    PROVE  SomebodyAdvances
<1>0. PICK r \in Detections : r = pre[p]
  BY DEF Preprocess
<1>1. /\ r \in Detections /\ UNCHANGED <<srv, det, preQueue>>
      /\ inferQueue' = Append(inferQueue, r) /\ pre' = [pre EXCEPT ![p] = "test"]
  BY <1>0 DEF Preprocess
<1>2. /\ r \notin Queued(preQueue) /\ r \in InThread /\ \A q \in PreThreads : pre[q] = r => q = p
  BY <1>0 DEF ServerInv, OnePlace, ThreadsApart, InThread
<1>3. Queued(inferQueue)' = Queued(inferQueue) \cup {r} /\ Queued(preQueue)' = Queued(preQueue)
  <2>1. Queued(Append(inferQueue, r)) = Queued(inferQueue) \cup {r}
    BY <1>1, QueueTypes, QueuedAppend
  <2> QED  BY <1>1, <2>1 DEF Queued
<1>4. pre'[p] = "test" /\ \A q \in PreThreads \ {p} : pre'[q] = pre[q]
  BY <1>1 DEF ServerInv, YoloServerTypeOK
<1>5. det[r] = "asked" /\ pre[p] = r
  BY <1>2, <1>0 DEF ServerInv, OnePlace, AllAsked
<1>6. \A s \in Detections \ {r} : Stage(s)' = Stage(s)
  <2> SUFFICES ASSUME NEW s \in Detections \ {r} PROVE Stage(s)' = Stage(s)
    OBVIOUS
  <2>1. (\E q \in PreThreads : pre'[q] = s) <=> (\E q \in PreThreads : pre[q] = s)
    BY <1>4, <1>5, NoStepIsARequest
  <2> QED  BY <1>1, <1>3, <2>1, StageKept
<1>7. Stage(r) = 4 /\ Stage(r)' = 3
  <2>1. \A q \in PreThreads : pre'[q] # r
    BY <1>1, <1>2, <1>4, NoStepIsARequest
  <2> QED  BY <1>1, <1>2, <1>3, <1>5, <2>1 DEF Stage
<1> QED  BY <1>1, <1>6, <1>7, MainStageKept, OneAdvances DEF ServerInv

LEMMA InferTakesMovesOn ==
    ASSUME ServerInv, InferTakes
    PROVE  SomebodyAdvances \/ (StagesStay /\ SomebodySettles)
<1>1. inferring = "test" /\ UNCHANGED <<srv, det, preQueue, pre, tried>>
  BY DEF InferTakes, poolVars
<1>2. CASE inferQueue # <<>> /\ inferQueue' = Tail(inferQueue)
  <2>1. NoDuplicate(inferQueue)
    BY DEF ServerInv, OnePlace, QueuesApart
  <2>0. PICK r \in Detections : r = Head(inferQueue)
    BY <1>2, QueueTypes, QueuedTail
  <2>2. /\ r \in Detections
        /\ Queued(inferQueue) = Queued(Tail(inferQueue)) \cup {r} /\ r \notin Queued(Tail(inferQueue))
    BY <1>2, <2>1, <2>0, QueueTypes, QueuedTail
  <2>3. /\ Queued(inferQueue) = Queued(inferQueue)' \cup {r} /\ r \notin Queued(inferQueue)'
        /\ Queued(preQueue)' = Queued(preQueue)
    BY <1>1, <1>2, <2>2 DEF Queued
  <2>4. det[r] = "asked" /\ r \notin Queued(preQueue) /\ \A p \in PreThreads : pre[p] # r
    BY <2>2 DEF ServerInv, OnePlace, AllAsked, QueuesApart, ThreadsApart
  <2>5. \A s \in Detections \ {r} : Stage(s)' = Stage(s)
    BY <1>1, <2>3, StageKept
  <2>6. Stage(r) = 3 /\ Stage(r)' = 2
    BY <1>1, <2>2, <2>3, <2>4 DEF Stage
  <2> QED  BY <1>1, <2>2, <2>5, <2>6, MainStageKept, OneAdvances DEF ServerInv
<1>3. CASE UNCHANGED inferQueue /\ inferring' \in {"tested", "gone"}
  <2>1. StagesStay
    BY <1>1, <1>3, StagesKept, MainStageKept DEF StagesStay
  <2>2. Restless(inferring') < Restless(inferring) /\ Restless(inferring') <= Restless(inferring)
        /\ \A t : Restless(t) \in Nat
    BY <1>1, <1>3 DEF Restless
  <2> QED  BY <1>1, <1>3, <2>1, <2>2 DEF SomebodySettles
<1> QED  BY <1>2, <1>3 DEF InferTakes

LEMMA SleepsMoveOn ==
    ASSUME ServerInv, InferSleeps \/ \E p \in PreThreads : PreSleeps(p)
    PROVE  StagesStay /\ SomebodySettles
<1>1. UNCHANGED <<srv, det, preQueue, inferQueue, tried>>
  BY DEF InferSleeps, PreSleeps, poolVars
<1>2. \A t : Restless(t) \in Nat
  BY DEF Restless
<1>3. CASE InferSleeps
  <2>1. UNCHANGED pre /\ Restless(inferring') < Restless(inferring)
        /\ Restless(inferring') <= Restless(inferring)
    BY <1>3 DEF InferSleeps, Restless
  <2>2. StagesStay
    BY <1>1, <2>1, StagesKept, MainStageKept DEF StagesStay
  <2> QED  BY <1>1, <1>2, <2>1, <2>2 DEF SomebodySettles
<1>4. ASSUME NEW p \in PreThreads, PreSleeps(p) PROVE StagesStay /\ SomebodySettles
  <2>1. /\ pre[p] = "tested" /\ pre'[p] = "asleep" /\ UNCHANGED inferring
        /\ \A q \in PreThreads \ {p} : pre'[q] = pre[q]
    BY <1>4 DEF PreSleeps, ServerInv, YoloServerTypeOK
  <2>2. StagesStay
    BY <1>1, <2>1, NoStepIsARequest, StagesKept, MainStageKept DEF StagesStay
  <2>3. Restless(pre'[p]) < Restless(pre[p]) /\ Restless(pre'[p]) <= Restless(pre[p])
    BY <2>1 DEF Restless
  <2> QED  BY <1>1, <1>2, <2>1, <2>2, <2>3 DEF SomebodySettles
<1> QED  BY <1>3, <1>4

LEMMA InferMovesOn == ASSUME ServerInv, Infer PROVE SomebodyAdvances
<1>0. PICK r \in Detections : r = inferring
  BY DEF Infer
<1>1. /\ r \in Detections /\ Moves(r, "asked", "answered")
      /\ UNCHANGED <<srv, preQueue, pre, inferQueue>>
  BY <1>0 DEF Infer
<1>2. /\ r \notin Queued(preQueue) \cup Queued(inferQueue) /\ \A p \in PreThreads : pre[p] # r
  BY <1>0 DEF ServerInv, OnePlace, InferenceApart, InThread
<1>3. /\ det[r] = "asked" /\ det'[r] = "answered"
      /\ \A s \in Detections \ {r} : det'[s] = det[s]
  BY <1>1 DEF Moves, ServerInv, YoloServerTypeOK
<1>4. \A s \in Detections \ {r} : Stage(s)' = Stage(s)
  BY <1>1, <1>3, StageKept DEF Queued
<1>5. Stage(r) = 2 /\ Stage(r)' = 1
  BY <1>2, <1>3 DEF Stage
<1> QED  BY <1>1, <1>4, <1>5, MainStageKept, OneAdvances DEF ServerInv

LEMMA ServerWorkStep ==
    ServerInv /\ [YoloServerNext]_yoloServerVars
    => [ServerWork]_yoloServerVars
<1> SUFFICES ASSUME ServerInv, YoloServerNext
             PROVE  SomebodyAdvances \/ (StagesStay /\ SomebodySettles)
  BY DEF ServerWork
<1>1. CASE LoadModel \/ Listen \/ SignalStop \/ Ending
  BY <1>1, MainMovesOn
<1>2. CASE \E r \in Detections : \/ Accept(r) \/ EnqueueConnection(r)
                                 \/ ClientSends(r) \/ Handler(r)
  BY <1>2, ConnectionMovesOn, HttpMovesOn, DetectAsyncMovesOn DEF Handler
<1>3. CASE \E p \in PreThreads : PreThread(p)
  BY <1>3, PreTakesMovesOn, PreprocessMovesOn, SleepsMoveOn DEF PreThread
<1>4. CASE InferThread
  BY <1>4, InferTakesMovesOn, SleepsMoveOn, InferMovesOn DEF InferThread
<1> QED  BY <1>1, <1>2, <1>3, <1>4 DEF YoloServerNext, Threads

(* For any number of requests, threads and workers: every step brings a request or the
   server on and none back, or it brings a thread nearer to its sleep; so no two threads
   wake each other for ever (yolo_pipeline.cpp:66-177, yolo_detector.cpp:525-563,
   http_server.cpp:33-64). *)
THEOREM ServerFinishes == YoloServerSpec => ServerMovesOn
  BY ServerInitInv, ServerNextInv, ServerWorkStep, PTL DEF YoloServerSpec, ServerMovesOn

-----------------------------------------------------------------------------
(* All parts together. A step of the whole is a step of one part, and leaves the
   others as they are. *)
LEMMA SimulatorSteps ==
    [SubsystemsNext]_allVars => [SipNext]_sipVars /\ [OnvifNext]_onvifVars
  BY DEF SubsystemsNext, allVars, simVars, nodeVars, gatewayVars, webVars

LEMMA NodeSteps ==
    [SubsystemsNext]_allVars =>
        /\ [LlamaNext]_llamaVars /\ [HealthNext]_healthVars /\ [YoloServerNext]_yoloServerVars
  BY DEF SubsystemsNext, allVars, simVars, nodeVars, gatewayVars, webVars

LEMMA GatewaySteps ==
    [SubsystemsNext]_allVars =>
        /\ [VlmNext]_vlmVars /\ [PushNext]_pushVars /\ [RrNext]_rrVars /\ [GwtNext]_gwtVars
        /\ [CacheNext \/ TrackNext]_recordVars
  BY DEF SubsystemsNext, allVars, simVars, nodeVars, gatewayVars, webVars

LEMMA WebPartSteps ==
    [SubsystemsNext]_allVars =>
        /\ [HubNext]_hubVars /\ [OwlNext]_owlVars /\ [TrkNext]_trkVars /\ [IndexNext]_indexVars
        /\ [WebUiNext]_webUiVars
  BY DEF SubsystemsNext, allVars, simVars, nodeVars, gatewayVars, webVars

SimulatorsInv == SipInv /\ OnvifTypeOK
NodePartsInv == LlamaInv /\ HealthTypeOK /\ ServerInv
GatewayPartsInv == VlmInv /\ PushInv /\ RrInv /\ GwtInv /\ RecordsInv
WebPartsInv == HubInv /\ OwlInv /\ TrkInv /\ IndexInv /\ WebUiTypeOK
PartsInv == SimulatorsInv /\ NodePartsInv /\ GatewayPartsInv /\ WebPartsInv

LEMMA PartsInitInv == SubsystemsInit => PartsInv
<1> SUFFICES ASSUME SubsystemsInit PROVE PartsInv
  OBVIOUS
<1>1. SimulatorsInv
  BY SipInitInv, OnvifInitTyped DEF SubsystemsInit, SimulatorsInv
<1>2. NodePartsInv
  BY LlamaInitInv, AgentInitTyped, ServerInitInv DEF SubsystemsInit, NodePartsInv
<1>3. GatewayPartsInv
  BY VlmInitInv, PushInitInv, RrInitInv, GwtInitInv, RecordsInitInv DEF SubsystemsInit, GatewayPartsInv
<1>4. WebPartsInv
  BY HubInitInv, OwlInitInv, TrkInitInv, IndexInitInv, WebUiInitTyped DEF SubsystemsInit, WebPartsInv
<1> QED  BY <1>1, <1>2, <1>3, <1>4 DEF PartsInv

LEMMA PartsStepInv == PartsInv /\ [SubsystemsNext]_allVars => PartsInv'
<1> SUFFICES ASSUME PartsInv, [SubsystemsNext]_allVars PROVE PartsInv'
  OBVIOUS
<1>1. SimulatorsInv'
  <2>1. SipInv /\ OnvifTypeOK
    BY DEF PartsInv, SimulatorsInv
  <2>2. SipInv'
    BY <2>1, SimulatorSteps, SipStepInv
  <2>3. OnvifTypeOK'
    BY <2>1, SimulatorSteps, OnvifStepTyped
  <2> QED  BY <2>2, <2>3 DEF SimulatorsInv
<1>2. NodePartsInv'
  <2>1. LlamaInv /\ HealthTypeOK /\ ServerInv
    BY DEF PartsInv, NodePartsInv
  <2>2. LlamaInv'
    BY <2>1, NodeSteps, LlamaStepInv
  <2>3. HealthTypeOK'
    BY <2>1, NodeSteps, AgentStepTyped
  <2>4. ServerInv'
    BY <2>1, NodeSteps, ServerNextInv
  <2> QED  BY <2>2, <2>3, <2>4 DEF NodePartsInv
<1>3. GatewayPartsInv'
  <2>1. VlmInv /\ PushInv /\ RrInv /\ GwtInv /\ RecordsInv
    BY DEF PartsInv, GatewayPartsInv
  <2>2. VlmInv' /\ PushInv'
    BY <2>1, GatewaySteps, VlmNextInv, PushStepInv
  <2>3. RrInv' /\ GwtInv'
    BY <2>1, GatewaySteps, RrStepInv, GwtStepInv
  <2>4. RecordsInv'
    BY <2>1, GatewaySteps, RecordsStepInv
  <2> QED  BY <2>2, <2>3, <2>4 DEF GatewayPartsInv
<1>4. WebPartsInv'
  <2>1. HubInv /\ OwlInv /\ TrkInv /\ IndexInv /\ WebUiTypeOK
    BY DEF PartsInv, WebPartsInv
  <2>2. HubInv' /\ OwlInv'
    BY <2>1, WebPartSteps, HubStepInv, OwlStepInv
  <2>3. TrkInv' /\ IndexInv'
    BY <2>1, WebPartSteps, TrkStepInv, IndexStepInv
  <2>4. WebUiTypeOK'
    BY <2>1, WebPartSteps, WebUiStepTyped
  <2> QED  BY <2>2, <2>3, <2>4 DEF WebPartsInv
<1> QED  BY <1>1, <1>2, <1>3, <1>4 DEF PartsInv

LEMMA PartsKeepInv == SubsystemsSpec => []PartsInv
  BY PartsInitInv, PartsStepInv, PTL DEF SubsystemsSpec

(* The variables of all fifteen parts have their types. *)
THEOREM PartsAreTyped == SubsystemsSpec => []SubsystemsTypeOK
<1>1. PartsInv => SubsystemsTypeOK
  <2> SUFFICES ASSUME PartsInv PROVE SubsystemsTypeOK
    OBVIOUS
  <2>1. SipTypeOK /\ OnvifTypeOK
    BY DEF PartsInv, SimulatorsInv, SipInv
  <2>2. LlamaTypeOK /\ HealthTypeOK /\ YoloServerTypeOK
    BY DEF PartsInv, NodePartsInv, LlamaInv, ServerInv
  <2>3. VlmTypeOK /\ PushTypeOK /\ RrTypeOK /\ GwtTypeOK
    BY DEF PartsInv, GatewayPartsInv, VlmInv, PushInv, RrInv, GwtInv
  <2>4. RecordsTypeOK
    BY RecordsInvSafe DEF PartsInv, GatewayPartsInv
  <2>5. HubTypeOK /\ OwlTypeOK /\ TrkTypeOK /\ IndexTypeOK /\ WebUiTypeOK
    BY DEF PartsInv, WebPartsInv, HubInv, OwlInv, TrkInv, IndexInv
  <2> QED  BY <2>1, <2>2, <2>3, <2>4, <2>5 DEF SubsystemsTypeOK
<1> QED  BY <1>1, PartsKeepInv, PTL

(* No send channel of a WebSocket client is closed twice or written to after its close,
   and until the simulator's Stop no BYE closes the stop channel of a media session
   twice, for any numbers of sessions, messages, connections and channels
   (hub.go:83-127, device.go:306-315). *)
THEOREM ChannelsAreSafeUntilStop == SubsystemsSpec => []ClosedOnceUntilStop
<1>1. PartsInv => ClosedOnceUntilStop
  BY HubInvSafe DEF PartsInv, SimulatorsInv, WebPartsInv, SipInv, ClosedOnceUntilStop
<1> QED  BY <1>1, PartsKeepInv, PTL

(* What the gateway counts is right, for any numbers of nodes, tasks, keys and
   entries (yolo_rr.go:99-101, cache.go:44-58, tracker.go:62-205, task_queue.go:44-63,
   scheduler.go:117-248). *)
THEOREM CountersAreRight == SubsystemsSpec => []CountersHold
<1>1. PartsInv => CountersHold
  BY RrInvSafe, RecordsInvSafe, VlmInvSafe DEF PartsInv, GatewayPartsInv, GwtInv, CountersHold
<1> QED  BY <1>1, PartsKeepInv, PTL

(* What a caller is told is so, whatever the other callers, the servers and the
   connections do meanwhile (process_manager.go:140-148, websocket.go:67-140,
   owl_bridge.go:66-116, client.go:526-572). *)
THEOREM AnswersAreTrue == SubsystemsSpec => []AnswersHold
<1>1. PartsInv => AnswersHold
  BY PushInvSafe, OwlInvSafe
     DEF PartsInv, NodePartsInv, GatewayPartsInv, WebPartsInv, LlamaInv, AnswersHold
<1> QED  BY <1>1, PartsKeepInv, PTL

LEMMA PartsWorkStep ==
    PartsInv /\ UnmadeIdle /\ StopsAtEnd /\ [SubsystemsNext]_allVars =>
        /\ UnmadeIdle' /\ StopsAtEnd'
        /\ [SipWork]_sipVars /\ [OnvifWork]_onvifVars
        /\ [ServerWork]_yoloServerVars
<1> SUFFICES ASSUME PartsInv, UnmadeIdle, StopsAtEnd, [SubsystemsNext]_allVars
             PROVE  /\ UnmadeIdle' /\ StopsAtEnd'
                    /\ [SipWork]_sipVars /\ [OnvifWork]_onvifVars
                    /\ [ServerWork]_yoloServerVars
  OBVIOUS
<1>1. SipInv /\ OnvifTypeOK /\ ServerInv
  BY DEF PartsInv, SimulatorsInv, NodePartsInv
<1>2. UnmadeIdle' /\ [SipWork]_sipVars
  BY <1>1, SimulatorSteps, SipWorkStep
<1>3. StopsAtEnd' /\ [OnvifWork]_onvifVars
  BY <1>1, SimulatorSteps, StopsAtEndStep, OnvifWorkStep
<1>4. [ServerWork]_yoloServerVars
  BY <1>1, NodeSteps, ServerWorkStep
<1> QED  BY <1>2, <1>3, <1>4

(* The threads of yolo-server, the children and goroutines of the ONVIF simulator after
   the signal, and each session of the SIP device have finitely many steps before them,
   for any numbers of each (yolo_pipeline.cpp:66-177, rtsp.go:395-446,
   media.go:203-302). *)
THEOREM WorkHasAnEnd == SubsystemsSpec => WorkIsBounded
<1>1. SubsystemsInit => UnmadeIdle /\ StopsAtEnd
  BY UnmadeInit, StopsAtEndInit DEF SubsystemsInit
<1> QED  BY <1>1, PartsKeepInv, PartsWorkStep, PTL DEF SubsystemsSpec, WorkIsBounded
=============================================================================
