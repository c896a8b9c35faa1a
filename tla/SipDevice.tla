------------------------------ MODULE SipDevice ------------------------------
(* The GB28181 device simulator: registration with the platform, the event loop
   that reads SIP requests, one media session per INVITE, and the stop by a
   signal. Source: rivision_owl/gb28181-sim: main.go, internal/device,
   internal/sip. Five kinds of goroutines take steps: the main one (Run and its
   event loop), the one that waits for a signal and calls Stop, and per session
   the one that runs the encoder, the one that kills it, and the RTCP ones.
   The platform (owl) is external: it answers, sends requests in any order, and
   its datagrams may be lost. A session is a number in the order of the INVITEs. *)
EXTENDS Naturals, Sequences, FiniteSets, SequencesExt

CONSTANTS Channels,     \* identifiers that appear in a To header
          Configured,   \* the channels of the configuration
          AskedTypes,   \* payload types an INVITE asks for, 0: an SDP that ParseSDP refuses
          MaxSessions,  \* bound: INVITEs of a run
          MaxInbox      \* bound: datagrams on their way to the device

(* What a configured source is: the test pattern, an RTSP stream, a file of
   H.264, a file of HEVC (by its name, or by ffprobe, whose answer on a file does
   not change), a file that is not there. *)
Sources == {"test", "rtsp", "h264", "hevc", "missing"}

ASSUME SipAssumption == /\ Configured \subseteq Channels
                        /\ AskedTypes \subseteq {0, 96, 98, 99}
                        /\ MaxSessions \in Nat \ {0} /\ MaxInbox \in Nat \ {0}

VARIABLES config,     \* main's DeviceConfig: the source of each configured channel
          run,        \* where Device.Run is
          asked,      \* the REGISTER the platform has to answer
          accepted,   \* the platform regards the device as registered
          inbox,      \* what Client.Receive will read
          handling,   \* the request the event loop is about to handle
          stopCh,     \* Device.stopCh is closed
          stopper,    \* where Device.Stop is
          sessions,   \* Device.sessions: the current session of a channel, 0 if none
          created,    \* number of media sessions so far
          media,      \* what the goroutine of a session does, the codec it sends
          source,     \* MediaSession.Source
          answered,   \* payload type announced in the answer to the INVITE
          closed,     \* MediaSession.stopCh is closed
          child,      \* the FFmpeg process of a session is alive
          rtcp        \* the RTCP goroutines of a session are alive

runVars == <<run, asked, accepted, inbox, handling>>
mediaVars == <<created, media, source, answered, closed, child, rtcp>>
sipVars == <<config, run, asked, accepted, inbox, handling, stopCh, stopper, sessions,
             created, media, source, answered, closed, child, rtcp>>

Session == 1..MaxSessions
PayloadTypes == {96, 98, 99}      \* PayloadTypePS, PayloadTypeH264, PayloadTypeH265
Message ==
    [kind : {"INVITE"}, ch : Channels, pt : AskedTypes]
    \cup [kind : {"BYE"}, ch : Channels]
    \cup [kind : {"MESSAGE", "200", "401", "403"}]
NoMessage == [kind |-> "none"]

SipTypeOK ==
    /\ config \in [Configured -> Sources]
    /\ run \in {"dial", "register", "authorize", "events", "exited"}
    /\ asked \in {"none", "plain", "auth"}
    /\ accepted \in BOOLEAN /\ stopCh \in BOOLEAN
    /\ inbox \in Seq(Message) /\ Len(inbox) <= MaxInbox
    /\ handling \in Message \cup {NoMessage}
    /\ stopper \in {"idle", "closing", "waiting"}
    /\ sessions \in [Channels -> 0..MaxSessions]
    /\ created \in 0..MaxSessions
    /\ media \in [Session -> {"none", "starting", "h264", "h265", "native", "done"}]
    /\ source \in [Session -> Sources]
    /\ answered \in [Session -> PayloadTypes \cup {0}]
    /\ closed \in [Session -> BOOLEAN]
    /\ child \in [Session -> BOOLEAN]
    /\ rtcp \in [Session -> BOOLEAN]

SipInit ==
    /\ config \in [Configured -> Sources]
    /\ run = "dial" /\ asked = "none" /\ accepted = FALSE /\ inbox = <<>>
    /\ handling = NoMessage /\ stopCh = FALSE /\ stopper = "idle"
    /\ sessions = [c \in Channels |-> 0] /\ created = 0
    /\ media = [s \in Session |-> "none"] /\ source = [s \in Session |-> "test"]
    /\ answered = [s \in Session |-> 0]
    /\ closed = [s \in Session |-> FALSE] /\ child = [s \in Session |-> FALSE]
    /\ rtcp = [s \in Session |-> FALSE]

Alive == run # "exited"
-----------------------------------------------------------------------------
(* Payload types. *)

\* Device.getChannelSource: an unknown channel shows the test pattern
SourceOf(c) == IF c \in Configured THEN config[c] ELSE "test"

\* handleInvite overrides what was asked when it finds HEVC; SendInviteOK turns
\* all but H.264 and H.265 into H.264
InvitePT(pt, src) == IF src = "hevc" THEN 99 ELSE pt
AnswerPT(pt) == IF pt \in {98, 99} THEN pt ELSE 98

\* StartMediaStream sets the payload type anew, from the source alone
StreamPT(src) == IF src = "hevc" THEN 99 ELSE 98
-----------------------------------------------------------------------------
(* The platform and the network. *)

Deliver(m) == Len(inbox) < MaxInbox /\ inbox' = Append(inbox, m)

PlatformAnswers ==
    /\ Alive /\ asked # "none" /\ asked' = "none"
    /\ \E k \in {"200", "401", "403"} :
          Deliver([kind |-> k]) /\ accepted' = (k = "200")
    /\ UNCHANGED <<run, handling, stopCh, stopper, sessions, mediaVars, config>>

\* INVITEs so far: those that made a session, those on their way, the one in hand
InvitesIn(q) == Cardinality({i \in DOMAIN q : q[i].kind = "INVITE"})
Invited == created + InvitesIn(inbox) + (IF handling.kind = "INVITE" THEN 1 ELSE 0)

PlatformRequests ==
    /\ accepted /\ Alive
    /\ \E m \in Message : /\ m.kind = "INVITE" => Invited < MaxSessions
                          /\ m.kind \in {"INVITE", "BYE", "MESSAGE"}
                          /\ Deliver(m)
    /\ UNCHANGED <<run, asked, accepted, handling, stopCh, stopper, sessions, mediaVars, config>>

Lose == /\ Alive
        /\ \/ inbox # <<>> /\ inbox' = Front(inbox) /\ UNCHANGED asked
           \/ asked # "none" /\ asked' = "none" /\ UNCHANGED inbox
        /\ UNCHANGED <<run, accepted, handling, stopCh, stopper, sessions, mediaVars, config>>
-----------------------------------------------------------------------------
(* Device.Run. *)

Exit == run' = "exited"

Dial ==
    /\ run = "dial"
    /\ \/ run' = "register" /\ asked' = "plain"
       \/ Exit /\ UNCHANGED asked
    /\ UNCHANGED <<accepted, inbox, handling, stopCh, stopper, sessions, mediaVars, config>>

\* Client.Register: no read deadline is set here; anything but 200 and a first
\* 401 is a failure, and the program ends
Register ==
    /\ run \in {"register", "authorize"} /\ inbox # <<>>
    /\ inbox' = Tail(inbox)
    /\ LET k == Head(inbox).kind IN
       \/ k = "401" /\ run = "register" /\ run' = "authorize" /\ asked' = "auth"
       \/ k = "200" /\ run' = "events" /\ UNCHANGED asked
       \/ k # "200" /\ ~(k = "401" /\ run = "register") /\ Exit /\ UNCHANGED asked
    /\ UNCHANGED <<accepted, handling, stopCh, stopper, sessions, mediaVars, config>>

ReceiveFails ==
    /\ run \in {"register", "authorize", "events"} /\ handling = NoMessage
    /\ Exit
    /\ UNCHANGED <<asked, accepted, inbox, handling, stopCh, stopper, sessions, mediaVars, config>>

\* one turn of eventLoop up to the switch: the stop channel is looked at after
\* Receive has returned
Receive ==
    /\ run = "events" /\ handling = NoMessage /\ inbox # <<>>
    /\ inbox' = Tail(inbox)
    /\ IF stopCh THEN Exit /\ UNCHANGED handling
       ELSE handling' = Head(inbox) /\ UNCHANGED run
    /\ UNCHANGED <<asked, accepted, stopCh, stopper, sessions, mediaVars, config>>

\* a turn in which the read deadline of 5 s passes
ReceiveTimesOut ==
    /\ run = "events" /\ handling = NoMessage /\ inbox = <<>> /\ stopCh
    /\ Exit
    /\ UNCHANGED <<asked, accepted, inbox, handling, stopCh, stopper, sessions, mediaVars, config>>

HandleInvite ==
    /\ run = "events" /\ handling.kind = "INVITE"
    /\ handling' = NoMessage
    /\ IF handling.pt = 0 THEN UNCHANGED <<sessions, mediaVars>>
       ELSE LET s == created + 1  c == handling.ch IN
            /\ created' = s
            /\ source' = [source EXCEPT ![s] = SourceOf(c)]
            /\ answered' = [answered EXCEPT ![s] = AnswerPT(InvitePT(handling.pt, SourceOf(c)))]
            /\ sessions' = [sessions EXCEPT ![c] = s]
            /\ media' = [media EXCEPT ![s] = "starting"]
            /\ UNCHANGED <<closed, child, rtcp>>
    /\ UNCHANGED <<run, asked, accepted, inbox, stopCh, stopper, config>>

(* Wrong variant of HandleBye: the session stays in the map. *)
HandleByeKeeps ==
    /\ run = "events" /\ handling.kind = "BYE"
    /\ handling' = NoMessage
    /\ LET s == sessions[handling.ch] IN
       IF s = 0 THEN UNCHANGED <<run, closed>>
       ELSE IF closed[s] THEN Exit /\ UNCHANGED closed
       ELSE closed' = [closed EXCEPT ![s] = TRUE] /\ UNCHANGED run
    /\ UNCHANGED <<asked, accepted, inbox, stopCh, stopper, sessions, created, media, source,
                   answered, child, rtcp, config>>

\* closing a closed channel panics, and the panic ends the program
HandleBye ==
    /\ run = "events" /\ handling.kind = "BYE"
    /\ handling' = NoMessage
    /\ LET s == sessions[handling.ch] IN
       IF s = 0 THEN UNCHANGED <<run, sessions, closed>>
       ELSE IF closed[s] THEN Exit /\ UNCHANGED <<sessions, closed>>
       ELSE /\ closed' = [closed EXCEPT ![s] = TRUE]
            /\ sessions' = [sessions EXCEPT ![handling.ch] = 0]
            /\ UNCHANGED run
    /\ UNCHANGED <<asked, accepted, inbox, stopCh, stopper, created, media, source,
                   answered, child, rtcp, config>>

\* MESSAGE, SUBSCRIBE and the rest are answered, a response is ignored
HandleOther ==
    /\ run = "events" /\ handling.kind \notin {"none", "INVITE", "BYE"}
    /\ handling' = NoMessage
    /\ UNCHANGED <<run, asked, accepted, inbox, stopCh, stopper, sessions, mediaVars, config>>
-----------------------------------------------------------------------------
(* Device.Stop, called once, by the goroutine that waits for a signal. *)

Stop ==
    /\ Alive /\ stopper = "idle"
    /\ stopCh' = TRUE /\ stopper' = "closing"
    /\ UNCHANGED <<runVars, sessions, mediaVars, config>>

StopSessions ==
    /\ Alive /\ stopper = "closing"
    /\ stopper' = "waiting"
    /\ closed' = [s \in Session |-> closed[s] \/ \E c \in Channels : sessions[c] = s]
    /\ UNCHANGED <<runVars, stopCh, sessions, created, media, source, answered,
                   child, rtcp, config>>
-----------------------------------------------------------------------------
(* A session: StartMediaStream picks the function that starts FFmpeg, a second
   goroutine kills the process when the session is stopped. *)

\* what every stream* function ends with: cmd.Start, the goroutine that kills,
\* the RTCP goroutines, cmd.Wait; the session is over when FFmpeg does not start
StartEncoder(s, codec) ==
    /\ \/ /\ media' = [media EXCEPT ![s] = codec]
          /\ child' = [child EXCEPT ![s] = TRUE]
          /\ rtcp' = [rtcp EXCEPT ![s] = TRUE]
       \/ media' = [media EXCEPT ![s] = "done"] /\ UNCHANGED <<child, rtcp>>
    /\ UNCHANGED <<runVars, stopCh, stopper, sessions, created, source, answered, closed, config>>

Starting(s, src) == Alive /\ media[s] = "starting" /\ source[s] = src

\* StartMediaStream returns an error for a file that is not there
StartMissing(s) ==
    /\ Starting(s, "missing")
    /\ media' = [media EXCEPT ![s] = "done"]
    /\ UNCHANGED <<runVars, stopCh, stopper, sessions, created, source, answered, closed,
                   child, rtcp, config>>

\* without FFmpeg the test pattern is sent by nativeRTPSend
StreamNative(s) ==
    /\ Starting(s, "test")
    /\ media' = [media EXCEPT ![s] = "native"]
    /\ UNCHANGED <<runVars, stopCh, stopper, sessions, created, source, answered, closed,
                   child, rtcp, config>>

StreamTestPattern(s) == Starting(s, "test") /\ StartEncoder(s, "h264")
StreamRTSP(s) == Starting(s, "rtsp") /\ StartEncoder(s, "h264")
StreamFileH264(s) == /\ Starting(s, "h264") /\ StreamPT(source[s]) # 99
                     /\ StartEncoder(s, "h264")
StreamFileH265(s) == /\ Starting(s, "hevc") /\ StreamPT(source[s]) = 99
                     /\ StartEncoder(s, "h265")

\* nativeRTPSend returns when its session is stopped
NativeEnds(s) ==
    /\ Alive /\ media[s] = "native" /\ closed[s]
    /\ media' = [media EXCEPT ![s] = "done"]
    /\ UNCHANGED <<runVars, stopCh, stopper, sessions, created, source, answered, closed,
                   child, rtcp, config>>

(* Wrong variant of Kill: the session is looked at before FFmpeg is started. *)
KillBeforeStart(s) ==
    /\ Alive /\ closed[s] /\ child[s] /\ media[s] = "starting"
    /\ child' = [child EXCEPT ![s] = FALSE]
    /\ UNCHANGED <<runVars, stopCh, stopper, sessions, created, media, source, answered,
                   closed, rtcp, config>>
\* the goroutine every stream* function leaves behind
Kill(s) ==
    /\ Alive /\ closed[s] /\ child[s]
    /\ child' = [child EXCEPT ![s] = FALSE]
    /\ UNCHANGED <<runVars, stopCh, stopper, sessions, created, media, source, answered,
                   closed, rtcp, config>>

\* FFmpeg may end by itself: a stream that breaks, a file that ends
ChildExits(s) ==
    /\ child[s]
    /\ child' = [child EXCEPT ![s] = FALSE]
    /\ UNCHANGED <<runVars, stopCh, stopper, sessions, created, media, source, answered,
                   closed, rtcp, config>>

WaitReturns(s) ==
    /\ Alive /\ media[s] \in {"h264", "h265"} /\ ~child[s]
    /\ media' = [media EXCEPT ![s] = "done"]
    /\ UNCHANGED <<runVars, stopCh, stopper, sessions, created, source, answered, closed,
                   child, rtcp, config>>

\* rtcpReceiver and rtcpSender look at the stop channel between two operations
RtcpEnds(s) ==
    /\ Alive /\ rtcp[s] /\ closed[s]
    /\ rtcp' = [rtcp EXCEPT ![s] = FALSE]
    /\ UNCHANGED <<runVars, stopCh, stopper, sessions, created, media, source, answered,
                   closed, child, config>>
-----------------------------------------------------------------------------
Stream(s) == \/ StartMissing(s) \/ StreamNative(s) \/ StreamTestPattern(s)
             \/ StreamRTSP(s) \/ StreamFileH264(s) \/ StreamFileH265(s)
RunMedia(s) == Stream(s) \/ NativeEnds(s) \/ WaitReturns(s)
EventLoop == \/ Receive \/ ReceiveTimesOut
             \/ HandleInvite \/ HandleBye \/ HandleOther

SipNext ==
    \/ PlatformAnswers \/ PlatformRequests \/ Lose
    \/ Dial \/ Register \/ ReceiveFails \/ EventLoop
    \/ Stop \/ StopSessions
    \/ \E s \in Session : RunMedia(s) \/ Kill(s) \/ ChildExits(s) \/ RtcpEnds(s)

\* the goroutines of a session
SessionGoesOn(s) == RunMedia(s) \/ Kill(s) \/ RtcpEnds(s)

(* The scheduler runs goroutines that can go on. Those of a session take a bounded
   number of steps, so that it is enough to say so of all of them together. *)
SipFairness == \A s \in Session : WF_sipVars(SessionGoesOn(s))

SipSpec == SipInit /\ [][SipNext]_sipVars /\ SipFairness
-----------------------------------------------------------------------------
(* A session that was stopped ends, with its encoder and its RTCP goroutines, at
   whatever moment of its start the stop arrives (goroutines of media.go:224-231). *)
StoppedMediaEnds ==
    \A s \in Session :
        closed[s] ~> (media[s] \in {"none", "done"} /\ ~child[s] /\ ~rtcp[s]) \/ ~Alive

(* The steps a session has still before it, at most. *)
SessionLeft(s) ==
    (CASE media[s] = "none" -> 9 [] media[s] = "starting" -> 6
       [] media[s] \in {"h264", "h265", "native"} -> 3 [] media[s] = "done" -> 0)
    + (IF child[s] THEN 1 ELSE 0) + (IF rtcp[s] THEN 1 ELSE 0)

SipWork ==
    \A s \in Session :
        /\ SessionLeft(s)' <= SessionLeft(s)
        /\ SessionGoesOn(s) => SessionLeft(s)' < SessionLeft(s)
        /\ closed[s] => closed'[s]

(* A session only goes on to its end: no step of anybody, its own encoder's, a second
   INVITE's or Stop's, gives it steps it had not before, each of its own takes one
   away, and a stop is not undone (media.go:203-302, device.go:262-316). *)
SessionsOnlyEnd == [][SipWork]_sipVars

(* Until Stop has closed the sessions, a BYE finds the stop channel of the current
   session open: a session that ended by itself, an INVITE that replaced one, or a
   second BYE does not make it close one twice (device.go:262-316). *)
ByeFindsOpenUntilStop ==
    stopper # "waiting" => \A c \in Channels : sessions[c] # 0 => ~closed[sessions[c]]

(* The same at any time, which does not hold: Stop closes the channels of the sessions
   and leaves the sessions in the map (device.go:141-148), so that a BYE the event loop
   has in hand, taken before Stop closed stopCh, closes one again and panics
   (device.go:306-315). No run checks it; added to one, it is violated. *)
ByeNeverPanics ==
    run = "events" /\ handling.kind = "BYE" =>
        (sessions[handling.ch] # 0 => ~closed[sessions[handling.ch]])
=============================================================================
