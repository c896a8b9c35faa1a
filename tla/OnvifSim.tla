------------------------------- MODULE OnvifSim -------------------------------
(* The ONVIF simulator: it starts mediamtx, then one FFmpeg per stream with a
   goroutine that restarts it, serves SOAP until a signal comes, and stops all
   children. Source: rivision_owl/onvif-sim: main.go, rtsp.go. mediamtx, FFmpeg and
   the port are external: a child may fail to start, and end at any time; another
   process may listen on the port. *)
EXTENDS Naturals, FiniteSets

CONSTANTS Profiles,       \* the profiles of the configuration file
          ProfileSource   \* [Profiles -> what the profile's source is]

ASSUME OnvifAssumption ==
    ProfileSource \in [Profiles -> {"none", "rtsp", "test", "file", "missing"}]

VARIABLES main,       \* where main is
          mtx,        \* the mediamtx process
          portTaken,  \* somebody else listens on the RTSP port
          toStart,    \* streams Start has still to start
          ctxDone,    \* RTSPServer.ctx is cancelled
          ffMonitor,    \* what the goroutine monitorStream of a stream does
          ff,         \* the FFmpeg process of a stream is alive
          failed,     \* it ended, or was killed, with an error
          streaming   \* RTSPStream.running

onvifVars == <<main, mtx, portTaken, toStart, ctxDone, ffMonitor, ff, failed, streaming>>
streamVars == <<ffMonitor, ff, failed, streaming>>

OnvifTypeOK ==
    /\ main \in {"start", "dial", "streams", "serving", "killing", "closing", "closed", "fatal"}
    /\ mtx \in {"none", "running", "exited"}
    /\ portTaken \in BOOLEAN /\ ctxDone \in BOOLEAN
    /\ toStart \subseteq Profiles
    /\ ffMonitor \in [Profiles -> {"none", "waiting", "sleeping", "restarting", "started", "gone"}]
    /\ ff \in [Profiles -> BOOLEAN] /\ failed \in [Profiles -> BOOLEAN]
    /\ streaming \in [Profiles -> BOOLEAN]

(* main builds an RTSP server when a source is a file, and a stream of it for every
   profile that has a source. *)
NeedsServer == \E p \in Profiles : ProfileSource[p] \in {"file", "missing"}
Streams == {p \in Profiles : ProfileSource[p] # "none"}

OnvifInit ==
    /\ main = IF NeedsServer /\ Streams # {} THEN "start" ELSE "serving"
    /\ mtx = "none" /\ portTaken \in BOOLEAN /\ toStart = {} /\ ctxDone = FALSE
    /\ ffMonitor = [p \in Profiles |-> "none"] /\ ff = [p \in Profiles |-> FALSE]
    /\ failed = [p \in Profiles |-> FALSE] /\ streaming = [p \in Profiles |-> FALSE]
-----------------------------------------------------------------------------
(* RTSPServer.Start *)

\* mediamtx is not found, its configuration cannot be written, or it does not
\* start: log.Fatalf
StartMediamtx ==
    /\ main = "start"
    /\ \/ mtx' = "running" /\ main' = "dial"
       \/ main' = "fatal" /\ UNCHANGED mtx
    /\ UNCHANGED <<portTaken, toStart, ctxDone, streamVars>>

\* somebody accepts connections on the port: mediamtx, or a process that was there
DialSucceeds ==
    /\ main = "dial" /\ (mtx = "running" \/ portTaken)
    /\ main' = "streams" /\ toStart' = Streams
    /\ UNCHANGED <<mtx, portTaken, ctxDone, streamVars>>

\* the process is found to have ended, or three seconds have passed: log.Fatalf,
\* which leaves a mediamtx that is slow behind
DialFails ==
    /\ main = "dial"
    /\ main' = "fatal"
    /\ UNCHANGED <<mtx, portTaken, toStart, ctxDone, streamVars>>

\* startStream: the source is not there, FFmpeg is not found or does not start,
\* or it runs and is watched
StartStream(p) ==
    /\ main = "streams" /\ p \in toStart
    /\ toStart' = toStart \ {p}
    /\ \/ UNCHANGED streamVars
       \/ /\ ProfileSource[p] # "missing"
          /\ ff' = [ff EXCEPT ![p] = TRUE]
          /\ streaming' = [streaming EXCEPT ![p] = TRUE]
          /\ ffMonitor' = [ffMonitor EXCEPT ![p] = "waiting"]
          /\ UNCHANGED failed
    /\ UNCHANGED <<main, mtx, portTaken, ctxDone>>

StartDone ==
    /\ main = "streams" /\ toStart = {}
    /\ main' = "serving"
    /\ UNCHANGED <<mtx, portTaken, toStart, ctxDone, streamVars>>
-----------------------------------------------------------------------------
(* The children. *)

MtxExits ==
    /\ mtx = "running" /\ mtx' = "exited"
    /\ UNCHANGED <<main, portTaken, toStart, ctxDone, streamVars>>

FfExits(p) ==
    /\ ff[p] /\ ff' = [ff EXCEPT ![p] = FALSE]
    /\ \E e \in BOOLEAN : failed' = [failed EXCEPT ![p] = e]
    /\ UNCHANGED <<main, mtx, portTaken, toStart, ctxDone, ffMonitor, streaming>>

Killed(P) == /\ ff' = [p \in Profiles |-> ff[p] /\ p \notin P]
             /\ failed' = [p \in Profiles |-> IF p \in P /\ ff[p] THEN TRUE ELSE failed[p]]

(* Wrong variant of CtxKills: the command is not bound to the context. *)
CtxKillsNone(p) == ctxDone /\ ff[p] /\ UNCHANGED onvifVars

\* exec.CommandContext kills the child when the context is cancelled
CtxKills(p) ==
    /\ ctxDone /\ ff[p] /\ Killed({p})
    /\ UNCHANGED <<main, mtx, portTaken, toStart, ctxDone, ffMonitor, streaming>>
CtxKillsMtx ==
    /\ ctxDone /\ mtx = "running" /\ mtx' = "exited"
    /\ UNCHANGED <<main, portTaken, toStart, ctxDone, streamVars>>
-----------------------------------------------------------------------------
(* monitorStream: it holds no lock *)

WaitReturned(p) ==
    /\ ffMonitor[p] = "waiting" /\ ~ff[p]
    /\ streaming' = [streaming EXCEPT ![p] = FALSE]
    /\ ffMonitor' = [ffMonitor EXCEPT ![p] = IF ctxDone \/ ~failed[p] THEN "gone" ELSE "sleeping"]
    /\ UNCHANGED <<main, mtx, portTaken, toStart, ctxDone, ff, failed>>

WakeUp(p) ==
    /\ ffMonitor[p] = "sleeping"
    /\ ffMonitor' = [ffMonitor EXCEPT ![p] = IF ctxDone THEN "gone" ELSE "restarting"]
    /\ UNCHANGED <<main, mtx, portTaken, toStart, ctxDone, ff, failed, streaming>>

(* Wrong variant of Restart: the new command is not bound to the context. *)
RestartAnyway(p) ==
    /\ ffMonitor[p] = "restarting"
    /\ \/ /\ ff' = [ff EXCEPT ![p] = TRUE]
          /\ ffMonitor' = [ffMonitor EXCEPT ![p] = "started"]
       \/ /\ ffMonitor' = [ffMonitor EXCEPT ![p] = "gone"]
          /\ UNCHANGED ff
    /\ UNCHANGED <<main, mtx, portTaken, toStart, ctxDone, failed, streaming>>

\* Start refuses when its context is cancelled; a start that fails is not repeated
Restart(p) ==
    /\ ffMonitor[p] = "restarting"
    /\ \/ /\ ~ctxDone
          /\ ff' = [ff EXCEPT ![p] = TRUE]
          /\ ffMonitor' = [ffMonitor EXCEPT ![p] = "started"]
       \/ /\ ffMonitor' = [ffMonitor EXCEPT ![p] = "gone"]
          /\ UNCHANGED ff
    /\ UNCHANGED <<main, mtx, portTaken, toStart, ctxDone, failed, streaming>>

\* only now stopStream would find the new process
MarkRestarted(p) ==
    /\ ffMonitor[p] = "started" /\ ffMonitor' = [ffMonitor EXCEPT ![p] = "waiting"]
    /\ streaming' = [streaming EXCEPT ![p] = TRUE]
    /\ UNCHANGED <<main, mtx, portTaken, toStart, ctxDone, ff, failed>>
-----------------------------------------------------------------------------
(* The end of main: a signal that comes earlier waits in its channel. *)

Signal ==
    /\ main = "serving"
    /\ main' = IF NeedsServer /\ Streams # {} THEN "killing" ELSE "closed"
    /\ ctxDone' = (main' = "killing")
    /\ UNCHANGED <<mtx, portTaken, toStart, streamVars>>

\* stopStream of every stream that is marked as running
StopStreams ==
    /\ main = "killing" /\ main' = "closing"
    /\ Killed({p \in Profiles : streaming[p]})
    /\ streaming' = [p \in Profiles |-> FALSE]
    /\ UNCHANGED <<mtx, portTaken, toStart, ctxDone, ffMonitor>>

StopMediamtx ==
    /\ main = "closing" /\ main' = "closed"
    /\ mtx' = "exited"
    /\ UNCHANGED <<portTaken, toStart, ctxDone, streamVars>>
-----------------------------------------------------------------------------
Startup == \/ StartMediamtx \/ DialSucceeds \/ DialFails \/ StartDone
             \/ \E p \in Profiles : StartStream(p)
Stopping == StopStreams \/ StopMediamtx
Monitor(p) == WaitReturned(p) \/ WakeUp(p) \/ Restart(p) \/ MarkRestarted(p)

OnvifNext ==
    \/ Startup \/ MtxExits \/ CtxKillsMtx \/ Signal \/ Stopping
    \/ \E p \in Profiles : FfExits(p) \/ CtxKills(p) \/ Monitor(p)

\* main, the goroutines of exec and the monitors, after the signal
GoesOn == ctxDone /\ (\/ Stopping \/ CtxKillsMtx
                      \/ \E p \in Profiles : CtxKills(p) \/ Monitor(p))

(* Goroutines that can go on do. After the signal all of them together take a
   bounded number of steps, so that it is enough to say so of all together. *)
OnvifFairness == WF_onvifVars(GoesOn)

OnvifSpec == OnvifInit /\ [][OnvifNext]_onvifVars /\ OnvifFairness
-----------------------------------------------------------------------------
(* What is left to do after the signal: main's two steps, the children that are alive,
   and the monitors, of which one may have to mark the child it has just started. *)
MainLeft == CASE main = "killing" -> 2 [] main = "closing" -> 1 [] OTHER -> 0
MonitorLeft(p) == CASE ffMonitor[p] = "started" -> 2
                    [] ffMonitor[p] \in {"waiting", "sleeping", "restarting"} -> 1
                    [] OTHER -> 0

NothingStarts ==
    /\ MainLeft' <= MainLeft /\ (mtx' = "running" => mtx = "running")
    /\ \A p \in Profiles : MonitorLeft(p)' <= MonitorLeft(p) /\ (ff'[p] => ff[p])
SomethingEnds ==
    \/ MainLeft' < MainLeft
    \/ mtx = "running" /\ mtx' # "running"
    \/ \E p \in Profiles : MonitorLeft(p)' < MonitorLeft(p) \/ (ff[p] /\ ~ff'[p])
OnvifWork == ctxDone => NothingStarts /\ SomethingEnds

(* Once a stop has begun nothing starts: no step, not even that of a monitor in the
   middle of a restart, brings a child to life or makes a monitor begin again, and
   every step brings one of them, or main, to its end; so all together take a bounded
   number of steps (rtsp.go:254-278, 395-446). *)
StopOnlyEnds == [][OnvifWork]_onvifVars

(* After a stop no child survives and none is started again: not the one a
   monitor is just restarting, which stopStream does not see (rtsp.go:254-278,
   432-446). *)
StopReapsChildren ==
    ctxDone ~> [](mtx # "running" /\ \A p \in Profiles : ~ff[p])
=============================================================================
