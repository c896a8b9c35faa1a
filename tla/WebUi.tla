-------------------------------- MODULE WebUi --------------------------------
(* The command "rivision-cli webui" around its pipeline: main starts two child
   processes, prepares OWL, YOLO and the semantic index, runs the web server and
   waits for a signal or for the server's error; then it kills the children. The
   manager of the YOLO pipeline receives from the same signal channel. Next to it
   one relay of the web server, between a browser and go2rtc.
   Source: rivision_cli: cmd/webui.go, internal/webserver/server.go. *)
EXTENDS Naturals

VARIABLES webMain,     \* where main is
          webChild,    \* [Children -> none, running or ended]
          processes,   \* the children main will kill
          sigChan,     \* a signal is in the channel of capacity 1
          sigTaker,    \* the manager of the pipeline
          webServer,   \* the goroutine that runs the web server
          webIndex,    \* the semantic store
          relay,       \* the loop of handleGo2rtcWebSocket, from go2rtc to the browser
          relayBack,   \* its goroutine, from the browser to go2rtc
          browser,     \* the browser's end of the relay
          go2rtcEnd        \* go2rtc's end

procVars == <<webChild, processes>>
relayVars == <<relay, relayBack, browser, go2rtcEnd>>
webUiVars == <<webMain, procVars, sigChan, sigTaker, webServer, webIndex, relayVars>>

Children == {"rtsp_server", "go2rtc"}
WebSteps == {"rtsp_server", "go2rtc", "owl", "yolo", "index", "serve", "wait", "kill", "ended"}

WebUiTypeOK ==
    /\ webMain \in WebSteps
    /\ webChild \in [Children -> {"none", "running", "ended"}]
    /\ processes \subseteq Children /\ sigChan \in BOOLEAN
    /\ sigTaker \in {"none", "sleeping", "receiving", "gone"}
    /\ webServer \in {"none", "running", "failed"}
    /\ webIndex \in {"none", "open", "closed"}
    /\ relay \in {"none", "reading", "waiting", "returned"}
    /\ relayBack \in {"none", "reading", "ended"}
    /\ browser \in {"none", "open", "left"} /\ go2rtcEnd \in {"none", "open", "broken"}

WebUiInit ==
    /\ webMain = "rtsp_server"
    /\ webChild = [c \in Children |-> "none"] /\ processes = {}
    /\ sigChan = FALSE /\ sigTaker = "none" /\ webServer = "none" /\ webIndex = "none"
    /\ relay = "none" /\ relayBack = "none" /\ browser = "none" /\ go2rtcEnd = "none"
-----------------------------------------------------------------------------
(* main *)

\* a child is not asked for, not found, or does not start; or it runs and is listed
StartChild(c, next) ==
    /\ webMain = c /\ webMain' = next
    /\ \/ UNCHANGED procVars
       \/ /\ webChild' = [webChild EXCEPT ![c] = "running"]
          /\ processes' = processes \cup {c}
    /\ UNCHANGED <<sigChan, sigTaker, webServer, webIndex, relayVars>>

\* skipped when somebody listens on its port
StartRtspServer == StartChild("rtsp_server", "go2rtc")

(* Wrong variant of StartGo2rtc: the process is not listed. *)
StartGo2rtcUnlisted ==
    /\ webMain = "go2rtc" /\ webMain' = "owl"
    /\ webChild' = [webChild EXCEPT !["go2rtc"] = "running"]
    /\ UNCHANGED <<processes, sigChan, sigTaker, webServer, webIndex, relayVars>>

StartGo2rtc == StartChild("go2rtc", "owl")

\* log in to OWL and try its lists: what fails is reported and tried again later
ProbeOwl ==
    /\ webMain = "owl" /\ webMain' = "yolo"
    /\ UNCHANGED <<procVars, sigChan, sigTaker, webServer, webIndex, relayVars>>

\* without a distributed detector there is no pipeline and no manager
SetUpYolo ==
    /\ webMain = "yolo" /\ webMain' = "index"
    /\ sigTaker' \in {"none", "sleeping"}
    /\ UNCHANGED <<procVars, sigChan, webServer, webIndex, relayVars>>

\* find an embedding service and open the semantic store, or go on without them
OpenIndex ==
    /\ webMain = "index" /\ webMain' = "serve"
    /\ webIndex' \in {"none", "open"}
    /\ UNCHANGED <<procVars, sigChan, sigTaker, webServer, relayVars>>

Serve ==
    /\ webMain = "serve" /\ webMain' = "wait"
    /\ webServer' = "running"
    /\ UNCHANGED <<procVars, sigChan, sigTaker, webIndex, relayVars>>

\* the signal, or the error of the server
StopsWaiting ==
    /\ webMain = "wait" /\ webMain' = "kill"
    /\ \/ sigChan /\ sigChan' = FALSE
       \/ webServer = "failed" /\ UNCHANGED sigChan
    /\ UNCHANGED <<procVars, sigTaker, webServer, webIndex, relayVars>>

\* with main the process ends, and all its goroutines and connections
KillChildren ==
    /\ webMain = "kill" /\ webMain' = "ended"
    /\ webChild' = [c \in Children |-> IF c \in processes THEN "ended" ELSE webChild[c]]
    /\ webIndex' = IF webIndex = "open" THEN "closed" ELSE webIndex
    /\ sigTaker' = IF sigTaker = "none" THEN "none" ELSE "gone"
    /\ relay' = "returned" /\ relayBack' = "ended"
    /\ UNCHANGED <<processes, sigChan, webServer, browser, go2rtcEnd>>

WebMain == \/ StartRtspServer \/ StartGo2rtc \/ ProbeOwl \/ SetUpYolo \/ OpenIndex
           \/ Serve \/ StopsWaiting \/ KillChildren
-----------------------------------------------------------------------------
WebAlive == webMain # "ended"

\* a signal that finds the channel full is lost
UserInterrupts ==
    /\ WebAlive /\ ~sigChan /\ sigChan' = TRUE
    /\ UNCHANGED <<webMain, procVars, sigTaker, webServer, webIndex, relayVars>>

\* the port is taken, or the listener fails later
ServerFails ==
    /\ WebAlive /\ webServer = "running" /\ webServer' = "failed"
    /\ UNCHANGED <<webMain, procVars, sigChan, sigTaker, webIndex, relayVars>>

WebChildExits(c) ==
    /\ webChild[c] = "running" /\ webChild' = [webChild EXCEPT ![c] = "ended"]
    /\ UNCHANGED <<webMain, processes, sigChan, sigTaker, webServer, webIndex, relayVars>>

\* three seconds and the first workers: the manager is in its select
ManagerSelects ==
    /\ WebAlive /\ sigTaker = "sleeping" /\ sigTaker' = "receiving"
    /\ UNCHANGED <<webMain, procVars, sigChan, webServer, webIndex, relayVars>>

\* it returns and leaves main without a signal
ManagerTakesSignal ==
    /\ WebAlive /\ sigTaker = "receiving" /\ sigChan
    /\ sigChan' = FALSE /\ sigTaker' = "gone"
    /\ UNCHANGED <<webMain, procVars, webServer, webIndex, relayVars>>
-----------------------------------------------------------------------------
(* The relay. *)

RelayFrame == UNCHANGED <<webMain, procVars, sigChan, sigTaker, webServer, webIndex>>

\* without go2rtc the browser's connection is closed
RelayStarts ==
    /\ WebAlive /\ webServer = "running" /\ relay = "none" /\ browser' = "open"
    /\ \/ relay' = "reading" /\ relayBack' = "reading" /\ go2rtcEnd' = "open"
       \/ relay' = "returned" /\ UNCHANGED <<relayBack, go2rtcEnd>>
    /\ RelayFrame

BrowserLeaves ==
    /\ browser = "open" /\ browser' = "left"
    /\ UNCHANGED <<relay, relayBack, go2rtcEnd>> /\ RelayFrame

Go2rtcBreaks ==
    /\ go2rtcEnd = "open" /\ go2rtcEnd' = "broken"
    /\ UNCHANGED <<relay, relayBack, browser>> /\ RelayFrame

\* a read of go2rtc fails, or a write to a browser that has left when go2rtc sends
LoopEnds ==
    /\ relay = "reading" /\ (go2rtcEnd = "broken" \/ browser = "left")
    /\ relay' = "waiting"
    /\ UNCHANGED <<relayBack, browser, go2rtcEnd>> /\ RelayFrame

\* a read of the browser fails, or a write to go2rtc when the browser sends
BackEnds ==
    /\ relayBack = "reading" /\ (browser = "left" \/ go2rtcEnd = "broken")
    /\ relayBack' = "ended"
    /\ UNCHANGED <<relay, browser, go2rtcEnd>> /\ RelayFrame

\* done is closed: both connections are
RelayReturns ==
    /\ relay = "waiting" /\ relayBack = "ended" /\ relay' = "returned"
    /\ UNCHANGED <<relayBack, browser, go2rtcEnd>> /\ RelayFrame
-----------------------------------------------------------------------------
WebUiNext ==
    \/ WebMain \/ UserInterrupts \/ ServerFails \/ ManagerSelects \/ ManagerTakesSignal
    \/ \E c \in Children : WebChildExits(c)
    \/ RelayStarts \/ BrowserLeaves \/ Go2rtcBreaks \/ LoopEnds \/ BackEnds \/ RelayReturns

\* a read of a connection that is gone fails; that a live peer sends is not assumed
RelayGoesOn == \/ go2rtcEnd = "broken" /\ LoopEnds
               \/ browser = "left" /\ BackEnds
               \/ RelayReturns

(* main goes on; so do the relay's goroutines. The OWL client has a timeout, but the
   embedding service is asked with http.Get, which has none: that main leaves
   OpenIndex is not assumed. *)
WebUiFairness == WF_webUiVars(WebMain /\ webMain # "index") /\ WF_webUiVars(RelayGoesOn)

WebUiSpec == WebUiInit /\ [][WebUiNext]_webUiVars /\ WebUiFairness
-----------------------------------------------------------------------------
(* A signal that no pipeline manager can take ends the command once the index is
   open, and no child it started survives (webui.go:178, 311, 1033-1049). The
   manager takes one signal at most, so the second one is such. *)
SignalEndsWebUi ==
    (sigChan /\ sigTaker \in {"none", "gone"} /\ webMain \in {"serve", "wait"})
        ~> (webMain = "ended" /\ \A c \in Children : webChild[c] # "running")

(* A relay of which both ends are gone goes on until it has returned and its goroutine
   has ended; neither waits for the other for ever (server.go:1097-1130). *)
RelayOver == relay = "returned" /\ relayBack = "ended"
RelayNeverHangs ==
    browser = "left" /\ go2rtcEnd = "broken" /\ ~RelayOver => ENABLED RelayGoesOn

(* With one end gone it does not hold: the relay waits for its goroutine, which reads a
   browser that stays and sends nothing, or reads a go2rtc that sends nothing itself
   (server.go:1108, 1120, 1129). No run checks it; added to one, it is violated. *)
OneEndIsEnough ==
    (relayBack # "none" /\ (browser = "left" \/ go2rtcEnd = "broken") /\ ~RelayOver)
        => ENABLED RelayGoesOn

(* The same without ENABLED: a goroutine of the relay still reads a connection that is
   gone, or the other has ended and is waited for (server.go:1104-1130). *)
RelayIsReady ==
    browser = "left" /\ go2rtcEnd = "broken" /\ ~RelayOver
        => \/ relay = "reading" \/ relayBack = "reading"
           \/ relay = "waiting" /\ relayBack = "ended"

(* No child outlives the command, whichever of the two ways it ends and whatever
   child failed to start or exited before (webui.go:1043-1049). *)
NoChildSurvives == webMain = "ended" => \A c \in Children : webChild[c] # "running"
=============================================================================
