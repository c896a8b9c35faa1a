----------------------------- MODULE MCSubsystems -----------------------------
(* The fifteen modules of parts that share no state, in one run: `part` says which
   of them moves, the others stay where their Init put them. What a state of a
   part may do is therefore what it may do in the specification of its module, and
   a property of one module holds trivially while another one moves. *)
EXTENDS SipDevice, OnvifSim, LlamaControl, AgentHealth, VlmTasks, WebSocketHub,
        GatewayPush, YoloRoundRobin, GatewayTasks, TaskRecords, OwlBridge,
        YoloTracker, SemanticStore, YoloServer, WebUi

CONSTANTS c1, c2       \* channels of OWL

VARIABLE part

MCProfileSource == [p1 |-> "file", p2 |-> "test"]
MCClientChannel == [m |-> "", f |-> "k1"]
MCOwlFirstList == <<c1, c2>>
MCOwlCalls == {[stream |-> 3, list |-> 0], [stream |-> 1, list |-> 1]}
MCObjectCamera == [o1 |-> "A", o2 |-> "A", o3 |-> "B"]
MCObjectBox == [o1 |-> <<0, 20>>, o2 |-> <<50, 90>>, o3 |-> <<60, 90>>]
MCBatchOf == [u1 |-> <<[task |-> "t1", thumb |-> "a"], [task |-> "t2", thumb |-> ""]>>,
              u2 |-> <<[task |-> "t1", thumb |-> "b"]>>]

Parts == {"sip", "onvif", "llama", "health", "vlm", "hub", "push",
          "rr", "tasks", "cache", "tracker", "owl", "detections", "index",
          "yolo-server", "webui"}

\* a part that does not move has one of its initial states, whichever
OneStartEach ==
    /\ part # "sip" => config = [c \in Configured |-> "test"]
    /\ part # "onvif" => ~portTaken
    /\ part # "vlm" => llamaNodes = 0
    /\ part # "push" => live = {}
    /\ part # "rr" => yolo = [n \in RrNodes |-> "off"]
    /\ part # "tasks" => \A s, t \in GwTasks : key[s] = key[t]
    /\ part # "owl" => owlToken = "none" /\ owlLeft.list = 0
    /\ part # "index" => embedUp
    /\ part # "yolo-server" => mode = "pipeline"

SubsystemsInit ==
    /\ part \in Parts
    /\ SipInit /\ OnvifInit /\ LlamaInit /\ HealthInit /\ VlmInit /\ HubInit /\ PushInit
    /\ RrInit /\ GwtInit /\ RecordsInit /\ OwlInit /\ TrkInit /\ IndexInit
    /\ YoloServerInit /\ WebUiInit
    /\ OneStartEach

simVars == <<sipVars, onvifVars>>
nodeVars == <<llamaVars, healthVars, yoloServerVars>>
gatewayVars == <<vlmVars, pushVars, rrVars, gwtVars, recordVars>>
webVars == <<hubVars, owlVars, trkVars, indexVars, webUiVars>>

SubsystemsNext ==
    /\ UNCHANGED part
    /\ \/ /\ part = "sip" /\ SipNext
          /\ UNCHANGED <<onvifVars, nodeVars, gatewayVars, webVars>>
       \/ /\ part = "onvif" /\ OnvifNext
          /\ UNCHANGED <<sipVars, nodeVars, gatewayVars, webVars>>
       \/ /\ part = "llama" /\ LlamaNext
          /\ UNCHANGED <<simVars, healthVars, yoloServerVars, gatewayVars, webVars>>
       \/ /\ part = "health" /\ HealthNext
          /\ UNCHANGED <<simVars, llamaVars, yoloServerVars, gatewayVars, webVars>>
       \/ /\ part = "vlm" /\ VlmNext
          /\ UNCHANGED <<simVars, nodeVars, pushVars, rrVars, gwtVars, recordVars, webVars>>
       \/ /\ part = "push" /\ PushNext
          /\ UNCHANGED <<simVars, nodeVars, vlmVars, rrVars, gwtVars, recordVars, webVars>>
       \/ /\ part = "rr" /\ RrNext
          /\ UNCHANGED <<simVars, nodeVars, vlmVars, pushVars, gwtVars, recordVars, webVars>>
       \/ /\ part = "tasks" /\ GwtNext
          /\ UNCHANGED <<simVars, nodeVars, vlmVars, pushVars, rrVars, recordVars, webVars>>
       \/ /\ part = "cache" /\ CacheNext
          /\ UNCHANGED <<simVars, nodeVars, vlmVars, pushVars, rrVars, gwtVars, webVars>>
       \/ /\ part = "tracker" /\ TrackNext
          /\ UNCHANGED <<simVars, nodeVars, vlmVars, pushVars, rrVars, gwtVars, webVars>>
       \/ /\ part = "hub" /\ HubNext
          /\ UNCHANGED <<simVars, nodeVars, gatewayVars, owlVars, trkVars, indexVars, webUiVars>>
       \/ /\ part = "owl" /\ OwlNext
          /\ UNCHANGED <<simVars, nodeVars, gatewayVars, hubVars, trkVars, indexVars, webUiVars>>
       \/ /\ part = "detections" /\ TrkNext
          /\ UNCHANGED <<simVars, nodeVars, gatewayVars, hubVars, owlVars, indexVars, webUiVars>>
       \/ /\ part = "index" /\ IndexNext
          /\ UNCHANGED <<simVars, nodeVars, gatewayVars, hubVars, owlVars, trkVars, webUiVars>>
       \/ /\ part = "yolo-server" /\ YoloServerNext
          /\ UNCHANGED <<simVars, llamaVars, healthVars, gatewayVars, webVars>>
       \/ /\ part = "webui" /\ WebUiNext
          /\ UNCHANGED <<simVars, nodeVars, gatewayVars, hubVars, owlVars, trkVars, indexVars>>

allVars == <<part, simVars, nodeVars, gatewayVars, webVars>>

(* The fairness of the modules, each for the part that moves: no other one may be
   asked to. *)
SubsystemsFairness ==
    /\ \A s \in Session : WF_sipVars(part = "sip" /\ SessionGoesOn(s))
    /\ WF_onvifVars(part = "onvif" /\ GoesOn)
    /\ WF_healthVars(part = "health" /\ Beat) /\ WF_healthVars(part = "health" /\ CheckEnds)
    /\ \A h \in YoloProbes : WF_healthVars(part = "health" /\ ProbeEnds(h))
    /\ WF_yoloServerVars(part = "yolo-server" /\ Threads)
    /\ WF_webUiVars(part = "webui" /\ WebMain /\ webMain # "index")
    /\ WF_webUiVars(part = "webui" /\ RelayGoesOn)

SubsystemsSpec == SubsystemsInit /\ [][SubsystemsNext]_allVars /\ SubsystemsFairness
-----------------------------------------------------------------------------
(* The variables of each module have their types. *)
SubsystemsTypeOK ==
    /\ SipTypeOK /\ OnvifTypeOK /\ LlamaTypeOK /\ HealthTypeOK /\ VlmTypeOK /\ HubTypeOK
    /\ PushTypeOK /\ RrTypeOK /\ GwtTypeOK /\ RecordsTypeOK /\ OwlTypeOK /\ TrkTypeOK
    /\ IndexTypeOK /\ YoloServerTypeOK /\ WebUiTypeOK

(* No send channel of a WebSocket client is closed twice or written to after its close,
   and until the simulator's Stop no BYE closes the stop channel of a media session a
   second time; each would be a panic (hub.go:83-127, device.go:306-315). After Stop a
   BYE in hand does close one twice: ByeNeverPanics of SipDevice. *)
ClosedOnceUntilStop == HubNeverPanics /\ ByeFindsOpenUntilStop

(* What the gateway counts is right: selections of a YOLO node, entries of the
   cache, tasks that run on a node, analyses that run; keys and slots of the task
   package belong to the tasks that exist and run (yolo_rr.go:99-101, cache.go:44-58,
   tracker.go:62-205, task_queue.go:44-63, scheduler.go:117-248, handlers.go:225-262). *)
CountersHold == /\ SpreadIsEven /\ CacheBounded /\ RunningIsCounted
                /\ OneTaskPerKey /\ SlotsAreHeld /\ AdmissionBounded

(* yolo-server with an answer that is due, and a relay both ends of which are gone, go
   on (http_server.cpp:33-64, yolo_pipeline.cpp:66-177, server.go:1104-1130); what
   PoolGoesOn and PipelineGoesOn say without ENABLED is enough for that. Silent clients,
   a signal at a bad moment and a relay with one end left are not covered: they can
   hang (EveryConnectionIsDue of YoloServer, OneEndIsEnough of WebUi). *)
NothingHangs ==
    /\ ServerNeverHangs /\ RelayNeverHangs
    /\ PoolGoesOn \/ PipelineGoesOn => ENABLED Threads

(* The threads of yolo-server, the children and goroutines of the ONVIF simulator after
   the signal, and each media session of the SIP device have finitely many steps before
   them; the fairness of each relies on it, as it asks of all of them together only
   that some step is taken (yolo_pipeline.cpp:66-177, rtsp.go:395-446,
   media.go:203-302). *)
WorkIsBounded ==
    [][[ServerWork]_yoloServerVars /\ [OnvifWork]_onvifVars /\ [SipWork]_sipVars]_allVars

(* What a caller is told is so: a start that was reported as done, a push connection
   that is listed, a URL that plays, a list of all channels of which no page came by a
   fallback (process_manager.go:140-148, websocket.go:67-140, owl_bridge.go:66-116,
   client.go:448-456, 537-581). *)
AnswersHold ==
    /\ StartedIsActive /\ BrokenIsNoticed
    /\ CachedStreamPlays /\ CleanListingIsComplete
=============================================================================
