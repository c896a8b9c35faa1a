------------------------------ MODULE AgentHealth ------------------------------
(* What the node agent finds out and says about the two servers beside it: the
   health handler, the heartbeat's observations, the YOLO proxy, and the flag that
   remembers whether yolo-server answers. Source: rivision_node/node-agent:
   handler_health.go, handler_yolo.go, yolo_service.go, gateway_client.go. The
   servers are external: they come, go, and may be too slow to answer. *)
EXTENDS FiniteSets

CONSTANTS YoloProbes,     \* concurrent handlers that ask yolo-server
          LlamaEnabled, YoloEnabled     \* settings

ASSUME AgentHealthAssumption == LlamaEnabled \in BOOLEAN /\ YoloEnabled \in BOOLEAN

VARIABLES server,     \* what the servers do
          yoloFlag,   \* YOLOService.healthy
          probe,      \* where a handler that asks yolo-server is
          beat,       \* where the heartbeat is
          heard,      \* what the heartbeat will report
          check,      \* where the health handler is
          seen,       \* what it has found out
          status      \* what it answered

healthVars == <<server, yoloFlag, probe, beat, heard, check, seen, status>>

Services == {"llama", "yolo"}
\* no process; a process that does not run (it waits for the disk); one that does
\* not answer in time; one that answers
ServerStates == {"gone", "blocked", "silent", "up"}
Findings == {"off", "down", "silent", "answers"}
Off == [s \in Services |-> "off"]

HealthTypeOK ==
    /\ server \in [Services -> ServerStates] /\ yoloFlag \in BOOLEAN
    /\ probe \in [YoloProbes -> {"idle", "failed", "passed", "detecting", "answered"}]
    /\ beat \in {"idle", "llama", "yolo", "store"}
    /\ heard \in [Services -> Findings]
    /\ check \in {"idle", "llama", "yolo", "store"}
    /\ seen \in [Services -> Findings]
    /\ status \in {"none", "healthy", "degraded", "unhealthy"}

HealthInit ==
    /\ server = [s \in Services |-> "gone"] /\ yoloFlag = FALSE
    /\ probe = [h \in YoloProbes |-> "idle"]
    /\ beat = "idle" /\ heard = Off /\ check = "idle" /\ seen = Off /\ status = "none"

ServerChanges(s) ==
    /\ \E state \in ServerStates \ {server[s]} : server' = [server EXCEPT ![s] = state]
    /\ UNCHANGED <<yoloFlag, probe, beat, heard, check, seen, status>>
-----------------------------------------------------------------------------
(* Looking for a process and asking for an answer are two steps, after which
   YOLOService stores what it learnt in a third, without a lock. *)

\* IsRunning: by the state in /proc
RunningProcess(s) == server[s] \in {"silent", "up"}

Found(s) == CASE server[s] = "up" -> "answers"
              [] server[s] = "gone" -> "down"
              [] OTHER -> "silent"

\* handleYOLODetect trusts the flag; handleYOLOHealth and handleYOLOStatus ask
YoloAsk(h) ==
    /\ YoloEnabled /\ probe[h] = "idle"
    /\ \/ yoloFlag /\ probe' = [probe EXCEPT ![h] = "detecting"]
       \/ probe' = [probe EXCEPT ![h] = IF server["yolo"] = "up" THEN "passed" ELSE "failed"]
    /\ UNCHANGED <<server, yoloFlag, beat, heard, check, seen, status>>

YoloStore(h) ==
    /\ probe[h] \in {"passed", "failed"}
    /\ yoloFlag' = (probe[h] = "passed")
    /\ \/ probe[h] = "passed" /\ probe' = [probe EXCEPT ![h] = "detecting"]
       \/ probe' = [probe EXCEPT ![h] = "answered"]
    /\ UNCHANGED <<server, beat, heard, check, seen, status>>

\* Detect does not touch the flag, whatever comes back
YoloDetect(h) ==
    /\ probe[h] = "detecting" /\ probe' = [probe EXCEPT ![h] = "answered"]
    /\ UNCHANGED <<server, yoloFlag, beat, heard, check, seen, status>>
YoloAnswer(h) ==
    /\ probe[h] = "answered" /\ probe' = [probe EXCEPT ![h] = "idle"]
    /\ UNCHANGED <<server, yoloFlag, beat, heard, check, seen, status>>
-----------------------------------------------------------------------------
(* GatewayClient.heartbeat *)

BeatFindsLlama ==
    /\ beat = "idle" /\ beat' = "llama"
    /\ heard' = [Off EXCEPT !["llama"] =
          IF ~LlamaEnabled THEN "off" ELSE IF server["llama"] = "gone" THEN "down" ELSE "silent"]
    /\ UNCHANGED <<server, yoloFlag, probe, check, seen, status>>

\* a process that was found and does not answer is reported as busy and healthy
BeatAsksLlama ==
    /\ beat = "llama" /\ beat' = "yolo"
    /\ heard' = IF LlamaEnabled /\ server["llama"] = "up"
                THEN [heard EXCEPT !["llama"] = "answers"] ELSE heard
    /\ UNCHANGED <<server, yoloFlag, probe, check, seen, status>>

BeatAsksYolo ==
    /\ beat = "yolo" /\ beat' = "store"
    /\ heard' = [heard EXCEPT !["yolo"] = IF YoloEnabled THEN Found("yolo") ELSE "off"]
    /\ UNCHANGED <<server, yoloFlag, probe, check, seen, status>>

(* Wrong variant of BeatStores: only a good answer is stored. *)
BeatStoresGood ==
    /\ beat = "store" /\ beat' = "idle" /\ heard' = Off
    /\ yoloFlag' = (yoloFlag \/ heard["yolo"] = "answers")
    /\ UNCHANGED <<server, probe, check, seen, status>>
\* GetStatus stores both ways; then the heartbeat is sent
BeatStores ==
    /\ beat = "store" /\ beat' = "idle" /\ heard' = Off
    /\ yoloFlag' = (YoloEnabled /\ heard["yolo"] = "answers")
    /\ UNCHANGED <<server, probe, check, seen, status>>
-----------------------------------------------------------------------------
(* handleHealthCheck *)

\* a service that is not running decides, a silent one only degrades
HealthStatus(found) ==
    LET afterLlama == CASE found["llama"] = "down" -> "unhealthy"
                        [] found["llama"] = "silent" -> "degraded"
                        [] OTHER -> "healthy" IN
    CASE afterLlama # "unhealthy" /\ found["yolo"] = "down" -> "unhealthy"
      [] afterLlama = "healthy" /\ found["yolo"] = "silent" -> "degraded"
      [] OTHER -> afterLlama

CheckLlamaProcess ==
    /\ check = "idle" /\ check' = "llama" /\ status' = "none"
    /\ seen' = [Off EXCEPT !["llama"] =
          IF ~LlamaEnabled THEN "off" ELSE IF RunningProcess("llama") THEN "silent" ELSE "down"]
    /\ UNCHANGED <<server, yoloFlag, probe, beat, heard>>

\* two attempts of two seconds
CheckLlamaAnswers ==
    /\ check = "llama" /\ check' = "yolo"
    /\ \/ /\ seen["llama"] = "silent" /\ server["llama"] = "up"
          /\ seen' = [seen EXCEPT !["llama"] = "answers"]
       \/ UNCHANGED seen
    /\ UNCHANGED <<server, yoloFlag, probe, beat, heard, status>>

CheckYolo ==
    /\ check = "yolo" /\ check' = "store"
    /\ seen' = [seen EXCEPT !["yolo"] =
          IF ~YoloEnabled THEN "off" ELSE IF RunningProcess("yolo") THEN Found("yolo") ELSE "down"]
    /\ UNCHANGED <<server, yoloFlag, probe, beat, heard, status>>

\* HealthCheck, which stores, is called when a running process was found
CheckAnswers ==
    /\ check = "store" /\ check' = "idle"
    /\ yoloFlag' = IF seen["yolo"] \in {"off", "down"} THEN yoloFlag
                   ELSE seen["yolo"] = "answers"
    /\ status' = HealthStatus(seen) /\ seen' = Off
    /\ UNCHANGED <<server, probe, beat, heard>>
-----------------------------------------------------------------------------
Beat == BeatFindsLlama \/ BeatAsksLlama \/ BeatAsksYolo \/ BeatStores
CheckEnds == CheckLlamaAnswers \/ CheckYolo \/ CheckAnswers
ProbeEnds(h) == YoloStore(h) \/ YoloDetect(h) \/ YoloAnswer(h)

HealthNext ==
    \/ \E s \in Services : ServerChanges(s)
    \/ Beat \/ CheckLlamaProcess \/ CheckEnds
    \/ \E h \in YoloProbes : YoloAsk(h) \/ ProbeEnds(h)

(* The heartbeat's ticker fires, and every request has a timeout. *)
HealthFairness ==
    /\ WF_healthVars(Beat) /\ WF_healthVars(CheckEnds)
    /\ \A h \in YoloProbes : WF_healthVars(ProbeEnds(h))

HealthSpec == HealthInit /\ [][HealthNext]_healthVars /\ HealthFairness
-----------------------------------------------------------------------------
(* The flag follows yolo-server in the end, though requests of four kinds store,
   without a lock, answers they got at different times, and a detection that
   fails leaves it alone (yolo_service.go:39-118). *)
FlagFollowsYolo ==
    /\ (<>[](server["yolo"] # "up")) => <>[]~yoloFlag
    /\ (<>[](YoloEnabled /\ server["yolo"] = "up")) => <>[]yoloFlag

(* The flag is right about yolo-server and nobody is about to store the opposite. *)
DownIsKnown == ~yoloFlag /\ heard["yolo"] # "answers" /\ seen["yolo"] # "answers"
                         /\ \A h \in YoloProbes : probe[h] # "passed"
UpIsKnown == /\ yoloFlag /\ (beat = "store" => heard["yolo"] = "answers")
             /\ check = "store" => seen["yolo"] # "silent"
             /\ \A h \in YoloProbes : probe[h] # "failed"

FlagKept == /\ server["yolo"] # "up" /\ DownIsKnown => DownIsKnown'
            /\ YoloEnabled /\ server["yolo"] = "up" /\ UpIsKnown => UpIsKnown'

(* A right flag stays right until yolo-server changes: of the heartbeat, the health
   handler and the YOLO handlers none stores anything else meanwhile
   (yolo_service.go:39-118). *)
FlagLasts == [][FlagKept]_healthVars
=============================================================================
