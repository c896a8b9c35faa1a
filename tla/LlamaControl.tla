----------------------------- MODULE LlamaControl -----------------------------
(* Remote control of the llama-server of a node: start, stop, restart and kill by
   the process API of the node agent, which the gateway forwards. Source:
   rivision_node/node-agent: process_manager.go, handler_process.go;
   gateway/internal/api/nodes.go (proxyNodeAgent). External: systemd, which starts
   again what ends (Restart=always in rivision-llama.service), and the server. The
   manager has no lock: calls overlap. *)
EXTENDS FiniteSets

CONSTANTS ProcCalls       \* concurrent calls of the process API

VARIABLES unit,       \* systemd wants the server to run
          llama,      \* its process: there is none, it waits for the disk, it runs
          callPc,     \* where a call is
          callOp,     \* what was asked
          undone      \* one of its commands failed, or another call stopped the unit

llamaVars == <<unit, llama, callPc, callOp, undone>>

ProcOps == {"start", "stop", "restart", "kill"}

LlamaTypeOK ==
    /\ unit \in BOOLEAN /\ llama \in {"none", "blocked", "running"}
    /\ callPc \in [ProcCalls -> ProcOps \cup {"idle", "started", "stopped", "restarted",
                                              "pause", "ok", "error"}]
    /\ callOp \in [ProcCalls -> ProcOps \cup {"none"}]
    /\ undone \in [ProcCalls -> BOOLEAN]

LlamaInit ==
    /\ unit = TRUE /\ llama = "none"
    /\ callPc = [c \in ProcCalls |-> "idle"] /\ callOp = [c \in ProcCalls |-> "none"]
    /\ undone = [c \in ProcCalls |-> FALSE]
-----------------------------------------------------------------------------
(* systemd and the server; a server that loads its model waits for the disk. *)

LlamaAppears ==
    /\ unit /\ llama = "none" /\ llama' \in {"blocked", "running"}
    /\ UNCHANGED <<unit, callPc, callOp, undone>>
LlamaChanges ==
    /\ llama # "none" /\ llama' \in {"none", "blocked", "running"} \ {llama}
    /\ UNCHANGED <<unit, callPc, callOp, undone>>
-----------------------------------------------------------------------------
\* the first process found is in state R or S, not D
IsRunning == llama = "running"

Goto(c, pc) == callPc' = [callPc EXCEPT ![c] = pc] /\ UNCHANGED callOp

\* systemctlAction: what the command does to the unit, or an error
Systemctl(c, action, done, failed) ==
    \/ /\ Goto(c, done)
       /\ unit' = (action # "stop")
       /\ llama' = IF action = "start" THEN llama ELSE "none"
       /\ undone' = [d \in ProcCalls |-> undone[d] \/ (action = "stop" /\ d # c)]
    \/ /\ Goto(c, failed)
       /\ undone' = [undone EXCEPT ![c] = TRUE]
       /\ UNCHANGED <<unit, llama>>

\* handleProcessStart, -Stop, -Restart, -Kill, -KillAll, and their answers
ProcRequest(c) ==
    /\ callPc[c] = "idle"
    /\ \E op \in ProcOps : /\ callPc' = [callPc EXCEPT ![c] = op]
                           /\ callOp' = [callOp EXCEPT ![c] = op]
    /\ undone' = [undone EXCEPT ![c] = FALSE]
    /\ UNCHANGED <<unit, llama>>
ProcAnswer(c) ==
    /\ callPc[c] \in {"ok", "error"}
    /\ callPc' = [callPc EXCEPT ![c] = "idle"]
    /\ callOp' = [callOp EXCEPT ![c] = "none"]
    /\ UNCHANGED <<unit, llama, undone>>

\* Start: a server that runs already is an error
StartLooks(c) ==
    /\ callPc[c] = "start"
    /\ Goto(c, IF IsRunning THEN "error" ELSE "started")
    /\ UNCHANGED <<unit, llama, undone>>
\* the test after the two seconds only decides what is logged
StartCommand(c) == callPc[c] = "started" /\ Systemctl(c, "start", "ok", "error")

\* Stop is also a part of Restart, which pauses for a second after it
AfterStop(c) == IF callOp[c] = "restart" THEN "pause" ELSE "ok"

StopLooks(c) ==
    /\ callPc[c] = "stop"
    /\ Goto(c, IF IsRunning THEN "stopped" ELSE AfterStop(c))
    /\ UNCHANGED <<unit, llama, undone>>
StopCommand(c) == callPc[c] = "stopped" /\ Systemctl(c, "stop", AfterStop(c), "kill")

\* Restart: systemctl; when that fails, or nothing runs three seconds later, Stop
\* and Start
RestartCommand(c) ==
    callPc[c] = "restart" /\ Systemctl(c, "restart", "restarted", "stop")
RestartLooks(c) ==
    /\ callPc[c] = "restarted"
    /\ Goto(c, IF IsRunning THEN "ok" ELSE "stop")
    /\ UNCHANGED <<unit, llama, undone>>
RestartStarts(c) ==
    /\ callPc[c] = "pause" /\ Goto(c, "start")
    /\ UNCHANGED <<unit, llama, undone>>

\* Kill and killProcesses: a signal to the processes found, which they may survive
\* a while, or to one pid, which may not be there
KillProcesses(c) ==
    /\ callPc[c] = "kill"
    /\ \/ llama' \in {llama, "none"} /\ Goto(c, IF callOp[c] = "kill" THEN "ok" ELSE AfterStop(c))
       \/ callOp[c] = "kill" /\ UNCHANGED llama /\ Goto(c, "error")
    /\ UNCHANGED <<unit, undone>>

ProcStep(c) ==
    \/ StartLooks(c) \/ StartCommand(c) \/ StopLooks(c) \/ StopCommand(c)
    \/ RestartCommand(c) \/ RestartLooks(c) \/ RestartStarts(c) \/ KillProcesses(c)
    \/ ProcAnswer(c)

LlamaNext ==
    \/ LlamaAppears \/ LlamaChanges
    \/ \E c \in ProcCalls : ProcRequest(c) \/ ProcStep(c)

LlamaSpec == LlamaInit /\ [][LlamaNext]_llamaVars
-----------------------------------------------------------------------------
(* A start or restart whose commands succeed, and during which no other call stops
   the unit, leaves the unit active, whichever of its ways it took: the fallback
   of Restart stops a server that came up late (process_manager.go:128-148). *)
StartedIsActive ==
    \A c \in ProcCalls :
        (/\ callPc[c] \in {"ok", "error"} /\ callOp[c] \in {"start", "restart"}
         /\ ~undone[c]) => unit
=============================================================================
