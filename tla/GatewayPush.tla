------------------------------ MODULE GatewayPush ------------------------------
(* The push of the gateway to WebSocket connections: registration, subscriptions,
   one push loop, results of VLM tasks, and the handlers' own writes. Source:
   gateway/internal/api: websocket.go, handlers.go (HandleLiveWebSocket). The
   connection is external (gorilla): a write succeeds or finds it down; when two
   goroutines write at the same time, one of them may notice and panic. A panic
   in a handler is recovered by gin, one in another goroutine ends the program. *)
EXTENDS Naturals, FiniteSets

CONSTANTS PushConns,   \* connections of a run
          PushRounds,  \* pushAllData sends to the channels 1..PushRounds in this order
          VlmResults   \* tasks that push a result

ASSUME PushAssumption ==
    /\ PushRounds \in Nat \ {0}
    /\ PushConns \cap VlmResults = {} /\ "loop" \notin PushConns \cup VlmResults

VARIABLES live,        \* the connections opened at /ws/live, the others at /ws/realtime
          connected,   \* WSConnectionManager.connections
          subscribed,  \* the channels of each
          pushing,     \* WSConnectionManager.running
          pushPc,      \* the channel the loop sends to next, 0 when it waits
          results,     \* tasks that have still to push
          left,        \* connections a broadcast has still to write to
          writing,     \* the connections each goroutine is writing to: one or none
          connHandler,     \* where the handler of a connection is
          connReader,  \* where its reading goroutine is
          dropping,    \* a failed write has started "go Disconnect"
          down,        \* closed or broken connections
          crashed      \* the program has ended

pushVars == <<live, connected, subscribed, pushing, pushPc, results, left, writing, connHandler,
              connReader, dropping, down, crashed>>
connVars == <<connHandler, connReader>>
broadcastVars == <<pushPc, results, left>>

PushChannels == 1..PushRounds                \* "nodes", "stats", "tasks"
Broadcasters == {"loop"} \cup VlmResults
PushWriters == Broadcasters \cup PushConns   \* a handler writes to its own connection

PushTypeOK ==
    /\ live \in SUBSET PushConns /\ connected \in SUBSET PushConns
    /\ subscribed \in [PushConns -> SUBSET PushChannels]
    /\ pushing \in BOOLEAN /\ crashed \in BOOLEAN /\ pushPc \in 0..PushRounds
    /\ results \in SUBSET VlmResults
    /\ left \in [Broadcasters -> SUBSET PushConns]
    /\ writing \in [PushWriters -> SUBSET PushConns]
    /\ connHandler \in [PushConns -> {"none", "loop", "welcome", "serving", "leaving", "gone"}]
    /\ connReader \in [PushConns -> {"none", "reading", "leaving", "gone"}]
    /\ dropping \in SUBSET PushConns /\ down \in SUBSET PushConns

PushInit ==
    /\ live \in SUBSET PushConns
    /\ connected = {} /\ subscribed = [c \in PushConns |-> {}] /\ pushing = FALSE
    /\ pushPc = 0 /\ results = VlmResults
    /\ left = [b \in Broadcasters |-> {}] /\ writing = [w \in PushWriters |-> {}]
    /\ connHandler = [c \in PushConns |-> "none"] /\ connReader = [c \in PushConns |-> "none"]
    /\ dropping = {} /\ down = {} /\ crashed = FALSE

\* a broadcast holds the read lock from its first to its last write
Unlocked == \A b \in Broadcasters : left[b] = {}
-----------------------------------------------------------------------------
(* One connection. *)

Connect(c) ==
    /\ ~crashed /\ connHandler[c] = "none" /\ Unlocked
    /\ connected' = connected \cup {c}
    /\ subscribed' = [subscribed EXCEPT ![c] = PushChannels]
    /\ connHandler' = [connHandler EXCEPT ![c] = IF c \in live THEN "welcome" ELSE "loop"]
    /\ UNCHANGED <<live, pushing, broadcastVars, writing, connReader, dropping, down, crashed>>

\* only the first caller starts a loop; /ws/live starts none
StartPushLoop(c) ==
    /\ ~crashed /\ connHandler[c] = "loop" /\ Unlocked
    /\ pushing' = TRUE
    /\ connHandler' = [connHandler EXCEPT ![c] = "welcome"]
    /\ UNCHANGED <<live, connected, subscribed, broadcastVars, writing, connReader, dropping,
                   down, crashed>>

Break(c) ==
    /\ connHandler[c] # "none" /\ c \notin down /\ down' = down \cup {c}
    /\ UNCHANGED <<live, connected, subscribed, pushing, broadcastVars, writing, connVars,
                   dropping, crashed>>

Disconnected(c) ==
    /\ Unlocked /\ connected' = connected \ {c} /\ down' = down \cup {c}
    /\ subscribed' = [subscribed EXCEPT ![c] = {}]

\* the deferred Disconnect of a reading goroutine, or of the /ws/live handler
Disconnect(c) ==
    /\ ~crashed
    /\ \/ /\ connReader[c] = "leaving" /\ connReader' = [connReader EXCEPT ![c] = "gone"]
          /\ UNCHANGED connHandler
       \/ /\ connHandler[c] = "leaving" /\ connHandler' = [connHandler EXCEPT ![c] = "gone"]
          /\ UNCHANGED connReader
    /\ Disconnected(c)
    /\ UNCHANGED <<live, pushing, broadcastVars, writing, dropping, crashed>>

DropFailed(c) ==
    /\ ~crashed /\ c \in dropping /\ dropping' = dropping \ {c} /\ Disconnected(c)
    /\ UNCHANGED <<live, pushing, broadcastVars, writing, connVars, crashed>>

\* on /ws/live what is read is ignored, and the end of reading ends the handler
ReadEnds(c) ==
    /\ ~crashed /\ connReader[c] = "reading" /\ c \in down
    /\ connReader' = [connReader EXCEPT ![c] = IF c \in live THEN "gone" ELSE "leaving"]
    /\ UNCHANGED <<live, connected, subscribed, pushing, broadcastVars, writing, connHandler, dropping,
                   down, crashed>>
LiveEnds(c) ==
    /\ ~crashed /\ c \in live /\ connHandler[c] = "serving" /\ connReader[c] = "gone"
    /\ writing[c] = {} /\ connHandler' = [connHandler EXCEPT ![c] = "leaving"]
    /\ UNCHANGED <<live, connected, subscribed, pushing, broadcastVars, writing, connReader,
                   dropping, down, crashed>>

Subscribe(c, k) ==
    /\ ~crashed /\ c \notin live /\ connReader[c] = "reading" /\ c \notin down
    /\ Unlocked /\ c \in connected
    /\ subscribed' = [subscribed EXCEPT ![c] = IF k \in @ THEN @ \ {k} ELSE @ \cup {k}]
    /\ UNCHANGED <<live, connected, pushing, broadcastVars, writing, connVars, dropping, down, crashed>>
-----------------------------------------------------------------------------
(* Broadcasts. *)

\* pushAllData looks for a connection first, without keeping the lock
Tick ==
    /\ ~crashed /\ pushing /\ pushPc = 0 /\ connected # {}
    /\ pushPc' = 1
    /\ UNCHANGED <<live, connected, subscribed, pushing, results, left, writing, connVars,
                   dropping, down, crashed>>
Broadcast ==
    /\ ~crashed /\ pushPc > 0 /\ left["loop"] = {}
    /\ left' = [left EXCEPT !["loop"] = {c \in connected : pushPc \in subscribed[c]}]
    /\ pushPc' = (pushPc + 1) % (PushRounds + 1)
    /\ UNCHANGED <<live, connected, subscribed, pushing, results, writing, connVars, dropping,
                   down, crashed>>
BroadcastResult(v) ==
    /\ ~crashed /\ v \in results
    /\ results' = results \ {v} /\ left' = [left EXCEPT ![v] = connected]
    /\ UNCHANGED <<live, connected, subscribed, pushing, pushPc, writing, connVars, dropping,
                   down, crashed>>

\* the welcome and, on /ws/live, every three seconds the nodes
WantsToWrite(w, c) ==
    IF w \in PushConns THEN w = c /\ \/ connHandler[c] = "welcome"
                                     \/ connHandler[c] = "serving" /\ c \in live
    ELSE c \in left[w]
Others(w, c) == {v \in PushWriters \ {w} : c \in writing[v]}

BeginWrite(w, c) ==
    /\ ~crashed /\ writing[w] = {} /\ WantsToWrite(w, c)
    /\ writing' = [writing EXCEPT ![w] = {c}]
    /\ UNCHANGED <<live, connected, subscribed, pushing, broadcastVars, connVars, dropping, down, crashed>>

EndWrite(w, c) ==
    /\ ~crashed /\ writing[w] = {c}
    /\ writing' = [writing EXCEPT ![w] = {}]
    /\ IF w \in PushConns
       THEN /\ connHandler' = [connHandler EXCEPT ![c] = CASE connHandler[c] # "welcome" -> @
                                                   [] c \in live -> "serving"
                                                   [] OTHER -> "gone"]
            /\ connReader' = IF connHandler[c] = "welcome"
                             THEN [connReader EXCEPT ![c] = "reading"] ELSE connReader
            /\ UNCHANGED <<left, dropping>>
       ELSE /\ left' = [left EXCEPT ![w] = @ \ {c}]
            /\ dropping' = IF c \in down THEN dropping \cup {c} ELSE dropping
            /\ UNCHANGED connVars
    /\ UNCHANGED <<live, connected, subscribed, pushing, pushPc, results, down, crashed>>

\* another goroutine writes: gorilla panics when it notices
WritePanics(w, c) ==
    /\ ~crashed /\ writing[w] = {c} /\ Others(w, c) # {}
    /\ writing' = [writing EXCEPT ![w] = {}]
    /\ IF w \in PushConns
       THEN /\ connHandler' = [connHandler EXCEPT ![c] = IF c \in live THEN "leaving" ELSE "gone"]
            /\ UNCHANGED crashed
       ELSE crashed' = TRUE /\ UNCHANGED connHandler
    /\ UNCHANGED <<live, connected, subscribed, pushing, broadcastVars, connReader, dropping, down>>
-----------------------------------------------------------------------------
PushNext ==
    \/ Tick \/ Broadcast \/ \E v \in VlmResults : BroadcastResult(v)
    \/ \E c \in PushConns :
          \/ Connect(c) \/ StartPushLoop(c) \/ Break(c) \/ Disconnect(c) \/ DropFailed(c)
          \/ ReadEnds(c) \/ LiveEnds(c) \/ \E k \in PushChannels : Subscribe(c, k)
          \/ \E w \in PushWriters : BeginWrite(w, c) \/ EndWrite(w, c) \/ WritePanics(w, c)

PushSpec == PushInit /\ [][PushNext]_pushVars
-----------------------------------------------------------------------------
(* A broken connection that is still in the manager's map has somebody who will take
   it out: its reader or its handler, a failed write that was noticed, or the push
   loop's next message, the only one left when the welcome panicked and no reader
   was ever started (websocket.go:59-94, 235-283). *)
BrokenIsNoticed ==
    \A c \in connected \cap down :
        \/ connReader[c] \in {"reading", "leaving"} \/ c \in dropping \/ crashed
        \/ connHandler[c] \in {"loop", "welcome", "serving", "leaving"}
        \/ pushing /\ subscribed[c] # {}
=============================================================================
