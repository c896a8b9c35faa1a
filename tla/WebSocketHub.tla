----------------------------- MODULE WebSocketHub -----------------------------
(* The WebSocket hub of the web UI: one goroutine that registers, unregisters and
   delivers, two pumps per connection, and a multiplexed connection that joins
   and leaves channels while the hub runs. Source: rivision_cli/internal/
   webserver/websocket: hub.go, client.go, yolo_handler.go. The browser is
   external: it comes, stops reading, asks for channels, goes. Every connection
   has a client of its own, so a client is used once. *)
EXTENDS Naturals, Sequences, FiniteSets

CONSTANTS HubClients,     \* connections of a run
          HubChannels,    \* "yolo:<camera>", "inference"
          ClientChannel,  \* [HubClients -> Client.Channel], "" for a multiplexed one
          SendBuffer,     \* capacity of Client.send, 256
          QueueSize       \* capacity of Hub.channelMsg, 256

ASSUME HubAssumption ==
    /\ ClientChannel \in [HubClients -> HubChannels \cup {""}] /\ "" \notin HubChannels
    /\ SendBuffer \in Nat \ {0} /\ QueueSize \in Nat \ {0}

VARIABLES hubJob,      \* what the hub has received and not yet done
          hubQueue,    \* channelMsg: the channels of the messages in it
          clients,     \* Hub.clients
          channels,    \* Hub.channels
          sendClosed,  \* Client.send is closed
          buffered,    \* messages in Client.send
          reader,      \* where the handler, then the reading goroutine is
          writer,      \* WritePump
          connDown     \* the connection is closed or broken

hubVars == <<hubJob, hubQueue, clients, channels, sendClosed, buffered, reader, writer, connDown>>

Jobs == [kind : {"register", "unregister"}, of : HubClients]
        \cup [kind : {"message"}, of : HubChannels]
Idle == [kind |-> "none"]
Panic == [kind |-> "panic"]

HubTypeOK ==
    /\ hubJob \in Jobs \cup {Idle, Panic}
    /\ hubQueue \in Seq(HubChannels) /\ Len(hubQueue) <= QueueSize
    /\ clients \subseteq HubClients /\ channels \in [HubChannels -> SUBSET HubClients]
    /\ sendClosed \in [HubClients -> BOOLEAN]
    /\ buffered \in [HubClients -> 0..SendBuffer]
    /\ reader \in [HubClients -> {"none", "registering", "reading", "unsubscribing",
                                  "unregistering", "closing", "gone"}]
    /\ writer \in [HubClients -> {"none", "running", "gone"}]
    /\ connDown \in [HubClients -> BOOLEAN]

HubInit ==
    /\ hubJob = Idle /\ hubQueue = <<>> /\ clients = {}
    /\ channels = [k \in HubChannels |-> {}]
    /\ sendClosed = [c \in HubClients |-> FALSE] /\ buffered = [c \in HubClients |-> 0]
    /\ reader = [c \in HubClients |-> "none"] /\ writer = [c \in HubClients |-> "none"]
    /\ connDown = [c \in HubClients |-> FALSE]
-----------------------------------------------------------------------------
(* A connection: the handler registers and starts the two pumps; the reading one
   unregisters when it cannot read any more. *)

Mux(c) == ClientChannel[c] = ""

ClientConnects(c) ==
    /\ reader[c] = "none" /\ reader' = [reader EXCEPT ![c] = "registering"]
    /\ UNCHANGED <<hubJob, hubQueue, clients, channels, sendClosed, buffered, writer, connDown>>

\* a break that neither side closed
ConnectionBreaks(c) ==
    /\ reader[c] # "none" /\ ~connDown[c] /\ connDown' = [connDown EXCEPT ![c] = TRUE]
    /\ UNCHANGED <<hubJob, hubQueue, clients, channels, sendClosed, buffered, reader, writer>>

\* SubscribeChannel and UnsubscribeChannel take Hub.mu, which the hub holds for
\* the whole of a job: nothing happens inside a job
SubscribeChannel(c, k) ==
    /\ Mux(c) /\ reader[c] = "reading" /\ ~connDown[c]
    /\ channels' = [channels EXCEPT ![k] = @ \cup {c}]
    /\ UNCHANGED <<hubJob, hubQueue, clients, sendClosed, buffered, reader, writer, connDown>>
UnsubscribeChannel(c, k) ==
    /\ Mux(c) /\ reader[c] = "reading" /\ ~connDown[c]
    /\ channels' = [channels EXCEPT ![k] = @ \ {c}]
    /\ UNCHANGED <<hubJob, hubQueue, clients, sendClosed, buffered, reader, writer, connDown>>

\* the connection is down, or no pong came in 60 seconds
ReadFails(c) ==
    /\ reader[c] = "reading"
    /\ reader' = [reader EXCEPT ![c] = IF Mux(c) THEN "unsubscribing" ELSE "unregistering"]
    /\ UNCHANGED <<hubJob, hubQueue, clients, channels, sendClosed, buffered, writer, connDown>>

UnsubscribeAllChannels(c) ==
    /\ reader[c] = "unsubscribing" /\ reader' = [reader EXCEPT ![c] = "unregistering"]
    /\ channels' = [k \in HubChannels |-> channels[k] \ {c}]
    /\ UNCHANGED <<hubJob, hubQueue, clients, sendClosed, buffered, writer, connDown>>

CloseConnection(c) ==
    /\ reader[c] = "closing" /\ reader' = [reader EXCEPT ![c] = "gone"]
    /\ connDown' = [connDown EXCEPT ![c] = TRUE]
    /\ UNCHANGED <<hubJob, hubQueue, clients, channels, sendClosed, buffered, writer>>

\* WritePump: a message, or a ping, that cannot be written ends it
Write(c) ==
    /\ writer[c] = "running" /\ buffered[c] > 0 /\ ~connDown[c]
    /\ buffered' = [buffered EXCEPT ![c] = @ - 1]
    /\ UNCHANGED <<hubJob, hubQueue, clients, channels, sendClosed, reader, writer, connDown>>
WriteEnds(c) ==
    /\ writer[c] = "running"
    /\ connDown[c] \/ (sendClosed[c] /\ buffered[c] = 0)
    /\ writer' = [writer EXCEPT ![c] = "gone"]
    /\ connDown' = [connDown EXCEPT ![c] = TRUE]
    /\ UNCHANGED <<hubJob, hubQueue, clients, channels, sendClosed, buffered, reader>>
\* the peer does not read: the write deadline passes
WriteTimesOut(c) ==
    /\ writer[c] = "running" /\ buffered[c] > 0 /\ ~connDown[c]
    /\ writer' = [writer EXCEPT ![c] = "gone"]
    /\ connDown' = [connDown EXCEPT ![c] = TRUE]
    /\ buffered' = [buffered EXCEPT ![c] = @ - 1]
    /\ UNCHANGED <<hubJob, hubQueue, clients, channels, sendClosed, reader>>
-----------------------------------------------------------------------------
(* The hub. Registering and unregistering are a rendezvous; then the caller goes
   on, before or after the hub has got the lock. *)

SendToChannel(k) ==
    /\ Len(hubQueue) < QueueSize /\ hubQueue' = Append(hubQueue, k)
    /\ UNCHANGED <<hubJob, clients, channels, sendClosed, buffered, reader, writer, connDown>>

TakeRegister(c) ==
    /\ hubJob = Idle /\ reader[c] = "registering"
    /\ hubJob' = [kind |-> "register", of |-> c]
    /\ reader' = [reader EXCEPT ![c] = "reading"]
    /\ writer' = [writer EXCEPT ![c] = "running"]
    /\ UNCHANGED <<hubQueue, clients, channels, sendClosed, buffered, connDown>>
TakeUnregister(c) ==
    /\ hubJob = Idle /\ reader[c] = "unregistering"
    /\ hubJob' = [kind |-> "unregister", of |-> c]
    /\ reader' = [reader EXCEPT ![c] = "closing"]
    /\ UNCHANGED <<hubQueue, clients, channels, sendClosed, buffered, writer, connDown>>
TakeMessage ==
    /\ hubJob = Idle /\ hubQueue # <<>>
    /\ hubJob' = [kind |-> "message", of |-> Head(hubQueue)]
    /\ hubQueue' = Tail(hubQueue)
    /\ UNCHANGED <<clients, channels, sendClosed, buffered, reader, writer, connDown>>

DoRegister ==
    /\ hubJob.kind = "register" /\ hubJob' = Idle
    /\ clients' = clients \cup {hubJob.of}
    /\ channels' = [k \in HubChannels |-> IF ClientChannel[hubJob.of] = k
                                          THEN channels[k] \cup {hubJob.of} ELSE channels[k]]
    /\ UNCHANGED <<hubQueue, sendClosed, buffered, reader, writer, connDown>>

\* what safeCloseSend notes in closedSend, unregister deletes again: Hub.clients
\* alone keeps a channel from being closed twice
DoUnregister ==
    /\ hubJob.kind = "unregister"
    /\ LET c == hubJob.of IN
       IF c \notin clients THEN hubJob' = Idle /\ UNCHANGED <<clients, channels, sendClosed>>
       ELSE /\ hubJob' = IF sendClosed[c] THEN Panic ELSE Idle
            /\ clients' = clients \ {c}
            /\ channels' = [k \in HubChannels |-> IF ClientChannel[c] = k
                                                  THEN channels[k] \ {c} ELSE channels[k]]
            /\ sendClosed' = [sendClosed EXCEPT ![c] = TRUE]
    /\ UNCHANGED <<hubQueue, buffered, reader, writer, connDown>>

\* a full buffer loses the message, a closed channel is a panic of the hub
DoMessage ==
    /\ hubJob.kind = "message"
    /\ LET to == channels[hubJob.of] IN
       IF \E c \in to : sendClosed[c] THEN hubJob' = Panic /\ UNCHANGED buffered
       ELSE /\ hubJob' = Idle
            /\ buffered' = [c \in HubClients |-> IF c \in to /\ buffered[c] < SendBuffer
                                                 THEN buffered[c] + 1 ELSE buffered[c]]
    /\ UNCHANGED <<hubQueue, clients, channels, sendClosed, reader, writer, connDown>>
-----------------------------------------------------------------------------
HubJob == DoRegister \/ DoUnregister \/ DoMessage

HubNext ==
    \/ HubJob \/ TakeMessage
    \/ \E k \in HubChannels : SendToChannel(k)
    \/ \E c \in HubClients :
          \/ ClientConnects(c) \/ ConnectionBreaks(c) \/ ReadFails(c)
          \/ UnsubscribeAllChannels(c) \/ CloseConnection(c)
          \/ TakeRegister(c) \/ TakeUnregister(c)
          \/ Write(c) \/ WriteEnds(c) \/ WriteTimesOut(c)
          \/ \E k \in HubChannels : SubscribeChannel(c, k) \/ UnsubscribeChannel(c, k)

HubSpec == HubInit /\ [][HubNext]_hubVars
-----------------------------------------------------------------------------
(* Whoever is in a channel can be sent to, and no send channel is closed twice, so
   that the hub never panics: a multiplexed client, which the hub does not remove
   from the channels it joined, has left them before it unregisters, in whatever
   order the hub takes registrations and messages (hub.go:83-127,
   yolo_handler.go:74-79). *)
HubNeverPanics ==
    /\ hubJob # Panic
    /\ \A k \in HubChannels : \A c \in channels[k] : ~sendClosed[c]
=============================================================================
