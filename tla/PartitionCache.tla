--------------------------- MODULE PartitionCache ---------------------------
(***************************************************************************)
(* What NetworkPartitionHandler remembers of the nodes, and what a restart  *)
(* makes of it.                                                            *)
(*                                                                         *)
(* Every round the handler copies the healthy nodes of the registry into    *)
(* cachedStates and writes them to node_states.json; it writes them once    *)
(* more when it is stopped.  At start-up main calls RestoreFromCache and    *)
(* then Start, which loads the file and starts the rounds.  The gateway may *)
(* crash between any two steps.  The file may be there and not be read, or  *)
(* not be parsed: then the rounds start with an empty cache, and the next   *)
(* save replaces the file.  A write of the file is one step that succeeds;  *)
(* what the rounds do about overdue nodes is in NodeMembership.             *)
(***************************************************************************)
CONSTANT Node       \* node ids

VARIABLES
    registry,       \* what the registry says of a node
    cachedStates,   \* by the age of the entry
    file,           \* node_states.json
    at,             \* where main and the handler's goroutine are
    unread          \* this run could not read the file and has not written it (for the property)

partitionVars == <<registry, cachedStates, file, at, unread>>

Registered == {"none", "healthy", "other"}

(* An entry is old when CachedAt is more than an hour ago.                  *)
Entry == {"no", "recent", "old"}
Empty == [n \in Node |-> "no"]

(* off, restoring, loading, waiting for the ticker, in a round, stopping    *)
Place == {"off", "restore", "load", "wait", "round", "stop"}

PartitionInit ==
    /\ registry = [n \in Node |-> "none"]
    /\ cachedStates = Empty
    /\ file = Empty
    /\ at = "off"
    /\ unread = FALSE

-----------------------------------------------------------------------------
Boot ==
    /\ at = "off"
    /\ at' = "restore"
    /\ UNCHANGED <<registry, cachedStates, file, unread>>

(* Nothing is restored from an empty cache or into a registry with nodes.   *)
Restorable == {n \in Node : cachedStates[n] = "recent" /\ \A m \in Node : registry[m] = "none"}

RestoreFromCache ==
    /\ at = "restore"
    /\ registry' = [n \in Node |-> IF n \in Restorable THEN "other" ELSE registry[n]]
    /\ at' = "load"
    /\ UNCHANGED <<cachedStates, file, unread>>

(* Start: without a file the cache stays as it is, which is empty.          *)
LoadCache ==
    /\ at = "load"
    /\ cachedStates' = file
    /\ at' = "wait"
    /\ UNCHANGED <<registry, file, unread>>

(* ReadFile or Unmarshal fails: this is logged, and the handler goes on     *)
(* with the cache it has, which is empty.                                   *)
LoadFails ==
    /\ at = "load"
    /\ unread' = TRUE
    /\ at' = "wait"
    /\ UNCHANGED <<registry, cachedStates, file>>

(* The start of a round: what is cached is refreshed, and never removed.    *)
CacheCurrentStates ==
    /\ at = "wait"
    /\ cachedStates' = [n \in Node |-> IF registry[n] = "healthy" THEN "recent" ELSE cachedStates[n]]
    /\ at' = "round"
    /\ UNCHANGED <<registry, file, unread>>

(* The end of a round, after the overdue nodes have been probed.            *)
SaveCache ==
    /\ at = "round"
    /\ file' = cachedStates
    /\ unread' = FALSE
    /\ at' = "wait"
    /\ UNCHANGED <<registry, cachedStates>>

(* Stop waits for the goroutine and saves; main goes on to end.             *)
StopHandler ==
    /\ at = "wait"
    /\ file' = cachedStates
    /\ unread' = FALSE
    /\ at' = "stop"
    /\ UNCHANGED <<registry, cachedStates>>

GatewayEnds ==
    /\ at # "off"
    /\ registry' = [n \in Node |-> "none"]
    /\ cachedStates' = Empty
    /\ unread' = FALSE
    /\ at' = "off"
    /\ UNCHANGED file

(* The HTTP server, discovery and the health checker change the registry;   *)
(* main starts them after the cache.                                       *)
NodeChanges(n, state) ==
    /\ at \in {"wait", "round", "stop"}
    /\ registry[n] # state
    /\ registry' = [registry EXCEPT ![n] = state]
    /\ UNCHANGED <<cachedStates, file, at, unread>>

Aged(entries) == [n \in Node |-> IF entries[n] = "recent" THEN "old" ELSE entries[n]]

HourPasses ==
    /\ cachedStates' = Aged(cachedStates)
    /\ file' = Aged(file)
    /\ <<cachedStates, file>>' # <<cachedStates, file>>
    /\ UNCHANGED <<registry, at, unread>>

PartitionNext ==
    \/ Boot \/ RestoreFromCache \/ LoadCache \/ LoadFails
    \/ CacheCurrentStates \/ SaveCache \/ StopHandler
    \/ \E n \in Node, state \in Registered : NodeChanges(n, state)
    \/ HourPasses
    \/ GatewayEnds

PartitionSpec == PartitionInit /\ [][PartitionNext]_partitionVars

-----------------------------------------------------------------------------
(* Properties.                                                             *)

PartitionTypeOK ==
    /\ registry \in [Node -> Registered]
    /\ cachedStates \in [Node -> Entry]
    /\ file \in [Node -> Entry]
    /\ at \in Place
    /\ unread \in BOOLEAN

(* What was saved once stays saved, whenever the gateway crashes or is      *)
(* stopped between two steps: nothing but the first write after a start     *)
(* that could not read the file takes a node out of it.                     *)
SavedStaysSaved == [][\A n \in Node : file[n] # "no" /\ ~unread => file'[n] # "no"]_file

(* main.go:78 and partition.go:35: the nodes in the cache are restored when *)
(* the gateway starts, before discovery is started.  Violated: the cache is *)
(* restored before it is loaded.                                           *)
RestoredAtStart ==
    at = "load" => \A n \in Node : file[n] = "recent" => registry[n] # "none"
=============================================================================
