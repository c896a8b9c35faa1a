------------------------------ MODULE TaskRecords ------------------------------
(* What the gateway's task package remembers of tasks: a cache of results with an
   expiry and a size, and the tracker of running and ended requests. Source:
   gateway/internal/tasks: cache.go, tracker.go. Each has one lock; a lookup of the
   cache that finds an expired entry leaves its removal to a goroutine. *)
EXTENDS Naturals, FiniteSets

CONSTANTS CacheKeys, CacheReaders,
          CacheMax,        \* ResultCache.maxSize
          TrackedTasks, TrackedNodes,
          MaxStarts,       \* bound: starts counted on a node
          HistorySize,     \* TaskTracker.maxHistory
          DetailsMax       \* TaskTracker.maxTaskDetails

VARIABLES cached,      \* ResultCache.cache: the keys
          older,       \* the order of their CreatedAt, as pairs of keys
          expired,     \* those whose time is over
          removing,    \* [reader -> the key its goroutine will delete], a set of one or none
          tracked,     \* TaskTracker.tasks: the node of a running task
          details,     \* TaskTracker.taskDetails
          runningOn,   \* nodeStats[n].running_count
          open,        \* requests started and not ended: the node (what callers know)
          records      \* length of completedTasks

cacheVars == <<cached, older, expired, removing>>
trackVars == <<tracked, details, runningOn, open, records>>
recordVars == <<cached, older, expired, removing, tracked, details, runningOn, open, records>>

Untracked == "none"

ASSUME RecordsAssumption ==
    /\ {CacheMax, MaxStarts, HistorySize, DetailsMax} \subseteq Nat \ {0}
    /\ IsFiniteSet(TrackedTasks) /\ Untracked \notin TrackedNodes

RecordsTypeOK ==
    /\ cached \subseteq CacheKeys /\ older \subseteq cached \X cached /\ expired \subseteq cached
    /\ removing \in [CacheReaders -> SUBSET CacheKeys]
    /\ tracked \in [TrackedTasks -> TrackedNodes \cup {Untracked}]
    /\ open \in [TrackedTasks -> TrackedNodes \cup {Untracked}]
    /\ details \subseteq TrackedTasks
    /\ runningOn \in [TrackedNodes -> 0..MaxStarts]
    /\ records \in 0..HistorySize

RecordsInit ==
    /\ cached = {} /\ older = {} /\ expired = {} /\ removing = [r \in CacheReaders |-> {}]
    /\ tracked = [t \in TrackedTasks |-> Untracked] /\ details = {}
    /\ runningOn = [n \in TrackedNodes |-> 0]
    /\ open = [t \in TrackedTasks |-> Untracked] /\ records = 0
-----------------------------------------------------------------------------
(* ResultCache *)

\* evictOldest: a tenth of the entries, one at least
Evicted == IF Cardinality(cached) \div 10 < 1 THEN 1 ELSE Cardinality(cached) \div 10
Oldest(gone) == /\ gone \subseteq cached /\ Cardinality(gone) = Evicted
                /\ \A k \in gone, l \in cached \ gone : <<k, l>> \in older

\* a full cache loses its oldest entries, also when the key is already there
CacheSet(k) ==
    \E gone \in SUBSET cached :
       /\ IF Cardinality(cached) >= CacheMax THEN Oldest(gone) ELSE gone = {}
       /\ LET others == (cached \ gone) \ {k}
          IN /\ cached' = others \cup {k} /\ expired' = expired \cap others
             /\ older' = (older \cap (others \X others)) \cup (others \X {k})
       /\ UNCHANGED <<removing, trackVars>>

CacheExpires(k) ==
    /\ k \in cached /\ expired' = expired \cup {k}
    /\ UNCHANGED <<cached, older, removing, trackVars>>

CacheGet(r, k) ==
    /\ removing[r] = {} /\ k \in expired
    /\ removing' = [removing EXCEPT ![r] = {k}]
    /\ UNCHANGED <<cached, older, expired, trackVars>>

Dropped(K) == /\ cached' = cached \ K /\ expired' = expired \ K
              /\ older' = older \cap (cached' \X cached')

\* the goroutine does not look whether the entry has been set anew
RemoveExpired(r) ==
    /\ removing[r] # {} /\ removing' = [removing EXCEPT ![r] = {}]
    /\ Dropped(removing[r]) /\ UNCHANGED trackVars
CacheDelete(k) == Dropped({k}) /\ UNCHANGED <<removing, trackVars>>
CleanupExpired == Dropped(expired) /\ UNCHANGED <<removing, trackVars>>
-----------------------------------------------------------------------------
(* TaskTracker *)

Decrement(n) == IF n \in TrackedNodes /\ runningOn[n] > 0
                THEN [runningOn EXCEPT ![n] = @ - 1] ELSE runningOn
Recorded == records' = IF records < HistorySize THEN records + 1 ELSE HistorySize

\* a start on another node moves the count, one on the same node counts again
RecordRequestStart(t, n) ==
    LET moved == IF tracked[t] # n THEN Decrement(tracked[t]) ELSE runningOn
    IN /\ moved[n] < MaxStarts
       /\ runningOn' = [moved EXCEPT ![n] = @ + 1]
       /\ tracked' = [tracked EXCEPT ![t] = n] /\ open' = [open EXCEPT ![t] = n]
       /\ UNCHANGED <<details, records, cacheVars>>

UpdateTaskStatus(t) ==
    /\ details' = details \cup {t}
    /\ UNCHANGED <<tracked, runningOn, open, records, cacheVars>>

\* a request is recorded, with the node of its last start, whether tracked or not
RecordRequestEnd(t) ==
    /\ open[t] # Untracked /\ open' = [open EXCEPT ![t] = Untracked]
    /\ runningOn' = Decrement(open[t])
    /\ tracked' = [tracked EXCEPT ![t] = Untracked]
    /\ details' = IF tracked[t] # Untracked THEN details \ {t} ELSE details
    /\ Recorded /\ UNCHANGED cacheVars

\* GetRunningTasks removes what has run for six minutes, without its count, and
\* then at least half of the details that belong to no task, when there are too many
CleanupStaleTasks(stale) ==
    /\ \A t \in stale : tracked[t] # Untracked
    /\ tracked' = [t \in TrackedTasks |-> IF t \in stale THEN Untracked ELSE tracked[t]]
    /\ IF stale = {} THEN UNCHANGED records ELSE Recorded
    /\ LET kept == details \ stale
           orphans == {t \in kept : tracked'[t] = Untracked}
           excess == Cardinality(kept) - DetailsMax
           count == IF Cardinality(orphans) \div 2 < excess THEN excess
                    ELSE Cardinality(orphans) \div 2
       IN IF Cardinality(kept) <= DetailsMax THEN details' = kept
          ELSE \E gone \in SUBSET orphans :
                  /\ Cardinality(gone) = IF count < Cardinality(orphans) THEN count
                                         ELSE Cardinality(orphans)
                  /\ details' = kept \ gone
    /\ UNCHANGED <<runningOn, open, cacheVars>>

\* the running counts survive
ResetStats == records' = 0 /\ UNCHANGED <<tracked, details, runningOn, open, cacheVars>>
-----------------------------------------------------------------------------
CacheNext ==
    \/ \E k \in CacheKeys : \/ CacheSet(k) \/ CacheExpires(k) \/ CacheDelete(k)
                            \/ \E r \in CacheReaders : CacheGet(r, k)
    \/ \E r \in CacheReaders : RemoveExpired(r)
    \/ CleanupExpired

TrackNext ==
    \/ \E t \in TrackedTasks : \/ UpdateTaskStatus(t) \/ RecordRequestEnd(t)
                               \/ \E n \in TrackedNodes : RecordRequestStart(t, n)
    \/ \E stale \in SUBSET TrackedTasks : CleanupStaleTasks(stale)
    \/ ResetStats

RecordsSpec == RecordsInit /\ [][CacheNext \/ TrackNext]_recordVars
-----------------------------------------------------------------------------
(* The cache never holds more than its size, though a key that is set again is
   evicted or not before it is added, and removals come late (cache.go:44-58). *)
CacheBounded == Cardinality(cached) <= CacheMax

(* A node's running count covers the tasks that run there, through restarts on the
   same or another node, orphans and late ends: it may be too high, which nothing
   corrects, but never too low (tracker.go:62-101, 133-205, 368-395). *)
RunningIsCounted ==
    \A n \in TrackedNodes : Cardinality({t \in TrackedTasks : tracked[t] = n}) <= runningOn[n]
=============================================================================
