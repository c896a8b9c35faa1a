------------------------------ MODULE OwlBridge ------------------------------
(***************************************************************************)
(* The web front end of the CLI and the video platform OWL: the client of  *)
(* OWL (owl/client.go), the bridge that registers the streams OWL plays    *)
(* with go2rtc (camera/owl_bridge.go), and the handlers of the web server  *)
(* that use both (webserver/server.go).                                    *)
(*                                                                         *)
(* A handler is a sequence of network calls.  Only the bridge takes a      *)
(* lock, the calls of a handler outside the bridge interleave with it, and *)
(* the token of the client is shared without a lock.  OWL and go2rtc are   *)
(* external: each call is carried out or not, and the answer may be lost.  *)
(***************************************************************************)
EXTENDS Naturals, FiniteSets, Sequences

CONSTANTS OwlUsers,      \* handlers that run at the same time
          OwlChannels,   \* the channels OWL may list
          OwlPlayed,     \* the channels the users play and stop
          OwlFirstList,  \* OWL's list at the start, a sequence of channels
          OwlCalls,      \* bounds: requests the browser makes, as a set of
                         \* [stream : how many plays and stops, list : how many lists]
          OwlRestarts,   \* bound: restarts of OWL
          OwlMaxPages    \* pages GetAllChannels reads at most (code: 20)

VARIABLES owlCall,       \* the handlers and where each is
          owlLeft,       \* requests left
          owlToken,      \* the token of the client: none, good or stale
          owlPlaying,    \* the channels OWL streams
          owlGen,        \* restarts of OWL so far
          owlList,       \* the list of channels, in the order OWL pages it
          bridgeCache,   \* channel -> [fresh, gen] of its entry, or NoEntry
          bridgeLock,    \* who holds the bridge's mutex
          g2rStreams     \* the streams go2rtc knows

owlVars == <<owlCall, owlLeft, owlToken, owlPlaying, owlGen, owlList,
             bridgeCache, bridgeLock, g2rStreams>>

NoEntry == [fresh |-> FALSE, gen |-> OwlRestarts + 1]
NoUser == "nobody"
OwlIdle == [pc |-> "idle"]

OwlPcs == {"play", "ensure", "fetch", "add", "stop", "drop", "remove", "halt"}

StreamCall == [pc : OwlPcs, c : OwlPlayed, gen : 0..OwlRestarts]
ListCall == [pc : {"page", "listed"}, page : 1..OwlMaxPages, got : SUBSET OwlChannels,
             retried : BOOLEAN, steady : BOOLEAN, clean : BOOLEAN, ok : BOOLEAN]

(* Pages hold one channel each (100 in the code). *)
ChannelLists == {s \in UNION {[1..n -> OwlChannels] : n \in 0..Cardinality(OwlChannels)} :
                   \A i, j \in DOMAIN s : s[i] = s[j] => i = j}

ASSUME OwlAssumption ==
    /\ NoUser \notin OwlUsers /\ OwlFirstList \in ChannelLists
    /\ OwlCalls \subseteq [stream : Nat, list : Nat]
    /\ OwlRestarts \in Nat /\ OwlMaxPages \in Nat \ {0}

OwlTypeOK ==
    /\ owlCall \in [OwlUsers -> {OwlIdle} \cup StreamCall \cup ListCall]
    /\ owlLeft \in [stream : Nat, list : Nat]
    /\ owlToken \in {"none", "good", "stale"}
    /\ owlPlaying \subseteq OwlPlayed
    /\ owlGen \in 0..OwlRestarts
    /\ owlList \in ChannelLists
    /\ bridgeCache \in [OwlPlayed -> [fresh : BOOLEAN, gen : 0..OwlRestarts] \cup {NoEntry}]
    /\ bridgeLock \in OwlUsers \cup {NoUser}
    /\ g2rStreams \subseteq OwlPlayed

OwlInit ==
    /\ owlCall = [u \in OwlUsers |-> OwlIdle]
    /\ owlLeft \in OwlCalls
    /\ owlToken \in {"none", "good"}
    /\ owlPlaying = {}
    /\ owlGen = 0
    /\ owlList = OwlFirstList
    /\ bridgeCache = [c \in OwlPlayed |-> NoEntry]
    /\ bridgeLock = NoUser
    /\ g2rStreams = {}

-----------------------------------------------------------------------------
(* The client.  Login tries the plain and the RSA form in either order:   *)
(* one that succeeds sets the token, a failure of both keeps the old one.  *)
(* EnsureLogin logs in only when there is no token at all.                 *)
LoginGives == {owlToken, "good"}
EnsureLoginGives == IF owlToken = "none" THEN LoginGives ELSE {owlToken}

(* Every request carries the token; any answer but 2xx is an error. *)
OwlAccepts(t) == t = "good"

OwlGoto(u, pc) == owlCall' = [owlCall EXCEPT ![u].pc = pc]
OwlEnds(u) == owlCall' = [owlCall EXCEPT ![u] = OwlIdle]

(* What is playing after a Play, or a Stop, of the user's channel that OWL *)
(* accepts only with a good token; a lost answer leaves the caller with an *)
(* error although OWL did it.                                              *)
AfterPlay(u, t) == {owlPlaying} \cup IF OwlAccepts(t) THEN {owlPlaying \cup {owlCall[u].c}} ELSE {}
AfterStopCall(u, t) == {owlPlaying} \cup IF OwlAccepts(t) THEN {owlPlaying \ {owlCall[u].c}} ELSE {}

(* A request reaches its handler. *)
OwlRequest(u) ==
    /\ owlCall[u] = OwlIdle
    /\ \/ /\ owlLeft.stream > 0
          /\ owlLeft' = [owlLeft EXCEPT !.stream = @ - 1]
          /\ \E c \in OwlPlayed, pc \in {"play", "stop"} :
               owlCall' = [owlCall EXCEPT ![u] = [pc |-> pc, c |-> c, gen |-> 0]]
       \/ /\ owlLeft.list > 0
          /\ owlLeft' = [owlLeft EXCEPT !.list = @ - 1]
          /\ owlCall' = [owlCall EXCEPT ![u] =
               [pc |-> "page", page |-> 1, got |-> {}, retried |-> FALSE,
                steady |-> TRUE, clean |-> TRUE, ok |-> TRUE]]
    /\ UNCHANGED <<owlToken, owlPlaying, owlGen, owlList, bridgeCache, bridgeLock, g2rStreams>>

(* POST play: client.Play, and the answer goes to the browser whatever the *)
(* bridge says afterwards.  No handler of play or stop logs in again.      *)
ClientPlay(u) ==
    /\ owlCall[u].pc = "play"
    /\ \E t \in EnsureLoginGives :
         /\ owlToken' = t
         /\ owlPlaying' \in AfterPlay(u, t)
         /\ \/ OwlEnds(u)
            \/ /\ owlCall[u].c \in owlPlaying' /\ OwlAccepts(t)
               /\ OwlGoto(u, "ensure")
    /\ UNCHANGED <<owlLeft, owlGen, owlList, bridgeCache, bridgeLock, g2rStreams>>

(* EnsureStream, under the lock: a fresh entry is the answer; otherwise    *)
(* Play again, and an answer without a usable URL ends it; AddStream may   *)
(* fail, the entry is cached all the same.                                 *)
EnsureStream(u) ==
    /\ owlCall[u].pc = "ensure"
    /\ bridgeLock = NoUser
    /\ IF bridgeCache[owlCall[u].c].fresh
         THEN OwlEnds(u) /\ UNCHANGED bridgeLock
         ELSE OwlGoto(u, "fetch") /\ bridgeLock' = u
    /\ UNCHANGED <<owlLeft, owlToken, owlPlaying, owlGen, owlList, bridgeCache, g2rStreams>>

EnsureFetch(u) ==
    /\ owlCall[u].pc = "fetch"
    /\ \E t \in EnsureLoginGives :
         /\ owlToken' = t
         /\ owlPlaying' \in AfterPlay(u, t)
         /\ \/ OwlEnds(u) /\ bridgeLock' = NoUser
            \/ /\ owlCall[u].c \in owlPlaying' /\ OwlAccepts(t)
               /\ owlCall' = [owlCall EXCEPT ![u] =
                               [pc |-> "add", c |-> owlCall[u].c, gen |-> owlGen]]
               /\ UNCHANGED bridgeLock
    /\ UNCHANGED <<owlLeft, owlGen, owlList, bridgeCache, g2rStreams>>

EnsureAdd(u) ==
    LET c == owlCall[u].c IN
    /\ owlCall[u].pc = "add"
    /\ g2rStreams' \in {g2rStreams, g2rStreams \cup {c}}
    /\ bridgeCache' = [bridgeCache EXCEPT ![c] = [fresh |-> TRUE, gen |-> owlCall[u].gen]]
    /\ bridgeLock' = NoUser
    /\ OwlEnds(u)
    /\ UNCHANGED <<owlLeft, owlToken, owlPlaying, owlGen, owlList>>

(* POST stop: client.Stop first, outside the lock.  It fails only when     *)
(* EnsureLogin does; whether OWL stopped is not looked at.                 *)
ClientStop(u) ==
    /\ owlCall[u].pc = "stop"
    /\ \E t \in EnsureLoginGives :
         /\ owlToken' = t
         /\ IF t = "none"
              THEN OwlEnds(u) /\ UNCHANGED owlPlaying
              ELSE OwlGoto(u, "drop") /\ owlPlaying' \in AfterStopCall(u, t)
    /\ UNCHANGED <<owlLeft, owlGen, owlList, bridgeCache, bridgeLock, g2rStreams>>

(* StopStream, under the lock: nothing to do for a channel without an      *)
(* entry (an old one counts); else go2rtc, then OWL once more, then the    *)
(* entry, whatever the two calls gave.                                     *)
StopStream(u) ==
    /\ owlCall[u].pc = "drop"
    /\ bridgeLock = NoUser
    /\ IF bridgeCache[owlCall[u].c] = NoEntry
         THEN OwlEnds(u) /\ UNCHANGED bridgeLock
         ELSE OwlGoto(u, "remove") /\ bridgeLock' = u
    /\ UNCHANGED <<owlLeft, owlToken, owlPlaying, owlGen, owlList, bridgeCache, g2rStreams>>

StopRemoves(u) ==
    /\ owlCall[u].pc = "remove"
    /\ g2rStreams' \in {g2rStreams, g2rStreams \ {owlCall[u].c}}
    /\ OwlGoto(u, "halt")
    /\ UNCHANGED <<owlLeft, owlToken, owlPlaying, owlGen, owlList, bridgeCache, bridgeLock>>

(* Wrong variant of StopForgets: an entry that is fresh is kept. *)
StopForgetsOld(u) ==
    LET c == owlCall[u].c IN
    /\ owlCall[u].pc = "halt"
    /\ \E t \in EnsureLoginGives :
         /\ owlToken' = t
         /\ owlPlaying' \in AfterStopCall(u, t)
    /\ bridgeCache' = IF bridgeCache[c].fresh THEN bridgeCache
                      ELSE [bridgeCache EXCEPT ![c] = NoEntry]
    /\ bridgeLock' = NoUser
    /\ OwlEnds(u)
    /\ UNCHANGED <<owlLeft, owlGen, owlList, g2rStreams>>

StopForgets(u) ==
    LET c == owlCall[u].c IN
    /\ owlCall[u].pc = "halt"
    /\ \E t \in EnsureLoginGives :
         /\ owlToken' = t
         /\ owlPlaying' \in AfterStopCall(u, t)
    /\ bridgeCache' = [bridgeCache EXCEPT ![c] = NoEntry]
    /\ bridgeLock' = NoUser
    /\ OwlEnds(u)
    /\ UNCHANGED <<owlLeft, owlGen, owlList, g2rStreams>>

-----------------------------------------------------------------------------
(* GET streams: GetAllChannels reads page after page, leaves out what it has *)
(* seen, and stops when it has as many as the page announced as the total, or *)
(* the page gave nothing new.  OWL answers {items, total} on /api/channels or *)
(* on /channels; GetChannels, which reads a page, has other forms to fall     *)
(* back on when both fail.                                                    *)
PageOf(n) == IF n <= Len(owlList) THEN {owlList[n]} ELSE {}

ListDone(got, new, total, page) ==
    \/ total > 0 /\ Cardinality(got) >= total
    \/ new = {}
    \/ page = OwlMaxPages

(* What the listing does with a page of these items and this total. *)
ListTakes(u, items, total, clean) ==
    LET call == owlCall[u]
        new == items \ call.got
        got == call.got \cup items IN
    /\ call.pc = "page"
    /\ \E t \in EnsureLoginGives :
         /\ OwlAccepts(t)
         /\ owlToken' = t
    /\ owlCall' = [owlCall EXCEPT ![u] =
         IF ListDone(got, new, total, call.page)
           THEN [call EXCEPT !.got = got, !.clean = clean, !.pc = "listed"]
           ELSE [call EXCEPT !.got = got, !.clean = clean, !.page = @ + 1]]
    /\ UNCHANGED <<owlLeft, owlPlaying, owlGen, owlList, bridgeCache, bridgeLock, g2rStreams>>

(* One of the first two requests is answered. *)
ListPage(u) == ListTakes(u, PageOf(owlCall[u].page), Len(owlList), owlCall[u].clean)

(* Both fail, and the same two requests succeed when they are made again for  *)
(* the wrapped form: its decoder finds nothing in the plain answer, so that   *)
(* the page is empty, without an error.                                       *)
ListPageEmpty(u) == ListTakes(u, {}, 0, FALSE)

(* All four fail, and the channels of a page of devices are the answer, their *)
(* number its total.                                                          *)
ListByDevices(u) ==
    \E items \in SUBSET {owlList[i] : i \in DOMAIN owlList} :
        ListTakes(u, items, Cardinality(items), FALSE)

(* The devices cannot be had either: the first time the handler logs in again *)
(* and starts from the first page, the second time it answers without OWL's   *)
(* channels.                                                                  *)
ListFails(u) ==
    LET call == owlCall[u] IN
    /\ call.pc = "page"
    /\ \E t \in (IF call.retried THEN EnsureLoginGives ELSE LoginGives) :
         /\ owlToken' = t
         /\ owlCall' = [owlCall EXCEPT ![u] =
              IF ~call.retried /\ OwlAccepts(t)
                THEN [call EXCEPT !.page = 1, !.got = {}, !.retried = TRUE, !.steady = TRUE,
                                  !.clean = TRUE]
                ELSE [call EXCEPT !.pc = "listed", !.ok = FALSE]]
    /\ UNCHANGED <<owlLeft, owlPlaying, owlGen, owlList, bridgeCache, bridgeLock, g2rStreams>>

ListAnswers(u) ==
    /\ owlCall[u].pc = "listed"
    /\ OwlEnds(u)
    /\ UNCHANGED <<owlLeft, owlToken, owlPlaying, owlGen, owlList, bridgeCache, bridgeLock,
                   g2rStreams>>

(* The other handlers only touch the token: login, the capabilities and the *)
(* lists of devices and channels log in, the latter after an error; a       *)
(* device, a snapshot or a camera movement fails with a stale token.        *)
QueryRetried ==
    /\ owlToken' \in LoginGives \ {owlToken}
    /\ UNCHANGED <<owlCall, owlLeft, owlPlaying, owlGen, owlList, bridgeCache, bridgeLock, g2rStreams>>

QueryOnce ==
    /\ owlToken' \in EnsureLoginGives \ {owlToken}
    /\ UNCHANGED <<owlCall, owlLeft, owlPlaying, owlGen, owlList, bridgeCache, bridgeLock, g2rStreams>>

-----------------------------------------------------------------------------
(* The entry is older than urlTTL. *)
UrlExpires(c) ==
    /\ bridgeCache[c].fresh
    /\ bridgeCache' = [bridgeCache EXCEPT ![c].fresh = FALSE]
    /\ UNCHANGED <<owlCall, owlLeft, owlToken, owlPlaying, owlGen, owlList, bridgeLock, g2rStreams>>

(* OWL: the token runs out; OWL restarts; devices register and leave. *)
OwlTokenExpires ==
    /\ owlToken = "good"
    /\ owlToken' = "stale"
    /\ UNCHANGED <<owlCall, owlLeft, owlPlaying, owlGen, owlList, bridgeCache, bridgeLock, g2rStreams>>

OwlRestart ==
    /\ owlGen < OwlRestarts
    /\ owlGen' = owlGen + 1
    /\ owlPlaying' = {}
    /\ owlToken' = IF owlToken = "good" THEN "stale" ELSE owlToken
    /\ UNCHANGED <<owlCall, owlLeft, owlList, bridgeCache, bridgeLock, g2rStreams>>

OwlListChanges ==
    /\ \E u \in OwlUsers : owlCall[u].pc = "page"
    /\ owlList' \in ChannelLists \ {owlList}
    /\ owlCall' = [u \in OwlUsers |->
                     IF owlCall[u].pc \in {"page", "listed"}
                       THEN [owlCall[u] EXCEPT !.steady = FALSE] ELSE owlCall[u]]
    /\ UNCHANGED <<owlLeft, owlToken, owlPlaying, owlGen, bridgeCache, bridgeLock, g2rStreams>>

Go2rtcRestart ==
    /\ g2rStreams # {}
    /\ g2rStreams' = {}
    /\ UNCHANGED <<owlCall, owlLeft, owlToken, owlPlaying, owlGen, owlList, bridgeCache, bridgeLock>>

OwlNext ==
    \/ \E u \in OwlUsers :
         \/ OwlRequest(u) \/ ClientPlay(u) \/ EnsureStream(u) \/ EnsureFetch(u) \/ EnsureAdd(u)
         \/ ClientStop(u) \/ StopStream(u) \/ StopRemoves(u) \/ StopForgets(u)
         \/ ListPage(u) \/ ListPageEmpty(u) \/ ListByDevices(u) \/ ListFails(u) \/ ListAnswers(u)
    \/ \E c \in OwlPlayed : UrlExpires(c)
    \/ QueryRetried \/ QueryOnce
    \/ OwlTokenExpires \/ OwlRestart \/ OwlListChanges \/ Go2rtcRestart

OwlSpec == OwlInit /\ [][OwlNext]_owlVars

-----------------------------------------------------------------------------
(* When no handler is at work on a channel, an entry of the bridge stands  *)
(* for a stream OWL plays (unless OWL restarted since the entry was made): *)
(* otherwise EnsureStream would answer a viewer with a dead stream for the *)
(* five minutes of the entry.  Stopping and playing overlap, and only half *)
(* of each is under the bridge's lock.                                     *)
CachedStreamPlays ==
    \A c \in OwlPlayed :
      (/\ bridgeCache[c].gen = owlGen
       /\ \A u \in OwlUsers : owlCall[u].pc \in OwlPcs => owlCall[u].c # c)
      => c \in owlPlaying

(* A listing that ended without an error, of which every page was the answer *)
(* to one of the first two requests, and during which OWL's list did not     *)
(* change, holds every channel (as far as OwlMaxPages pages reach).          *)
Complete(call) ==
    Len(owlList) <= OwlMaxPages => call.got = {owlList[i] : i \in DOMAIN owlList}
Undisturbed(call) == call.pc = "listed" /\ call.ok /\ call.steady

CleanListingIsComplete ==
    \A u \in OwlUsers :
      Undisturbed(owlCall[u]) /\ owlCall[u].clean => Complete(owlCall[u])

(* "GetAllChannels returns ALL channels across all pages." (client.go:537).  *)
(* It does not: a page that came by one of the other forms ends the listing  *)
(* without an error (client.go:458-481, 510-534, 571-577).  No run checks    *)
(* it; added to one, it is violated.                                         *)
AllChannelsListed ==
    \A u \in OwlUsers : Undisturbed(owlCall[u]) => Complete(owlCall[u])
=============================================================================
