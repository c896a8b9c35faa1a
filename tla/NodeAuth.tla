------------------------------- MODULE NodeAuth -------------------------------
(***************************************************************************)
(* Who may register: NodeAuthManager's tokens, registered nodes and         *)
(* blacklist, and what is saved of them.                                    *)
(*                                                                         *)
(* A registration is admitted in five steps, of which only the last holds   *)
(* the manager's lock for its decision: the handler tests the blacklist and *)
(* the token, RegisterNode tests both again, and then registers on the      *)
(* strength of the tests although the token may have been revoked, used or  *)
(* replaced since.  Meanwhile operators generate, revoke and clean up       *)
(* tokens and edit the blacklist, nodes are unregistered, tokens expire and *)
(* the gateway restarts with what it saved.                                 *)
(*                                                                         *)
(* A Token stands for a random string; one that nothing refers to any more  *)
(* may be generated again.  A save is one step with the change it saves.    *)
(***************************************************************************)
EXTENDS Integers, FiniteSets

CONSTANTS
    Node,           \* node ids
    Token,          \* token strings
    IP,             \* client addresses
    Call,           \* slots for registrations being handled
    MaxUses,        \* max_uses of every token
    FailureLimit,   \* failures after which an address is blacklisted
    MaxPending,     \* bound on the pending recordFailure goroutines of an address
    None            \* no node, token or address

ASSUME MaxUsesAssumption == MaxUses \in Nat \ {0}
ASSUME FailureLimitAssumption == FailureLimit \in Nat \ {0}
ASSUME MaxPendingAssumption == MaxPending \in Nat \ {0}
ASSUME CallAssumption == IsFiniteSet(Call)
ASSUME NoneAssumption == None \notin Node \cup Token \cup IP

VARIABLES
    tokens,         \* registrationTokens
    nodes,          \* the ids in registeredNodes
    blacklist,      \* what the blacklist holds of an address
    failures,       \* failureCount, up to FailureLimit
    pending,        \* goroutines "go m.recordFailure(clientIP)"
    savedTokens, savedNodes, savedBlacklist,    \* the three files
    call,           \* the registrations being handled
    up,             \* the gateway is running
    uses            \* the nodes a token has let in since the start (for the property)

disk == <<savedTokens, savedNodes, savedBlacklist>>
bans == <<blacklist, failures, pending, savedBlacklist>>
vars == <<tokens, nodes, blacklist, failures, pending, disk, call, up, uses>>

NoToken == [node |-> None, expired |-> FALSE, used |-> 0]
TokenInfo == [node : Node \cup {None}, expired : BOOLEAN, used : Nat]

Ban == {"no", "day", "past", "forever"}

Idle == [at |-> "idle", node |-> None, ip |-> None, token |-> None, valid |-> FALSE]
Steps == {"blacklist", "validate", "recheck", "revalidate", "register"}
Registration == [at : Steps, node : Node, ip : IP, token : Token, valid : BOOLEAN]

Init ==
    /\ tokens = [t \in Token |-> NoToken]
    /\ nodes = {}
    /\ blacklist = [ip \in IP |-> "no"]
    /\ failures = [ip \in IP |-> 0]
    /\ pending = [ip \in IP |-> 0]
    /\ savedTokens = tokens
    /\ savedNodes = nodes
    /\ savedBlacklist = blacklist
    /\ call = [c \in Call |-> Idle]
    /\ up = TRUE
    /\ uses = [t \in Token |-> 0]

-----------------------------------------------------------------------------
Issued == {t \in Token : tokens[t].node # None}
TokensOf(n) == {t \in Issued : tokens[t].node = n}

(* Wrong variant of IsValid: one use too many.                              *)
IsValidOnceMore(t) == ~tokens[t].expired /\ tokens[t].used <= MaxUses

IsValid(t) == ~tokens[t].expired /\ tokens[t].used < MaxUses
ValidToken(t, n) == t \in Issued /\ IsValid(t) /\ tokens[t].node = n
IsBlacklisted(ip) == blacklist[ip] \in {"day", "forever"}

Without(ts) == [t \in Token |-> IF t \in ts THEN NoToken ELSE tokens[t]]

-----------------------------------------------------------------------------
(* A registration.                                                         *)

Request(c, n, ip, t) ==
    /\ up
    /\ call[c] = Idle
    /\ call' = [call EXCEPT ![c] = [at |-> "blacklist", node |-> n, ip |-> ip,
                                    token |-> t, valid |-> FALSE]]
    /\ UNCHANGED <<tokens, nodes, bans, savedTokens, savedNodes, up, uses>>

(* nodes.go: 403 for a blacklisted address; RegisterNode tests it again.    *)
CheckBlacklist(c) ==
    /\ call[c].at \in {"blacklist", "recheck"}
    /\ call' = [call EXCEPT ![c] =
                  IF IsBlacklisted(@.ip) THEN Idle
                  ELSE [@ EXCEPT !.at = IF @ = "blacklist" THEN "validate" ELSE "revalidate"]]
    /\ UNCHANGED <<tokens, nodes, bans, savedTokens, savedNodes, up, uses>>

(* nodes.go: 401 for a token that is not valid.                             *)
Validate(c) ==
    /\ call[c].at = "validate"
    /\ call' = [call EXCEPT ![c] = IF ValidToken(@.token, @.node)
                                     THEN [@ EXCEPT !.at = "recheck"] ELSE Idle]
    /\ UNCHANGED <<tokens, nodes, bans, savedTokens, savedNodes, up, uses>>

(* RegisterNode validates the token before it takes the lock.               *)
Revalidate(c) ==
    /\ call[c].at = "revalidate"
    /\ call' = [call EXCEPT ![c].at = "register",
                            ![c].valid = ValidToken(call[c].token, call[c].node)]
    /\ UNCHANGED <<tokens, nodes, bans, savedTokens, savedNodes, up, uses>>

Ends(c) == call' = [call EXCEPT ![c] = Idle]

(* A registered node whose token was no longer valid when it was validated  *)
(* is let in if the token is (again) its own and has not expired: only the  *)
(* entry in memory changes.                                                 *)
Reconnects(c) ==
    LET t == call[c].token IN
    /\ call[c].node \in nodes
    /\ t \in Issued
    /\ tokens[t].node = call[c].node
    /\ ~tokens[t].expired

RegisterReconnect(c) ==
    /\ call[c].at = "register"
    /\ ~call[c].valid
    /\ Reconnects(c)
    /\ Ends(c)
    /\ UNCHANGED <<tokens, nodes, bans, savedTokens, savedNodes, up, uses>>

RegisterInvalid(c) ==
    LET ip == call[c].ip IN
    /\ call[c].at = "register"
    /\ ~call[c].valid
    /\ ~Reconnects(c)
    /\ pending[ip] < MaxPending
    /\ pending' = [pending EXCEPT ![ip] = @ + 1]
    /\ Ends(c)
    /\ UNCHANGED <<tokens, nodes, blacklist, failures, disk, up, uses>>

(* A known node registers again without using the token up.                 *)
RegisterAgain(c) ==
    /\ call[c].at = "register"
    /\ call[c].valid
    /\ call[c].node \in nodes
    /\ savedNodes' = nodes
    /\ Ends(c)
    /\ UNCHANGED <<tokens, nodes, bans, savedTokens, up, uses>>

(* Wrong variant of RegisterNew: the revoked token is not noticed.          *)
RegisterNewAnyway(c) ==
    LET t == call[c].token IN
    /\ call[c].at = "register"
    /\ call[c].valid
    /\ call[c].node \notin nodes
    /\ tokens' = IF t \in Issued THEN [tokens EXCEPT ![t].used = @ + 1] ELSE tokens
    /\ nodes' = nodes \cup {call[c].node}
    /\ savedNodes' = nodes'
    /\ Ends(c)
    /\ uses' = [uses EXCEPT ![t] = @ + 1]
    /\ UNCHANGED <<bans, savedTokens, up>>

(* A new node uses the token; the new count is not saved.                   *)
RegisterNew(c) ==
    LET t == call[c].token IN
    /\ call[c].at = "register"
    /\ call[c].valid
    /\ call[c].node \notin nodes
    /\ t \in Issued
    /\ tokens' = [tokens EXCEPT ![t].used = @ + 1]
    /\ nodes' = nodes \cup {call[c].node}
    /\ savedNodes' = nodes'
    /\ Ends(c)
    /\ uses' = [uses EXCEPT ![t] = @ + 1]
    /\ UNCHANGED <<bans, savedTokens, up>>

(* The token was revoked after it was validated: token.UsedCount++ panics   *)
(* on a nil pointer, and gin.Recovery answers 500.                          *)
RegisterPanics(c) ==
    /\ call[c].at = "register"
    /\ call[c].valid
    /\ call[c].node \notin nodes
    /\ call[c].token \notin Issued
    /\ Ends(c)
    /\ UNCHANGED <<tokens, nodes, bans, savedTokens, savedNodes, up, uses>>

Register(c) ==
    \/ RegisterReconnect(c)
    \/ RegisterInvalid(c)
    \/ RegisterAgain(c)
    \/ RegisterNew(c)
    \/ RegisterPanics(c)

(* Wrong variant of RecordFailure: failures are counted past the limit.     *)
RecordFailurePast(ip) ==
    /\ pending[ip] > 0
    /\ pending' = [pending EXCEPT ![ip] = @ - 1]
    /\ failures' = [failures EXCEPT ![ip] = IF @ <= FailureLimit THEN @ + 1 ELSE @]
    /\ blacklist' = IF failures'[ip] > FailureLimit
                      THEN [blacklist EXCEPT ![ip] = "day"] ELSE blacklist
    /\ UNCHANGED <<tokens, nodes, disk, call, up, uses>>

(* At the limit every further failure bans the address for another day,     *)
(* also one that was banned for ever; none of this is saved.                *)
RecordFailure(ip) ==
    /\ pending[ip] > 0
    /\ pending' = [pending EXCEPT ![ip] = @ - 1]
    /\ failures' = [failures EXCEPT ![ip] = IF @ < FailureLimit THEN @ + 1 ELSE @]
    /\ blacklist' = IF failures'[ip] = FailureLimit
                      THEN [blacklist EXCEPT ![ip] = "day"] ELSE blacklist
    /\ UNCHANGED <<tokens, nodes, disk, call, up, uses>>

-----------------------------------------------------------------------------
(* The other operations of the manager, each under its lock.                *)

SetTokens(new) == tokens' = new /\ savedTokens' = new

(* Wrong variant of GenerateRegistrationToken: older tokens stay.           *)
GenerateAnother(n, t) ==
    /\ up
    /\ t \notin Issued
    /\ savedTokens[t] = NoToken
    /\ \A c \in Call : call[c].token # t
    /\ SetTokens([tokens EXCEPT ![t] = [node |-> n, expired |-> FALSE, used |-> 0]])
    /\ uses' = [uses EXCEPT ![t] = 0]
    /\ UNCHANGED <<nodes, bans, savedNodes, call, up>>

GenerateRegistrationToken(n, t) ==
    /\ up
    /\ t \notin Issued
    /\ savedTokens[t] = NoToken
    /\ \A c \in Call : call[c].token # t
    /\ SetTokens([Without(TokensOf(n)) EXCEPT ![t] = [node |-> n, expired |-> FALSE, used |-> 0]])
    /\ uses' = [uses EXCEPT ![t] = 0]
    /\ UNCHANGED <<nodes, bans, savedNodes, call, up>>

(* Wrong variant of RevokeToken: the file is not written.                   *)
RevokeUnsaved(t) ==
    /\ up
    /\ t \in Issued
    /\ tokens' = Without({t})
    /\ UNCHANGED <<savedTokens, nodes, bans, savedNodes, call, up, uses>>

RevokeToken(t) ==
    /\ up
    /\ t \in Issued
    /\ SetTokens(Without({t}))
    /\ UNCHANGED <<nodes, bans, savedNodes, call, up, uses>>

RevokeTokenByNodeID(n) ==
    /\ up
    /\ TokensOf(n) # {}
    /\ SetTokens(Without(TokensOf(n)))
    /\ UNCHANGED <<nodes, bans, savedNodes, call, up, uses>>

CleanupExpiredTokens ==
    LET invalid == {t \in Issued : ~IsValid(t)} IN
    /\ up
    /\ invalid # {}
    /\ SetTokens(Without(invalid))
    /\ UNCHANGED <<nodes, bans, savedNodes, call, up, uses>>

UnregisterNode(n) ==
    /\ up
    /\ n \in nodes
    /\ nodes' = nodes \ {n}
    /\ savedNodes' = nodes'
    /\ UNCHANGED <<tokens, savedTokens, bans, call, up, uses>>

AddToBlacklist(ip) ==
    /\ up
    /\ blacklist' = [blacklist EXCEPT ![ip] = "forever"]
    /\ savedBlacklist' = blacklist'
    /\ UNCHANGED <<tokens, savedTokens, nodes, savedNodes, failures, pending, call, up, uses>>

RemoveFromBlacklist(ip) ==
    /\ up
    /\ blacklist' = [blacklist EXCEPT ![ip] = "no"]
    /\ savedBlacklist' = blacklist'
    /\ UNCHANGED <<tokens, savedTokens, nodes, savedNodes, failures, pending, call, up, uses>>

-----------------------------------------------------------------------------
(* ExpiresAt of a token and ExpireAt of a ban pass, saved ones included.    *)
TokenExpires(t) ==
    /\ t \in Issued \/ savedTokens[t] # NoToken
    /\ tokens' = IF t \in Issued THEN [tokens EXCEPT ![t].expired = TRUE] ELSE tokens
    /\ savedTokens' = IF savedTokens[t] # NoToken
                        THEN [savedTokens EXCEPT ![t].expired = TRUE] ELSE savedTokens
    /\ UNCHANGED <<nodes, savedNodes, bans, call, up, uses>>

Passed(list) == [ip \in IP |-> IF list[ip] = "day" THEN "past" ELSE list[ip]]

BansExpire ==
    /\ \E ip \in IP : "day" \in {blacklist[ip], savedBlacklist[ip]}
    /\ blacklist' = Passed(blacklist)
    /\ savedBlacklist' = Passed(savedBlacklist)
    /\ UNCHANGED <<tokens, savedTokens, nodes, savedNodes, failures, pending, call, up, uses>>

GatewayEnds ==
    /\ up
    /\ up' = FALSE
    /\ tokens' = [t \in Token |-> NoToken]
    /\ nodes' = {}
    /\ blacklist' = [ip \in IP |-> "no"]
    /\ failures' = [ip \in IP |-> 0]
    /\ pending' = [ip \in IP |-> 0]
    /\ call' = [c \in Call |-> Idle]
    /\ uses' = [t \in Token |-> 0]
    /\ UNCHANGED disk

(* NewNodeAuthManager: loadFromDisk.                                        *)
GatewayStarts ==
    /\ ~up
    /\ up' = TRUE
    /\ tokens' = savedTokens
    /\ nodes' = savedNodes
    /\ blacklist' = savedBlacklist
    /\ UNCHANGED <<failures, pending, disk, call, uses>>

CallStep(c) == CheckBlacklist(c) \/ Validate(c) \/ Revalidate(c) \/ Register(c)

Next ==
    \/ \E c \in Call : CallStep(c)
    \/ \E c \in Call, n \in Node, ip \in IP, t \in Token : Request(c, n, ip, t)
    \/ \E ip \in IP : RecordFailure(ip) \/ AddToBlacklist(ip) \/ RemoveFromBlacklist(ip)
    \/ \E n \in Node, t \in Token : GenerateRegistrationToken(n, t)
    \/ \E t \in Token : RevokeToken(t) \/ TokenExpires(t)
    \/ \E n \in Node : RevokeTokenByNodeID(n) \/ UnregisterNode(n)
    \/ CleanupExpiredTokens
    \/ BansExpire
    \/ GatewayEnds
    \/ GatewayStarts

Spec == Init /\ [][Next]_vars

-----------------------------------------------------------------------------
(* Properties.                                                             *)

TypeOK ==
    /\ tokens \in [Token -> TokenInfo]
    /\ savedTokens \in [Token -> TokenInfo]
    /\ nodes \subseteq Node
    /\ savedNodes \subseteq Node
    /\ blacklist \in [IP -> Ban]
    /\ savedBlacklist \in [IP -> Ban]
    /\ failures \in [IP -> 0 .. FailureLimit]
    /\ pending \in [IP -> 0 .. MaxPending]
    /\ call \in [Call -> Registration \cup {Idle}]
    /\ up \in BOOLEAN
    /\ uses \in [Token -> Nat]

(* auth.go:105: a node has one token at a time, also after a restart in the *)
(* middle of anything.                                                      *)
OneTokenPerNode ==
    \A t, u \in Issued : tokens[t].node = tokens[u].node => t = u

(* What an operator revoked, replaced or cleaned up does not come back with *)
(* a restart, and what is there survives one: the files hold the tokens and *)
(* nodes of the memory, and no ban that was lifted.  (A token's uses and    *)
(* the automatic bans are not saved when they change.)                      *)
SavedIsCurrent ==
    up => /\ \A t \in Token : /\ savedTokens[t].node = tokens[t].node
                              /\ savedTokens[t].used <= tokens[t].used
          /\ savedNodes = nodes
          /\ \A ip \in IP : savedBlacklist[ip] # "no" => blacklist[ip] # "no"

(* Between the validation of a token and its use lie other registrations    *)
(* and unregistrations of the same node, so that MaxUses can be exceeded;   *)
(* but within one run of the gateway only by the calls that were validated  *)
(* at the same time.  Nothing is said of several runs: see UsesAreSaved.    *)
UsesBounded ==
    \A t \in Token : uses[t] <= MaxUses - 1 + Cardinality(Call)

(* auth.go:42: used_count is part of what is saved of a token.  Violated:   *)
(* RegisterNode saves the node but not the token, so that a restart gives   *)
(* the use back unless an operator changed some token in the meantime.      *)
UsesAreSaved ==
    up => \A t \in Token : savedTokens[t].used = tokens[t].used

(* A node that is not registered becomes so only with a token that is its   *)
(* own and has not been revoked at that moment, however long ago it was     *)
(* validated.                                                               *)
NewNodeNeedsToken ==
    [][\A c \in Call :
         up' /\ call[c].at = "register" /\ call'[c] = Idle /\ call[c].node \in nodes' \ nodes
         => \E t \in Issued : t = call[c].token /\ tokens[t].node = call[c].node]_vars

(* auth.go:188: a registered node may register again although its token is  *)
(* used up, as long as the token is its own and has not expired.  Violated: *)
(* the handler has refused the token before RegisterNode is asked.          *)
UsedUpTokenReconnects ==
    [][\A c \in Call :
         /\ up'
         /\ call[c].at = "validate"
         /\ ~IsBlacklisted(call[c].ip)
         /\ Reconnects(c)
         => call'[c] # Idle]_vars
=============================================================================
