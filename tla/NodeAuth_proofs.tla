--------------------------- MODULE NodeAuth_proofs ---------------------------
(***************************************************************************)
(* Proofs about NodeAuth for any sets of nodes, tokens and addresses, any   *)
(* finite set of calls, any number of uses and any failure limit.           *)
(*                                                                         *)
(* After the types come what is saved and that a node has one token: the    *)
(* second needs the first, because a restart puts the saved tokens back.    *)
(* The bound on the uses of a token in one run rests on counting, with each *)
(* use, the calls whose validation of the token still stands, and on the    *)
(* manager's count being at least that of the run.                          *)
(***************************************************************************)
EXTENDS NodeAuth, FiniteSetTheorems, TLAPS

LEMMA NoTokenType == NoToken \in TokenInfo
BY DEF NoToken, TokenInfo

LEMMA WithoutType ==
    ASSUME TypeOK, NEW ts
    PROVE  Without(ts) \in [Token -> TokenInfo]
BY NoTokenType DEF Without, TypeOK

(* The steps of a registration.                                             *)
LEMMA TypeCall ==
    ASSUME TypeOK, NEW c \in Call, CallStep(c)
    PROVE  TypeOK'
<1>1. call[c] \in Registration
  BY DEF CallStep, CheckBlacklist, Validate, Revalidate, Register, RegisterReconnect,
         RegisterInvalid, RegisterAgain, RegisterNew, RegisterPanics, TypeOK, Idle
<1>2. CASE CheckBlacklist(c)
  <2>1. call' \in [Call -> Registration \cup {Idle}]
    BY <1>1, <1>2 DEF CheckBlacklist, TypeOK, Registration, Steps
  <2> QED
    BY <1>2, <2>1 DEF CheckBlacklist, TypeOK, bans
<1>3. CASE Validate(c)
  <2>1. call' \in [Call -> Registration \cup {Idle}]
    BY <1>1, <1>3 DEF Validate, TypeOK, Registration, Steps
  <2> QED
    BY <1>3, <2>1 DEF Validate, TypeOK, bans
<1>4. CASE Revalidate(c)
  <2> DEFINE v == ValidToken(call[c].token, call[c].node)
  <2>1. v \in BOOLEAN
    BY DEF ValidToken, IsValid, Issued
  <2>2. [[call[c] EXCEPT !.at = "register"] EXCEPT !.valid = v] \in Registration
    BY <1>1, <2>1 DEF Registration, Steps
  <2>3. call' = [call EXCEPT ![c] = [[@ EXCEPT !.at = "register"] EXCEPT !.valid = v]]
    BY <1>1, <1>4 DEF Revalidate, TypeOK, Registration
  <2> HIDE DEF v
  <2>4. call' \in [Call -> Registration \cup {Idle}]
    BY <2>2, <2>3 DEF TypeOK
  <2> QED
    BY <1>4, <2>4 DEF Revalidate, TypeOK, bans
<1>5. CASE RegisterReconnect(c)
  BY <1>5 DEF RegisterReconnect, Ends, TypeOK, bans
<1>6. CASE RegisterInvalid(c)
  <2>1. pending' \in [IP -> 0 .. MaxPending]
    BY <1>1, <1>6, MaxPendingAssumption DEF RegisterInvalid, TypeOK, Registration
  <2>2. call' \in [Call -> Registration \cup {Idle}]
    BY <1>6 DEF RegisterInvalid, Ends, TypeOK
  <2> QED
    BY <1>6, <2>1, <2>2 DEF RegisterInvalid, TypeOK, disk
<1>7. CASE RegisterAgain(c)
  BY <1>7 DEF RegisterAgain, Ends, TypeOK, bans
<1>8. CASE RegisterNew(c)
  <2>0. PICK t \in Token : tokens' = [tokens EXCEPT ![t].used = @ + 1]
    BY <1>8 DEF RegisterNew, Issued
  <2>1. tokens' \in [Token -> TokenInfo]
    <3>1. tokens \in [Token -> TokenInfo]
      BY DEF TypeOK
    <3> QED
      BY <2>0, <3>1 DEF TokenInfo
  <2>2. nodes' \subseteq Node
    BY <1>1, <1>8 DEF RegisterNew, TypeOK, Registration
  <2>3. call' \in [Call -> Registration \cup {Idle}]
    BY <1>8 DEF RegisterNew, Ends, TypeOK
  <2>4. uses' \in [Token -> Nat]
    <3>1. PICK k \in Token : uses' = [uses EXCEPT ![k] = @ + 1]
      BY <1>8 DEF RegisterNew, Issued
    <3>2. uses \in [Token -> Nat]
      BY DEF TypeOK
    <3> QED
      BY <3>1, <3>2
  <2> QED
    BY <1>8, <2>1, <2>2, <2>3, <2>4 DEF RegisterNew, TypeOK, bans
<1>9. CASE RegisterPanics(c)
  BY <1>9 DEF RegisterPanics, Ends, TypeOK, bans
<1> QED
  BY <1>2, <1>3, <1>4, <1>5, <1>6, <1>7, <1>8, <1>9 DEF CallStep, Register

LEMMA TypeInit == Init => TypeOK
BY NoTokenType, FailureLimitAssumption, MaxPendingAssumption DEF Init, TypeOK, Ban

LEMMA TypeNext == TypeOK /\ [Next]_vars => TypeOK'
<1> SUFFICES ASSUME TypeOK, [Next]_vars PROVE TypeOK'
  OBVIOUS
<1> USE DEF bans, disk
<1>1. ASSUME NEW c \in Call, NEW n \in Node, NEW ip \in IP, NEW t \in Token, Request(c, n, ip, t)
      PROVE  TypeOK'
  <2>1. [at |-> "blacklist", node |-> n, ip |-> ip, token |-> t, valid |-> FALSE] \in Registration
    BY DEF Registration, Steps
  <2> QED
    BY <1>1, <2>1 DEF Request, TypeOK
<1>2. ASSUME NEW ip \in IP, RecordFailure(ip) PROVE TypeOK'
  <2>1. pending' \in [IP -> 0 .. MaxPending]
    BY <1>2, MaxPendingAssumption DEF RecordFailure, TypeOK
  <2>2. failures' \in [IP -> 0 .. FailureLimit]
    BY <1>2, FailureLimitAssumption DEF RecordFailure, TypeOK
  <2>3. blacklist' \in [IP -> Ban]
    BY <1>2 DEF RecordFailure, TypeOK, Ban
  <2> QED
    BY <1>2, <2>1, <2>2, <2>3 DEF RecordFailure, TypeOK
<1>3. ASSUME NEW ip \in IP, AddToBlacklist(ip) \/ RemoveFromBlacklist(ip) PROVE TypeOK'
  BY <1>3 DEF AddToBlacklist, RemoveFromBlacklist, TypeOK, Ban
<1>4. ASSUME NEW n \in Node, NEW t \in Token, GenerateRegistrationToken(n, t) PROVE TypeOK'
  <2>1. [node |-> n, expired |-> FALSE, used |-> 0] \in TokenInfo
    BY DEF TokenInfo
  <2>2. tokens' \in [Token -> TokenInfo]
    BY <1>4, <2>1, WithoutType DEF GenerateRegistrationToken, SetTokens
  <2> QED
    BY <1>4, <2>2 DEF GenerateRegistrationToken, SetTokens, TypeOK
<1>5. ASSUME NEW t \in Token, RevokeToken(t) PROVE TypeOK'
  BY <1>5, WithoutType DEF RevokeToken, SetTokens, TypeOK
<1>6. ASSUME NEW t \in Token, TokenExpires(t) PROVE TypeOK'
  <2>1. tokens' \in [Token -> TokenInfo] /\ savedTokens' \in [Token -> TokenInfo]
    BY <1>6 DEF TokenExpires, TypeOK, TokenInfo
  <2> QED
    BY <1>6, <2>1 DEF TokenExpires, TypeOK
<1>7. ASSUME NEW n \in Node, RevokeTokenByNodeID(n) PROVE TypeOK'
  BY <1>7, WithoutType DEF RevokeTokenByNodeID, SetTokens, TypeOK
<1>8. ASSUME NEW n \in Node, UnregisterNode(n) PROVE TypeOK'
  BY <1>8 DEF UnregisterNode, TypeOK
<1>9. CASE CleanupExpiredTokens
  BY <1>9, WithoutType DEF CleanupExpiredTokens, SetTokens, TypeOK
<1>10. CASE BansExpire
  BY <1>10 DEF BansExpire, Passed, TypeOK, Ban
<1>11. CASE GatewayEnds
  <2>1. 0 \in 0 .. FailureLimit /\ 0 \in 0 .. MaxPending
    BY FailureLimitAssumption, MaxPendingAssumption
  <2> QED
    BY <1>11, <2>1, NoTokenType DEF GatewayEnds, TypeOK, Ban
<1>12. CASE GatewayStarts
  BY <1>12 DEF GatewayStarts, TypeOK
<1>13. CASE UNCHANGED vars
  BY <1>13 DEF vars, TypeOK
<1> QED
  BY <1>1, <1>2, <1>3, <1>4, <1>5, <1>6, <1>7, <1>8, <1>9, <1>10, <1>11, <1>12, <1>13, TypeCall
     DEF Next

(* Every variable keeps its type.                                           *)
THEOREM TypeCorrect == Spec => []TypeOK
BY TypeInit, TypeNext, PTL DEF Spec

-----------------------------------------------------------------------------
LEMMA SavedInit == Init => SavedIsCurrent
BY DEF Init, SavedIsCurrent, NoToken

LEMMA SavedNext == TypeOK /\ SavedIsCurrent /\ [Next]_vars => SavedIsCurrent'
<1> SUFFICES ASSUME TypeOK, SavedIsCurrent, [Next]_vars PROVE SavedIsCurrent'
  OBVIOUS
<1> USE DEF bans, disk, SavedIsCurrent
<1>0. TypeOK'
  BY TypeNext
<1>1. ASSUME NEW c \in Call, CallStep(c) PROVE SavedIsCurrent'
  <2>1. CASE RegisterNew(c)
    <3>1. \A t \in Token : tokens'[t].node = tokens[t].node /\ tokens[t].used <= tokens'[t].used
      BY <2>1 DEF RegisterNew, TypeOK, TokenInfo
    <3> QED
      BY <2>1, <3>1, <1>0 DEF RegisterNew, TypeOK, TokenInfo
  <2>2. CASE RegisterAgain(c)
    BY <2>2 DEF RegisterAgain
  <2>3. CASE CheckBlacklist(c) \/ Validate(c) \/ Revalidate(c) \/ RegisterReconnect(c)
                \/ RegisterInvalid(c) \/ RegisterPanics(c)
    BY <2>3 DEF CheckBlacklist, Validate, Revalidate, RegisterReconnect, RegisterInvalid,
                RegisterPanics
  <2> QED
    BY <1>1, <2>1, <2>2, <2>3 DEF CallStep, Register
<1>2. ASSUME NEW c \in Call, NEW n \in Node, NEW ip \in IP, NEW t \in Token, Request(c, n, ip, t)
      PROVE  SavedIsCurrent'
  BY <1>2 DEF Request
<1>3. ASSUME NEW ip \in IP, RecordFailure(ip) PROVE SavedIsCurrent'
  BY <1>3 DEF RecordFailure, TypeOK
<1>4. ASSUME NEW ip \in IP, AddToBlacklist(ip) \/ RemoveFromBlacklist(ip) PROVE SavedIsCurrent'
  BY <1>4 DEF AddToBlacklist, RemoveFromBlacklist
<1>5. ASSUME NEW new, SetTokens(new), up' = up, savedNodes' = savedNodes, nodes' = nodes,
             blacklist' = blacklist, savedBlacklist' = savedBlacklist
      PROVE  SavedIsCurrent'
  BY <1>5, <1>0 DEF SetTokens, TypeOK, TokenInfo
<1>6. CASE \/ \E n \in Node, t \in Token : GenerateRegistrationToken(n, t)
           \/ \E t \in Token : RevokeToken(t)
           \/ \E n \in Node : RevokeTokenByNodeID(n)
  BY <1>5, <1>6 DEF GenerateRegistrationToken, RevokeToken, RevokeTokenByNodeID
<1>7. ASSUME NEW t \in Token, TokenExpires(t) PROVE SavedIsCurrent'
  <2>1. \A u \in Token : /\ tokens'[u].node = tokens[u].node
                         /\ tokens'[u].used = tokens[u].used
                         /\ savedTokens'[u].node = savedTokens[u].node
                         /\ savedTokens'[u].used = savedTokens[u].used
    BY <1>7 DEF TokenExpires, TypeOK, TokenInfo
  <2> QED
    BY <1>7, <2>1 DEF TokenExpires
<1>8. ASSUME NEW n \in Node, UnregisterNode(n) PROVE SavedIsCurrent'
  BY <1>8 DEF UnregisterNode
<1>9. CASE CleanupExpiredTokens
  BY <1>5, <1>9 DEF CleanupExpiredTokens
<1>10. CASE BansExpire
  BY <1>10 DEF BansExpire, Passed
<1>11. CASE GatewayEnds
  BY <1>11 DEF GatewayEnds
<1>12. CASE GatewayStarts
  BY <1>12, <1>0 DEF GatewayStarts, TypeOK, TokenInfo
<1>13. CASE UNCHANGED vars
  BY <1>13 DEF vars
<1> QED
  BY <1>1, <1>2, <1>3, <1>4, <1>6, <1>7, <1>8, <1>9, <1>10, <1>11, <1>12, <1>13 DEF Next

(* The files hold the tokens and the nodes of the memory, and no lifted ban.*)
THEOREM SavedCurrent == Spec => []SavedIsCurrent
<1>1. Init => TypeOK /\ SavedIsCurrent
  BY TypeInit, SavedInit
<1>2. TypeOK /\ SavedIsCurrent /\ [Next]_vars => (TypeOK /\ SavedIsCurrent)'
  BY TypeNext, SavedNext
<1> QED
  BY <1>1, <1>2, PTL DEF Spec

-----------------------------------------------------------------------------
(* One token per node, in the file as well as in memory.                    *)
Single(ts) == \A t, u \in Token : ts[t].node # None /\ ts[t].node = ts[u].node => t = u

SingleTokens == Single(tokens) /\ Single(savedTokens)

LEMMA SingleInit == Init => SingleTokens
BY DEF Init, SingleTokens, Single, NoToken

LEMMA SingleWithout ==
    ASSUME TypeOK, Single(tokens), NEW ts
    PROVE  Single(Without(ts))
BY DEF Single, Without, NoToken, TypeOK

LEMMA SingleNext == TypeOK /\ SingleTokens /\ [Next]_vars => SingleTokens'
<1> SUFFICES ASSUME TypeOK, SingleTokens, [Next]_vars PROVE SingleTokens'
  OBVIOUS
<1> USE DEF SingleTokens
<1>1. ASSUME tokens' = tokens, savedTokens' = savedTokens PROVE SingleTokens'
  BY <1>1 DEF Single
<1>2. ASSUME NEW c \in Call, CallStep(c) PROVE SingleTokens'
  <2>1. CASE RegisterNew(c)
    <3>1. \A t \in Token : tokens'[t].node = tokens[t].node
      BY <2>1 DEF RegisterNew, TypeOK, TokenInfo
    <3> QED
      BY <2>1, <3>1 DEF RegisterNew, Single
  <2>2. CASE CheckBlacklist(c) \/ Validate(c) \/ Revalidate(c) \/ RegisterReconnect(c)
                \/ RegisterInvalid(c) \/ RegisterPanics(c) \/ RegisterAgain(c)
    BY <1>1, <2>2 DEF CheckBlacklist, Validate, Revalidate, RegisterReconnect, RegisterInvalid,
                      RegisterPanics, RegisterAgain, disk
  <2> QED
    BY <1>2, <2>1, <2>2 DEF CallStep, Register
<1>3. ASSUME NEW n \in Node, NEW t \in Token, GenerateRegistrationToken(n, t) PROVE SingleTokens'
  <2> DEFINE rest == Without(TokensOf(n))
  <2>1. rest \in [Token -> TokenInfo] /\ Single(rest)
    BY SingleWithout, WithoutType
  <2>2. \A u \in Token : rest[u].node # n
    BY NoneAssumption DEF Without, TokensOf, Issued, NoToken
  <2>3. tokens' = [rest EXCEPT ![t] = [node |-> n, expired |-> FALSE, used |-> 0]]
        /\ savedTokens' = tokens'
    BY <1>3 DEF GenerateRegistrationToken, SetTokens
  <2> HIDE DEF rest
  <2>4. Single(tokens')
    BY <2>1, <2>2, <2>3 DEF Single
  <2> QED
    BY <2>3, <2>4 DEF Single
<1>4. CASE \/ \E t \in Token : RevokeToken(t)
           \/ \E n \in Node : RevokeTokenByNodeID(n)
           \/ CleanupExpiredTokens
  <2>1. PICK ts : tokens' = Without(ts) /\ savedTokens' = Without(ts)
    BY <1>4 DEF RevokeToken, RevokeTokenByNodeID, CleanupExpiredTokens, SetTokens
  <2> QED
    BY <2>1, SingleWithout DEF Single
<1>5. ASSUME NEW t \in Token, TokenExpires(t) PROVE SingleTokens'
  <2>1. \A u \in Token : /\ tokens'[u].node = tokens[u].node
                         /\ savedTokens'[u].node = savedTokens[u].node
    BY <1>5 DEF TokenExpires, TypeOK, TokenInfo
  <2> QED
    BY <2>1 DEF Single
<1>6. CASE GatewayEnds
  BY <1>6 DEF GatewayEnds, disk, Single, NoToken
<1>7. CASE GatewayStarts
  BY <1>7 DEF GatewayStarts, disk, Single
<1>8. CASE \/ \E c \in Call, n \in Node, ip \in IP, t \in Token : Request(c, n, ip, t)
           \/ \E ip \in IP : RecordFailure(ip) \/ AddToBlacklist(ip) \/ RemoveFromBlacklist(ip)
           \/ \E n \in Node : UnregisterNode(n)
           \/ BansExpire
           \/ UNCHANGED vars
  BY <1>1, <1>8 DEF Request, RecordFailure, AddToBlacklist, RemoveFromBlacklist, UnregisterNode,
                    BansExpire, vars, disk
<1> QED
  BY <1>2, <1>3, <1>4, <1>5, <1>6, <1>7, <1>8 DEF Next

(* A node has at most one token, whatever is generated, revoked or reloaded.*)
THEOREM OneToken == Spec => []OneTokenPerNode
<1>1. Init => TypeOK /\ SingleTokens
  BY TypeInit, SingleInit
<1>2. TypeOK /\ SingleTokens /\ [Next]_vars => (TypeOK /\ SingleTokens)'
  BY TypeNext, SingleNext
<1>3. SingleTokens => OneTokenPerNode
  BY DEF SingleTokens, Single, OneTokenPerNode, Issued
<1> QED
  BY <1>1, <1>2, <1>3, PTL DEF Spec

-----------------------------------------------------------------------------
(* The calls whose validation of t still stands; each may still use t once. *)
Standing(t) == {c \in Call : call[c].at = "register" /\ call[c].valid /\ call[c].token = t}

Limit == MaxUses - 1 + Cardinality(Call)

UsesCounted ==
    \A t \in Token : /\ tokens[t].used + Cardinality(Standing(t)) <= Limit
                     /\ savedTokens[t].used <= Limit

(* Nothing is being handled while the gateway is down.                      *)
DownIdle == ~up => \A c \in Call : call[c] = Idle

LEMMA DownIdleNext == TypeOK /\ DownIdle /\ [Next]_vars => DownIdle'
<1> SUFFICES ASSUME TypeOK, DownIdle, [Next]_vars, ~up', NEW c \in Call
             PROVE  call'[c] = Idle
  BY DEF DownIdle
<1> USE DEF DownIdle
<1>1. ASSUME NEW d \in Call, CallStep(d) PROVE call'[c] = Idle
  <2>1. up' = up
    <3>1. CheckBlacklist(d) \/ Validate(d) \/ Revalidate(d) => up' = up
      BY DEF CheckBlacklist, Validate, Revalidate
    <3>2. Register(d) => up' = up
      BY DEF Register, RegisterReconnect, RegisterInvalid, RegisterAgain, RegisterNew,
             RegisterPanics
    <3> QED
      BY <1>1, <3>1, <3>2 DEF CallStep
  <2>2. call[d].at # "idle"
    BY <1>1 DEF CallStep, CheckBlacklist, Validate, Revalidate, Register, RegisterReconnect,
                RegisterInvalid, RegisterAgain, RegisterNew, RegisterPanics
  <2> QED
    BY <2>1, <2>2 DEF Idle
<1>2. CASE GatewayEnds
  BY <1>2 DEF GatewayEnds
<1>3. CASE \/ \E ip \in IP : RecordFailure(ip)
           \/ \E t \in Token : TokenExpires(t)
           \/ BansExpire
           \/ UNCHANGED vars
  <2>1. up' = up /\ call' = call
    BY <1>3 DEF RecordFailure, TokenExpires, BansExpire, vars
  <2> QED
    BY <2>1
<1>4. CASE \/ \E d \in Call, n \in Node, ip \in IP, t \in Token : Request(d, n, ip, t)
           \/ \E ip \in IP : AddToBlacklist(ip) \/ RemoveFromBlacklist(ip)
           \/ \E n \in Node, t \in Token : GenerateRegistrationToken(n, t)
           \/ \E t \in Token : RevokeToken(t)
           \/ \E n \in Node : RevokeTokenByNodeID(n) \/ UnregisterNode(n)
           \/ CleanupExpiredTokens
           \/ GatewayStarts
  <2>1. ASSUME up, up' = up PROVE FALSE
    BY <2>1
  <2>2. /\ \A d \in Call, n \in Node, ip \in IP, t \in Token : ~Request(d, n, ip, t)
        /\ \A ip \in IP : ~AddToBlacklist(ip) /\ ~RemoveFromBlacklist(ip)
        /\ \A n \in Node, t \in Token : ~GenerateRegistrationToken(n, t)
        /\ \A t \in Token : ~RevokeToken(t)
        /\ \A n \in Node : ~RevokeTokenByNodeID(n) /\ ~UnregisterNode(n)
    BY <2>1 DEF Request, AddToBlacklist, RemoveFromBlacklist, GenerateRegistrationToken,
                RevokeToken, RevokeTokenByNodeID, UnregisterNode
  <2>3. ~CleanupExpiredTokens /\ ~GatewayStarts
    BY <2>1 DEF CleanupExpiredTokens, GatewayStarts
  <2> QED
    BY <1>4, <2>2, <2>3
<1> QED
  BY <1>1, <1>2, <1>3, <1>4 DEF Next

LEMMA LimitType == Limit \in Nat /\ Cardinality(Call) \in Nat /\ Cardinality(Call) <= Limit
BY MaxUsesAssumption, CallAssumption, FS_CardinalityType DEF Limit

LEMMA StandingType ==
    ASSUME NEW t
    PROVE  /\ IsFiniteSet(Standing(t))
           /\ Cardinality(Standing(t)) \in Nat
           /\ Cardinality(Standing(t)) <= Cardinality(Call)
<1>1. Standing(t) \subseteq Call
  BY DEF Standing
<1> QED
  BY <1>1, CallAssumption, FS_Subset, FS_CardinalityType

LEMMA CountedInit == Init => UsesCounted
<1> SUFFICES ASSUME Init, NEW t \in Token
             PROVE  /\ tokens[t].used + Cardinality(Standing(t)) <= Limit
                    /\ savedTokens[t].used <= Limit
  BY DEF UsesCounted
<1> QED
  BY StandingType, LimitType DEF Init, NoToken

(* A step that validates nothing and uses nothing keeps the count.          *)
LEMMA CountedFewer ==
    ASSUME TypeOK, TypeOK', UsesCounted,
           \A t \in Token : /\ tokens'[t].used <= tokens[t].used
                            /\ \/ savedTokens'[t].used <= savedTokens[t].used
                               \/ savedTokens'[t].used <= tokens[t].used
           ,
           \A c \in Call : call'[c] \in {call[c], Idle} \/ ~call'[c].valid
    PROVE  UsesCounted'
<1> SUFFICES ASSUME NEW t \in Token
             PROVE  /\ tokens'[t].used + Cardinality(Standing(t)') <= Limit
                    /\ savedTokens'[t].used <= Limit
  BY DEF UsesCounted
<1>1. Standing(t)' \subseteq Standing(t)
  BY DEF Standing, Idle
<1>2. Cardinality(Standing(t)') \in Nat /\ Cardinality(Standing(t)') <= Cardinality(Standing(t))
  BY <1>1, StandingType, FS_Subset, FS_CardinalityType
<1>3. /\ tokens[t].used \in Nat /\ tokens'[t].used \in Nat
      /\ savedTokens[t].used \in Nat /\ savedTokens'[t].used \in Nat
  BY DEF TypeOK, TokenInfo
<1> HIDE DEF Limit
<1> QED
  BY <1>2, <1>3, StandingType, LimitType DEF UsesCounted

LEMMA CountedCall ==
    ASSUME TypeOK, UsesCounted, NEW c \in Call, CallStep(c)
    PROVE  UsesCounted'
<1>0. TypeOK'
  BY TypeCall
<1>1. \A t \in Token : tokens[t].used \in Nat /\ savedTokens[t].used \in Nat
  BY DEF TypeOK, TokenInfo
<1>2. call \in [Call -> Registration \cup {Idle}]
  BY DEF TypeOK
<1>3. CASE CheckBlacklist(c) \/ Validate(c)
  <2>1. call'[c].valid = FALSE \/ call'[c] \in {call[c], Idle} \/ call'[c].at # "register"
    BY <1>2, <1>3 DEF CheckBlacklist, Validate, Registration, Idle
  <2>2. tokens' = tokens /\ savedTokens' = savedTokens
    BY <1>3 DEF CheckBlacklist, Validate
  <2>3. \A t \in Token : Standing(t)' \subseteq Standing(t)
    BY <1>2, <1>3 DEF CheckBlacklist, Validate, Standing, Registration, Idle
  <2>4. ASSUME NEW t \in Token
        PROVE  tokens'[t].used + Cardinality(Standing(t)') <= Limit /\ savedTokens'[t].used <= Limit
    <3>1. Cardinality(Standing(t)') <= Cardinality(Standing(t)) /\ Cardinality(Standing(t)') \in Nat
      BY <2>3, StandingType, FS_Subset, FS_CardinalityType
    <3> QED
      BY <1>1, <2>2, <3>1, StandingType, LimitType DEF UsesCounted
  <2> QED
    BY <2>4 DEF UsesCounted
<1>4. CASE Revalidate(c)
  <2>1. tokens' = tokens /\ savedTokens' = savedTokens
    BY <1>4 DEF Revalidate
  <2>2. call[c] \in Registration /\ \A d \in Call : d # c => call'[d] = call[d]
    BY <1>2, <1>4 DEF Revalidate, Idle
  <2>3. call'[c].token = call[c].token
        /\ call'[c].valid = ValidToken(call[c].token, call[c].node)
    BY <1>2, <1>4, <2>2 DEF Revalidate, Registration
  <2>4. ASSUME NEW t \in Token
        PROVE  tokens'[t].used + Cardinality(Standing(t)') <= Limit /\ savedTokens'[t].used <= Limit
    <3>1. CASE call[c].token = t /\ ValidToken(t, call[c].node)
      <4>1. tokens[t].used <= MaxUses - 1
        BY <1>1, <3>1, MaxUsesAssumption DEF ValidToken, IsValid
      <4>2. Standing(t)' \subseteq Call
        BY DEF Standing
      <4>3. Cardinality(Standing(t)') \in Nat /\ Cardinality(Standing(t)') <= Cardinality(Call)
        BY <4>2, CallAssumption, FS_Subset, FS_CardinalityType
      <4> QED
        BY <1>1, <2>1, <4>1, <4>3, MaxUsesAssumption, LimitType DEF Limit, UsesCounted
    <3>2. CASE ~(call[c].token = t /\ ValidToken(t, call[c].node))
      <4>1. Standing(t)' \subseteq Standing(t)
        BY <2>2, <2>3, <3>2 DEF Standing
      <4>2. Cardinality(Standing(t)') <= Cardinality(Standing(t)) /\ Cardinality(Standing(t)') \in Nat
        BY <4>1, StandingType, FS_Subset, FS_CardinalityType
      <4> QED
        BY <1>1, <2>1, <4>2, StandingType, LimitType DEF UsesCounted
    <3> QED
      BY <3>1, <3>2
  <2> QED
    BY <2>4 DEF UsesCounted
<1>5. CASE RegisterReconnect(c) \/ RegisterInvalid(c) \/ RegisterAgain(c) \/ RegisterPanics(c)
  <2>1. tokens' = tokens /\ savedTokens' = savedTokens
    BY <1>5 DEF RegisterReconnect, RegisterInvalid, RegisterAgain, RegisterPanics, disk
  <2>2. \A d \in Call : call'[d] \in {call[d], Idle}
    BY <1>2, <1>5 DEF RegisterReconnect, RegisterInvalid, RegisterAgain, RegisterPanics, Ends
  <2> QED
    BY <1>0, <1>1, <2>1, <2>2, CountedFewer
<1>6. CASE RegisterNew(c)
  <2> DEFINE u == call[c].token
  <2>1. c \in Standing(u) /\ u \in Token
    BY <1>6 DEF RegisterNew, Standing, Issued
  <2>2. call' = [call EXCEPT ![c] = Idle] /\ savedTokens' = savedTokens
    BY <1>6 DEF RegisterNew, Ends
  <2>3. /\ tokens'[u].used = tokens[u].used + 1
        /\ \A t \in Token : t # u => tokens'[t].used = tokens[t].used
    BY <1>6, <2>1 DEF RegisterNew, TypeOK, TokenInfo
  <2>4. \A t \in Token : Standing(t)' = Standing(t) \ {c}
    BY <1>2, <2>2 DEF Standing, Idle
  <2> HIDE DEF u
  <2>5. ASSUME NEW t \in Token
        PROVE  tokens'[t].used + Cardinality(Standing(t)') <= Limit /\ savedTokens'[t].used <= Limit
    <3>1. CASE t = u
      <4>1. Cardinality(Standing(t)') = Cardinality(Standing(t)) - 1
        BY <2>1, <2>4, <3>1, StandingType, FS_RemoveElement
      <4> QED
        BY <1>1, <2>2, <2>3, <3>1, <4>1, StandingType, LimitType DEF UsesCounted
    <3>2. CASE t # u
      <4>1. Cardinality(Standing(t)') <= Cardinality(Standing(t)) /\ Cardinality(Standing(t)') \in Nat
        BY <2>4, StandingType, FS_Subset, FS_CardinalityType
      <4> QED
        BY <1>1, <2>2, <2>3, <3>2, <4>1, StandingType, LimitType DEF UsesCounted
    <3> QED
      BY <3>1, <3>2
  <2> QED
    BY <2>5 DEF UsesCounted
<1> QED
  BY <1>3, <1>4, <1>5, <1>6 DEF CallStep, Register

LEMMA CountedNext == TypeOK /\ DownIdle /\ UsesCounted /\ [Next]_vars => UsesCounted'
<1> SUFFICES ASSUME TypeOK, DownIdle, UsesCounted, [Next]_vars PROVE UsesCounted'
  OBVIOUS
<1>0. TypeOK'
  BY TypeNext
<1>1. \A t \in Token : tokens[t].used \in Nat /\ savedTokens[t].used \in Nat
  BY DEF TypeOK, TokenInfo
<1>2. \A ts : \A t \in Token : Without(ts)[t].used <= tokens[t].used
  BY <1>1 DEF Without, NoToken
<1>3. ASSUME NEW c \in Call, NEW n \in Node, NEW ip \in IP, NEW t \in Token, Request(c, n, ip, t)
      PROVE  UsesCounted'
  BY <1>0, <1>1, <1>3, CountedFewer DEF Request, TypeOK
<1>4. ASSUME NEW n \in Node, NEW t \in Token, GenerateRegistrationToken(n, t) PROVE UsesCounted'
  <2>1. \A u \in Token : tokens'[u].used <= tokens[u].used
    BY <1>1, <1>2, <1>4, WithoutType DEF GenerateRegistrationToken, SetTokens
  <2> QED
    BY <1>0, <1>1, <1>4, <2>1, CountedFewer DEF GenerateRegistrationToken, SetTokens
<1>5. CASE \/ \E t \in Token : RevokeToken(t)
           \/ \E n \in Node : RevokeTokenByNodeID(n)
           \/ CleanupExpiredTokens
  <2>1. PICK ts : tokens' = Without(ts) /\ savedTokens' = Without(ts) /\ call' = call
    BY <1>5 DEF RevokeToken, RevokeTokenByNodeID, CleanupExpiredTokens, SetTokens
  <2> QED
    BY <1>0, <1>2, <2>1, CountedFewer
<1>6. ASSUME NEW t \in Token, TokenExpires(t) PROVE UsesCounted'
  <2>1. \A u \in Token : /\ tokens'[u].used = tokens[u].used
                         /\ savedTokens'[u].used = savedTokens[u].used
    BY <1>6 DEF TokenExpires, TypeOK, TokenInfo
  <2> QED
    BY <1>0, <1>1, <1>6, <2>1, CountedFewer DEF TokenExpires
<1>7. CASE GatewayEnds
  BY <1>0, <1>1, <1>7, CountedFewer DEF GatewayEnds, disk, NoToken
<1>8. CASE GatewayStarts
  <2>1. up = FALSE /\ tokens' = savedTokens /\ savedTokens' = savedTokens /\ call' = call
    BY <1>8 DEF GatewayStarts, disk, TypeOK
  <2>2. \A t \in Token : Standing(t)' = {}
    BY <2>1 DEF DownIdle, Standing, Idle
  <2> QED
    BY <1>1, <2>1, <2>2, FS_EmptySet DEF UsesCounted
<1>9. CASE \/ \E ip \in IP : RecordFailure(ip) \/ AddToBlacklist(ip) \/ RemoveFromBlacklist(ip)
           \/ \E n \in Node : UnregisterNode(n)
           \/ BansExpire
           \/ UNCHANGED vars
  <2>1. tokens' = tokens /\ savedTokens' = savedTokens /\ call' = call
    BY <1>9 DEF RecordFailure, AddToBlacklist, RemoveFromBlacklist, UnregisterNode, BansExpire,
                vars, disk
  <2> QED
    BY <1>0, <1>1, <2>1, CountedFewer
<1> QED
  BY <1>3, <1>4, <1>5, <1>6, <1>7, <1>8, <1>9, CountedCall DEF Next

(* What the manager counts covers what it has let in in this run.           *)
RunCounted ==
    \A t \in Token : /\ uses[t] <= Limit
                     /\ t \in Issued => uses[t] <= tokens[t].used
                     /\ ~up => uses[t] = 0

LEMMA RunInit == Init => RunCounted
BY LimitType DEF Init, RunCounted, NoToken, Issued

(* A step that registers nothing new: a token that is there after it was    *)
(* there before, with the same count.                                      *)
LEMMA RunKept ==
    ASSUME RunCounted, uses' = uses, up' = up,
           \A t \in Token : \/ tokens'[t].node = tokens[t].node /\ tokens'[t].used = tokens[t].used
                            \/ tokens'[t].node = None
    PROVE  RunCounted'
<1> HIDE DEF Limit
<1>1. Limit' = Limit
  BY DEF Limit
<1> QED
  BY <1>1 DEF RunCounted, Issued

LEMMA RunNext ==
    TypeOK /\ DownIdle /\ UsesCounted /\ RunCounted /\ [Next]_vars => RunCounted'
<1> SUFFICES ASSUME TypeOK, DownIdle, UsesCounted, RunCounted, [Next]_vars PROVE RunCounted'
  OBVIOUS
<1>0. TypeOK' /\ UsesCounted'
  BY TypeNext, CountedNext
<1>1. Limit' = Limit /\ Limit \in Nat
  BY LimitType DEF Limit
<1>2. \A t \in Token : /\ tokens[t].used \in Nat /\ tokens'[t].used \in Nat
                       /\ uses[t] \in Nat /\ uses'[t] \in Nat
  BY <1>0 DEF TypeOK, TokenInfo
<1>3. \A ts : \A t \in Token : Without(ts)[t] = tokens[t] \/ Without(ts)[t].node = None
  BY DEF Without, NoToken
<1> HIDE DEF Limit
<1>4. ASSUME NEW c \in Call, RegisterNew(c) PROVE RunCounted'
  <2>0. PICK u \in Token : u = call[c].token /\ u \in Issued
    BY <1>4 DEF RegisterNew, Issued
  <2>1. up /\ up' = up
    BY <1>4 DEF RegisterNew, DownIdle, Idle
  <2>2. /\ tokens'[u].used = tokens[u].used + 1 /\ uses'[u] = uses[u] + 1
        /\ \A t \in Token : t # u => tokens'[t] = tokens[t] /\ uses'[t] = uses[t]
    BY <1>4, <2>0 DEF RegisterNew, TypeOK, TokenInfo
  <2>3. tokens'[u].used <= Limit
    <3>1. Cardinality(Standing(u)') \in Nat /\ tokens'[u].used + Cardinality(Standing(u)') <= Limit
      <4>1. Standing(u)' \subseteq Call
        BY DEF Standing
      <4>2. Cardinality(Standing(u)') \in Nat
        BY <4>1, CallAssumption, FS_Subset, FS_CardinalityType
      <4> QED
        BY <1>0, <1>1, <4>2 DEF UsesCounted
    <3> QED
      BY <1>1, <1>2, <3>1
  <2>4. ASSUME NEW t \in Token
        PROVE  uses'[t] <= Limit /\ (t \in Issued' => uses'[t] <= tokens'[t].used)
    <3>1. CASE t = u
      BY <1>1, <1>2, <2>0, <2>2, <2>3, <3>1 DEF RunCounted
    <3>2. CASE t # u
      BY <2>2, <3>2 DEF RunCounted, Issued
    <3> QED
      BY <3>1, <3>2
  <2> QED
    BY <1>1, <2>1, <2>4 DEF RunCounted
<1>5. ASSUME NEW c \in Call, CallStep(c), ~RegisterNew(c) PROVE RunCounted'
  BY <1>5, RunKept DEF CallStep, CheckBlacklist, Validate, Revalidate, Register, RegisterReconnect,
     RegisterInvalid, RegisterAgain, RegisterPanics
<1>6. ASSUME NEW n \in Node, NEW t \in Token, GenerateRegistrationToken(n, t) PROVE RunCounted'
  <2>1. /\ uses'[t] = 0 /\ up' = up /\ up
        /\ \A v \in Token : v # t => uses'[v] = uses[v] /\ tokens'[v] = Without(TokensOf(n))[v]
    BY <1>6 DEF GenerateRegistrationToken, SetTokens, TypeOK, Without
  <2>2. ASSUME NEW v \in Token
        PROVE  uses'[v] <= Limit /\ (v \in Issued' => uses'[v] <= tokens'[v].used)
    BY <1>1, <1>2, <1>3, <2>1 DEF RunCounted, Issued
  <2> QED
    BY <1>1, <2>1, <2>2 DEF RunCounted
<1>7. CASE \/ \E t \in Token : RevokeToken(t)
           \/ \E n \in Node : RevokeTokenByNodeID(n)
           \/ CleanupExpiredTokens
  <2>1. PICK ts : tokens' = Without(ts) /\ uses' = uses /\ up' = up
    BY <1>7 DEF RevokeToken, RevokeTokenByNodeID, CleanupExpiredTokens, SetTokens
  <2> QED
    BY <1>3, <2>1, RunKept
<1>8. ASSUME NEW t \in Token, TokenExpires(t) PROVE RunCounted'
  <2>1. \A v \in Token : tokens'[v].node = tokens[v].node /\ tokens'[v].used = tokens[v].used
    BY <1>8 DEF TokenExpires, TypeOK, TokenInfo
  <2> QED
    BY <1>8, <2>1, RunKept DEF TokenExpires
<1>9. CASE GatewayEnds
  BY <1>1, <1>2, <1>9 DEF GatewayEnds, RunCounted
<1>10. CASE GatewayStarts
  BY <1>1, <1>2, <1>10 DEF GatewayStarts, RunCounted
<1>11. CASE \/ \E c \in Call, n \in Node, ip \in IP, t \in Token : Request(c, n, ip, t)
            \/ \E ip \in IP : RecordFailure(ip) \/ AddToBlacklist(ip) \/ RemoveFromBlacklist(ip)
            \/ \E n \in Node : UnregisterNode(n)
            \/ BansExpire
            \/ UNCHANGED vars
  <2>1. tokens' = tokens /\ uses' = uses /\ up' = up
    BY <1>11 DEF Request, RecordFailure, AddToBlacklist, RemoveFromBlacklist, UnregisterNode,
                 BansExpire, vars
  <2> QED
    BY <2>1, RunKept
<1> QED
  BY <1>4, <1>5, <1>6, <1>7, <1>8, <1>9, <1>10, <1>11 DEF Next

(* In one run of the gateway a token lets in at most MaxUses - 1 nodes and  *)
(* one more for each call that can be handled at the same time.  A restart  *)
(* begins anew: RegisterNode does not save the count (auth.go:215-241).     *)
THEOREM UsesLimited == Spec => []UsesBounded
<1>1. Init => TypeOK /\ DownIdle /\ UsesCounted /\ RunCounted
  BY TypeInit, CountedInit, RunInit DEF Init, DownIdle
<1>2. TypeOK /\ DownIdle /\ UsesCounted /\ RunCounted /\ [Next]_vars
      => (TypeOK /\ DownIdle /\ UsesCounted /\ RunCounted)'
  BY TypeNext, DownIdleNext, CountedNext, RunNext
<1>3. RunCounted => UsesBounded
  BY DEF RunCounted, UsesBounded, Limit
<1> QED
  BY <1>1, <1>2, <1>3, PTL DEF Spec

-----------------------------------------------------------------------------
(* A call that was validated holds a token of its own node, or one that has *)
(* been revoked since: no token is generated while a call holds it.         *)
ValidMatches ==
    \A c \in Call :
        call[c].at = "register" /\ call[c].valid /\ call[c].token \in Issued
        => tokens[call[c].token].node = call[c].node

LEMMA MatchesNext ==
    TypeOK /\ DownIdle /\ ValidMatches /\ [Next]_vars => ValidMatches'
<1> SUFFICES ASSUME TypeOK, DownIdle, ValidMatches, [Next]_vars, NEW c \in Call,
                    call'[c].at = "register", call'[c].valid, call'[c].token \in Issued'
             PROVE  tokens'[call'[c].token].node = call'[c].node
  BY DEF ValidMatches
<1> DEFINE t == call'[c].token
<1>0. t \in Token /\ tokens'[t].node # None
  BY DEF Issued
<1>1. ASSUME call'[c] = call[c], tokens'[t].node = tokens[t].node
      PROVE  tokens'[t].node = call'[c].node
  BY <1>0, <1>1 DEF ValidMatches, Issued
<1>2. ASSUME NEW d \in Call, CallStep(d) PROVE tokens'[t].node = call'[c].node
  <2>1. tokens'[t].node = tokens[t].node
    <3>1. CASE RegisterNew(d)
      <4>1. tokens' = [tokens EXCEPT ![call[d].token].used = tokens[call[d].token].used + 1]
        BY <3>1 DEF RegisterNew
      <4>2. tokens \in [Token -> TokenInfo]
        BY DEF TypeOK
      <4> QED
        BY <1>0, <4>1, <4>2 DEF TokenInfo
    <3>2. CASE ~RegisterNew(d)
      <4>1. tokens' = tokens
        BY <1>2, <3>2 DEF CallStep, CheckBlacklist, Validate, Revalidate, Register,
           RegisterReconnect, RegisterInvalid, RegisterAgain, RegisterPanics
      <4> QED
        BY <4>1
    <3> QED
      BY <3>1, <3>2
  <2>2. CASE Revalidate(d) /\ c = d
    <3>1. call[c] \in Registration
      BY <2>2 DEF Revalidate, TypeOK, Idle
    <3>2. call'[c].token = call[c].token /\ call'[c].node = call[c].node
          /\ call'[c].valid = ValidToken(call[c].token, call[c].node)
      BY <2>2, <3>1 DEF Revalidate, TypeOK, Registration
    <3> QED
      BY <2>1, <3>2 DEF ValidToken
  <2>3. CASE CheckBlacklist(d) \/ Validate(d)
    <3>1. CASE c = d
      BY <2>3, <3>1 DEF CheckBlacklist, Validate, TypeOK, Registration, Idle
    <3>2. CASE c # d
      BY <1>1, <2>1, <2>3, <3>2 DEF CheckBlacklist, Validate, TypeOK
    <3> QED
      BY <3>1, <3>2
  <2>4. CASE (Revalidate(d) /\ c # d) \/ Register(d)
    <3>1. call'[c] = call[c] \/ call'[c] = Idle
      BY <2>4 DEF Revalidate, Register, RegisterReconnect, RegisterInvalid, RegisterAgain,
                  RegisterNew, RegisterPanics, Ends, TypeOK
    <3> QED
      BY <1>1, <2>1, <3>1 DEF Idle
  <2> QED
    BY <1>2, <2>2, <2>3, <2>4 DEF CallStep
<1>3. ASSUME NEW d \in Call, NEW n \in Node, NEW ip \in IP, NEW u \in Token, Request(d, n, ip, u)
      PROVE  tokens'[t].node = call'[c].node
  <2>1. d # c /\ call'[c] = call[c] /\ tokens' = tokens
    BY <1>3 DEF Request, TypeOK
  <2> QED
    BY <1>1, <2>1
<1>4. ASSUME NEW n \in Node, NEW u \in Token, GenerateRegistrationToken(n, u)
      PROVE  tokens'[t].node = call'[c].node
  <2>1. call'[c] = call[c] /\ u # t
    BY <1>4 DEF GenerateRegistrationToken
  <2>2. tokens'[t] = Without(TokensOf(n))[t]
    BY <1>0, <1>4, <2>1 DEF GenerateRegistrationToken, SetTokens, Without
  <2>3. tokens'[t] = tokens[t]
    BY <1>0, <2>2 DEF Without, NoToken
  <2> QED
    BY <1>1, <2>1, <2>3
<1>5. CASE \/ \E u \in Token : RevokeToken(u)
           \/ \E n \in Node : RevokeTokenByNodeID(n)
           \/ CleanupExpiredTokens
  <2>1. PICK ts : tokens' = Without(ts) /\ call' = call
    BY <1>5 DEF RevokeToken, RevokeTokenByNodeID, CleanupExpiredTokens, SetTokens
  <2>2. tokens'[t] = tokens[t]
    BY <1>0, <2>1 DEF Without, NoToken
  <2> QED
    BY <1>1, <2>1, <2>2
<1>6. ASSUME NEW u \in Token, TokenExpires(u) PROVE tokens'[t].node = call'[c].node
  <2>1. tokens'[t].node = tokens[t].node /\ call' = call
    BY <1>0, <1>6 DEF TokenExpires, TypeOK, TokenInfo
  <2> QED
    BY <1>1, <2>1
<1>7. CASE GatewayEnds
  BY <1>7 DEF GatewayEnds, Idle
<1>8. CASE GatewayStarts
  BY <1>8 DEF GatewayStarts, DownIdle, Idle
<1>9. CASE \/ \E ip \in IP : RecordFailure(ip) \/ AddToBlacklist(ip) \/ RemoveFromBlacklist(ip)
           \/ \E n \in Node : UnregisterNode(n)
           \/ BansExpire
           \/ UNCHANGED vars
  <2>1. tokens' = tokens /\ call' = call
    BY <1>9 DEF RecordFailure, AddToBlacklist, RemoveFromBlacklist, UnregisterNode, BansExpire, vars
  <2> QED
    BY <1>1, <2>1
<1> QED
  BY <1>2, <1>3, <1>4, <1>5, <1>6, <1>7, <1>8, <1>9 DEF Next

(* The step in which a call's node becomes registered.                      *)
NewNodeStep ==
    \A c \in Call :
        up' /\ call[c].at = "register" /\ call'[c] = Idle /\ call[c].node \in nodes' \ nodes
        => \E t \in Issued : t = call[c].token /\ tokens[t].node = call[c].node

LEMMA NewNodeLemma ==
    TypeOK /\ DownIdle /\ ValidMatches /\ [Next]_vars => NewNodeStep
<1> SUFFICES ASSUME TypeOK, DownIdle, ValidMatches, [Next]_vars, NEW c \in Call,
                    up', call[c].at = "register", call'[c] = Idle, call[c].node \in nodes' \ nodes
             PROVE  \E t \in Issued : t = call[c].token /\ tokens[t].node = call[c].node
  BY DEF NewNodeStep
<1>0. up /\ call'[c] # call[c]
  BY DEF DownIdle, Idle
<1>1. PICK d \in Call : RegisterNew(d)
  <2>1. ~GatewayEnds /\ ~GatewayStarts
    BY <1>0 DEF GatewayEnds, GatewayStarts
  <2>2. ~\E n \in Node : UnregisterNode(n)
    BY DEF UnregisterNode
  <2>3. \A d \in Call : CallStep(d) => RegisterNew(d)
    BY DEF CallStep, CheckBlacklist, Validate, Revalidate, Register, RegisterReconnect,
           RegisterInvalid, RegisterAgain, RegisterPanics
  <2>4. nodes' # nodes
    OBVIOUS
  <2> QED
    BY <2>1, <2>2, <2>3, <2>4 DEF Next, Request, RecordFailure, AddToBlacklist,
       RemoveFromBlacklist, GenerateRegistrationToken, RevokeToken, TokenExpires,
       RevokeTokenByNodeID, CleanupExpiredTokens, BansExpire, vars
<1>2. d = c
  BY <1>0, <1>1 DEF RegisterNew, Ends, TypeOK
<1> QED
  BY <1>1, <1>2 DEF RegisterNew, ValidMatches

(* A node becomes registered only on a token of its own that is still       *)
(* issued at that moment, however long ago the call was validated.          *)
THEOREM NewNodesHaveTokens == Spec => NewNodeNeedsToken
<1>1. Init => TypeOK /\ DownIdle /\ ValidMatches
  BY TypeInit DEF Init, DownIdle, ValidMatches, Idle
<1>2. TypeOK /\ DownIdle /\ ValidMatches /\ [Next]_vars => (TypeOK /\ DownIdle /\ ValidMatches)'
  BY TypeNext, DownIdleNext, MatchesNext
<1>3. TypeOK /\ DownIdle /\ ValidMatches /\ [Next]_vars => [NewNodeStep]_vars
  BY NewNodeLemma
<1> QED
  BY <1>1, <1>2, <1>3, PTL DEF Spec, NewNodeNeedsToken, NewNodeStep
=============================================================================
