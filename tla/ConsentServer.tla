--------------------------- MODULE ConsentServer ---------------------------
(***************************************************************************)
(* The consent server (consent-server/src): a stateless Worker (index.ts)   *)
(* in front of one Durable Object (do.ts).  Every method of the object runs *)
(* alone, so it is one step; a request is a sequence of such calls, other   *)
(* requests run between them, and it may die between them (an RPC that      *)
(* throws is answered 500, a Worker can be evicted).                        *)
(*                                                                         *)
(* A route that touches the object once, or whose earlier calls only read   *)
(* what cannot change, is one action; /consent/begin, /verify and           *)
(* /consent/deny are split at every call.  A request that is refused before *)
(* it has changed anything is left out.                                     *)
(***************************************************************************)
EXTENDS Integers, FiniteSets

CONSTANTS
    Requests,       \* slots for the begins, verifies and denials in flight
    Sessions,       \* the ids createSession draws
    Agents, NoAgent, \* the keys of the scope map
    Actions,        \* the protected actions
    ScopeMap,       \* agent -> the actions it may be granted
    Tokens,         \* the identity tokens of the issuer, one per jti
    NoToken,
    TokenExp,       \* token -> its exp claim
    TokenNonce,     \* token -> the session whose nonce it echoes, or NoSession
    NoSession,
    Bindable,       \* tokens that pass the sub pin and the acr gate
    SessionTTL, ClockSkew, BeginLimit, BeginWindow,     \* in clock ticks
    MaxTime, MaxConsents, MaxResets, MaxDenials         \* bounds

ASSUME ServerAssumption ==
    /\ Bindable \subseteq Tokens /\ NoToken \notin Tokens /\ NoSession \notin Sessions
    /\ Requests \cap Sessions = {}
    /\ NoAgent \notin Agents /\ ScopeMap \in [Agents -> SUBSET Actions]
    /\ TokenExp \in [Tokens -> Nat]
    /\ TokenNonce \in [Tokens -> Sessions \union {NoSession}]
    /\ SessionTTL \in Nat /\ ClockSkew \in Nat
    \* config.ts:58: a window of 0 seconds is read as the default
    /\ BeginLimit \in Nat /\ BeginWindow \in Nat \ {0}
    /\ MaxTime \in Nat /\ MaxConsents \in Nat /\ MaxResets \in Nat /\ MaxDenials \in Nat

Ids == 1 .. MaxConsents
Scopes == SUBSET Actions

VARIABLES
    now,            \* the clock
    limiter,        \* rl:begin of the one client address: count and resetAt
    sessions,       \* sess:<id>
    burned,         \* jti:<jti>
    consents,       \* consent:<id>
    ledger,         \* events: how many of each kind per consent (the order is left out)
    requests,       \* the requests in flight
    minted,         \* consent ids drawn so far (they are random: never drawn twice)
    era,            \* how many resets happened
    acted           \* the token the last step authorised an action for, or NoToken

store == <<limiter, sessions, burned, consents, ledger>>
serverVars == <<now, store, requests, minted, era, acted>>

NoConsent == [status |-> "none", token |-> NoToken, session |-> NoSession, agent |-> NoAgent,
              scope |-> {}, exp |-> 0, era |-> 0]
Consents == [status : {"active", "revoked", "expired"}, token : Tokens, session : Sessions,
             agent : Agents, scope : Scopes, exp : Nat, era : 0 .. MaxResets]

\* era and window say which window of the limiter admitted the begin: only BeginsBounded reads them
FreeSession == [status |-> "none", agent |-> NoAgent, expires |-> 0, era |-> 0, window |-> 0]
SessionRecords == [status : {"pending", "verified", "denied"}, agent : Agents, expires : Nat,
                   era : 0 .. MaxResets, window : Nat]

LedgerKeys == {"grant", "revoke", "expire"} \X Ids \union {<<"deny", 0>>}
EmptyLedger == [k \in LedgerKeys |-> 0]

Idle == [at |-> "idle", session |-> NoSession, token |-> NoToken, agent |-> NoAgent,
         scope |-> {}, id |-> 0, era |-> 0, window |-> 0]
RequestStates == [at : {"idle", "create", "burn", "put", "mark", "log", "denyMark", "denyLog"},
                  session : Sessions \union {NoSession}, token : Tokens \union {NoToken},
                  agent : Agents \union {NoAgent}, scope : Scopes, id : 0 .. MaxConsents,
                  era : 0 .. MaxResets, window : Nat]

ServerTypeOK ==
    /\ now \in 0 .. MaxTime
    /\ limiter \in [count : Nat, resetAt : Nat]
    /\ sessions \in [Sessions -> SessionRecords \union {FreeSession}]
    /\ burned \subseteq Tokens
    /\ consents \in [Ids -> Consents \union {NoConsent}]
    /\ ledger \in [LedgerKeys -> Nat]
    /\ requests \in [Requests -> RequestStates]
    /\ minted \in 0 .. MaxConsents
    /\ era \in 0 .. MaxResets
    /\ acted \in Tokens \union {NoToken}

EmptyStore ==
    /\ limiter = [count |-> 0, resetAt |-> 0]
    /\ sessions = [s \in Sessions |-> FreeSession]
    /\ burned = {}
    /\ consents = [id \in Ids |-> NoConsent]
    /\ ledger = EmptyLedger

ServerInit ==
    /\ now = 0
    /\ EmptyStore
    /\ requests = [r \in Requests |-> Idle]
    /\ minted = 0
    /\ era = 0
    /\ acted = NoToken
----------------------------------------------------------------------------
Exists(id) == consents[id].status # "none"

Logged(kind, id) == ledger' = [ledger EXCEPT ![<<kind, id>>] = @ + 1]

\* createSession draws a fresh random id: one no session and no request holds
Fresh(s) == /\ sessions[s].status = "none"
            /\ \A r \in Requests : requests[r].session # s
            /\ \A id \in Ids : consents[id].session # s

At(r, place) == requests[r].at = place

MovesTo(r, place) == requests' = [requests EXCEPT ![r].at = place]
Ends(r) == requests' = [requests EXCEPT ![r] = Idle]

\* mutant: the window admits one request over the limit
AllowedOneOver == limiter.count <= BeginLimit
\* rateLimit, inside a window that is still running
Allowed == limiter.count < BeginLimit

\* POST /v1/consent/begin, first call: rateLimit, before the body is read
BeginStarts(r) ==
    /\ At(r, "idle")
    /\ \/ BeginLimit = 0 /\ UNCHANGED limiter
       \/ /\ BeginLimit > 0 /\ now >= limiter.resetAt
          /\ limiter' = [count |-> 1, resetAt |-> now + BeginWindow]
       \/ /\ BeginLimit > 0 /\ now < limiter.resetAt /\ Allowed
          /\ limiter' = [limiter EXCEPT !.count = @ + 1]
    /\ requests' = [requests EXCEPT ![r] =
           [Idle EXCEPT !.at = "create", !.era = era, !.window = limiter'.resetAt]]
    /\ UNCHANGED <<now, sessions, burned, consents, ledger, minted, era>>
    /\ acted' = NoToken

\* second call: createSession, for an agent the scope map knows, at the time it is then
BeginCreates(r, s, agent) ==
    /\ At(r, "create")
    /\ Fresh(s)
    /\ sessions' = [sessions EXCEPT ![s] =
           [status |-> "pending", agent |-> agent, expires |-> now + SessionTTL,
            era |-> requests[r].era, window |-> requests[r].window]]
    /\ Ends(r)
    /\ UNCHANGED <<now, limiter, burned, consents, ledger, minted, era>>
    /\ acted' = NoToken

\* a body without an agent, or with one nobody knows: answered, and counted all the same
BeginRefused(r) ==
    /\ At(r, "create")
    /\ Ends(r)
    /\ UNCHANGED <<now, store, minted, era>>
    /\ acted' = NoToken
----------------------------------------------------------------------------
\* verifyToken: signature, issuer, audience and exp, with the allowed skew
Valid(t) == TokenExp[t] > now - ClockSkew

\* POST /v1/verify up to getSession and the checks on what it returned
VerifyStarts(r, t, s, scope) ==
    /\ At(r, "idle")
    /\ Valid(t)
    /\ sessions[s].status = "pending"
    /\ now <= sessions[s].expires
    /\ TokenNonce[t] \in {s, NoSession}
    /\ t \in Bindable
    /\ scope \subseteq ScopeMap[sessions[s].agent]
    /\ requests' = [requests EXCEPT ![r] =
           [Idle EXCEPT !.at = "burn", !.session = s, !.token = t,
                        !.agent = sessions[s].agent, !.scope = scope]]
    /\ UNCHANGED <<now, store, minted, era>>
    /\ acted' = NoToken

\* mutant: the burn does not look whether the jti is there
AlwaysUnburned(t) == TRUE
Unburned(t) == t \notin burned

\* burnJti: one transaction; a replayed token ends the request
VerifyBurns(r) ==
    /\ At(r, "burn")
    /\ IF Unburned(requests[r].token)
       THEN /\ burned' = burned \union {requests[r].token}
            /\ requests' = [requests EXCEPT ![r].at = "put", ![r].era = era]
       ELSE /\ Ends(r)
            /\ UNCHANGED burned
    /\ UNCHANGED <<now, limiter, sessions, consents, ledger, minted, era>>
    /\ acted' = NoToken

Granted(q) == [status |-> "active", token |-> q.token, session |-> q.session, agent |-> q.agent,
               scope |-> q.scope, exp |-> TokenExp[q.token], era |-> q.era]

VerifyPuts(r) ==
    /\ At(r, "put")
    /\ minted < MaxConsents
    /\ minted' = minted + 1
    /\ consents' = [consents EXCEPT ![minted + 1] = Granted(requests[r])]
    /\ requests' = [requests EXCEPT ![r].at = "mark", ![r].id = minted + 1]
    /\ UNCHANGED <<now, limiter, sessions, burned, ledger, era>>
    /\ acted' = NoToken

\* mutant: a session that is gone comes back
SetStatusBlindly(s, status) == sessions' = [sessions EXCEPT ![s].status = status]

\* setSessionStatus: does nothing to a session that is gone
SetSessionStatus(s, status) ==
    sessions' = IF sessions[s].status = "none"
                THEN sessions
                ELSE [sessions EXCEPT ![s].status = status]

VerifyMarks(r) ==
    /\ At(r, "mark")
    /\ SetSessionStatus(requests[r].session, "verified")
    /\ MovesTo(r, "log")
    /\ UNCHANGED <<now, limiter, burned, consents, ledger, minted, era>>
    /\ acted' = NoToken

VerifyLogs(r) ==
    /\ At(r, "log")
    /\ Logged("grant", requests[r].id)
    /\ Ends(r)
    /\ UNCHANGED <<now, limiter, sessions, burned, consents, minted, era>>
    /\ acted' = NoToken
----------------------------------------------------------------------------
\* POST /v1/consent/deny: whatever the status of the session is
DenyStarts(r, s) ==
    /\ At(r, "idle")
    /\ ledger[<<"deny", 0>>] < MaxDenials
    /\ sessions[s].status # "none"
    /\ requests' = [requests EXCEPT ![r] = [Idle EXCEPT !.at = "denyMark", !.session = s]]
    /\ UNCHANGED <<now, store, minted, era>>
    /\ acted' = NoToken

DenyMarks(r) ==
    /\ At(r, "denyMark")
    /\ SetSessionStatus(requests[r].session, "denied")
    /\ MovesTo(r, "denyLog")
    /\ UNCHANGED <<now, limiter, burned, consents, ledger, minted, era>>
    /\ acted' = NoToken

DenyLogs(r) ==
    /\ At(r, "denyLog")
    /\ Logged("deny", 0)
    /\ Ends(r)
    /\ UNCHANGED <<now, limiter, sessions, burned, consents, minted, era>>
    /\ acted' = NoToken

\* an RPC that throws, or the Worker dies: the calls made so far stay
RequestDies(r) ==
    /\ ~At(r, "idle")
    /\ Ends(r)
    /\ UNCHANGED <<now, store, minted, era>>
    /\ acted' = NoToken
----------------------------------------------------------------------------
\* mutant: anything past its exp is expired, revoked or not
OverdueWhateverStatus(id) == Exists(id) /\ consents[id].exp <= now
Overdue(id) == consents[id].status = "active" /\ consents[id].exp <= now

\* touchExpiry: the flip to expired is lazy
Touched(id) == IF Overdue(id) THEN [consents[id] EXCEPT !.status = "expired"] ELSE consents[id]

TouchExpiry(id) ==
    /\ consents' = [consents EXCEPT ![id] = Touched(id)]
    /\ IF Overdue(id) THEN Logged("expire", id) ELSE UNCHANGED ledger

\* mutant: an action is authorised while the record is not revoked
AuthorizesUnlessRevoked(rec) == rec.status # "revoked"
Authorizes(rec) == rec.status = "active"

\* POST /v1/consent/check: re-verify the token, touchExpiry, answer
Check(id, t, agent, action) ==
    /\ Valid(t)
    /\ Exists(id)
    /\ TouchExpiry(id)
    /\ acted' = IF /\ consents[id].token = t
                   /\ consents[id].agent = agent
                   /\ Authorizes(Touched(id))
                   /\ action \in consents[id].scope
                THEN t ELSE NoToken
    /\ UNCHANGED <<now, limiter, sessions, burned, requests, minted, era>>

\* GET /v1/consent/:id, with the receipt token
ViewReceipt(id) ==
    /\ Exists(id)
    /\ TouchExpiry(id)
    /\ UNCHANGED <<now, limiter, sessions, burned, requests, minted, era>>
    /\ acted' = NoToken

\* mutant: a second revoke is recorded again
NeverRevoked(id) == FALSE
AlreadyRevoked(id) == consents[id].status = "revoked"

\* POST /v1/revoke, with the receipt token: revokeConsent flips whatever is not revoked
Revoke(id) ==
    /\ Exists(id)
    /\ IF AlreadyRevoked(id)
       THEN UNCHANGED <<consents, ledger>>
       ELSE /\ consents' = [consents EXCEPT ![id].status = "revoked"]
            /\ Logged("revoke", id)
    /\ UNCHANGED <<now, limiter, sessions, burned, requests, minted, era>>
    /\ acted' = NoToken

\* POST /v1/admin/reset: deleteAll; requests in flight go on
Reset ==
    /\ era < MaxResets
    /\ era' = era + 1
    /\ limiter' = [count |-> 0, resetAt |-> 0]
    /\ sessions' = [s \in Sessions |-> FreeSession]
    /\ burned' = {}
    /\ consents' = [id \in Ids |-> NoConsent]
    /\ ledger' = EmptyLedger
    /\ UNCHANGED <<now, requests, minted>>
    /\ acted' = NoToken

Tick ==
    /\ now < MaxTime
    /\ now' = now + 1
    /\ UNCHANGED <<store, requests, minted, era>>
    /\ acted' = NoToken
----------------------------------------------------------------------------
Begin(r) ==
    \/ BeginStarts(r)
    \/ \E s \in Sessions, agent \in Agents : BeginCreates(r, s, agent)
    \/ BeginRefused(r)

Verify(r) ==
    \/ \E t \in Tokens, s \in Sessions, scope \in Scopes : VerifyStarts(r, t, s, scope)
    \/ VerifyBurns(r)
    \/ VerifyPuts(r)
    \/ VerifyMarks(r)
    \/ VerifyLogs(r)

Deny(r) ==
    \/ \E s \in Sessions : DenyStarts(r, s)
    \/ DenyMarks(r)
    \/ DenyLogs(r)

OnConsent(id) ==
    \/ \E t \in Tokens, agent \in Agents, action \in Actions : Check(id, t, agent, action)
    \/ ViewReceipt(id)
    \/ Revoke(id)

ServerNext ==
    \/ \E r \in Requests : Begin(r) \/ Verify(r) \/ Deny(r) \/ RequestDies(r)
    \/ \E id \in Ids : OnConsent(id)
    \/ Reset
    \/ Tick

ServerSpec == ServerInit /\ [][ServerNext]_serverVars
----------------------------------------------------------------------------
(***************************************************************************)
(* The replay guard: a token mints one consent, whatever requests present   *)
(* it at the same time and however often.  The one way to a second is an    *)
(* admin reset between the two burns, which forgets the first.              *)
(***************************************************************************)
TokenMintsOnce ==
    \A i, j \in Ids :
        Exists(i) /\ Exists(j) /\ i # j /\ consents[i].token = consents[j].token
            => consents[i].era # consents[j].era

(***************************************************************************)
(* A revocation is final: no expiry, late grant or second revoke ever turns *)
(* a revoked consent into anything else; only a reset removes it.           *)
(***************************************************************************)
RevokedIsFinal ==
    [][\A id \in Ids : consents[id].status = "revoked" =>
          consents'[id].status = "revoked" \/ era' # era]_serverVars

(***************************************************************************)
(* The ledger accounts for every consent: exactly one revoke event if it is *)
(* revoked, one expiry if it is expired, none if it is active, and however  *)
(* many requests touch it never a second expiry or a second grant.          *)
(***************************************************************************)
LedgerAccounts ==
    \A id \in Ids : Exists(id) =>
        /\ ledger[<<"revoke", id>>] = (IF consents[id].status = "revoked" THEN 1 ELSE 0)
        /\ consents[id].status = "expired" => ledger[<<"expire", id>>] = 1
        /\ consents[id].status = "active" => ledger[<<"expire", id>>] = 0
        /\ ledger[<<"expire", id>>] <= 1
        /\ ledger[<<"grant", id>>] <= 1

(***************************************************************************)
(* The limiter bounds what one client can leave in the store: the begins    *)
(* admitted in one window leave no more sessions than its limit, however    *)
(* late they come to create them and whatever window runs by then.          *)
(***************************************************************************)
SameWindow(s, z) == sessions[z].era = sessions[s].era /\ sessions[z].window = sessions[s].window
BeginsBounded ==
    BeginLimit > 0 =>
        \A s \in Sessions : sessions[s].status # "none" =>
            Cardinality({z \in Sessions : sessions[z].status # "none" /\ SameWindow(s, z)}) <= BeginLimit

\* the life of a token, read off the store
Life(t) ==
    IF \E id \in Ids : consents[id].token = t
    THEN consents[CHOOSE id \in Ids : consents[id].token = t].status
    ELSE IF t \in burned THEN "spent" ELSE "unused"

LifeOf == INSTANCE ConsentLife WITH life <- [t \in Tokens |-> Life(t)]

(***************************************************************************)
(* Without resets the server is the life of each token: spent once, granted *)
(* at most once, authorising actions only while active, revoked for good.   *)
(***************************************************************************)
ImplementsLife == LifeOf!LifeSpec

(***************************************************************************)
(* index.ts:119 "one token mints exactly one consent, ever": a burned token *)
(* that no request is working on has its one consent.                       *)
(***************************************************************************)
TokenMintsExactlyOne ==
    \A t \in burned :
        (\A r \in Requests : requests[r].token # t)
            => Cardinality({id \in Ids : consents[id].token = t}) = 1

(***************************************************************************)
(* index.ts:208 "denial is a first-class outcome, no row minted": no        *)
(* consent is minted from a session that has been denied.                   *)
(***************************************************************************)
DeniedMintsNothing ==
    [][\A id \in Ids : consents[id].status = "none" /\ consents'[id].status = "active" =>
          sessions[consents'[id].session].status # "denied"]_serverVars
=============================================================================
