--------------------------- MODULE ConsentProofs ---------------------------
(***************************************************************************)
(* Proofs about the consent server: for any number of requests in flight,    *)
(* sessions, tokens, consents and resets, and any clock.                     *)
(***************************************************************************)
EXTENDS ConsentServer, FiniteSetTheorems, TLAPS

Kinds == {"grant", "revoke", "expire"}

\* between the write of the consent and the entry in the ledger
Granting(q) == q.at \in {"mark", "log"}

\* what a request in flight is known to carry
Formed(q) ==
    /\ q.at \notin {"idle", "create"} => q.session \in Sessions
    /\ q.at \in {"burn", "put"} => q.token \in Tokens /\ q.agent \in Agents
    /\ Granting(q) => q.id \in 1 .. minted
    /\ q.era <= era

RequestsFormed == \A r \in Requests : Formed(requests[r])

UnmintedBlank == \A id \in Ids : id > minted => consents[id] = NoConsent

(***************************************************************************)
(* A burned token has one holder: the request that is about to write its     *)
(* consent, or the consent.  It holds within an era, since a reset forgets   *)
(* the burn and leaves the request.                                          *)
(***************************************************************************)
HeldByOneRequest ==
    \A r, q \in Requests :
        r # q /\ At(r, "put") /\ At(q, "put") /\ requests[r].token = requests[q].token
            => requests[r].era # requests[q].era
HeldByNoConsent ==
    \A r \in Requests, id \in Ids :
        At(r, "put") /\ Exists(id) /\ consents[id].token = requests[r].token
            => consents[id].era # requests[r].era
HoldersBurned ==
    /\ \A r \in Requests : At(r, "put") /\ requests[r].era = era => requests[r].token \in burned
    /\ \A id \in Ids : Exists(id) =>
          consents[id].era <= era /\ (consents[id].era = era => consents[id].token \in burned)

TokensHeld == HeldByOneRequest /\ HeldByNoConsent /\ HoldersBurned /\ TokenMintsOnce

(***************************************************************************)
(* A consent about to be entered in the ledger is not there yet, and nothing *)
(* is there of a consent to come.                                           *)
(***************************************************************************)
GrantsPending ==
    /\ \A r, q \in Requests : r # q /\ Granting(requests[r]) /\ Granting(requests[q])
          => requests[r].id # requests[q].id
    /\ \A r \in Requests : Granting(requests[r]) => ledger[<<"grant", requests[r].id>>] = 0
LedgerBlank == \A id \in Ids : id > minted => \A k \in Kinds : ledger[<<k, id>>] = 0

LedgerHeld == GrantsPending /\ LedgerBlank /\ LedgerAccounts

ServerInv == ServerTypeOK /\ RequestsFormed /\ UnmintedBlank /\ TokensHeld /\ LedgerHeld
----------------------------------------------------------------------------
LEMMA KeysTyped ==
    \A id \in Ids, k \in Kinds : <<k, id>> \in LedgerKeys
  BY DEF LedgerKeys, Kinds

(***************************************************************************)
(* One entry more, and the others as they were (appendEvent).                *)
(***************************************************************************)
LEMMA LoggedAdds ==
    ASSUME NEW l, l \in [LedgerKeys -> Nat], NEW kind, NEW id, <<kind, id>> \in LedgerKeys,
           NEW m, m = [l EXCEPT ![<<kind, id>>] = @ + 1]
    PROVE  /\ m \in [LedgerKeys -> Nat]
           /\ m[<<kind, id>>] = l[<<kind, id>>] + 1
           /\ \A j, i : <<j, i>> \in LedgerKeys /\ (j # kind \/ i # id)
                 => m[<<j, i>>] = l[<<j, i>>]
<1>1. \A j, i : j # kind \/ i # id => <<j, i>> # <<kind, id>>
  OBVIOUS
<1> QED
  BY <1>1

(***************************************************************************)
(* A request that moves on and does not come to hold a token or a consent    *)
(* disturbs nobody.                                                          *)
(***************************************************************************)
LEMMA RequestMoves ==
    ASSUME ServerInv, NEW r \in Requests, NEW q \in RequestStates,
           requests' = [requests EXCEPT ![r] = q],
           q.at # "put", Formed(q),
           Granting(q) => Granting(requests[r]) /\ q.id = requests[r].id,
           UNCHANGED <<burned, consents, ledger, minted, era>>
    PROVE  RequestsFormed' /\ UnmintedBlank' /\ TokensHeld' /\ LedgerHeld'
<1>1. \A p \in Requests : requests'[p] = IF p = r THEN q ELSE requests[p]
  BY DEF ServerInv, ServerTypeOK
<1>2. RequestsFormed'
  BY <1>1 DEF ServerInv, RequestsFormed, Formed, Granting
<1>3. UnmintedBlank'
  BY DEF ServerInv, UnmintedBlank
<1>4. \A p \in Requests : At(p, "put")' => p # r /\ requests'[p] = requests[p] /\ At(p, "put")
  BY <1>1 DEF At
<1>5. TokensHeld'
  <2>1. HeldByOneRequest'
    BY <1>4 DEF ServerInv, TokensHeld, HeldByOneRequest
  <2>2. HeldByNoConsent'
    BY <1>4 DEF ServerInv, TokensHeld, HeldByNoConsent, Exists
  <2>3. HoldersBurned'
    BY <1>4 DEF ServerInv, TokensHeld, HoldersBurned, Exists
  <2> QED
    BY <2>1, <2>2, <2>3 DEF ServerInv, TokensHeld, TokenMintsOnce, Exists
<1>6. \A p \in Requests : Granting(requests'[p]) => Granting(requests[p]) /\ requests'[p].id = requests[p].id
  BY <1>1
<1>7. LedgerHeld'
  <2>1. GrantsPending'
    BY <1>6 DEF ServerInv, LedgerHeld, GrantsPending
  <2> QED
    BY <2>1 DEF ServerInv, LedgerHeld, LedgerBlank, LedgerAccounts, Exists
<1> QED
  BY <1>2, <1>3, <1>5, <1>7

LEMMA IdleFormed ==
    ASSUME ServerInv
    PROVE  Idle \in RequestStates /\ Idle.at = "idle" /\ Formed(Idle)
  BY ServerAssumption DEF Idle, RequestStates, Formed, Granting, Scopes, ServerInv, ServerTypeOK

LEMMA EndsKeeps ==
    ASSUME ServerInv, NEW r \in Requests, Ends(r),
           UNCHANGED <<burned, consents, ledger, minted, era>>
    PROVE  /\ requests' \in [Requests -> RequestStates]
           /\ RequestsFormed' /\ UnmintedBlank' /\ TokensHeld' /\ LedgerHeld'
<1>1. requests' = [requests EXCEPT ![r] = Idle]
  BY DEF Ends
<1> QED
  BY <1>1, IdleFormed, RequestMoves DEF Granting, ServerInv, ServerTypeOK

LEMMA BeginKeeps ==
    ASSUME ServerInv, NEW r \in Requests, Begin(r)
    PROVE  ServerInv'
<1>1. CASE BeginStarts(r)
  <2> DEFINE q == [Idle EXCEPT !.at = "create", !.era = era, !.window = limiter'.resetAt]
  <2>1. limiter' \in [count : Nat, resetAt : Nat]
    BY <1>1, ServerAssumption DEF BeginStarts, ServerInv, ServerTypeOK
  <2>2. limiter'.resetAt \in Nat /\ era \in 0 .. MaxResets
    BY <2>1 DEF ServerInv, ServerTypeOK
  <2>3. q \in RequestStates
    BY <2>2, IdleFormed DEF RequestStates
  <2>4. q.at = "create" /\ q.era = era
    BY IdleFormed DEF RequestStates
  <2>5. requests' = [requests EXCEPT ![r] = q]
    BY <1>1 DEF BeginStarts
  <2>6. UNCHANGED <<now, sessions, burned, consents, ledger, minted, era>> /\ acted' = NoToken
    BY <1>1 DEF BeginStarts
  <2> HIDE DEF q
  <2>7. Formed(q) /\ ~Granting(q)
    BY <2>2, <2>4, ServerAssumption DEF Formed, Granting
  <2>8. ServerTypeOK'
    BY <2>1, <2>3, <2>5, <2>6 DEF ServerInv, ServerTypeOK
  <2> QED
    BY <2>3, <2>4, <2>5, <2>6, <2>7, <2>8, RequestMoves DEF ServerInv
<1>2. ASSUME NEW s \in Sessions, NEW agent \in Agents, BeginCreates(r, s, agent) PROVE ServerInv'
  <2> DEFINE new == [status |-> "pending", agent |-> agent, expires |-> now + SessionTTL,
                     era |-> requests[r].era, window |-> requests[r].window]
  <2>1. requests[r] \in RequestStates
    BY DEF ServerInv, ServerTypeOK
  <2>2. requests[r].era \in 0 .. MaxResets /\ requests[r].window \in Nat /\ now + SessionTTL \in Nat
    BY <2>1, ServerAssumption DEF RequestStates, ServerInv, ServerTypeOK
  <2>3. new \in SessionRecords
    BY <2>2 DEF SessionRecords
  <2>4. /\ sessions' = [sessions EXCEPT ![s] = new] /\ Ends(r)
        /\ UNCHANGED <<now, limiter, burned, consents, ledger, minted, era>> /\ acted' = NoToken
    BY <1>2 DEF BeginCreates
  <2> HIDE DEF new
  <2>5. sessions' \in [Sessions -> SessionRecords \union {FreeSession}]
    BY <2>3, <2>4 DEF ServerInv, ServerTypeOK
  <2>6. ServerTypeOK'
    BY <2>4, <2>5, EndsKeeps DEF ServerInv, ServerTypeOK
  <2> QED
    BY <2>4, <2>6, EndsKeeps DEF ServerInv
<1>3. CASE BeginRefused(r)
  <2>1. Ends(r) /\ UNCHANGED <<now, store, minted, era>> /\ acted' = NoToken
    BY <1>3 DEF BeginRefused
  <2>2. ServerTypeOK'
    BY <2>1, EndsKeeps DEF store, ServerInv, ServerTypeOK
  <2> QED
    BY <2>1, <2>2, EndsKeeps DEF store, ServerInv
<1> QED
  BY <1>1, <1>2, <1>3 DEF Begin

LEMMA VerifyStartsKeeps ==
    ASSUME ServerInv, NEW r \in Requests, NEW t \in Tokens, NEW s \in Sessions, NEW scope \in Scopes,
           VerifyStarts(r, t, s, scope)
    PROVE  ServerInv'
<1> DEFINE q == [Idle EXCEPT !.at = "burn", !.session = s, !.token = t,
                             !.agent = sessions[s].agent, !.scope = scope]
<1>1. sessions[s].agent \in Agents
  <2>1. sessions[s] \in SessionRecords
    BY DEF VerifyStarts, ServerInv, ServerTypeOK, FreeSession
  <2> QED
    BY <2>1 DEF SessionRecords
<1>2. q \in RequestStates /\ Formed(q) /\ q.at = "burn"
  <2>1. q \in RequestStates
    BY <1>1, IdleFormed DEF RequestStates
  <2>2. q.at = "burn" /\ q.session = s /\ q.token = t /\ q.agent = sessions[s].agent /\ q.era = Idle.era
    BY IdleFormed DEF RequestStates
  <2> HIDE DEF q
  <2> QED
    BY <1>1, <2>1, <2>2, IdleFormed DEF Formed, Granting
<1>3. /\ requests' = [requests EXCEPT ![r] = q]
      /\ UNCHANGED <<now, store, minted, era>> /\ acted' = NoToken
  BY DEF VerifyStarts
<1>4. ServerTypeOK'
  BY <1>2, <1>3 DEF store, ServerInv, ServerTypeOK
<1> QED
  BY <1>2, <1>3, <1>4, RequestMoves DEF Granting, store, ServerInv

LEMMA MovesToKeeps ==
    ASSUME ServerInv, NEW r \in Requests, NEW place \in {"log", "denyLog"}, MovesTo(r, place),
           requests[r].session \in Sessions, place = "log" => At(r, "mark"),
           UNCHANGED <<burned, consents, ledger, minted, era>>
    PROVE  /\ requests' \in [Requests -> RequestStates]
           /\ RequestsFormed' /\ UnmintedBlank' /\ TokensHeld' /\ LedgerHeld'
<1> DEFINE q == [requests[r] EXCEPT !.at = place]
<1>1. requests[r] \in RequestStates /\ Formed(requests[r])
  BY DEF ServerInv, ServerTypeOK, RequestsFormed
<1>2. q \in RequestStates
  BY <1>1 DEF RequestStates
<1>3. q.at = place /\ q.session = requests[r].session /\ q.id = requests[r].id /\ q.era = requests[r].era
  BY <1>1 DEF RequestStates
<1>4. Formed(q) /\ (Granting(q) => Granting(requests[r]))
  BY <1>1, <1>3 DEF Formed, Granting, At
<1>5. requests' = [requests EXCEPT ![r] = q]
  BY DEF MovesTo
<1> QED
  BY <1>2, <1>3, <1>4, <1>5, RequestMoves DEF ServerInv, ServerTypeOK

(***************************************************************************)
(* burnJti: the request becomes the one holder of its token in this era.     *)
(***************************************************************************)
LEMMA VerifyBurnsKeeps ==
    ASSUME ServerInv, NEW r \in Requests, VerifyBurns(r)
    PROVE  ServerInv'
<1> DEFINE q == [requests[r] EXCEPT !.at = "put", !.era = era]
<1>1. /\ requests[r] \in RequestStates /\ requests[r].at = "burn"
      /\ requests[r].token \in Tokens /\ requests[r].agent \in Agents
      /\ requests[r].session \in Sessions
  BY DEF VerifyBurns, At, ServerInv, ServerTypeOK, RequestsFormed, Formed
<1>2. CASE ~Unburned(requests[r].token)
  <2>1. Ends(r) /\ UNCHANGED <<now, limiter, sessions, burned, consents, ledger, minted, era>>
        /\ acted' = NoToken
    BY <1>2 DEF VerifyBurns
  <2>2. ServerTypeOK'
    BY <2>1, EndsKeeps DEF ServerInv, ServerTypeOK
  <2> QED
    BY <2>1, <2>2, EndsKeeps DEF ServerInv
<1>3. CASE Unburned(requests[r].token)
  <2>1. /\ burned' = burned \union {requests[r].token} /\ requests[r].token \notin burned
        /\ requests' = [requests EXCEPT ![r] = q]
        /\ UNCHANGED <<now, limiter, sessions, consents, ledger, minted, era>> /\ acted' = NoToken
    BY <1>3 DEF VerifyBurns, Unburned
  <2>2. /\ q \in RequestStates /\ q.at = "put" /\ q.era = era /\ q.token = requests[r].token
        /\ q.agent = requests[r].agent /\ q.session = requests[r].session
    BY <1>1 DEF RequestStates, ServerInv, ServerTypeOK
  <2> HIDE DEF q
  <2>3. \A p \in Requests : requests'[p] = IF p = r THEN q ELSE requests[p]
    BY <2>1 DEF ServerInv, ServerTypeOK
  <2>4. ServerTypeOK'
    BY <1>1, <2>1, <2>2 DEF ServerInv, ServerTypeOK
  <2>5. RequestsFormed' /\ UnmintedBlank'
    BY <1>1, <2>1, <2>2, <2>3 DEF ServerInv, ServerTypeOK, RequestsFormed, Formed, Granting, UnmintedBlank
  <2>6. \A p \in Requests : p # r /\ At(p, "put") /\ requests[p].token = q.token => requests[p].era # era
    BY <2>1, <2>2 DEF ServerInv, TokensHeld, HoldersBurned
  <2>7. HeldByOneRequest'
    <3> SUFFICES ASSUME NEW p1 \in Requests, NEW p2 \in Requests, p1 # p2,
                        requests'[p1].at = "put", requests'[p2].at = "put",
                        requests'[p1].token = requests'[p2].token
                 PROVE  requests'[p1].era # requests'[p2].era
      BY DEF HeldByOneRequest, At
    <3> QED
      BY <2>2, <2>3, <2>6 DEF ServerInv, TokensHeld, HeldByOneRequest, At
  <2>8. HeldByNoConsent'
    BY <2>1, <2>2, <2>3 DEF ServerInv, TokensHeld, HeldByNoConsent, HoldersBurned, Exists, At
  <2>9. HoldersBurned'
    BY <2>1, <2>2, <2>3 DEF ServerInv, TokensHeld, HoldersBurned, Exists, At
  <2>10. TokenMintsOnce'
    BY <2>1 DEF ServerInv, TokensHeld, TokenMintsOnce, Exists
  <2>11. LedgerHeld'
    BY <2>1, <2>2, <2>3 DEF ServerInv, LedgerHeld, GrantsPending, LedgerBlank, LedgerAccounts, Granting,
       Exists
  <2> QED
    BY <2>4, <2>5, <2>7, <2>8, <2>9, <2>10, <2>11 DEF ServerInv, TokensHeld
<1> QED
  BY <1>2, <1>3

(***************************************************************************)
(* putConsent: the holder hands its token to a consent with a new id.        *)
(***************************************************************************)
LEMMA VerifyPutsKeeps ==
    ASSUME ServerInv, NEW r \in Requests, VerifyPuts(r)
    PROVE  ServerInv'
<1> DEFINE new == minted + 1
           q == [requests[r] EXCEPT !.at = "mark", !.id = new]
           rec == Granted(requests[r])
<1>1. /\ requests[r] \in RequestStates /\ requests[r].at = "put"
      /\ requests[r].token \in Tokens /\ requests[r].agent \in Agents
      /\ requests[r].session \in Sessions /\ requests[r].era <= era
  BY DEF VerifyPuts, At, ServerInv, ServerTypeOK, RequestsFormed, Formed
<1>2. new \in Ids /\ new > minted /\ minted' = new /\ minted \in Nat /\ new \in 0 .. MaxConsents
  BY ServerAssumption DEF VerifyPuts, Ids, ServerInv, ServerTypeOK
<1>3. /\ q \in RequestStates /\ q.at = "mark" /\ q.id = new /\ q.era = requests[r].era
      /\ q.session = requests[r].session
  BY <1>1, <1>2 DEF RequestStates
<1>4. rec \in Consents /\ rec.status = "active" /\ rec.token = requests[r].token /\ rec.era = requests[r].era
  BY <1>1, ServerAssumption DEF Granted, Consents, RequestStates, ServerInv, ServerTypeOK
<1>5. /\ requests' = [requests EXCEPT ![r] = q] /\ consents' = [consents EXCEPT ![new] = rec]
      /\ UNCHANGED <<now, limiter, sessions, burned, ledger, era>> /\ acted' = NoToken
  BY DEF VerifyPuts
<1> HIDE DEF new, q, rec
<1>6. \A p \in Requests : requests'[p] = IF p = r THEN q ELSE requests[p]
  BY <1>5 DEF ServerInv, ServerTypeOK
<1>7. \A id \in Ids : consents'[id] = IF id = new THEN rec ELSE consents[id]
  BY <1>5 DEF ServerInv, ServerTypeOK
<1>8. ServerTypeOK'
  BY <1>2, <1>3, <1>4, <1>5 DEF ServerInv, ServerTypeOK
<1>9. RequestsFormed'
  BY <1>1, <1>2, <1>3, <1>5, <1>6 DEF new, ServerInv, ServerTypeOK, RequestsFormed, Formed, Granting
<1>10. UnmintedBlank'
  BY <1>2, <1>7 DEF new, ServerInv, UnmintedBlank, Ids
<1>11. \A p \in Requests : At(p, "put")' => p # r /\ At(p, "put") /\ requests'[p] = requests[p]
  BY <1>3, <1>6 DEF At
<1>12. HeldByOneRequest'
  BY <1>11 DEF ServerInv, TokensHeld, HeldByOneRequest
<1>13. HeldByNoConsent'
  <2> SUFFICES ASSUME NEW p \in Requests, NEW id \in Ids, At(p, "put")', Exists(id)',
                      consents'[id].token = requests'[p].token
               PROVE  consents'[id].era # requests'[p].era
    BY DEF HeldByNoConsent
  <2>1. CASE id = new
    BY <1>1, <1>4, <1>7, <1>11, <2>1 DEF ServerInv, TokensHeld, HeldByOneRequest, At
  <2>2. CASE id # new
    BY <1>7, <1>11, <2>2 DEF ServerInv, TokensHeld, HeldByNoConsent, Exists
  <2> QED
    BY <2>1, <2>2
<1>14. HoldersBurned'
  BY <1>1, <1>4, <1>5, <1>7, <1>11 DEF ServerInv, TokensHeld, HoldersBurned, Exists, At
<1>15. TokenMintsOnce'
  BY <1>1, <1>4, <1>7 DEF ServerInv, TokensHeld, TokenMintsOnce, HeldByNoConsent, Exists, At
<1>16. \A k \in Kinds : ledger[<<k, new>>] = 0
  BY <1>2 DEF ServerInv, LedgerHeld, LedgerBlank
<1>17. GrantsPending'
  <2>1. \A p \in Requests : Granting(requests[p]) => requests[p].id # new
    BY <1>2 DEF new, ServerInv, ServerTypeOK, RequestsFormed, Formed
  <2> QED
    BY <1>3, <1>5, <1>6, <1>16, <2>1 DEF ServerInv, LedgerHeld, GrantsPending, Granting, Kinds
<1>18. LedgerBlank'
  BY <1>2, <1>5 DEF new, ServerInv, LedgerHeld, LedgerBlank, Ids
<1>19. LedgerAccounts'
  BY <1>4, <1>5, <1>7, <1>16 DEF ServerInv, LedgerHeld, LedgerAccounts, Exists, Kinds
<1> QED
  BY <1>8, <1>9, <1>10, <1>12, <1>13, <1>14, <1>15, <1>17, <1>18, <1>19
     DEF ServerInv, TokensHeld, LedgerHeld

LEMMA SessionsTyped ==
    ASSUME ServerInv, NEW s \in Sessions, NEW status \in {"verified", "denied"},
           SetSessionStatus(s, status)
    PROVE  sessions' \in [Sessions -> SessionRecords \union {FreeSession}]
<1>1. CASE sessions[s].status = "none"
  BY <1>1 DEF SetSessionStatus, ServerInv, ServerTypeOK
<1>2. CASE sessions[s].status # "none"
  <2>1. sessions[s] \in SessionRecords
    BY <1>2 DEF FreeSession, ServerInv, ServerTypeOK
  <2>2. [sessions[s] EXCEPT !.status = status] \in SessionRecords
    BY <2>1 DEF SessionRecords
  <2>3. sessions' = [sessions EXCEPT ![s] = [sessions[s] EXCEPT !.status = status]]
    BY <1>2 DEF SetSessionStatus
  <2> QED
    BY <2>2, <2>3 DEF ServerInv, ServerTypeOK
<1> QED
  BY <1>1, <1>2

LEMMA MarksKeep ==
    ASSUME ServerInv, NEW r \in Requests, VerifyMarks(r) \/ DenyMarks(r)
    PROVE  ServerInv'
<1>1. requests[r].at # "idle" /\ requests[r].session \in Sessions
  BY DEF VerifyMarks, DenyMarks, At, ServerInv, RequestsFormed, Formed
<1>2. /\ sessions' \in [Sessions -> SessionRecords \union {FreeSession}]
      /\ UNCHANGED <<now, limiter, burned, consents, ledger, minted, era>> /\ acted' = NoToken
  BY <1>1, SessionsTyped DEF VerifyMarks, DenyMarks
<1>3. /\ requests' \in [Requests -> RequestStates]
      /\ RequestsFormed' /\ UnmintedBlank' /\ TokensHeld' /\ LedgerHeld'
  BY <1>1, <1>2, MovesToKeeps DEF VerifyMarks, DenyMarks, At
<1> QED
  BY <1>2, <1>3 DEF ServerInv, ServerTypeOK

LEMMA DenyStartsKeeps ==
    ASSUME ServerInv, NEW r \in Requests, NEW s \in Sessions, DenyStarts(r, s)
    PROVE  ServerInv'
<1> DEFINE q == [Idle EXCEPT !.at = "denyMark", !.session = s]
<1>1. q \in RequestStates
  BY IdleFormed DEF RequestStates
<1>2. q.at = "denyMark" /\ q.session = s /\ q.era = Idle.era
  BY IdleFormed DEF RequestStates
<1>3. /\ requests' = [requests EXCEPT ![r] = q]
      /\ UNCHANGED <<now, store, minted, era>> /\ acted' = NoToken
  BY DEF DenyStarts
<1> HIDE DEF q
<1>4. Formed(q) /\ ~Granting(q)
  BY <1>2, IdleFormed DEF Formed, Granting
<1>5. ServerTypeOK'
  BY <1>1, <1>3 DEF store, ServerInv, ServerTypeOK
<1> QED
  BY <1>1, <1>2, <1>3, <1>4, <1>5, RequestMoves DEF store, ServerInv

(***************************************************************************)
(* The last entry of a request: of the consent it wrote, or of a denial.     *)
(***************************************************************************)
LEMMA LogsKeep ==
    ASSUME ServerInv, NEW r \in Requests, VerifyLogs(r) \/ DenyLogs(r)
    PROVE  ServerInv'
<1>1. /\ requests' \in [Requests -> RequestStates]
      /\ requests' = [requests EXCEPT ![r] = Idle] /\ Idle.at = "idle" /\ Formed(Idle)
      /\ UNCHANGED <<now, limiter, sessions, burned, consents, minted, era>> /\ acted' = NoToken
  BY IdleFormed DEF VerifyLogs, DenyLogs, Ends, ServerInv, ServerTypeOK
<1>2. \A p \in Requests : requests'[p] = IF p = r THEN Idle ELSE requests[p]
  BY <1>1 DEF ServerInv, ServerTypeOK
<1>3. \A p \in Requests : requests'[p].at # "idle" => p # r /\ requests'[p] = requests[p]
  BY <1>1, <1>2
<1>4. RequestsFormed' /\ UnmintedBlank'
  BY <1>1, <1>2 DEF ServerInv, RequestsFormed, Formed, Granting, UnmintedBlank
<1>5. TokensHeld'
  <2>1. HeldByOneRequest'
    BY <1>3 DEF ServerInv, TokensHeld, HeldByOneRequest, At
  <2>2. HeldByNoConsent'
    BY <1>1, <1>3 DEF ServerInv, TokensHeld, HeldByNoConsent, At, Exists
  <2>3. HoldersBurned' /\ TokenMintsOnce'
    BY <1>1, <1>3 DEF ServerInv, TokensHeld, HoldersBurned, TokenMintsOnce, At, Exists
  <2> QED
    BY <2>1, <2>2, <2>3 DEF TokensHeld
<1>6. PICK kind, id : /\ <<kind, id>> \in LedgerKeys /\ Logged(kind, id)
                      /\ \/ kind = "deny"
                         \/ kind = "grant" /\ Granting(requests[r]) /\ id = requests[r].id
                            /\ id \in 1 .. minted /\ id \in Ids
  <2>1. CASE VerifyLogs(r)
    <3>1. Granting(requests[r]) /\ requests[r].id \in 1 .. minted /\ minted <= MaxConsents /\ minted \in Nat
      BY <2>1, ServerAssumption DEF VerifyLogs, At, Granting, ServerInv, ServerTypeOK, RequestsFormed, Formed
    <3>2. requests[r].id \in Ids
      BY <3>1, ServerAssumption DEF Ids
    <3> QED
      BY <2>1, <3>1, <3>2, KeysTyped DEF VerifyLogs, Kinds
  <2>2. CASE DenyLogs(r)
    BY <2>2 DEF DenyLogs, LedgerKeys
  <2> QED
    BY <2>1, <2>2
<1>7. /\ ledger' \in [LedgerKeys -> Nat]
      /\ ledger'[<<kind, id>>] = ledger[<<kind, id>>] + 1
      /\ \A j, i : <<j, i>> \in LedgerKeys /\ (j # kind \/ i # id)
            => ledger'[<<j, i>>] = ledger[<<j, i>>]
  <2>1. ledger \in [LedgerKeys -> Nat]
    BY DEF ServerInv, ServerTypeOK
  <2>2. <<kind, id>> \in LedgerKeys /\ ledger' = [ledger EXCEPT ![<<kind, id>>] = @ + 1]
    BY <1>6 DEF Logged
  <2> QED
    BY <2>1, <2>2, LoggedAdds
<1>8. \A i \in Ids, k \in Kinds :
          ledger'[<<k, i>>] = ledger[<<k, i>>] \/ (k = "grant" /\ kind = "grant" /\ i = id)
  BY <1>6, <1>7, KeysTyped DEF Kinds
<1>9. kind = "grant" => ledger'[<<"grant", id>>] = 1
  BY <1>6, <1>7 DEF ServerInv, LedgerHeld, GrantsPending
<1>10. GrantsPending'
  <2>1. \A p \in Requests : Granting(requests'[p]) => /\ p # r /\ requests'[p] = requests[p]
                                                     /\ requests[p].id \in Ids
    <3> SUFFICES ASSUME NEW p \in Requests, Granting(requests'[p])
                 PROVE  p # r /\ requests'[p] = requests[p] /\ requests[p].id \in Ids
      OBVIOUS
    <3>1. p # r /\ requests'[p] = requests[p]
      BY <1>3 DEF Granting
    <3>2. requests[p].id \in 1 .. minted /\ minted \in 0 .. MaxConsents
      BY <3>1 DEF ServerInv, ServerTypeOK, RequestsFormed, Formed
    <3> QED
      BY <3>1, <3>2, ServerAssumption DEF Ids
  <2>2. \A p \in Requests : Granting(requests'[p]) =>
            ledger'[<<"grant", requests'[p].id>>] = ledger[<<"grant", requests[p].id>>]
    BY <1>6, <1>8, <2>1 DEF ServerInv, LedgerHeld, GrantsPending, Kinds
  <2> QED
    BY <2>1, <2>2 DEF ServerInv, LedgerHeld, GrantsPending
<1>11. LedgerBlank'
  BY <1>1, <1>6, <1>8, ServerAssumption DEF ServerInv, ServerTypeOK, LedgerHeld, LedgerBlank
<1>12. LedgerAccounts'
  <2> SUFFICES ASSUME NEW i \in Ids, Exists(i)'
               PROVE  /\ ledger'[<<"revoke", i>>] = ledger[<<"revoke", i>>]
                      /\ ledger'[<<"expire", i>>] = ledger[<<"expire", i>>]
                      /\ ledger'[<<"grant", i>>] <= 1
    BY <1>1 DEF ServerInv, LedgerHeld, LedgerAccounts, Exists
  <2> QED
    BY <1>1, <1>8, <1>9 DEF ServerInv, LedgerHeld, LedgerAccounts, Exists, Kinds
<1>13. ServerTypeOK'
  BY <1>1, <1>7 DEF ServerInv, ServerTypeOK
<1> QED
  BY <1>4, <1>5, <1>10, <1>11, <1>12, <1>13 DEF ServerInv, LedgerHeld

LEMMA RequestDiesKeeps ==
    ASSUME ServerInv, NEW r \in Requests, RequestDies(r)
    PROVE  ServerInv'
<1>1. Ends(r) /\ UNCHANGED <<now, store, minted, era>> /\ acted' = NoToken
  BY DEF RequestDies
<1>2. ServerTypeOK'
  BY <1>1, EndsKeeps DEF store, ServerInv, ServerTypeOK
<1> QED
  BY <1>1, <1>2, EndsKeeps DEF store, ServerInv
----------------------------------------------------------------------------
(***************************************************************************)
(* A consent that changes its status only, with the one entry that says so.  *)
(***************************************************************************)
LEMMA StatusMoves ==
    ASSUME ServerInv, NEW id \in Ids, NEW kind \in {"revoke", "expire"}, Exists(id),
           NEW status \in {"revoked", "expired"},
           consents' = [consents EXCEPT ![id] = [consents[id] EXCEPT !.status = status]],
           Logged(kind, id),
           UNCHANGED <<now, limiter, sessions, burned, requests, minted, era>>,
           acted' \in Tokens \union {NoToken},
           \/ kind = "revoke" /\ status = "revoked" /\ consents[id].status # "revoked"
           \/ kind = "expire" /\ status = "expired" /\ consents[id].status = "active"
    PROVE  ServerInv'
<1> DEFINE rec == [consents[id] EXCEPT !.status = status]
<1>1. consents[id] \in Consents
  BY DEF Exists, NoConsent, ServerInv, ServerTypeOK
<1>2. /\ rec \in Consents /\ rec.status = status /\ rec.token = consents[id].token
      /\ rec.era = consents[id].era
  BY <1>1 DEF Consents
<1> HIDE DEF rec
<1>3. \A i \in Ids : consents'[i] = IF i = id THEN rec ELSE consents[i]
  BY DEF rec, ServerInv, ServerTypeOK
<1>4. \A i \in Ids : Exists(i)' <=> Exists(i)
  BY <1>2, <1>3 DEF Exists
<1>5. \A i \in Ids : consents'[i].token = consents[i].token /\ consents'[i].era = consents[i].era
  BY <1>2, <1>3
<1>6. /\ ledger' \in [LedgerKeys -> Nat]
      /\ ledger'[<<kind, id>>] = ledger[<<kind, id>>] + 1
      /\ \A j, i : <<j, i>> \in LedgerKeys /\ (j # kind \/ i # id)
            => ledger'[<<j, i>>] = ledger[<<j, i>>]
  <2>1. ledger \in [LedgerKeys -> Nat]
    BY DEF ServerInv, ServerTypeOK
  <2>2. <<kind, id>> \in LedgerKeys /\ ledger' = [ledger EXCEPT ![<<kind, id>>] = @ + 1]
    BY KeysTyped DEF Kinds, Logged
  <2> QED
    BY <2>1, <2>2, LoggedAdds
<1>7. \A i \in Ids, k \in Kinds : k # kind \/ i # id => ledger'[<<k, i>>] = ledger[<<k, i>>]
  BY <1>6, KeysTyped
<1>8. ServerTypeOK'
  BY <1>2, <1>6 DEF rec, ServerInv, ServerTypeOK
<1>9. id \in 1 .. minted /\ minted \in Nat /\ id \in Nat
  BY ServerAssumption DEF Exists, NoConsent, Ids, ServerInv, ServerTypeOK, UnmintedBlank
<1>10. RequestsFormed' /\ UnmintedBlank'
  BY <1>3, <1>9 DEF ServerInv, RequestsFormed, Formed, Granting, UnmintedBlank
<1>11. TokensHeld'
  <2>1. HeldByOneRequest' /\ HeldByNoConsent'
    BY <1>4, <1>5 DEF ServerInv, TokensHeld, HeldByOneRequest, HeldByNoConsent, At
  <2>2. HoldersBurned' /\ TokenMintsOnce'
    BY <1>4, <1>5 DEF ServerInv, TokensHeld, HoldersBurned, TokenMintsOnce, At
  <2> QED
    BY <2>1, <2>2 DEF TokensHeld
<1>12. GrantsPending'
  <2>1. \A p \in Requests : Granting(requests[p]) => requests[p].id \in Ids
    <3> SUFFICES ASSUME NEW p \in Requests, Granting(requests[p]) PROVE requests[p].id \in Ids
      OBVIOUS
    <3>1. requests[p].id \in 1 .. minted /\ minted \in 0 .. MaxConsents
      BY DEF ServerInv, ServerTypeOK, RequestsFormed, Formed
    <3> QED
      BY <3>1, ServerAssumption DEF Ids
  <2> QED
    BY <1>7, <2>1 DEF ServerInv, LedgerHeld, GrantsPending, Kinds
<1>13. LedgerBlank'
  BY <1>7, <1>9 DEF ServerInv, LedgerHeld, LedgerBlank
<1>14. LedgerAccounts'
  <2>1. ASSUME NEW i \in Ids, i # id, Exists(i)
        PROVE  /\ ledger'[<<"revoke", i>>] = ledger[<<"revoke", i>>]
               /\ ledger'[<<"expire", i>>] = ledger[<<"expire", i>>]
               /\ ledger'[<<"grant", i>>] = ledger[<<"grant", i>>]
    BY <1>7, <2>1 DEF Kinds
  <2>2. /\ ledger[<<"revoke", id>>] = (IF consents[id].status = "revoked" THEN 1 ELSE 0)
        /\ consents[id].status = "active" => ledger[<<"expire", id>>] = 0
        /\ ledger[<<"expire", id>>] <= 1 /\ ledger[<<"grant", id>>] <= 1
    BY DEF ServerInv, LedgerHeld, LedgerAccounts
  <2>3. /\ ledger'[<<"revoke", id>>] = (IF status = "revoked" THEN 1 ELSE 0)
        /\ status = "expired" => ledger'[<<"expire", id>>] = 1
        /\ ledger'[<<"expire", id>>] <= 1 /\ ledger'[<<"grant", id>>] <= 1
    BY <1>6, <1>7, <2>2 DEF Kinds
  <2> QED
    BY <1>2, <1>3, <1>4, <2>1, <2>3 DEF ServerInv, LedgerHeld, LedgerAccounts
<1> QED
  BY <1>8, <1>10, <1>11, <1>12, <1>13, <1>14 DEF ServerInv, LedgerHeld

(***************************************************************************)
(* A call that leaves store and requests as they are.                        *)
(***************************************************************************)
LEMMA NothingMoves ==
    ASSUME ServerInv, UNCHANGED <<store, requests, minted, era>>, now' \in 0 .. MaxTime,
           acted' \in Tokens \union {NoToken}
    PROVE  ServerInv'
  BY DEF store, ServerInv, ServerTypeOK, RequestsFormed, Formed, Granting, UnmintedBlank, TokensHeld,
     HeldByOneRequest, HeldByNoConsent, HoldersBurned, TokenMintsOnce, LedgerHeld, GrantsPending,
     LedgerBlank, LedgerAccounts, Exists, At

LEMMA TouchKeeps ==
    ASSUME ServerInv, NEW id \in Ids, Exists(id), TouchExpiry(id), acted' \in Tokens \union {NoToken},
           UNCHANGED <<now, limiter, sessions, burned, requests, minted, era>>
    PROVE  ServerInv'
<1>1. CASE Overdue(id)
  BY <1>1, StatusMoves DEF TouchExpiry, Touched, Overdue
<1>2. CASE ~Overdue(id)
  <2>1. consents' = consents /\ ledger' = ledger
    BY <1>2 DEF TouchExpiry, Touched, ServerInv, ServerTypeOK
  <2> QED
    BY <2>1, NothingMoves DEF store, ServerInv, ServerTypeOK
<1> QED
  BY <1>1, <1>2

LEMMA OnConsentKeeps ==
    ASSUME ServerInv, NEW id \in Ids, OnConsent(id)
    PROVE  ServerInv'
<1>1. ASSUME NEW t \in Tokens, NEW agent \in Agents, NEW action \in Actions, Check(id, t, agent, action)
      PROVE  ServerInv'
  BY <1>1, TouchKeeps DEF Check
<1>2. CASE ViewReceipt(id)
  BY <1>2, TouchKeeps DEF ViewReceipt
<1>3. CASE Revoke(id)
  <2>1. CASE AlreadyRevoked(id)
    BY <1>3, <2>1, NothingMoves DEF Revoke, store, ServerInv, ServerTypeOK
  <2>2. CASE ~AlreadyRevoked(id)
    BY <1>3, <2>2, StatusMoves DEF Revoke, AlreadyRevoked
  <2> QED
    BY <2>1, <2>2
<1> QED
  BY <1>1, <1>2, <1>3 DEF OnConsent

LEMMA ResetKeeps ==
    ASSUME ServerInv, Reset
    PROVE  ServerInv'
<1>1. /\ era' = era + 1 /\ era' \in 0 .. MaxResets /\ burned' = {}
      /\ consents' = [id \in Ids |-> NoConsent] /\ ledger' = [k \in LedgerKeys |-> 0]
      /\ requests' = requests /\ minted' = minted /\ now' = now /\ acted' = NoToken
      /\ sessions' = [s \in Sessions |-> FreeSession] /\ limiter' = [count |-> 0, resetAt |-> 0]
  BY ServerAssumption DEF Reset, EmptyLedger, ServerInv, ServerTypeOK
<1>2. ServerTypeOK'
  BY <1>1 DEF ServerInv, ServerTypeOK
<1>3. \A i \in Ids : ~Exists(i)'
  BY <1>1 DEF Exists, NoConsent
<1>4. \A i \in Ids, k \in Kinds : ledger'[<<k, i>>] = 0
  BY <1>1, KeysTyped
<1>5. \A r \in Requests : requests[r].era <= era /\ requests[r].era \in Nat /\ era \in Nat
  BY ServerAssumption DEF ServerInv, ServerTypeOK, RequestStates, RequestsFormed, Formed
<1>6. RequestsFormed' /\ UnmintedBlank'
  BY <1>1, <1>5 DEF ServerInv, RequestsFormed, Formed, Granting, UnmintedBlank
<1>7. TokensHeld'
  BY <1>1, <1>3, <1>5 DEF ServerInv, TokensHeld, HeldByOneRequest, HeldByNoConsent, HoldersBurned,
     TokenMintsOnce, At
<1>8. GrantsPending'
  <2>1. \A p \in Requests : Granting(requests[p]) => requests[p].id \in Ids
    <3> SUFFICES ASSUME NEW p \in Requests, Granting(requests[p]) PROVE requests[p].id \in Ids
      OBVIOUS
    <3>1. requests[p].id \in 1 .. minted /\ minted \in 0 .. MaxConsents
      BY DEF ServerInv, ServerTypeOK, RequestsFormed, Formed
    <3> QED
      BY <3>1, ServerAssumption DEF Ids
  <2> QED
    BY <1>1, <1>4, <2>1 DEF ServerInv, LedgerHeld, GrantsPending, Kinds
<1>9. LedgerBlank' /\ LedgerAccounts'
  BY <1>3, <1>4 DEF LedgerBlank, LedgerAccounts
<1> QED
  BY <1>2, <1>6, <1>7, <1>8, <1>9 DEF ServerInv, LedgerHeld
----------------------------------------------------------------------------
LEMMA InitHolds == ServerInit => ServerInv
<1> SUFFICES ASSUME ServerInit PROVE ServerInv
  OBVIOUS
<1>1. \A r \in Requests : requests[r] = Idle
  BY DEF ServerInit
<1>2. /\ now = 0 /\ minted = 0 /\ era = 0 /\ acted = NoToken /\ burned = {}
      /\ limiter = [count |-> 0, resetAt |-> 0]
      /\ sessions = [s \in Sessions |-> FreeSession] /\ consents = [id \in Ids |-> NoConsent]
      /\ ledger = [k \in LedgerKeys |-> 0] /\ requests = [r \in Requests |-> Idle]
  BY DEF ServerInit, EmptyStore, EmptyLedger
<1>3. /\ Idle \in RequestStates /\ Idle.at = "idle" /\ Idle.era = 0
  BY ServerAssumption DEF Idle, RequestStates, Scopes
<1>4. ServerTypeOK
  BY <1>2, <1>3, ServerAssumption DEF ServerTypeOK
<1>5. \A i \in Ids : ~Exists(i)
  BY <1>2 DEF Exists, NoConsent
<1>6. \A i \in Ids, k \in Kinds : ledger[<<k, i>>] = 0
  BY <1>2, KeysTyped
<1>7. RequestsFormed /\ UnmintedBlank
  BY <1>1, <1>2, <1>3 DEF RequestsFormed, Formed, Granting, UnmintedBlank
<1>8. TokensHeld
  BY <1>1, <1>3, <1>5 DEF TokensHeld, HeldByOneRequest, HeldByNoConsent, HoldersBurned, TokenMintsOnce, At
<1>9. LedgerHeld
  BY <1>1, <1>3, <1>5, <1>6 DEF LedgerHeld, GrantsPending, Granting, LedgerBlank, LedgerAccounts
<1> QED
  BY <1>4, <1>7, <1>8, <1>9 DEF ServerInv

LEMMA StepKeeps ==
    ASSUME ServerInv, [ServerNext]_serverVars
    PROVE  ServerInv'
<1>1. ASSUME NEW r \in Requests, Begin(r) PROVE ServerInv'
  BY <1>1, BeginKeeps
<1>2. ASSUME NEW r \in Requests, Verify(r) PROVE ServerInv'
  BY <1>2, VerifyStartsKeeps, VerifyBurnsKeeps, VerifyPutsKeeps, MarksKeep, LogsKeep DEF Verify
<1>3. ASSUME NEW r \in Requests, Deny(r) PROVE ServerInv'
  BY <1>3, DenyStartsKeeps, MarksKeep, LogsKeep DEF Deny
<1>4. ASSUME NEW r \in Requests, RequestDies(r) PROVE ServerInv'
  BY <1>4, RequestDiesKeeps
<1>5. ASSUME NEW id \in Ids, OnConsent(id) PROVE ServerInv'
  BY <1>5, OnConsentKeeps
<1>6. CASE Reset
  BY <1>6, ResetKeeps
<1>7. CASE Tick
  <2>1. now' \in 0 .. MaxTime
    BY <1>7, ServerAssumption DEF Tick, ServerInv, ServerTypeOK
  <2> QED
    BY <1>7, <2>1, NothingMoves DEF Tick
<1>8. CASE UNCHANGED serverVars
  BY <1>8, NothingMoves DEF serverVars, ServerInv, ServerTypeOK
<1> QED
  BY <1>1, <1>2, <1>3, <1>4, <1>5, <1>6, <1>7, <1>8 DEF ServerNext

(***************************************************************************)
(* The inductive invariant of the consent server.                            *)
(***************************************************************************)
THEOREM ServerInvariant == ServerSpec => []ServerInv
  BY InitHolds, StepKeeps, PTL DEF ServerSpec

(***************************************************************************)
(* What the begins admitted in a window came to: sessions, and the requests  *)
(* that have not created theirs yet.                                         *)
(***************************************************************************)
Left(e, w) == {s \in Sessions : sessions[s].status # "none" /\ sessions[s].era = e /\ sessions[s].window = w}
Pending(e, w) == {r \in Requests : At(r, "create") /\ requests[r].era = e /\ requests[r].window = w}
Admitted(e, w) == Left(e, w) \union Pending(e, w)

\* a window that has been opened: of an earlier era, or not after the running one
Opened(e, w) == e < era \/ (e = era /\ w <= limiter.resetAt)

(***************************************************************************)
(* The running window has counted what it admitted, every window admitted    *)
(* the limit at most, and one that opens at this instant inherits nothing.   *)
(***************************************************************************)
OnlyOpened ==
    /\ \A s \in Sessions : sessions[s].status # "none" => Opened(sessions[s].era, sessions[s].window)
    /\ \A r \in Requests : At(r, "create") => Opened(requests[r].era, requests[r].window)
EachWithinLimit ==
    \A e, w \in Nat : IsFiniteSet(Admitted(e, w)) /\ Cardinality(Admitted(e, w)) <= BeginLimit
RunningCounted ==
    /\ Cardinality(Admitted(era, limiter.resetAt)) <= limiter.count
    /\ limiter.count <= BeginLimit

AdmittedInv == BeginLimit > 0 => OnlyOpened /\ EachWithinLimit /\ RunningCounted

LEMMA AdmittedTyped ==
    ASSUME ServerTypeOK
    PROVE  /\ now \in Nat /\ era \in Nat /\ limiter.count \in Nat /\ limiter.resetAt \in Nat
           /\ \A s \in Sessions : sessions[s].era \in Nat /\ sessions[s].window \in Nat
           /\ \A r \in Requests : requests[r].era \in Nat /\ requests[r].window \in Nat
<1>1. \A s \in Sessions : sessions[s] \in SessionRecords \union {FreeSession}
  BY DEF ServerTypeOK
<1>2. \A s \in Sessions : sessions[s].era \in Nat /\ sessions[s].window \in Nat
  BY <1>1, ServerAssumption DEF SessionRecords, FreeSession
<1>3. \A r \in Requests : requests[r].era \in Nat /\ requests[r].window \in Nat
  BY ServerAssumption DEF RequestStates, ServerTypeOK
<1> QED
  BY <1>2, <1>3, ServerAssumption DEF ServerTypeOK

(***************************************************************************)
(* One more element makes a finite set larger by at most one, and one less   *)
(* makes room for it.                                                        *)
(***************************************************************************)
LEMMA OneMore ==
    ASSUME NEW S, IsFiniteSet(S), NEW x
    PROVE  /\ IsFiniteSet(S \union {x})
           /\ Cardinality(S \union {x}) <= Cardinality(S) + 1
           /\ Cardinality(S) \in Nat
<1>1. Cardinality(S) \in Nat
  BY FS_CardinalityType
<1>2. /\ IsFiniteSet(S \union {x})
      /\ \/ Cardinality(S \union {x}) = Cardinality(S)
         \/ Cardinality(S \union {x}) = Cardinality(S) + 1
  BY FS_AddElement
<1> QED
  BY <1>1, <1>2

LEMMA Fewer ==
    ASSUME NEW S, IsFiniteSet(S), NEW T, T \subseteq S
    PROVE  /\ IsFiniteSet(T) /\ Cardinality(T) <= Cardinality(S)
           /\ Cardinality(T) \in Nat /\ Cardinality(S) \in Nat
  BY FS_Subset, FS_CardinalityType

LEMMA Swapped ==
    ASSUME NEW S, IsFiniteSet(S), NEW r \in S, NEW x
    PROVE  IsFiniteSet((S \ {r}) \union {x}) /\ Cardinality((S \ {r}) \union {x}) <= Cardinality(S)
<1> DEFINE T == S \ {r}
<1>1. IsFiniteSet(T) /\ Cardinality(T) = Cardinality(S) - 1
  BY FS_RemoveElement
<1>2. Cardinality(S) \in Nat
  BY FS_CardinalityType
<1> HIDE DEF T
<1>3. IsFiniteSet(T \union {x}) /\ Cardinality(T \union {x}) <= Cardinality(T) + 1 /\ Cardinality(T) \in Nat
  BY <1>1, OneMore
<1>4. /\ IsFiniteSet(T \union {x})
      /\ Cardinality(T \union {x}) = Cardinality(T) \/ Cardinality(T \union {x}) = Cardinality(T) + 1
  BY <1>1, FS_AddElement
<1> QED
  BY <1>1, <1>2, <1>3, <1>4 DEF T

(***************************************************************************)
(* rateLimit: the begin joins what the running window has admitted, or is    *)
(* the first of a window that has admitted nothing.                          *)
(***************************************************************************)
LEMMA StartCounts ==
    ASSUME ServerInv, AdmittedInv, NEW r \in Requests, BeginStarts(r)
    PROVE  AdmittedInv'
<1> SUFFICES ASSUME BeginLimit > 0 PROVE (OnlyOpened /\ EachWithinLimit /\ RunningCounted)'
  BY DEF AdmittedInv
<1>1. /\ now \in Nat /\ era \in Nat /\ limiter.count \in Nat /\ limiter.resetAt \in Nat
      /\ BeginLimit \in Nat /\ BeginWindow \in Nat \ {0}
      /\ limiter'.count \in Nat /\ limiter'.resetAt \in Nat
  BY BeginKeeps, AdmittedTyped, ServerAssumption DEF Begin, ServerInv, ServerTypeOK
<1> PICK e0 \in Nat, w \in Nat : e0 = era /\ w = limiter'.resetAt
  BY <1>1
<1>2. OnlyOpened /\ EachWithinLimit /\ RunningCounted
  BY DEF AdmittedInv
<1>3. /\ At(r, "create")' /\ requests'[r].era = era /\ requests'[r].window = w
      /\ \A p \in Requests : p # r => requests'[p] = requests[p]
      /\ sessions' = sessions /\ era' = era /\ ~At(r, "create")
  <2>1. Idle \in RequestStates /\ requests \in [Requests -> RequestStates]
    BY IdleFormed DEF ServerInv, ServerTypeOK
  <2> DEFINE q == [Idle EXCEPT !.at = "create", !.era = era, !.window = limiter'.resetAt]
  <2>2. q.at = "create" /\ q.era = era /\ q.window = limiter'.resetAt
    BY <2>1 DEF RequestStates
  <2>3. /\ requests' = [requests EXCEPT ![r] = q] /\ requests[r].at = "idle"
        /\ sessions' = sessions /\ era' = era
    BY DEF BeginStarts, At
  <2> HIDE DEF q
  <2> QED
    BY <2>1, <2>2, <2>3 DEF At
<1>4. limiter.resetAt <= w
  BY <1>1 DEF BeginStarts, ServerInv, ServerTypeOK
<1>5. OnlyOpened'
  BY <1>1, <1>2, <1>3, <1>4, AdmittedTyped DEF OnlyOpened, Opened, At, ServerInv
<1>6. Admitted(e0, w)' \subseteq Admitted(e0, w) \union {r}
  BY <1>3 DEF Admitted, Left, Pending, At
<1>7. \A e, v \in Nat : e # e0 \/ v # w => Admitted(e, v)' \subseteq Admitted(e, v)
  BY <1>3 DEF Admitted, Left, Pending, At
<1>8. /\ IsFiniteSet(Admitted(e0, w)') /\ Cardinality(Admitted(e0, w)') <= limiter'.count
      /\ limiter'.count <= BeginLimit
  <2>1. CASE now >= limiter.resetAt
    <3>1. limiter'.count = 1 /\ w > limiter.resetAt
      BY <1>1, <2>1 DEF BeginStarts
    <3>2. Admitted(e0, w) = {}
      BY <1>1, <1>2, <3>1 DEF OnlyOpened, Opened, Admitted, Left, Pending
    <3>3. Admitted(e0, w)' \subseteq {r}
      BY <1>6, <3>2
    <3>4. IsFiniteSet({r}) /\ Cardinality({r}) = 1
      BY FS_Singleton
    <3>5. IsFiniteSet(Admitted(e0, w)') /\ Cardinality(Admitted(e0, w)') <= 1
      BY <3>3, <3>4, Fewer
    <3> QED
      BY <1>1, <3>1, <3>5
  <2>2. CASE now < limiter.resetAt
    <3>1. /\ limiter.count < BeginLimit
          /\ limiter'.count = limiter.count + 1 /\ w = limiter.resetAt
      BY <1>1, <2>2 DEF BeginStarts, Allowed, ServerInv, ServerTypeOK
    <3>2. IsFiniteSet(Admitted(e0, w)) /\ Cardinality(Admitted(e0, w)) <= limiter.count
      BY <1>1, <1>2, <3>1 DEF EachWithinLimit, RunningCounted
    <3> PICK S : S = Admitted(e0, w)
      OBVIOUS
    <3>3. /\ IsFiniteSet(S \union {r}) /\ Cardinality(S \union {r}) <= Cardinality(S) + 1
          /\ Cardinality(S) \in Nat
      BY <3>2, OneMore
    <3>4. /\ IsFiniteSet(Admitted(e0, w)') /\ Cardinality(Admitted(e0, w)') <= Cardinality(S \union {r})
          /\ Cardinality(Admitted(e0, w)') \in Nat /\ Cardinality(S \union {r}) \in Nat
      BY <1>6, <3>3, Fewer
    <3> QED
      BY <1>1, <3>1, <3>2, <3>3, <3>4
  <2> QED
    BY <1>1, <2>1, <2>2
<1>9. EachWithinLimit'
  <2> SUFFICES ASSUME NEW e \in Nat, NEW v \in Nat
               PROVE  IsFiniteSet(Admitted(e, v)') /\ Cardinality(Admitted(e, v)') <= BeginLimit
    BY DEF EachWithinLimit
  <2>1. CASE e = e0 /\ v = w
    <3>1. Cardinality(Admitted(e0, w)') \in Nat
      BY <1>8, FS_CardinalityType
    <3> QED
      BY <1>1, <1>8, <2>1, <3>1
  <2>2. CASE e # e0 \/ v # w
    <3>1. IsFiniteSet(Admitted(e, v)) /\ Cardinality(Admitted(e, v)) <= BeginLimit
      BY <1>2 DEF EachWithinLimit
    <3>2. Admitted(e, v)' \subseteq Admitted(e, v)
      BY <1>7, <2>2
    <3>3. /\ IsFiniteSet(Admitted(e, v)') /\ Cardinality(Admitted(e, v)') <= Cardinality(Admitted(e, v))
          /\ Cardinality(Admitted(e, v)') \in Nat /\ Cardinality(Admitted(e, v)) \in Nat
      BY <3>1, <3>2, Fewer
    <3> QED
      BY <1>1, <3>1, <3>3
  <2> QED
    BY <2>1, <2>2
<1>10. RunningCounted'
  <2>1. Admitted(era, limiter.resetAt)' = Admitted(e0, w)'
    BY <1>3 DEF Admitted, Left, Pending
  <2> QED
    BY <1>8, <2>1 DEF RunningCounted
<1> QED
  BY <1>5, <1>9, <1>10

(***************************************************************************)
(* Whatever lets no window hold more leaves the bound as it is.              *)
(***************************************************************************)
LEMMA AdmittedStays ==
    ASSUME ServerInv, AdmittedInv, UNCHANGED <<limiter, era>>, OnlyOpened',
           \A e, w \in Nat : /\ IsFiniteSet(Admitted(e, w)')
                             /\ Cardinality(Admitted(e, w)') <= Cardinality(Admitted(e, w))
    PROVE  AdmittedInv'
<1> SUFFICES ASSUME BeginLimit > 0 PROVE (EachWithinLimit /\ RunningCounted)'
  BY DEF AdmittedInv
<1>1. /\ era \in Nat /\ limiter.count \in Nat /\ limiter.resetAt \in Nat /\ BeginLimit \in Nat
      /\ EachWithinLimit /\ RunningCounted
  BY AdmittedTyped, ServerAssumption DEF ServerInv, AdmittedInv
<1>2. ASSUME NEW e \in Nat, NEW w \in Nat
      PROVE  Cardinality(Admitted(e, w)) \in Nat /\ Cardinality(Admitted(e, w)') \in Nat
  <2>1. IsFiniteSet(Admitted(e, w)) /\ IsFiniteSet(Admitted(e, w)')
    BY <1>1 DEF EachWithinLimit
  <2> QED
    BY <2>1, FS_CardinalityType
<1>3. EachWithinLimit'
  <2> SUFFICES ASSUME NEW e \in Nat, NEW w \in Nat
               PROVE  IsFiniteSet(Admitted(e, w)') /\ Cardinality(Admitted(e, w)') <= BeginLimit
    BY DEF EachWithinLimit
  <2>1. Cardinality(Admitted(e, w)) <= BeginLimit
    BY <1>1 DEF EachWithinLimit
  <2> QED
    BY <1>1, <1>2, <2>1
<1>4. RunningCounted'
  <2> PICK e \in Nat, w \in Nat : e = era /\ w = limiter.resetAt
    BY <1>1
  <2>1. Admitted(era, limiter.resetAt) = Admitted(e, w) /\ Admitted(era, limiter.resetAt)' = Admitted(e, w)'
    BY DEF Admitted, Left, Pending
  <2>2. /\ Cardinality(Admitted(e, w)') <= Cardinality(Admitted(e, w))
        /\ Cardinality(Admitted(e, w)) \in Nat /\ Cardinality(Admitted(e, w)') \in Nat
    BY <1>2
  <2>3. Cardinality(Admitted(e, w)) <= limiter.count /\ limiter.count <= BeginLimit
    BY <1>1, <2>1 DEF RunningCounted
  <2>4. Cardinality(Admitted(e, w)') <= limiter.count
    BY ONLY <1>1, <2>2, <2>3
  <2> QED
    BY <2>1, <2>3, <2>4 DEF RunningCounted
<1> QED
  BY <1>3, <1>4

(***************************************************************************)
(* createSession: the session takes the place of its request, in the window  *)
(* that admitted it.                                                         *)
(***************************************************************************)
LEMMA CreateCounts ==
    ASSUME ServerInv, AdmittedInv, NEW r \in Requests, NEW s \in Sessions, NEW agent \in Agents,
           BeginCreates(r, s, agent)
    PROVE  AdmittedInv'
<1> SUFFICES ASSUME BeginLimit > 0 PROVE AdmittedInv'
  BY DEF AdmittedInv
<1>1. PICK a \in Nat, b \in Nat : a = requests[r].era /\ b = requests[r].window
  BY AdmittedTyped DEF ServerInv
<1>2. /\ sessions'[s].status = "pending" /\ sessions'[s].era = a /\ sessions'[s].window = b
      /\ sessions[s].status = "none"
      /\ \A z \in Sessions : z # s => sessions'[z] = sessions[z]
      /\ At(r, "create") /\ ~At(r, "create")'
      /\ \A p \in Requests : p # r => requests'[p] = requests[p]
      /\ limiter' = limiter /\ era' = era
  BY <1>1, IdleFormed DEF BeginCreates, Fresh, Ends, At, ServerInv, ServerTypeOK
<1>3. OnlyOpened /\ EachWithinLimit
  BY DEF AdmittedInv
<1>4. OnlyOpened'
  BY <1>1, <1>2, <1>3 DEF OnlyOpened, Opened, At
<1>5. ASSUME NEW e \in Nat, NEW w \in Nat
      PROVE  IsFiniteSet(Admitted(e, w)') /\ Cardinality(Admitted(e, w)') <= Cardinality(Admitted(e, w))
  <2>1. IsFiniteSet(Admitted(e, w))
    BY <1>3 DEF EachWithinLimit
  <2>2. CASE e = a /\ w = b
    <3>1. r \in Admitted(e, w)
      BY <1>1, <1>2, <2>2 DEF Admitted, Pending
    <3>2. r \notin Sessions
      BY ServerAssumption
    <3>3. Admitted(e, w)' = (Admitted(e, w) \ {r}) \union {s}
      BY <1>2, <2>2, <3>2 DEF Admitted, Left, Pending, At
    <3> QED
      BY <2>1, <3>1, <3>3, Swapped
  <2>3. CASE e # a \/ w # b
    <3>1. Admitted(e, w)' \subseteq Admitted(e, w)
      BY <1>2, <2>3 DEF Admitted, Left, Pending, At
    <3> QED
      BY <2>1, <3>1, Fewer
  <2> QED
    BY <2>2, <2>3
<1> QED
  BY <1>2, <1>4, <1>5, AdmittedStays

(***************************************************************************)
(* A step that starts no begin and creates no session.                       *)
(***************************************************************************)
NoneBegin ==
    /\ UNCHANGED <<limiter, era>>
    /\ \A s \in Sessions : sessions'[s].status # "none" =>
           /\ sessions[s].status # "none"
           /\ sessions'[s].era = sessions[s].era /\ sessions'[s].window = sessions[s].window
    /\ \A r \in Requests : At(r, "create")' =>
           /\ At(r, "create")
           /\ requests'[r].era = requests[r].era /\ requests'[r].window = requests[r].window

LEMMA AdmittedKept ==
    ASSUME ServerInv, AdmittedInv, NoneBegin
    PROVE  AdmittedInv'
<1> SUFFICES ASSUME BeginLimit > 0 PROVE AdmittedInv'
  BY DEF AdmittedInv
<1>1. OnlyOpened /\ EachWithinLimit
  BY DEF AdmittedInv
<1>2. OnlyOpened'
  BY <1>1 DEF OnlyOpened, Opened, NoneBegin
<1>3. ASSUME NEW e \in Nat, NEW w \in Nat
      PROVE  IsFiniteSet(Admitted(e, w)') /\ Cardinality(Admitted(e, w)') <= Cardinality(Admitted(e, w))
  <2>1. IsFiniteSet(Admitted(e, w))
    BY <1>1 DEF EachWithinLimit
  <2>2. Admitted(e, w)' \subseteq Admitted(e, w)
    BY DEF Admitted, Left, Pending, NoneBegin
  <2> QED
    BY <2>1, <2>2, Fewer
<1> QED
  BY <1>2, <1>3, AdmittedStays DEF NoneBegin

LEMMA MarkingBegins ==
    ASSUME ServerInv, NEW s \in Sessions, NEW status, SetSessionStatus(s, status)
    PROVE  \A z \in Sessions : sessions'[z].status # "none" =>
               /\ sessions[z].status # "none"
               /\ sessions'[z].era = sessions[z].era /\ sessions'[z].window = sessions[z].window
<1>1. \A z \in Sessions : sessions[z] \in SessionRecords \union {FreeSession}
  BY DEF ServerInv, ServerTypeOK
<1>2. CASE sessions[s].status = "none"
  BY <1>2 DEF SetSessionStatus
<1>3. CASE sessions[s].status # "none"
  <2>1. \A z \in Sessions : z # s => sessions'[z] = sessions[z]
    BY <1>3 DEF SetSessionStatus, ServerInv, ServerTypeOK
  <2>2. sessions'[s].era = sessions[s].era /\ sessions'[s].window = sessions[s].window
    BY <1>1, <1>3 DEF SetSessionStatus, ServerInv, ServerTypeOK, SessionRecords, FreeSession
  <2> QED
    BY <1>3, <2>1, <2>2
<1> QED
  BY <1>2, <1>3

(***************************************************************************)
(* The requests that verify, deny or die: none of them becomes a begin.      *)
(***************************************************************************)
LEMMA OthersBeginNone ==
    ASSUME ServerInv, NEW r \in Requests, BeginRefused(r) \/ Verify(r) \/ Deny(r) \/ RequestDies(r)
    PROVE  NoneBegin
<1>1. \A p \in Requests : p # r => requests'[p] = requests[p]
  BY DEF BeginRefused, Verify, VerifyStarts, VerifyBurns, VerifyPuts, VerifyMarks, VerifyLogs, Deny,
     DenyStarts, DenyMarks, DenyLogs, RequestDies, MovesTo, Ends, ServerInv, ServerTypeOK
<1>2. ~At(r, "create")'
  <2>1. Idle \in RequestStates /\ Idle.at = "idle" /\ requests \in [Requests -> RequestStates]
    BY IdleFormed DEF ServerInv, ServerTypeOK
  <2>2. CASE BeginRefused(r) \/ RequestDies(r) \/ VerifyLogs(r) \/ DenyLogs(r)
    BY <2>1, <2>2 DEF BeginRefused, RequestDies, VerifyLogs, DenyLogs, Ends, At
  <2>3. CASE VerifyBurns(r) \/ VerifyPuts(r)
    BY <2>1, <2>3 DEF VerifyBurns, VerifyPuts, Ends, At, RequestStates
  <2>4. CASE VerifyMarks(r) \/ DenyMarks(r)
    BY <2>1, <2>4 DEF VerifyMarks, DenyMarks, MovesTo, At, RequestStates
  <2>5. ASSUME NEW t \in Tokens, NEW s \in Sessions, NEW scope \in Scopes, VerifyStarts(r, t, s, scope)
        PROVE  ~At(r, "create")'
    <3> DEFINE q == [Idle EXCEPT !.at = "burn", !.session = s, !.token = t,
                                 !.agent = sessions[s].agent, !.scope = scope]
    <3>1. q.at = "burn"
      BY <2>1 DEF RequestStates
    <3>2. requests' = [requests EXCEPT ![r] = q]
      BY <2>5 DEF VerifyStarts
    <3> HIDE DEF q
    <3> QED
      BY <2>1, <3>1, <3>2 DEF At
  <2>6. ASSUME NEW s \in Sessions, DenyStarts(r, s) PROVE ~At(r, "create")'
    <3> DEFINE q == [Idle EXCEPT !.at = "denyMark", !.session = s]
    <3>1. q.at = "denyMark"
      BY <2>1 DEF RequestStates
    <3>2. requests' = [requests EXCEPT ![r] = q]
      BY <2>6 DEF DenyStarts
    <3> HIDE DEF q
    <3> QED
      BY <2>1, <3>1, <3>2 DEF At
  <2> QED
    BY <2>2, <2>3, <2>4, <2>5, <2>6 DEF Verify, Deny
<1>3. \A p \in Requests : At(p, "create")' => At(p, "create") /\ requests'[p] = requests[p]
  BY <1>1, <1>2 DEF At
<1>4. CASE VerifyMarks(r) \/ DenyMarks(r)
  <2>1. requests[r].session \in Sessions
    BY <1>4 DEF VerifyMarks, DenyMarks, At, ServerInv, RequestsFormed, Formed
  <2>2. \A z \in Sessions : sessions'[z].status # "none" =>
            /\ sessions[z].status # "none"
            /\ sessions'[z].era = sessions[z].era /\ sessions'[z].window = sessions[z].window
    BY <1>4, <2>1, MarkingBegins DEF VerifyMarks, DenyMarks
  <2> QED
    BY <1>3, <1>4, <2>2 DEF NoneBegin, VerifyMarks, DenyMarks
<1>5. CASE ~(VerifyMarks(r) \/ DenyMarks(r))
  <2>1. UNCHANGED <<limiter, sessions, era>>
    BY <1>5 DEF BeginRefused, Verify, VerifyStarts, VerifyBurns, VerifyPuts, VerifyLogs, Deny,
       DenyStarts, DenyLogs, RequestDies, store
  <2> QED
    BY <1>3, <2>1 DEF NoneBegin
<1> QED
  BY <1>4, <1>5

(***************************************************************************)
(* The limiter of do.ts bounds what one client can leave in the store: the   *)
(* sessions of the begins admitted in one window, for any number of them in  *)
(* flight across the end of the window, any limit and any clock.             *)
(***************************************************************************)
THEOREM BeginsAlwaysBounded == ServerSpec => []BeginsBounded
<1>1. ServerInit => AdmittedInv
  <2> SUFFICES ASSUME ServerInit PROVE AdmittedInv
    OBVIOUS
  <2>1. /\ \A s \in Sessions : sessions[s].status = "none"
        /\ \A r \in Requests : ~At(r, "create")
    BY DEF ServerInit, EmptyStore, FreeSession, Idle, At
  <2>2. limiter.count = 0 /\ \A e, w \in Nat : Admitted(e, w) = {}
    BY <2>1 DEF ServerInit, EmptyStore, Admitted, Left, Pending
  <2>3. Admitted(era, limiter.resetAt) = {}
    BY <2>1 DEF Admitted, Left, Pending
  <2>4. IsFiniteSet({}) /\ Cardinality({}) = 0 /\ BeginLimit \in Nat
    BY FS_EmptySet, ServerAssumption
  <2>5. OnlyOpened
    BY <2>1 DEF OnlyOpened
  <2>6. EachWithinLimit
    BY <2>2, <2>4 DEF EachWithinLimit
  <2>7. RunningCounted
    BY <2>2, <2>3, <2>4 DEF RunningCounted
  <2> QED
    BY <2>5, <2>6, <2>7 DEF AdmittedInv
<1>2. ServerInv /\ AdmittedInv /\ [ServerNext]_serverVars => AdmittedInv'
  <2> SUFFICES ASSUME ServerInv, AdmittedInv, [ServerNext]_serverVars PROVE AdmittedInv'
    OBVIOUS
  <2>1. ASSUME NEW r \in Requests, Begin(r) PROVE AdmittedInv'
    BY <2>1, StartCounts, CreateCounts, OthersBeginNone, AdmittedKept DEF Begin
  <2>2. ASSUME NEW r \in Requests, Verify(r) \/ Deny(r) \/ RequestDies(r) PROVE AdmittedInv'
    BY <2>2, OthersBeginNone, AdmittedKept
  <2>3. ASSUME UNCHANGED <<limiter, sessions, requests, era>> PROVE AdmittedInv'
    <3>1. NoneBegin
      BY <2>3 DEF NoneBegin, At
    <3> QED
      BY <3>1, AdmittedKept
  <2>4. ASSUME NEW id \in Ids, OnConsent(id) PROVE AdmittedInv'
    BY <2>3, <2>4 DEF OnConsent, Check, ViewReceipt, Revoke
  <2>5. CASE Reset
    <3> SUFFICES ASSUME BeginLimit > 0 PROVE (OnlyOpened /\ EachWithinLimit /\ RunningCounted)'
      BY DEF AdmittedInv
    <3>1. /\ \A s \in Sessions : sessions'[s].status = "none"
          /\ requests' = requests /\ era' = era + 1 /\ limiter' = [count |-> 0, resetAt |-> 0]
      BY <2>5 DEF Reset, FreeSession
    <3>2. /\ era \in Nat /\ BeginLimit \in Nat /\ OnlyOpened /\ EachWithinLimit
          /\ \A r \in Requests : At(r, "create") => requests[r].era <= era /\ requests[r].era \in Nat
      BY AdmittedTyped, ServerAssumption DEF ServerInv, AdmittedInv, RequestsFormed, Formed
    <3>3. OnlyOpened'
      BY <3>1, <3>2 DEF OnlyOpened, Opened, At
    <3>4. Admitted(era, limiter.resetAt)' = {}
      BY <3>1, <3>2 DEF Admitted, Left, Pending, At
    <3>5. \A e, w \in Nat : Admitted(e, w)' \subseteq Admitted(e, w)
      BY <3>1 DEF Admitted, Left, Pending, At
    <3>6. EachWithinLimit'
      <4> SUFFICES ASSUME NEW e \in Nat, NEW w \in Nat
                   PROVE  IsFiniteSet(Admitted(e, w)') /\ Cardinality(Admitted(e, w)') <= BeginLimit
        BY DEF EachWithinLimit
      <4>1. IsFiniteSet(Admitted(e, w)) /\ Cardinality(Admitted(e, w)) <= BeginLimit
        BY <3>2 DEF EachWithinLimit
      <4>2. /\ IsFiniteSet(Admitted(e, w)') /\ Cardinality(Admitted(e, w)') <= Cardinality(Admitted(e, w))
            /\ Cardinality(Admitted(e, w)') \in Nat /\ Cardinality(Admitted(e, w)) \in Nat
        BY <3>5, <4>1, Fewer
      <4> QED
        BY <3>2, <4>1, <4>2
    <3>7. RunningCounted'
      BY <3>1, <3>2, <3>4, FS_EmptySet DEF RunningCounted
    <3> QED
      BY <3>3, <3>6, <3>7
  <2>6. CASE Tick \/ UNCHANGED serverVars
    BY <2>3, <2>6 DEF Tick, serverVars, store
  <2> QED
    BY <2>1, <2>2, <2>4, <2>5, <2>6 DEF ServerNext
<1>3. AdmittedInv /\ ServerInv => BeginsBounded
  <2> SUFFICES ASSUME AdmittedInv, ServerInv, BeginLimit > 0,
                      NEW s \in Sessions, sessions[s].status # "none",
                      NEW Same, Same = {z \in Sessions : sessions[z].status # "none" /\ SameWindow(s, z)}
               PROVE  Cardinality(Same) <= BeginLimit
    BY DEF BeginsBounded
  <2>1. PICK e \in Nat, w \in Nat : e = sessions[s].era /\ w = sessions[s].window
    BY AdmittedTyped DEF ServerInv
  <2>2. IsFiniteSet(Admitted(e, w)) /\ Cardinality(Admitted(e, w)) <= BeginLimit
    BY DEF AdmittedInv, EachWithinLimit
  <2>3. Same \subseteq Admitted(e, w)
    BY <2>1 DEF SameWindow, Admitted, Left
  <2>4. /\ Cardinality(Same) <= Cardinality(Admitted(e, w))
        /\ Cardinality(Same) \in Nat /\ Cardinality(Admitted(e, w)) \in Nat
    BY <2>2, <2>3, Fewer
  <2> QED
    BY <2>2, <2>4, ServerAssumption
<1> QED
  BY <1>1, <1>2, <1>3, ServerInvariant, PTL DEF ServerSpec

(***************************************************************************)
(* The types of the server's state hold for ever: its store, the requests in *)
(* flight and the counters (ServerTypeOK).                                   *)
(***************************************************************************)
THEOREM ServerTyped == ServerSpec => []ServerTypeOK
  BY ServerInvariant, PTL DEF ServerInv

(***************************************************************************)
(* The replay guard of do.ts:71 (burnJti) holds however many requests       *)
(* present a token at once: one consent per token between two resets.        *)
(***************************************************************************)
THEOREM TokensMintOnce == ServerSpec => []TokenMintsOnce
  BY ServerInvariant, PTL DEF ServerInv, TokensHeld

(***************************************************************************)
(* The events of do.ts account for the status of every consent, with never   *)
(* a second expiry or grant (touchExpiry, revokeConsent, appendEvent).       *)
(***************************************************************************)
THEOREM LedgerAlwaysAccounts == ServerSpec => []LedgerAccounts
  BY ServerInvariant, PTL DEF ServerInv, LedgerHeld
----------------------------------------------------------------------------
\* the one step that can touch a consent in place: its own, or the write of a new one
LEMMA ConsentMoves ==
    ASSUME ServerInv, ServerNext
    PROVE  \/ UNCHANGED consents
           \/ era' # era
           \/ \E r \in Requests : VerifyPuts(r)
           \/ \E id \in Ids : /\ consents[id].status = "active"
                              /\ consents' = [consents EXCEPT ![id] = [@ EXCEPT !.status = "expired"]]
           \/ \E id \in Ids : /\ Exists(id) /\ consents[id].status # "revoked"
                              /\ consents' = [consents EXCEPT ![id].status = "revoked"]
<1>1. ASSUME NEW id \in Ids, TouchExpiry(id)
      PROVE  \/ UNCHANGED consents
             \/ /\ consents[id].status = "active"
                /\ consents' = [consents EXCEPT ![id] = [@ EXCEPT !.status = "expired"]]
  BY <1>1 DEF TouchExpiry, Touched, Overdue, ServerInv, ServerTypeOK
<1>2. ASSUME NEW id \in Ids, Revoke(id)
      PROVE  \/ UNCHANGED consents
             \/ /\ Exists(id) /\ consents[id].status # "revoked"
                /\ consents' = [consents EXCEPT ![id].status = "revoked"]
  BY <1>2 DEF Revoke, AlreadyRevoked
<1>3. ASSUME NEW r \in Requests, Begin(r) PROVE UNCHANGED consents
  BY <1>3 DEF Begin, BeginStarts, BeginCreates, BeginRefused, store
<1>4. ASSUME NEW r \in Requests, Verify(r) \/ Deny(r) \/ RequestDies(r), ~VerifyPuts(r)
      PROVE  UNCHANGED consents
  BY <1>4 DEF Verify, VerifyStarts, VerifyBurns, VerifyMarks, VerifyLogs, Deny, DenyStarts, DenyMarks,
     DenyLogs, RequestDies, store
<1>5. ASSUME NEW id \in Ids, OnConsent(id) PROVE TouchExpiry(id) \/ Revoke(id)
  BY <1>5 DEF OnConsent, Check, ViewReceipt
<1>6. CASE Reset
  BY <1>6, ServerAssumption DEF Reset, ServerInv, ServerTypeOK
<1>7. CASE Tick
  BY <1>7 DEF Tick, store
<1> QED
  BY <1>1, <1>2, <1>3, <1>4, <1>5, <1>6, <1>7 DEF ServerNext

(***************************************************************************)
(* Nothing ever un-revokes a consent: no lazy expiry, no late grant of a     *)
(* request that was under way, no second revoke (do.ts:91 and :105).          *)
(***************************************************************************)
THEOREM RevokedStaysRevoked == ServerSpec => RevokedIsFinal
<1>1. ASSUME ServerInv, [ServerNext]_serverVars, NEW id \in Ids, consents[id].status = "revoked"
      PROVE  consents'[id].status = "revoked" \/ era' # era
  <2>1. CASE UNCHANGED consents
    BY <1>1, <2>1
  <2>2. ASSUME NEW r \in Requests, VerifyPuts(r) PROVE consents'[id] = consents[id]
    <3>1. minted \in Nat
      BY <1>1, ServerAssumption DEF ServerInv, ServerTypeOK
    <3>2. ~(id > minted)
      <4>1. id > minted => consents[id].status = "none"
        BY <1>1 DEF ServerInv, UnmintedBlank, NoConsent
      <4> QED
        BY <1>1, <4>1
    <3>3. id # minted + 1
      BY <3>1, <3>2
    <3> QED
      BY <1>1, <2>2, <3>3 DEF VerifyPuts, ServerInv, ServerTypeOK
  <2>3. ASSUME NEW i \in Ids, consents[i].status = "active",
               consents' = [consents EXCEPT ![i] = [@ EXCEPT !.status = "expired"]]
        PROVE  consents'[id] = consents[id]
    BY <1>1, <2>3 DEF ServerInv, ServerTypeOK
  <2>4. ASSUME NEW i \in Ids, consents[i].status # "revoked",
               consents' = [consents EXCEPT ![i].status = "revoked"]
        PROVE  consents'[id] = consents[id]
    BY <1>1, <2>4 DEF ServerInv, ServerTypeOK
  <2>5. CASE UNCHANGED serverVars
    BY <2>1, <2>5 DEF serverVars, store
  <2> QED
    BY <1>1, <2>1, <2>2, <2>3, <2>4, <2>5, ConsentMoves
<1>2. ServerInv /\ [ServerNext]_serverVars =>
        [\A id \in Ids : consents[id].status = "revoked" =>
            consents'[id].status = "revoked" \/ era' # era]_serverVars
  BY <1>1
<1> QED
  BY <1>2, ServerInvariant, PTL DEF ServerSpec, RevokedIsFinal
----------------------------------------------------------------------------
\* Life, of a given store
LifeIn(cs, spent, t) ==
    IF \E id \in Ids : cs[id].token = t
    THEN cs[CHOOSE id \in Ids : cs[id].token = t].status
    ELSE IF t \in spent THEN "spent" ELSE "unused"

LEMMA LifeUngranted ==
    ASSUME NEW cs, NEW spent, NEW t, \A id \in Ids : cs[id].token # t
    PROVE  LifeIn(cs, spent, t) = IF t \in spent THEN "spent" ELSE "unused"
  BY DEF LifeIn

LEMMA LifeGranted ==
    ASSUME NEW cs, NEW spent, NEW t, NEW id \in Ids, cs[id].token = t,
           \A i \in Ids : cs[i].token = t => i = id
    PROVE  LifeIn(cs, spent, t) = cs[id].status
  BY DEF LifeIn

LEMMA LifeNow == \A t \in Tokens : /\ Life(t) = LifeIn(consents, burned, t)
                                   /\ Life(t)' = LifeIn(consents', burned', t)
  BY DEF Life, LifeIn

(***************************************************************************)
(* Without resets there is one era, and so one holder of a token at most.    *)
(***************************************************************************)
LEMMA OneEra ==
    ASSUME MaxResets = 0, ServerInv
    PROVE  /\ \A i, j \in Ids : Exists(i) /\ Exists(j) /\ consents[i].token = consents[j].token => i = j
           /\ \A id \in Ids : Exists(id) <=> consents[id].token \in Tokens
           /\ \A id \in Ids : Exists(id) => consents[id].token \in burned
           /\ \A id \in Ids, r \in Requests : At(r, "put") /\ Exists(id)
                 => consents[id].token # requests[r].token
           /\ \A r \in Requests : At(r, "put") => requests[r].token \in burned
<1>1. \A id \in Ids : Exists(id) => consents[id].era = 0
  BY DEF Exists, NoConsent, Consents, ServerInv, ServerTypeOK
<1>2. era = 0 /\ \A r \in Requests : requests[r].era = 0
  BY DEF RequestStates, ServerInv, ServerTypeOK
<1>3. \A id \in Ids : Exists(id) <=> consents[id].token \in Tokens
  BY ServerAssumption DEF Exists, NoConsent, Consents, ServerInv, ServerTypeOK
<1> QED
  BY <1>1, <1>2, <1>3 DEF ServerInv, TokensHeld, TokenMintsOnce, HeldByNoConsent, HoldersBurned

LEMMA LifeStays ==
    ASSUME consents' = consents, burned' = burned, acted' = NoToken
    PROVE  LifeOf!Rest
  BY DEF LifeOf!Rest, Life

LEMMA LifeMoves ==
    ASSUME NEW t \in Tokens, NEW old, NEW new, Life(t) = old, Life(t)' = new, acted' = NoToken,
           \A u \in Tokens : u # t => Life(u)' = Life(u)
    PROVE  LifeOf!Becomes(t, old, new)
  BY DEF LifeOf!Becomes

\* burnJti spends a token
LEMMA BurnSpends ==
    ASSUME MaxResets = 0, ServerInv, NEW r \in Requests, VerifyBurns(r)
    PROVE  LifeOf!LifeNext
<1>1. PICK t \in Tokens : t = requests[r].token
  BY DEF VerifyBurns, At, ServerInv, RequestsFormed, Formed
<1>4. acted' = NoToken /\ consents' = consents
  BY DEF VerifyBurns
<1>2. CASE t \in burned
  BY <1>1, <1>2, <1>4, LifeStays DEF VerifyBurns, Unburned, LifeOf!LifeNext
<1>3. CASE t \notin burned
  <2>1. burned' = burned \union {t}
    BY <1>1, <1>3 DEF VerifyBurns, Unburned
  <2>2. \A id \in Ids : consents[id].token # t
    BY <1>1, <1>3, OneEra
  <2>3. Life(t) = "unused" /\ Life(t)' = "spent"
    <3>1. \A id \in Ids : consents'[id].token # t
      BY <1>4, <2>2
    <3>2. LifeIn(consents, burned, t) = "unused"
      BY <1>3, <2>2, LifeUngranted
    <3>3. LifeIn(consents', burned', t) = "spent"
      BY <2>1, <3>1, LifeUngranted
    <3> QED
      BY <3>2, <3>3, LifeNow
  <2>4. \A u \in Tokens : u # t => Life(u)' = Life(u)
    BY <1>4, <2>1 DEF Life
  <2>5. LifeOf!Becomes(t, "unused", "spent")
    BY <1>4, <2>3, <2>4, LifeMoves
  <2> QED
    BY <1>1, <2>5 DEF LifeOf!LifeNext
<1> QED
  BY <1>2, <1>3

\* putConsent grants it
LEMMA PutGrants ==
    ASSUME MaxResets = 0, ServerInv, NEW r \in Requests, VerifyPuts(r)
    PROVE  LifeOf!LifeNext
<1>1. PICK t \in Tokens : t = requests[r].token
  BY DEF VerifyPuts, At, ServerInv, RequestsFormed, Formed
<1>0. PICK rec : rec = Granted(requests[r])
  OBVIOUS
<1>2. PICK new \in Ids : /\ new > minted /\ rec.token = t /\ rec.status = "active"
                         /\ consents' = [consents EXCEPT ![new] = rec]
  <2>1. minted + 1 \in Ids /\ minted + 1 > minted
    BY ServerAssumption DEF VerifyPuts, Ids, ServerInv, ServerTypeOK
  <2>2. rec.token = t /\ rec.status = "active"
    BY <1>0, <1>1 DEF Granted
  <2> QED
    BY <1>0, <2>1, <2>2 DEF VerifyPuts
<1>3. At(r, "put") /\ acted' = NoToken /\ burned' = burned
  BY DEF VerifyPuts
<1>4. \A id \in Ids : consents'[id] = IF id = new THEN rec ELSE consents[id]
  BY <1>2 DEF ServerInv, ServerTypeOK
<1>5. t \in burned /\ \A id \in Ids : consents[id].token # t
  BY <1>1, <1>3, OneEra
<1>6. consents[new].token = NoToken
  BY <1>2 DEF ServerInv, UnmintedBlank, NoConsent
<1>7. Life(t) = "spent"
  BY <1>5, LifeNow, LifeUngranted
<1>8. Life(t)' = "active"
  <2>1. consents'[new].token = t /\ consents'[new].status = "active"
    BY <1>2, <1>4
  <2>2. \A i \in Ids : consents'[i].token = t => i = new
    BY <1>4, <1>5
  <2>3. LifeIn(consents', burned', t) = consents'[new].status
    BY <2>1, <2>2, LifeGranted
  <2> QED
    BY <2>1, <2>3, LifeNow
<1>9. ASSUME NEW u \in Tokens, u # t PROVE Life(u)' = Life(u)
  <2>1. \A id \in Ids : consents'[id].token = u <=> consents[id].token = u
    BY <1>2, <1>4, <1>6, <1>9, ServerAssumption
  <2>2. CASE \A id \in Ids : consents[id].token # u
    <3>1. LifeIn(consents', burned', u) = IF u \in burned' THEN "spent" ELSE "unused"
      BY <2>1, <2>2, LifeUngranted
    <3>2. LifeIn(consents, burned, u) = IF u \in burned THEN "spent" ELSE "unused"
      BY <2>2, LifeUngranted
    <3> QED
      BY <1>3, <3>1, <3>2, LifeNow
  <2>3. ASSUME NEW id \in Ids, consents[id].token = u PROVE Life(u)' = Life(u)
    <3>1. \A i \in Ids : consents[i].token = u => i = id
      BY <2>3, OneEra
    <3>2. LifeIn(consents, burned, u) = consents[id].status
      BY <2>3, <3>1, LifeGranted
    <3>3. LifeIn(consents', burned', u) = consents'[id].status
      BY <2>1, <2>3, <3>1, LifeGranted
    <3>4. consents'[id] = consents[id]
      BY <1>4, <1>6, <2>3, ServerAssumption
    <3> QED
      BY <3>2, <3>3, <3>4, LifeNow
  <2> QED
    BY <2>2, <2>3
<1>10. LifeOf!Becomes(t, "spent", "active")
  BY <1>3, <1>7, <1>8, <1>9, LifeMoves
<1> QED
  BY <1>10 DEF LifeOf!LifeNext

\* the one change is the status of a consent
Restated(id, new) == consents' = [consents EXCEPT ![id] = [@ EXCEPT !.status = new]]

\* a consent that changes its status moves the life of its token and no other
LEMMA StatusMovesLife ==
    ASSUME MaxResets = 0, ServerInv, NEW id \in Ids, Exists(id),
           NEW old, consents[id].status = old, NEW new,
           Restated(id, new), burned' = burned, acted' = NoToken
    PROVE  \E t \in Tokens : LifeOf!Becomes(t, old, new)
<1>1. PICK t \in Tokens : t = consents[id].token
  BY OneEra
<1>2. consents[id] \in Consents
  BY DEF Exists, NoConsent, ServerInv, ServerTypeOK
<1>3. /\ consents'[id].status = new /\ consents'[id].token = t
      /\ \A i \in Ids : i # id => consents'[i] = consents[i]
  BY <1>1, <1>2 DEF Restated, Consents, ServerInv, ServerTypeOK
<1>4. \A i \in Ids : consents'[i].token = consents[i].token
  BY <1>1, <1>3
<1>5. \A i \in Ids : consents[i].token = t => i = id
  BY <1>1, OneEra
<1>6. Life(t) = old /\ Life(t)' = new
  <2>1. LifeIn(consents, burned, t) = consents[id].status
    BY <1>1, <1>5, LifeGranted
  <2>2. consents'[id].token = t /\ \A i \in Ids : consents'[i].token = t => i = id
    BY <1>3, <1>4, <1>5
  <2>3. LifeIn(consents', burned', t) = consents'[id].status
    BY <2>2, LifeGranted
  <2> QED
    BY <1>3, <2>1, <2>3, LifeNow
<1>7. ASSUME NEW u \in Tokens, u # t PROVE Life(u)' = Life(u)
  <2>1. CASE \A i \in Ids : consents[i].token # u
    <3>1. LifeIn(consents', burned', u) = IF u \in burned' THEN "spent" ELSE "unused"
      BY <1>4, <2>1, LifeUngranted
    <3>2. LifeIn(consents, burned, u) = IF u \in burned THEN "spent" ELSE "unused"
      BY <2>1, LifeUngranted
    <3> QED
      BY <3>1, <3>2, LifeNow
  <2>2. ASSUME NEW j \in Ids, consents[j].token = u PROVE Life(u)' = Life(u)
    <3>1. \A i \in Ids : consents[i].token = u => i = j
      BY <2>2, OneEra
    <3>2. LifeIn(consents, burned, u) = consents[j].status
      BY <2>2, <3>1, LifeGranted
    <3>3. LifeIn(consents', burned', u) = consents'[j].status
      BY <1>4, <2>2, <3>1, LifeGranted
    <3>4. consents'[j] = consents[j]
      BY <1>1, <1>3, <1>7, <2>2
    <3> QED
      BY <3>2, <3>3, <3>4, LifeNow
  <2> QED
    BY <2>1, <2>2
<1>8. LifeOf!Becomes(t, old, new)
  BY <1>6, <1>7, LifeMoves
<1> QED
  BY <1>8

\* a call about a consent expires it, revokes it, acts on it, or does nothing
LEMMA ConsentCallMovesLife ==
    ASSUME MaxResets = 0, ServerInv, NEW id \in Ids, OnConsent(id)
    PROVE  LifeOf!LifeNext
<1>1. Exists(id) /\ burned' = burned
  BY DEF OnConsent, Check, ViewReceipt, Revoke
<1>2. ASSUME TouchExpiry(id), acted' = NoToken PROVE LifeOf!LifeNext
  <2>1. CASE Overdue(id)
    <3>1. consents[id].status = "active"
          /\ consents' = [consents EXCEPT ![id] = [@ EXCEPT !.status = "expired"]]
      BY <1>2, <2>1 DEF TouchExpiry, Touched, Overdue
    <3>2. \E t \in Tokens : LifeOf!Becomes(t, "active", "expired")
      BY <1>1, <1>2, <3>1, StatusMovesLife DEF Restated
    <3> QED
      BY <3>2 DEF LifeOf!LifeNext
  <2>2. CASE ~Overdue(id)
    BY <1>1, <1>2, <2>2, LifeStays DEF TouchExpiry, Touched, ServerInv, ServerTypeOK, LifeOf!LifeNext
  <2> QED
    BY <2>1, <2>2
<1>3. ASSUME NEW t \in Tokens, NEW agent \in Agents, NEW action \in Actions,
             Check(id, t, agent, action), acted' # NoToken
      PROVE  LifeOf!LifeNext
  <2>1. /\ acted' = t /\ consents[id].token = t /\ consents[id] \in Consents
        /\ Touched(id).status = "active" /\ TouchExpiry(id)
    BY <1>1, <1>3 DEF Check, Authorizes, Exists, NoConsent, ServerInv, ServerTypeOK
  <2>2. ~Overdue(id) /\ consents[id].status = "active"
    BY <2>1 DEF Touched, Consents
  <2>3. consents' = consents
    BY <2>1, <2>2 DEF TouchExpiry, Touched, ServerInv, ServerTypeOK
  <2>4. \A i \in Ids : consents[i].token = t => i = id
    BY <1>1, <2>1, OneEra
  <2>5. Life(t) = "active"
    BY <2>1, <2>2, <2>4, LifeNow, LifeGranted
  <2>6. \A u \in Tokens : Life(u)' = Life(u)
    BY <1>1, <2>3 DEF Life
  <2>7. LifeOf!Act(t)
    BY <2>1, <2>5, <2>6 DEF LifeOf!Act
  <2> QED
    BY <2>7 DEF LifeOf!LifeNext
<1>4. CASE Revoke(id)
  <2>1. CASE AlreadyRevoked(id)
    BY <1>1, <1>4, <2>1, LifeStays DEF Revoke, LifeOf!LifeNext
  <2>2. CASE ~AlreadyRevoked(id)
    <3>1. /\ consents' = [consents EXCEPT ![id] = [@ EXCEPT !.status = "revoked"]]
          /\ acted' = NoToken
      BY <1>4, <2>2 DEF Revoke
    <3>2. consents[id].status \in {"active", "expired"}
      BY <1>1, <2>2 DEF AlreadyRevoked, Exists, Consents, NoConsent, ServerInv, ServerTypeOK
    <3>3. PICK old \in {"active", "expired"} : consents[id].status = old
      BY <3>2
    <3>4. \E t \in Tokens : LifeOf!Becomes(t, old, "revoked")
      BY <1>1, <3>1, <3>3, StatusMovesLife DEF Restated
    <3> QED
      BY <3>3, <3>4 DEF LifeOf!LifeNext
  <2> QED
    BY <2>1, <2>2
<1> QED
  BY <1>2, <1>3, <1>4 DEF OnConsent, Check, ViewReceipt

(***************************************************************************)
(* Without admin resets the server keeps the promise of ConsentLife: a token *)
(* is spent once, granted at most once, authorises actions only while its    *)
(* consent is active, and is revoked for good.                               *)
(***************************************************************************)
THEOREM ServerImplementsLife ==
    ASSUME MaxResets = 0 PROVE ServerSpec => ImplementsLife
<1>1. ServerInit => LifeOf!LifeInit
  <2> SUFFICES ASSUME ServerInit PROVE LifeOf!LifeInit
    OBVIOUS
  <2>1. burned = {} /\ acted = NoToken /\ \A id \in Ids : consents[id].token = NoToken
    BY DEF ServerInit, EmptyStore, NoConsent
  <2>2. \A t \in Tokens : Life(t) = "unused"
    BY <2>1, ServerAssumption DEF Life
  <2> QED
    BY <2>1, <2>2 DEF LifeOf!LifeInit
<1>2. ServerInv /\ [ServerNext]_serverVars => [LifeOf!LifeNext]_(LifeOf!lifeVars)
  <2> SUFFICES ASSUME ServerInv, [ServerNext]_serverVars
               PROVE  [LifeOf!LifeNext]_(LifeOf!lifeVars)
    OBVIOUS
  <2>1. ASSUME NEW r \in Requests, Begin(r) PROVE LifeOf!LifeNext
    BY <2>1, LifeStays DEF Begin, BeginStarts, BeginCreates, BeginRefused, store, LifeOf!LifeNext
  <2>2. ASSUME NEW r \in Requests, Verify(r) PROVE LifeOf!LifeNext
    <3>1. CASE VerifyBurns(r)
      BY <3>1, BurnSpends
    <3>2. CASE VerifyPuts(r)
      BY <3>2, PutGrants
    <3>3. CASE \/ \E t \in Tokens, s \in Sessions, scope \in Scopes : VerifyStarts(r, t, s, scope)
               \/ VerifyMarks(r) \/ VerifyLogs(r)
      BY <3>3, LifeStays DEF VerifyStarts, VerifyMarks, VerifyLogs, store, LifeOf!LifeNext
    <3> QED
      BY <2>2, <3>1, <3>2, <3>3 DEF Verify
  <2>3. ASSUME NEW r \in Requests, Deny(r) \/ RequestDies(r) PROVE LifeOf!LifeNext
    BY <2>3, LifeStays DEF Deny, DenyStarts, DenyMarks, DenyLogs, RequestDies, store, LifeOf!LifeNext
  <2>4. ASSUME NEW id \in Ids, OnConsent(id) PROVE LifeOf!LifeNext
    BY <2>4, ConsentCallMovesLife
  <2>5. ~Reset
    BY ServerAssumption DEF Reset, ServerInv, ServerTypeOK
  <2>6. CASE Tick
    BY <2>6, LifeStays DEF Tick, store, LifeOf!LifeNext
  <2>7. CASE UNCHANGED serverVars
    BY <2>7 DEF serverVars, store, Life, LifeOf!lifeVars
  <2> QED
    BY <2>1, <2>2, <2>3, <2>4, <2>5, <2>6, <2>7 DEF ServerNext
<1> QED
  BY <1>1, <1>2, ServerInvariant, PTL DEF ServerSpec, ImplementsLife, LifeOf!LifeSpec
=============================================================================
