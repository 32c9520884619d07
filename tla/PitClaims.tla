----------------------------- MODULE PitClaims -----------------------------
(***************************************************************************)
(* POST /aqua/claim of the pit-intake worker, with a verified token of a     *)
(* human: read the human's slot, send claimSlot, wait for the receipt, read  *)
(* the slot again.  Requests of one human overlap; the RPC may answer from   *)
(* a node that is behind; a transaction may be mined after the worker gave   *)
(* up on it, reverted (which the wait does not mind), or replaced by one of  *)
(* the same nonce.  The limiter is the one of PitIntake and only bounds how  *)
(* many claims come.                                                        *)
(***************************************************************************)
EXTENDS PoolGuard

CONSTANTS Claims, NoHuman, MaxTxs      \* bound: transactions of a behaviour

ASSUME ClaimsAssumption == NoHuman \notin Humans /\ MaxTxs \in Nat

Txs == 1 .. MaxTxs

VARIABLES
    claims,     \* the requests: [at, human, tx, index]
    txs         \* transaction -> [human, nonce, status]

claimVars == <<guardVars, claims, txs>>

NoClaim == [at |-> "idle", human |-> NoHuman, tx |-> 0, index |-> 0]
NoTx == [human |-> NoHuman, nonce |-> 0, status |-> "none"]

ClaimsInit ==
    /\ GuardInit
    /\ claims = [c \in Claims |-> NoClaim]
    /\ txs = [t \in Txs |-> NoTx]

\* what a node may answer for slotOf: the slot, or none while it is behind
SlotOf(h) == {slots[h], 0}

Fails(c) == claims' = [claims EXCEPT ![c].at = "failed"]
Answers(c, i) == claims' = [claims EXCEPT ![c].at = "ok", ![c].index = i]
----------------------------------------------------------------------------
\* the first read: a slot it sees is the answer
ClaimReads(c, h) ==
    /\ claims[c].at = "idle"
    /\ \E i \in SlotOf(h) :
          claims' = [claims EXCEPT ![c] =
              [at |-> IF i = 0 THEN "sending" ELSE "ok", human |-> h, tx |-> 0, index |-> i]]
    /\ UNCHANGED <<guardVars, txs>>

\* writeContract throws: no node, a nonce taken, or an estimate on a claimed slot
SendFails(c) ==
    /\ claims[c].at = "sending"
    /\ Fails(c)
    /\ UNCHANGED <<guardVars, txs>>

\* writeContract estimates on a node that shows no slot, and sends; the nonce may be one a
\* pending transaction has, which this one then replaces
Sends(c) ==
    /\ claims[c].at = "sending"
    /\ 0 \in SlotOf(claims[c].human)
    /\ \E t \in Txs :
        /\ txs[t].status = "none" /\ \A u \in 1 .. t - 1 : txs[u].status # "none"
        /\ \E nonce \in {t} \union {txs[u].nonce : u \in {v \in Txs : txs[v].status = "pending"}} :
              txs' = [u \in Txs |->
                  IF u = t THEN [human |-> claims[c].human, nonce |-> nonce, status |-> "pending"]
                  ELSE IF txs[u].nonce = nonce THEN [txs[u] EXCEPT !.status = "replaced"]
                  ELSE txs[u]]
        /\ claims' = [claims EXCEPT ![c].at = "waiting", ![c].tx = t]
    /\ UNCHANGED guardVars

\* a block takes the transaction, in the order of nonces: it claims the slot or reverts
Mines(t) ==
    /\ txs[t].status = "pending"
    /\ \A u \in Txs : txs[u].status = "pending" => txs[t].nonce <= txs[u].nonce
    /\ IF Claimable(txs[t].human)
       THEN ClaimSlot(txs[t].human) /\ txs' = [txs EXCEPT ![t].status = "mined"]
       ELSE UNCHANGED guardVars /\ txs' = [txs EXCEPT ![t].status = "reverted"]
    /\ UNCHANGED claims

\* the wait resolves with the receipt of whatever took the nonce
Settled(t) == \E u \in Txs : txs[u].nonce = txs[t].nonce /\ txs[u].status \in {"mined", "reverted"}

WaitEnds(c) ==
    /\ claims[c].at = "waiting"
    /\ \/ Settled(claims[c].tx) /\ claims' = [claims EXCEPT ![c].at = "reading"]
       \/ Fails(c)      \* 60 seconds, or the node does not answer
    /\ UNCHANGED <<guardVars, txs>>

\* the second read is answered whatever it says, and whatever the receipt says
Reads(c) ==
    /\ claims[c].at = "reading"
    /\ (\E i \in SlotOf(claims[c].human) : Answers(c, i)) \/ Fails(c)
    /\ UNCHANGED <<guardVars, txs>>

\* the human asks again with the same token: the slot is free for another request
Retries(c) ==
    /\ claims[c].at = "failed"
    /\ claims' = [claims EXCEPT ![c] = NoClaim]
    /\ UNCHANGED <<guardVars, txs>>

ClaimsNext ==
    \/ \E c \in Claims :
        \/ \E h \in Humans : ClaimReads(c, h)
        \/ SendFails(c) \/ Sends(c) \/ WaitEnds(c) \/ Reads(c) \/ Retries(c)
    \/ \E t \in Txs : Mines(t)

ClaimsSpec == ClaimsInit /\ [][ClaimsNext]_claimVars
----------------------------------------------------------------------------
ClaimsTypeOK ==
    /\ claims \in [Claims -> [at : {"idle", "sending", "waiting", "reading", "ok", "failed"},
                              human : Humans \union {NoHuman}, tx : 0 .. MaxTxs, index : Nat]]
    /\ txs \in [Txs -> [human : Humans \union {NoHuman}, nonce : 0 .. MaxTxs,
                        status : {"none", "pending", "mined", "reverted", "replaced"}]]
    /\ slots \in [Humans -> Nat] /\ slotCount \in Nat

(***************************************************************************)
(* "Same human, same slot" (index.ts:395): whatever requests overlap, fall   *)
(* to a timeout and are sent again, each human has at most one slot, slots   *)
(* are numbered without gaps, and a slot a request was ever answered is the  *)
(* one its human holds from then on.  (A request may be answered ok with no  *)
(* slot, index 0, when its second read met a node that is behind or its      *)
(* transaction was replaced or reverted: of such an answer nothing is said.) *)
(***************************************************************************)
ClaimsAreHonest ==
    /\ ClaimsTypeOK
    /\ SlotsAreNumbered
    /\ \A c \in Claims : claims[c].index # 0 => claims[c].index = slots[claims[c].human]
=============================================================================
