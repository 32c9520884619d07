--------------------------- MODULE ServicesProofs ---------------------------
(***************************************************************************)
(* Proofs about the edge of the launchpad: the claim of a slot, for any set  *)
(* of humans, overlapping requests and transactions; the screening of a      *)
(* payment, for any policy, scores and amounts; the launcher of a cohort,    *)
(* for any fee, buffer and number of tokens; and, below the lines, the badge *)
(* of the operator button, for any number of starts, cancels and callers,    *)
(* with the gate in front of the agents, for any requests and nullifiers;    *)
(* and the feeds and clips of the intake worker, for any pits, cap, limits   *)
(* and requests in flight.                                                   *)
(***************************************************************************)
EXTENDS PitClaims, PitIntake, Screening, CohortDeploy, WorldButton, IdkitGate,
        FiniteSetTheorems, SequenceTheorems, TLAPS

(***************************************************************************)
(* The contract keeps its numbering: one more holder, the next number.  This *)
(* is where the check of claimSlot is used.                                 *)
(***************************************************************************)
LEMMA ClaimSlotKeeps ==
    ASSUME SlotsAreNumbered, IsFiniteSet(Holders), slotCount \in Nat,
           NEW h \in Humans, ClaimSlot(h)
    PROVE  /\ SlotsAreNumbered' /\ IsFiniteSet(Holders') /\ slotCount' \in Nat
           /\ \A k \in Humans : slots[k] # 0 => slots'[k] = slots[k]
<1>1. /\ slots \in [Humans -> 0 .. slotCount] /\ slots[h] = 0
      /\ slotCount' = slotCount + 1 /\ slots' = [slots EXCEPT ![h] = slotCount + 1]
  BY DEF SlotsAreNumbered, ClaimSlot, Claimable, HasSlot
<1>2. slots' \in [Humans -> 0 .. slotCount']
  BY <1>1
<1>3. Holders' = Holders \union {h} /\ h \notin Holders
  BY <1>1 DEF Holders, HasSlot
<1>4. IsFiniteSet(Holders') /\ Cardinality(Holders') = Cardinality(Holders) + 1
  BY <1>3, FS_AddElement
<1>5. slotCount' = Cardinality(Holders')
  BY <1>1, <1>4 DEF SlotsAreNumbered
<1>6. ASSUME NEW j \in Holders', NEW k \in Holders', slots'[j] = slots'[k] PROVE j = k
  <2>1. \A m \in Holders : m # h /\ slots'[m] = slots[m] /\ slots'[m] < slotCount'
    BY <1>1, <1>3 DEF Holders
  <2>2. slots'[h] = slotCount'
    BY <1>1
  <2>3. (j \in Holders \/ j = h) /\ (k \in Holders \/ k = h)
    BY <1>3
  <2>4. \A m \in Holders : slots'[m] # slots'[h]
    BY <1>1, <2>1, <2>2
  <2> QED
    BY <1>6, <2>1, <2>3, <2>4 DEF SlotsAreNumbered
<1>7. \A k \in Humans : slots[k] # 0 => slots'[k] = slots[k]
  BY <1>1
<1>8. SlotsAreNumbered'
  BY <1>2, <1>5, <1>6 DEF SlotsAreNumbered
<1> QED
  BY <1>1, <1>4, <1>7, <1>8

(***************************************************************************)
(* The invariant: a request that was made is some human's, one that was not  *)
(* is blank, and a transaction under way claims for a human.                 *)
(***************************************************************************)
OwnedClaims ==
    \A c \in Claims : IF claims[c].at = "idle" THEN claims[c] = NoClaim ELSE claims[c].human \in Humans

OwnedTxs == \A t \in Txs : txs[t].status = "pending" => txs[t].human \in Humans

IndexIsHeld == \A c \in Claims : claims[c].index # 0 => claims[c].index = slots[claims[c].human]

ClaimsInv ==
    /\ ClaimsTypeOK /\ SlotsAreNumbered /\ IsFiniteSet(Holders)
    /\ IndexIsHeld /\ OwnedClaims /\ OwnedTxs

(***************************************************************************)
(* One request moves and the chain does not: enough to see that what the     *)
(* request holds afterwards is in order.                                    *)
(***************************************************************************)
LEMMA RequestKeeps ==
    ASSUME ClaimsInv, UNCHANGED guardVars, NEW c \in Claims,
           NEW claim \in [at : {"idle", "sending", "waiting", "reading", "ok", "failed"},
                          human : Humans \union {NoHuman}, tx : 0 .. MaxTxs, index : Nat],
           claims' = [claims EXCEPT ![c] = claim],
           claim = NoClaim \/ (claim.at # "idle" /\ claim.human \in Humans),
           claim.index # 0 => claim.index = slots[claim.human],
           txs' \in [Txs -> [human : Humans \union {NoHuman}, nonce : 0 .. MaxTxs,
                        status : {"none", "pending", "mined", "reverted", "replaced"}]],
           OwnedTxs'
    PROVE  ClaimsInv'
<1>1. slots' = slots /\ slotCount' = slotCount
  BY DEF guardVars
<1>2. ClaimsTypeOK'
  BY <1>1 DEF ClaimsInv, ClaimsTypeOK
<1>3. claims \in [Claims -> [at : {"idle", "sending", "waiting", "reading", "ok", "failed"},
                              human : Humans \union {NoHuman}, tx : 0 .. MaxTxs, index : Nat]]
  BY DEF ClaimsInv, ClaimsTypeOK
<1>4. SlotsAreNumbered' /\ IsFiniteSet(Holders')
  BY <1>1 DEF ClaimsInv, SlotsAreNumbered, Holders, HasSlot
<1>5. IndexIsHeld' /\ OwnedClaims'
  BY <1>1, <1>3 DEF ClaimsInv, IndexIsHeld, OwnedClaims, NoClaim
<1> QED
  BY <1>2, <1>4, <1>5 DEF ClaimsInv

LEMMA ClaimReadsKeeps ==
    ASSUME ClaimsInv, NEW c \in Claims, NEW h \in Humans, ClaimReads(c, h)
    PROVE  ClaimsInv'
<1>1. PICK i \in SlotOf(h) :
          claims' = [claims EXCEPT ![c] =
              [at |-> IF i = 0 THEN "sending" ELSE "ok", human |-> h, tx |-> 0, index |-> i]]
  BY DEF ClaimReads
<1> DEFINE place == IF i = 0 THEN "sending" ELSE "ok"
           claim == [at |-> place, human |-> h, tx |-> 0, index |-> i]
<1>2. i \in Nat /\ (i # 0 => i = slots[h])
  BY <1>1 DEF SlotOf, ClaimsInv, ClaimsTypeOK
<1>3. place \in {"sending", "ok"}
  OBVIOUS
<1>4. UNCHANGED guardVars /\ txs' = txs
  BY DEF ClaimReads, guardVars
<1> HIDE DEF place
<1>5. claim \in [at : {"idle", "sending", "waiting", "reading", "ok", "failed"},
             human : Humans \union {NoHuman}, tx : 0 .. MaxTxs, index : Nat]
      /\ claim.at # "idle" /\ claim.human \in Humans
      /\ (claim.index # 0 => claim.index = slots[claim.human])
  BY <1>2, <1>3, ClaimsAssumption
<1>6. OwnedTxs' /\ txs' \in [Txs -> [human : Humans \union {NoHuman}, nonce : 0 .. MaxTxs,
                        status : {"none", "pending", "mined", "reverted", "replaced"}]]
  BY <1>4 DEF ClaimsInv, ClaimsTypeOK, OwnedTxs
<1>7. claims' = [claims EXCEPT ![c] = claim]
  BY <1>1 DEF place
<1> HIDE DEF claim
<1> QED
  BY <1>4, <1>5, <1>6, <1>7, RequestKeeps

(***************************************************************************)
(* A request that fails, waits, is answered or is made again.                *)
(***************************************************************************)
LEMMA PlaceKeeps ==
    ASSUME ClaimsInv, UNCHANGED <<guardVars, txs>>, NEW c \in Claims, claims[c].at # "idle",
           NEW place \in {"sending", "waiting", "reading", "ok", "failed"},
           NEW i \in Nat, i # 0 => i = slots[claims[c].human],
           claims' = [claims EXCEPT ![c] = [claims[c] EXCEPT !.at = place, !.index = i]]
    PROVE  ClaimsInv'
<1> DEFINE claim == [claims[c] EXCEPT !.at = place, !.index = i]
<1>1. claims[c] \in [at : {"idle", "sending", "waiting", "reading", "ok", "failed"},
                     human : Humans \union {NoHuman}, tx : 0 .. MaxTxs, index : Nat]
      /\ claims[c].human \in Humans
  BY DEF ClaimsInv, ClaimsTypeOK, OwnedClaims
<1>2. claim \in [at : {"idle", "sending", "waiting", "reading", "ok", "failed"},
                 human : Humans \union {NoHuman}, tx : 0 .. MaxTxs, index : Nat]
      /\ claim.at # "idle" /\ claim.human = claims[c].human /\ claim.index = i
  BY <1>1
<1>3. OwnedTxs' /\ txs' \in [Txs -> [human : Humans \union {NoHuman}, nonce : 0 .. MaxTxs,
                        status : {"none", "pending", "mined", "reverted", "replaced"}]]
  BY DEF ClaimsInv, ClaimsTypeOK, OwnedTxs
<1>4. UNCHANGED guardVars
  BY DEF guardVars
<1> HIDE DEF claim
<1>5. claims' = [claims EXCEPT ![c] = claim]
  BY DEF claim
<1>6. (claim.at # "idle" /\ claim.human \in Humans)
      /\ (claim.index # 0 => claim.index = slots[claim.human])
  BY <1>1, <1>2
<1> QED
  BY <1>2, <1>3, <1>4, <1>5, <1>6, RequestKeeps

LEMMA FailsKeeps ==
    ASSUME ClaimsInv, UNCHANGED <<guardVars, txs>>, NEW c \in Claims, claims[c].at # "idle",
           NEW place \in {"sending", "waiting", "reading", "ok", "failed"},
           claims' = [claims EXCEPT ![c].at = place]
    PROVE  ClaimsInv'
<1>1. claims[c].index \in Nat /\ (claims[c].index # 0 => claims[c].index = slots[claims[c].human])
  BY DEF ClaimsInv, ClaimsTypeOK, IndexIsHeld
<1>2. claims' = [claims EXCEPT ![c] = [claims[c] EXCEPT !.at = place, !.index = claims[c].index]]
  BY DEF ClaimsInv, ClaimsTypeOK
<1> QED
  BY <1>1, <1>2, PlaceKeeps

(***************************************************************************)
(* A request sends its transaction, on a nonce of its own or of another.     *)
(***************************************************************************)
LEMMA SendsKeeps ==
    ASSUME ClaimsInv, NEW c \in Claims, Sends(c)
    PROVE  ClaimsInv'
<1>1. PICK t \in Txs : \E nonce \in {t} \union {txs[u].nonce : u \in {v \in Txs : txs[v].status = "pending"}} :
          /\ txs' = [u \in Txs |->
                  IF u = t THEN [human |-> claims[c].human, nonce |-> nonce, status |-> "pending"]
                  ELSE IF txs[u].nonce = nonce THEN [txs[u] EXCEPT !.status = "replaced"]
                  ELSE txs[u]]
          /\ txs[t].status = "none" /\ \A u \in 1 .. t - 1 : txs[u].status # "none"
          /\ claims' = [claims EXCEPT ![c].at = "waiting", ![c].tx = t]
  BY DEF Sends
<1>2. PICK nonce \in {t} \union {txs[u].nonce : u \in {v \in Txs : txs[v].status = "pending"}} :
          txs' = [u \in Txs |->
                  IF u = t THEN [human |-> claims[c].human, nonce |-> nonce, status |-> "pending"]
                  ELSE IF txs[u].nonce = nonce THEN [txs[u] EXCEPT !.status = "replaced"]
                  ELSE txs[u]]
  BY <1>1
<1>3. txs \in [Txs -> [human : Humans \union {NoHuman}, nonce : 0 .. MaxTxs,
                        status : {"none", "pending", "mined", "reverted", "replaced"}]]
      /\ claims \in [Claims -> [at : {"idle", "sending", "waiting", "reading", "ok", "failed"},
                              human : Humans \union {NoHuman}, tx : 0 .. MaxTxs, index : Nat]]
  BY DEF ClaimsInv, ClaimsTypeOK
<1>4. claims[c].at = "sending" /\ claims[c].human \in Humans /\ UNCHANGED guardVars
  BY DEF Sends, ClaimsInv, OwnedClaims
<1>5. nonce \in 0 .. MaxTxs /\ t \in 0 .. MaxTxs
  BY <1>2, <1>3, ClaimsAssumption DEF Txs
<1>6. OwnedTxs' /\ txs' \in [Txs -> [human : Humans \union {NoHuman}, nonce : 0 .. MaxTxs,
                        status : {"none", "pending", "mined", "reverted", "replaced"}]]
  <2> SUFFICES ASSUME NEW u \in Txs
               PROVE  /\ txs'[u] \in [human : Humans \union {NoHuman}, nonce : 0 .. MaxTxs,
                        status : {"none", "pending", "mined", "reverted", "replaced"}]
                      /\ txs'[u].status = "pending" => txs'[u].human \in Humans
    BY <1>2 DEF OwnedTxs
  <2>1. CASE u = t
    BY <2>1, <1>2, <1>4, <1>5
  <2>2. CASE u # t /\ txs[u].nonce = nonce
    BY <2>2, <1>2, <1>3
  <2>3. CASE u # t /\ txs[u].nonce # nonce
    BY <2>3, <1>2, <1>3 DEF ClaimsInv, OwnedTxs
  <2> QED
    BY <2>1, <2>2, <2>3
<1> DEFINE claim == [claims[c] EXCEPT !.at = "waiting", !.tx = t]
<1>7. /\ claim \in [at : {"idle", "sending", "waiting", "reading", "ok", "failed"},
                    human : Humans \union {NoHuman}, tx : 0 .. MaxTxs, index : Nat]
      /\ claim.at = "waiting" /\ claim.human = claims[c].human /\ claim.index = claims[c].index
  BY <1>3, <1>5
<1>8. claim.index # 0 => claim.index = slots[claim.human]
  BY <1>7 DEF ClaimsInv, IndexIsHeld
<1>9. claims' = [claims EXCEPT ![c] = claim]
  BY <1>1, <1>3
<1> HIDE DEF claim
<1> QED
  BY <1>4, <1>6, <1>7, <1>8, <1>9, RequestKeeps

(***************************************************************************)
(* A block takes a transaction: a slot is claimed once, and no request was   *)
(* ever answered a slot for a human that had none.                          *)
(***************************************************************************)
LEMMA MinesKeeps ==
    ASSUME ClaimsInv, NEW t \in Txs, Mines(t)
    PROVE  ClaimsInv'
<1>1. txs[t].status = "pending" /\ txs[t].human \in Humans /\ claims' = claims
  BY DEF Mines, ClaimsInv, OwnedTxs
<1>2. txs \in [Txs -> [human : Humans \union {NoHuman}, nonce : 0 .. MaxTxs,
                        status : {"none", "pending", "mined", "reverted", "replaced"}]]
      /\ slots \in [Humans -> Nat] /\ slotCount \in Nat
  BY DEF ClaimsInv, ClaimsTypeOK
<1>3. \/ txs' = [txs EXCEPT ![t].status = "mined"]
      \/ txs' = [txs EXCEPT ![t].status = "reverted"]
  BY DEF Mines
<1>4. txs' \in [Txs -> [human : Humans \union {NoHuman}, nonce : 0 .. MaxTxs,
                        status : {"none", "pending", "mined", "reverted", "replaced"}]]
      /\ OwnedTxs'
  BY <1>1, <1>2, <1>3 DEF ClaimsInv, OwnedTxs
<1>5. CASE Claimable(txs[t].human)
  <2>1. ClaimSlot(txs[t].human)
    BY <1>5 DEF Mines
  <2>2. /\ SlotsAreNumbered' /\ IsFiniteSet(Holders') /\ slotCount' \in Nat
        /\ \A k \in Humans : slots[k] # 0 => slots'[k] = slots[k]
    BY <1>1, <1>2, <2>1, ClaimSlotKeeps DEF ClaimsInv
  <2>3. slots' \in [Humans -> Nat]
    BY <2>2 DEF SlotsAreNumbered
  <2>4. ASSUME NEW c \in Claims, claims[c].index # 0 PROVE claims[c].index = slots'[claims[c].human]
    <3>1. claims[c].human \in Humans
      BY <2>4 DEF ClaimsInv, OwnedClaims, NoClaim
    <3> QED
      BY <3>1, <2>2, <2>4 DEF ClaimsInv, IndexIsHeld
  <2> QED
    BY <1>1, <1>4, <2>2, <2>3, <2>4 DEF ClaimsInv, ClaimsTypeOK, IndexIsHeld, OwnedClaims
<1>6. CASE ~Claimable(txs[t].human)
  <2>1. slots' = slots /\ slotCount' = slotCount
    BY <1>6 DEF Mines, guardVars
  <2> QED
    BY <1>1, <1>4, <2>1 DEF ClaimsInv, ClaimsTypeOK, IndexIsHeld, OwnedClaims, SlotsAreNumbered,
       Holders, HasSlot
<1> QED
  BY <1>5, <1>6

(***************************************************************************)
(* A request that is answered a slot is answered the one its human holds,    *)
(* and a human holds one at most, whatever requests of whatever humans       *)
(* overlap, time out or are sent again.                                     *)
(***************************************************************************)
THEOREM ClaimsAreHonestAlways == ClaimsSpec => []ClaimsAreHonest
<1>1. ClaimsInit => ClaimsInv
  <2> SUFFICES ASSUME ClaimsInit PROVE ClaimsInv
    OBVIOUS
  <2>1. Holders = {} /\ IsFiniteSet(Holders) /\ Cardinality(Holders) = 0
    BY FS_EmptySet DEF ClaimsInit, GuardInit, Holders, HasSlot
  <2> QED
    BY <2>1, ClaimsAssumption DEF ClaimsInit, GuardInit, ClaimsInv, ClaimsTypeOK, SlotsAreNumbered,
       IndexIsHeld, OwnedClaims, OwnedTxs, NoClaim, NoTx
<1>2. ClaimsInv /\ [ClaimsNext]_claimVars => ClaimsInv'
  <2> SUFFICES ASSUME ClaimsInv, [ClaimsNext]_claimVars PROVE ClaimsInv'
    OBVIOUS
  <2>1. CASE UNCHANGED claimVars
    BY <2>1 DEF claimVars, guardVars, ClaimsInv, ClaimsTypeOK, SlotsAreNumbered, Holders, HasSlot,
       IndexIsHeld, OwnedClaims, OwnedTxs
  <2>2. ASSUME NEW c \in Claims, SendFails(c) PROVE ClaimsInv'
    BY <2>2, FailsKeeps DEF SendFails, Fails
  <2>3. ASSUME NEW c \in Claims, WaitEnds(c) PROVE ClaimsInv'
    BY <2>3, FailsKeeps DEF WaitEnds, Fails
  <2>4. ASSUME NEW c \in Claims, Reads(c) PROVE ClaimsInv'
    <3>1. CASE Fails(c)
      BY <2>4, <3>1, FailsKeeps DEF Reads, Fails
    <3>2. ASSUME NEW i \in SlotOf(claims[c].human), Answers(c, i) PROVE ClaimsInv'
      <4>1. claims[c].at # "idle" /\ claims[c].human \in Humans /\ UNCHANGED <<guardVars, txs>>
        BY <2>4 DEF Reads, ClaimsInv, OwnedClaims
      <4>2. i \in Nat /\ (i # 0 => i = slots[claims[c].human])
        BY <4>1 DEF SlotOf, ClaimsInv, ClaimsTypeOK
      <4>3. claims' = [claims EXCEPT ![c] = [claims[c] EXCEPT !.at = "ok", !.index = i]]
        BY <3>2 DEF Answers, ClaimsInv, ClaimsTypeOK
      <4> QED
        BY <4>1, <4>2, <4>3, PlaceKeeps
    <3> QED
      BY <2>4, <3>1, <3>2 DEF Reads
  <2>5. ASSUME NEW c \in Claims, Retries(c) PROVE ClaimsInv'
    <3>1. NoClaim \in [at : {"idle", "sending", "waiting", "reading", "ok", "failed"},
                       human : Humans \union {NoHuman}, tx : 0 .. MaxTxs, index : Nat]
          /\ NoClaim.at = "idle" /\ NoClaim.index = 0
      BY ClaimsAssumption DEF NoClaim
    <3>2. UNCHANGED guardVars /\ txs' = txs /\ claims' = [claims EXCEPT ![c] = NoClaim]
      BY <2>5 DEF Retries
    <3> QED
      BY <3>1, <3>2, RequestKeeps DEF ClaimsInv, ClaimsTypeOK, OwnedTxs
  <2> QED
    BY <2>1, <2>2, <2>3, <2>4, <2>5, ClaimReadsKeeps, SendsKeeps, MinesKeeps DEF ClaimsNext
<1>3. ClaimsInv => ClaimsAreHonest
  BY DEF ClaimsInv, ClaimsAreHonest, IndexIsHeld
<1> QED
  BY <1>1, <1>2, <1>3, PTL DEF ClaimsSpec
----------------------------------------------------------------------------
(***************************************************************************)
(* decideVerdict compares downwards from the strictest threshold, so that a  *)
(* riskier screen or a larger amount meets every condition the first one met.*)
(***************************************************************************)
LEMMA VerdictMonotone ==
    ASSUME NEW s \in Screens, NEW r \in Screens, r.ok, Riskier(s, r),
           NEW a \in Payable, NEW b \in Payable, AtLeast(b, a)
    PROVE  Strictness[VerdictOn(s, b)] >= Strictness[VerdictOn(r, a)]
<1>1. s.score \in Int /\ r.score \in Int /\ s.score >= r.score /\ r.traits \subseteq s.traits /\ s.ok
  BY ScreeningAssumption DEF Riskier, Screens
<1>2. ScoreOf(s) = s.score /\ ScoreOf(r) = r.score
  BY <1>1, ScreeningAssumption DEF ScoreOf, Riskier
<1>3. Exceeds(a) => Exceeds(b)
  BY ScreeningAssumption DEF Exceeds, AtLeast, Payable
<1>4. /\ Strictness["pay"] = 0 /\ Strictness["cap"] = 1
      /\ Strictness["ask-human"] = 2 /\ Strictness["refuse"] = 3
  BY DEF Strictness, Verdicts
<1> QED
  BY <1>1, <1>2, <1>3, <1>4, ScreeningAssumption DEF VerdictOn

LEMMA VerdictTyped ==
    ASSUME NEW s \in Screens, NEW a \in Payable
    PROVE  /\ VerdictOn(s, a) \in Verdicts
           /\ VerdictOn(s, a) \in {"pay", "cap"} => s.ok
  BY DEF VerdictOn, Verdicts

LEMMA RoundedBelow ==
    ASSUME NEW n \in Int, NEW d \in Nat, d > 0
    PROVE  Rounded(n, d) \in Int /\ Rounded(n, d) * (2 * d) <= 2 * n + d
<1> DEFINE m == 2 * n + d
           e == 2 * d
<1>1. m \in Int /\ e \in Nat /\ e > 0
  OBVIOUS
<1>2. Rounded(n, d) = m \div e
  BY DEF Rounded
<1> HIDE DEF m, e
<1>3. m \div e \in Int /\ (m \div e) * e <= m
  BY <1>1
<1> QED
  BY <1>2, <1>3 DEF m, e

(***************************************************************************)
(* The share of an amount is a number, and is rounded up by no more than     *)
(* half a millionth.                                                        *)
(***************************************************************************)
LEMMA CapTyped ==
    ASSUME NEW a \in Payable
    PROVE  /\ ResolveCap(a) \in Int \union {NoNumber}
           /\ CapAmount = NoNumber /\ CapPercent \in 0 .. 100 /\ a # NoNumber /\ a >= 0
                  => 2 * ResolveCap(a) <= 2 * a + Millionth
<1>1. CASE CapAmount # NoNumber \/ a = NoNumber
  BY <1>1, ScreeningAssumption DEF ResolveCap
<1>2. CASE CapAmount = NoNumber /\ a # NoNumber
  <2> DEFINE n == a * CapPercent
             d == 100 * Millionth
             q == Rounded(n, d)
  <2>1. a \in Int /\ CapPercent \in Int /\ Millionth \in Nat /\ Millionth > 0
    BY <1>2, ScreeningAssumption DEF Payable
  <2>2. n \in Int /\ d \in Nat /\ d > 0
    BY <2>1
  <2>3. q \in Int /\ q * (2 * d) <= 2 * n + d
    BY <2>2, RoundedBelow
  <2>4. ResolveCap(a) = q * Millionth
    BY <1>2 DEF ResolveCap
  <2>5. ASSUME CapPercent \in 0 .. 100, a >= 0 PROVE 2 * (q * Millionth) <= 2 * a + Millionth
    <3>1. n <= a * 100
      BY <2>1, <2>5
    <3> HIDE DEF n, q
    <3>2. q * (2 * d) = 200 * (q * Millionth)
      BY <2>1, <2>3
    <3>3. q * Millionth \in Int
      BY <2>1, <2>3
    <3> DEFINE m == q * Millionth
    <3> HIDE DEF m
    <3>4. m \in Int /\ 200 * m <= 2 * n + 100 * Millionth
      BY <2>3, <3>2, <3>3 DEF m
    <3>5. 2 * m <= 2 * a + Millionth
      BY <2>1, <2>2, <3>1, <3>4
    <3> QED
      BY <3>5 DEF m
  <2> HIDE DEF q
  <2>6. q * Millionth \in Int
    BY <2>1, <2>3
  <2> QED
    BY <2>4, <2>5, <2>6
<1> QED
  BY <1>1, <1>2

(***************************************************************************)
(* The invariant: what is decided is the verdict on what was screened.       *)
(***************************************************************************)
DecisionIsVerdict ==
    asked.at = "decided" =>
        /\ decision.verdict = VerdictOn(screen, asked.amount)
        /\ decision.verdict = "cap" => decision.capTo = ResolveCap(asked.amount)

ScreeningInv == ScreeningTypeOK /\ DecisionIsVerdict

LEMMA DecideKeeps ==
    ASSUME NEW s \in Screens, NEW a \in Payable, Decide(s, a),
           asked' = [at |-> "decided", amount |-> a]
    PROVE  ScreeningInv'
<1>1. VerdictOn(s, a) \in Verdicts /\ ResolveCap(a) \in Int \union {NoNumber}
  BY VerdictTyped, CapTyped
<1> QED
  BY <1>1 DEF Decide, ScreeningInv, ScreeningTypeOK, DecisionIsVerdict

(***************************************************************************)
(* The screening is type-correct and decides by the verdict of what it saw.  *)
(***************************************************************************)
LEMMA ScreeningInvariant == ScreeningSpec => []ScreeningInv
<1>1. ScreeningInit => ScreeningInv
  BY DEF ScreeningInit, ScreeningInv, ScreeningTypeOK, DecisionIsVerdict, NoScreen, Undecided,
         Payable, Screens
<1>2. ScreeningInv /\ [ScreeningNext]_screeningVars => ScreeningInv'
  <2> SUFFICES ASSUME ScreeningInv, [ScreeningNext]_screeningVars PROVE ScreeningInv'
    OBVIOUS
  <2>1. CASE UNCHANGED screeningVars
    BY <2>1 DEF screeningVars, ScreeningInv, ScreeningTypeOK, DecisionIsVerdict
  <2>2. NoScreen \in Screens
    BY DEF NoScreen, Screens
  <2>3. ASSUME NEW a \in Payable, AsksScreen(a) PROVE ScreeningInv'
    <3>1. CASE asked' = [at |-> "called", amount |-> a] /\ UNCHANGED <<screen, decision>>
      BY <3>1 DEF ScreeningInv, ScreeningTypeOK, DecisionIsVerdict
    <3>2. CASE asked' = [at |-> "decided", amount |-> a] /\ Decide(NoScreen, a)
      BY <3>2, <2>2, DecideKeeps
    <3> QED
      BY <2>3, <3>1, <3>2 DEF AsksScreen
  <2>4. ASSUME NEW score \in Scores \union {NoNumber}, NEW traits \in SUBSET Classes,
               Screened(score, traits)
        PROVE  ScreeningInv'
    <3>1. [ok |-> TRUE, score |-> score, traits |-> traits] \in Screens
      BY DEF Screens
    <3>2. asked' = [at |-> "decided", amount |-> asked.amount] /\ asked.amount \in Payable
      BY <2>4 DEF Screened, ScreeningInv, ScreeningTypeOK
    <3> QED
      BY <2>4, <3>1, <3>2, DecideKeeps DEF Screened
  <2>5. ASSUME ScreenFails PROVE ScreeningInv'
    <3>1. asked' = [at |-> "decided", amount |-> asked.amount] /\ asked.amount \in Payable
      BY <2>5 DEF ScreenFails, ScreeningInv, ScreeningTypeOK
    <3> QED
      BY <2>5, <3>1, <2>2, DecideKeeps DEF ScreenFails
  <2>6. ASSUME NextPayment PROVE ScreeningInv'
    BY <2>6, <2>2 DEF NextPayment, ScreeningInv, ScreeningTypeOK, DecisionIsVerdict, Undecided, Payable
  <2> QED
    BY <2>1, <2>3, <2>4, <2>5, <2>6 DEF ScreeningNext, Payable
<1> QED
  BY <1>1, <1>2, PTL DEF ScreeningSpec

(***************************************************************************)
(* The screening never relaxes with the risk or the amount, signs only on an *)
(* answer of the service, and signs no share that is half a millionth more   *)
(* than was asked for, whatever the policy, the scores and the amounts.      *)
(***************************************************************************)
THEOREM RiskNeverRelaxesAlways == ScreeningSpec => []RiskNeverRelaxes
<1>1. ScreeningInv => RiskNeverRelaxes
  <2> SUFFICES ASSUME ScreeningInv PROVE RiskNeverRelaxes
    OBVIOUS
  <2>1. screen \in Screens /\ asked.amount \in Payable
    BY DEF ScreeningInv, ScreeningTypeOK
  <2> QED
    BY <2>1, VerdictMonotone, VerdictTyped, CapTyped
       DEF ScreeningInv, DecisionIsVerdict, RiskNeverRelaxes
<1> QED
  BY <1>1, ScreeningInvariant, PTL
----------------------------------------------------------------------------
(***************************************************************************)
(* The invariant of the launcher: records are numbered without gaps, links   *)
(* are of records there are, and there is no link without a run.             *)
(***************************************************************************)
RecordsInOrder == \A q \in Ids : records[q] # 0 => \A p \in 1 .. q - 1 : records[p] # 0

LinksAreReal == \A q \in ofRun \union paidFor : records[q] # 0

CohortInv ==
    /\ RunIsCovered
    /\ RecordsInOrder
    /\ LinksAreReal
    /\ deploy.at = "none" => ofRun = {}

GateHolds ==
    deploy.at = "creating" /\ ~deploy.astray =>
        wallet >= (deploy.tokens - Cardinality(ofRun \intersect paidFor)) * Fee + Buffer

(***************************************************************************)
(* A fee taken off the wallet is a fee taken off the need.                   *)
(***************************************************************************)
LEMMA OneFeeLess ==
    ASSUME NEW t \in Int, NEW n \in Int, NEW f \in Int
    PROVE  (t - (n + 1)) * f = (t - n) * f - f /\ (t - n) * f \in Int
OBVIOUS

LEMMA PaidCounted ==
    ASSUME CohortTypeOK
    PROVE  /\ IsFiniteSet(ofRun \intersect paidFor)
           /\ Cardinality(ofRun \intersect paidFor) \in Nat
<1>1. IsFiniteSet(Ids)
  BY FS_Interval, CohortAssumption DEF Ids
<1>2. ofRun \intersect paidFor \subseteq Ids
  BY DEF CohortTypeOK
<1> QED
  BY <1>1, <1>2, FS_Subset, FS_CardinalityType

(***************************************************************************)
(* A record that a run has no link for yet joins it under its own number,    *)
(* which is larger than that of every record there is.                      *)
(***************************************************************************)
LEMMA NewestRecord ==
    ASSUME RecordsInOrder, CohortTypeOK, NEW r \in Ids, NewRecord(r),
           NEW q \in Ids, records[q] # 0
    PROVE  q < r
<1>1. q \in Int /\ r \in Int /\ q >= 1 /\ r >= 1
  BY CohortAssumption DEF Ids
<1>2. q > r => records[r] # 0
  BY <1>1 DEF RecordsInOrder
<1> QED
  BY <1>1, <1>2 DEF NewRecord

(***************************************************************************)
(* The gate passes before the first record: the run starts covered.          *)
(***************************************************************************)
LEMMA PreflightKeeps ==
    ASSUME CohortInv, NEW tokens \in Symbols, Preflight(tokens)
    PROVE  CohortInv'
<1>1. tokens \in Nat /\ tokens >= 1 /\ tokens <= Planned /\ Fee \in Nat /\ Buffer \in Nat
  BY CohortAssumption DEF Symbols
<1>2. wallet >= Required(tokens, 1)
  BY <1>1 DEF Preflight
<1>3. ofRun' \intersect paidFor' = {} /\ Cardinality(ofRun' \intersect paidFor') = 0
  BY FS_EmptySet DEF Preflight
<1>4. wallet >= (tokens - 0) * Fee + Buffer
  BY <1>1, <1>2 DEF Required
<1>5. CohortTypeOK'
  <2>1. CohortTypeOK
    BY DEF CohortInv, RunIsCovered
  <2>2. deploy' = [at |-> "creating", tokens |-> tokens, next |-> 1, ledger |-> ledger, astray |-> FALSE]
    BY DEF Preflight, NoRun
  <2>3. tokens \in 0 .. Planned /\ 1 \in 1 .. Planned + 1
    BY <1>1, CohortAssumption
  <2>4. deploy' \in [at : {"none", "creating"}, tokens : 0 .. Planned, next : 1 .. Planned + 1,
                    ledger : [Symbols -> 0 .. MaxRecords], astray : BOOLEAN]
    BY <2>1, <2>2, <2>3 DEF CohortTypeOK
  <2> QED
    BY <2>1, <2>4 DEF CohortTypeOK, Preflight
<1>6. deploy'.tokens = tokens /\ deploy'.ledger = ledger /\ ofRun' = {} /\ ofRun = {}
  BY DEF Preflight, NoRun, CohortInv
<1>7. RecordsInOrder' /\ LinksAreReal' /\ Covers(ledger, ofRun)' /\ Covers(deploy.ledger, {})'
  BY <1>6 DEF Preflight, CohortInv, RunIsCovered, RecordsInOrder, LinksAreReal, Covers
<1>8. GateHolds'
  BY <1>3, <1>4, <1>6 DEF GateHolds, Preflight
<1> QED
  BY <1>5, <1>6, <1>7, <1>8 DEF CohortInv, RunIsCovered, GateHolds

(***************************************************************************)
(* A record was not paid before it was created.                             *)
(***************************************************************************)
LEMMA CreatesKeeps ==
    ASSUME CohortInv, NEW r \in Ids, Creates(r)
    PROVE  CohortInv'
<1> USE DEF Creates
<1>1. CohortTypeOK /\ RecordsInOrder /\ LinksAreReal /\ NewRecord(r) /\ records[r] = 0
  BY DEF CohortInv, RunIsCovered, NewRecord
<1>2. deploy.next \in Symbols /\ deploy.next \in 1 .. Planned /\ r \in 1 .. MaxRecords
      /\ Planned \in Nat
  BY <1>1, CohortAssumption DEF CohortTypeOK, Symbols, Ids
<1>3. /\ deploy' = [deploy EXCEPT !.next = deploy.next + 1,
                                  !.ledger = [deploy.ledger EXCEPT ![deploy.next] = r]]
      /\ deploy.ledger \in [Symbols -> 0 .. MaxRecords]
  BY <1>1 DEF CohortTypeOK
<1>4. /\ deploy'.at = deploy.at /\ deploy'.tokens = deploy.tokens /\ deploy'.astray = deploy.astray
      /\ deploy'.ledger = [deploy.ledger EXCEPT ![deploy.next] = r]
  BY <1>1, <1>3 DEF CohortTypeOK
<1>5. CohortTypeOK'
  <2>1. [deploy.ledger EXCEPT ![deploy.next] = r] \in [Symbols -> 0 .. MaxRecords]
    BY <1>2, <1>3
  <2>2. deploy.next + 1 \in 1 .. Planned + 1
    BY <1>2
  <2>3. deploy' \in [at : {"none", "creating"}, tokens : 0 .. Planned, next : 1 .. Planned + 1,
                    ledger : [Symbols -> 0 .. MaxRecords], astray : BOOLEAN]
    BY <1>1, <1>3, <2>1, <2>2 DEF CohortTypeOK
  <2>4. records' \in [Ids -> 0 .. Planned] /\ ofRun' \subseteq Ids
    BY <1>1, <1>2 DEF CohortTypeOK
  <2> QED
    BY <1>1, <2>3, <2>4 DEF CohortTypeOK
<1>6. ofRun' \intersect paidFor' = ofRun \intersect paidFor
  BY <1>1 DEF LinksAreReal
<1>7. GateHolds => GateHolds'
  BY <1>4, <1>6 DEF GateHolds
<1>8. records' = [records EXCEPT ![r] = deploy.next] /\ records \in [Ids -> 0 .. Planned]
      /\ deploy.next # 0
  BY <1>1, <1>2 DEF CohortTypeOK
<1>9. RecordsInOrder'
  BY <1>1, <1>8 DEF RecordsInOrder, NewRecord, Ids
<1>10. LinksAreReal'
  BY <1>1, <1>8 DEF LinksAreReal, CohortTypeOK
<1>11. Covers(ledger, ofRun)'
  <2>1. Covers(ledger, ofRun) /\ ledger \in [Symbols -> 0 .. MaxRecords]
    BY <1>1 DEF CohortInv, RunIsCovered, CohortTypeOK
  <2>2. ASSUME NEW s \in Symbols, ledger[s] # 0 PROVE records'[ledger[s]] = s
    <3>1. ledger[s] \in Ids /\ records[ledger[s]] = s /\ s # 0
      BY <2>1, <2>2, CohortAssumption DEF Covers, Symbols, Ids
    <3> QED
      BY <3>1, <1>1, <1>8
  <2>3. ASSUME NEW q \in Ids, records'[q] # 0, q \notin unheard \union (ofRun \union {r})
        PROVE  ledger[records'[q]] >= q
    <3>1. records'[q] = records[q]
      BY <2>3, <1>8
    <3> QED
      BY <2>1, <2>3, <3>1 DEF Covers
  <2> QED
    BY <2>2, <2>3 DEF Covers
<1>12. Covers(deploy.ledger, {})'
  <2>1. Covers(deploy.ledger, {})
    BY DEF CohortInv, RunIsCovered
  <2>2. ASSUME NEW s \in Symbols, deploy'.ledger[s] # 0 PROVE records'[deploy'.ledger[s]] = s
    <3>1. CASE s = deploy.next
      BY <3>1, <1>3, <1>4, <1>8
    <3>2. CASE s # deploy.next
      <4>1. deploy'.ledger[s] = deploy.ledger[s] /\ deploy.ledger[s] \in Ids
        BY <3>2, <2>2, <1>3, <1>4, CohortAssumption DEF Ids
      <4>2. records[deploy.ledger[s]] = s /\ s # 0
        BY <4>1, <2>1, <2>2 DEF Covers, Symbols
      <4> QED
        BY <4>1, <4>2, <1>1, <1>8
    <3> QED
      BY <3>1, <3>2
  <2>3. ASSUME NEW q \in Ids, records'[q] # 0, q \notin unheard' \union {}
        PROVE  deploy'.ledger[records'[q]] >= q
    <3>1. CASE q = r
      BY <3>1, <1>2, <1>3, <1>4, <1>8 DEF Ids
    <3>2. CASE q # r
      <4>1. records'[q] = records[q] /\ records[q] # 0 /\ records[q] \in Symbols
        BY <3>2, <2>3, <1>8, CohortAssumption DEF Symbols
      <4>2. deploy.ledger[records[q]] >= q
        BY <4>1, <2>1, <2>3 DEF Covers
      <4>3. q < r /\ q \in Int /\ r \in Int
        BY <4>1, <1>1, NewestRecord DEF Ids
      <4> QED
        BY <4>1, <4>2, <4>3, <1>2, <1>3, <1>4
    <3> QED
      BY <3>1, <3>2
  <2> QED
    BY <2>2, <2>3 DEF Covers
<1> QED
  BY <1>4, <1>5, <1>7, <1>9, <1>10, <1>11, <1>12 DEF CohortInv, RunIsCovered, GateHolds

(***************************************************************************)
(* A call that throws leaves at most a record nobody heard of.               *)
(***************************************************************************)
LEMMA CreateThrowsKeeps ==
    ASSUME CohortInv, NEW r \in Ids, CreateThrows(r)
    PROVE  CohortInv'
<1>1. CohortTypeOK /\ RecordsInOrder /\ LinksAreReal /\ NewRecord(r) /\ records[r] = 0
  BY DEF CohortInv, RunIsCovered, NewRecord, CreateThrows
<1>2. deploy.next \in 1 .. Planned /\ r \in 1 .. MaxRecords /\ Planned \in Nat
  BY <1>1, CohortAssumption DEF CohortTypeOK, Symbols, Ids, CreateThrows
<1>3. /\ deploy' = [deploy EXCEPT !.next = deploy.next + 1]
      /\ UNCHANGED <<wallet, ofRun, ledger, paidFor>>
  BY DEF CreateThrows
<1>4. /\ deploy'.at = deploy.at /\ deploy'.tokens = deploy.tokens /\ deploy'.astray = deploy.astray
      /\ deploy'.ledger = deploy.ledger
      /\ deploy'.next \in 1 .. Planned + 1
  BY <1>1, <1>2, <1>3 DEF CohortTypeOK
<1>5. records \in [Ids -> 0 .. Planned] /\ unheard \subseteq Ids
  BY <1>1 DEF CohortTypeOK
<1>6. \/ UNCHANGED <<records, unheard>>
      \/ records' = [records EXCEPT ![r] = deploy.next] /\ unheard' = unheard \union {r}
  BY DEF CreateThrows
<1>7. CohortTypeOK'
  BY <1>1, <1>2, <1>3, <1>4, <1>5, <1>6 DEF CohortTypeOK
<1>8. RecordsInOrder' /\ LinksAreReal'
  <2>1. CASE UNCHANGED records
    BY <1>1, <1>3, <2>1 DEF RecordsInOrder, LinksAreReal
  <2>2. CASE records' = [records EXCEPT ![r] = deploy.next]
    <3>1. deploy.next # 0 /\ ofRun \subseteq Ids /\ paidFor \subseteq Ids
      BY <1>1, <1>2 DEF CohortTypeOK
    <3>2. RecordsInOrder'
      BY <1>1, <1>5, <2>2, <3>1 DEF RecordsInOrder, NewRecord, Ids
    <3>3. LinksAreReal'
      BY <1>1, <1>3, <1>5, <2>2, <3>1 DEF LinksAreReal
    <3> QED
      BY <3>2, <3>3
  <2> QED
    BY <1>6, <2>1, <2>2
<1>9. ASSUME NEW book \in [Symbols -> 0 .. MaxRecords], NEW S \in SUBSET Ids, Covers(book, S)
      PROVE  /\ \A s \in Symbols : book[s] # 0 => records'[book[s]] = s
             /\ \A q \in Ids : records'[q] # 0 /\ q \notin unheard' \union S => book[records'[q]] >= q
  <2>1. \A s \in Symbols : s # 0 /\ (book[s] # 0 => book[s] \in Ids)
    BY CohortAssumption DEF Symbols, Ids
  <2> QED
    BY <2>1, <1>1, <1>5, <1>6, <1>9 DEF Covers
<1>10. Covers(ledger, ofRun)' /\ (deploy'.at = "creating" => Covers(deploy.ledger, {})')
  <2>1. ledger \in [Symbols -> 0 .. MaxRecords] /\ deploy.ledger \in [Symbols -> 0 .. MaxRecords]
        /\ ofRun \in SUBSET Ids
    BY <1>1 DEF CohortTypeOK
  <2>2. Covers(ledger, ofRun) /\ (deploy.at = "creating" => Covers(deploy.ledger, {}))
    BY DEF CohortInv, RunIsCovered
  <2>3. Covers(ledger, ofRun)'
    BY <2>1, <2>2, <1>3, <1>9 DEF Covers
  <2>4. deploy.at = "creating" => Covers(deploy.ledger, {})'
    <3> DEFINE book == deploy.ledger
    <3>1. {} \in SUBSET Ids /\ book \in [Symbols -> 0 .. MaxRecords] /\ deploy'.ledger = book
      BY <2>1, <1>4
    <3>2. ASSUME Covers(book, {})
          PROVE  /\ \A s \in Symbols : book[s] # 0 => records'[book[s]] = s
                 /\ \A q \in Ids : records'[q] # 0 /\ q \notin unheard' \union {} => book[records'[q]] >= q
      BY <3>1, <3>2, <1>9
    <3> HIDE DEF book
    <3> QED
      BY <2>2, <3>1, <3>2 DEF Covers, book
  <2> QED
    BY <2>3, <2>4, <1>4
<1>11. GateHolds' /\ (deploy'.at = "none" => ofRun' = {})
  BY <1>3, <1>4 DEF GateHolds, CohortInv, RunIsCovered
<1> QED
  BY <1>7, <1>8, <1>10, <1>11 DEF CohortInv, RunIsCovered, GateHolds

(***************************************************************************)
(* A fee paid for a link of the run is paid for a token of the run.          *)
(***************************************************************************)
LEMMA HandsOffKeeps ==
    ASSUME CohortInv, NEW r \in Ids, HandsOff(r)
    PROVE  CohortInv'
<1> USE DEF HandsOff
<1>1. CohortTypeOK /\ RecordsInOrder /\ LinksAreReal /\ GateHolds
  BY DEF CohortInv, RunIsCovered, GateHolds
<1>2. /\ deploy'.at = deploy.at /\ deploy'.tokens = deploy.tokens /\ deploy'.ledger = deploy.ledger
      /\ deploy'.astray = (deploy.astray \/ (deploy.at = "creating" /\ r \notin ofRun))
      /\ deploy.tokens \in Int /\ wallet \in Int /\ Fee \in Int /\ Buffer \in Int
  BY <1>1, CohortAssumption DEF CohortTypeOK
<1>3. CohortTypeOK'
  <2>1. wallet' \in 0 .. MaxFet
    BY <1>1, CohortAssumption DEF CohortTypeOK
  <2>2. (deploy.astray \/ (deploy.at = "creating" /\ r \notin ofRun)) \in BOOLEAN
    BY <1>1 DEF CohortTypeOK
  <2> QED
    BY <1>1, <2>1, <2>2 DEF CohortTypeOK
<1>4. GateHolds'
  <2> SUFFICES ASSUME deploy.at = "creating", ~deploy.astray, r \in ofRun
               PROVE  wallet - Fee
                        >= (deploy.tokens - Cardinality(ofRun \intersect paidFor')) * Fee + Buffer
    BY <1>2 DEF GateHolds
  <2> DEFINE n == Cardinality(ofRun \intersect paidFor)
  <2>1. Cardinality(ofRun \intersect paidFor') = n + 1 /\ n \in Int
    <3>1. ofRun \intersect paidFor' = (ofRun \intersect paidFor) \union {r}
      OBVIOUS
    <3>2. r \notin ofRun \intersect paidFor
      OBVIOUS
    <3> QED
      BY <3>1, <3>2, <1>1, PaidCounted, FS_AddElement
  <2>2. wallet >= (deploy.tokens - n) * Fee + Buffer
    BY <1>1 DEF GateHolds
  <2>3. (deploy.tokens - (n + 1)) * Fee = (deploy.tokens - n) * Fee - Fee
        /\ (deploy.tokens - n) * Fee \in Int
    BY <1>2, <2>1, OneFeeLess
  <2> HIDE DEF n
  <2> QED
    BY <1>2, <2>1, <2>2, <2>3
<1>5. RecordsInOrder' /\ LinksAreReal' /\ (deploy'.at = "none" => ofRun' = {})
  BY <1>1, <1>2 DEF RecordsInOrder, LinksAreReal, CohortInv
<1>6. Covers(ledger, ofRun)' /\ (deploy'.at = "creating" => Covers(deploy.ledger, {})')
  BY <1>2 DEF CohortInv, RunIsCovered, Covers
<1> QED
  BY <1>3, <1>4, <1>5, <1>6 DEF CohortInv, RunIsCovered, GateHolds

LEMMA WritesLedgerKeeps ==
    ASSUME CohortInv, WritesLedger \/ Interrupted
    PROVE  CohortInv'
<1>1. CohortTypeOK /\ RecordsInOrder /\ LinksAreReal
  BY DEF CohortInv, RunIsCovered
<1>2. deploy' = NoRun /\ NoRun.at = "none" /\ ofRun' = {} /\ UNCHANGED <<wallet, records, paidFor>>
  BY DEF WritesLedger, Interrupted, NoRun
<1>3. CohortTypeOK'
  BY <1>1, <1>2, CohortAssumption DEF CohortTypeOK, WritesLedger, Interrupted, NoRun, NoLedger
<1>4. RecordsInOrder' /\ LinksAreReal'
  BY <1>1, <1>2 DEF RecordsInOrder, LinksAreReal
<1>5. Covers(ledger, ofRun)'
  BY <1>1, <1>2 DEF CohortInv, RunIsCovered, Covers, WritesLedger, Interrupted
<1> QED
  BY <1>2, <1>3, <1>4, <1>5 DEF CohortInv, RunIsCovered

LEMMA MovesKeeps ==
    ASSUME CohortInv, NEW fet \in 0 .. MaxFet, Moves(fet)
    PROVE  CohortInv'
<1> USE DEF Moves
<1>1. CohortTypeOK /\ RecordsInOrder /\ LinksAreReal /\ GateHolds
  BY DEF CohortInv, RunIsCovered, GateHolds
<1>2. /\ deploy'.at = deploy.at /\ deploy'.tokens = deploy.tokens /\ deploy'.ledger = deploy.ledger
      /\ deploy'.astray = (deploy.astray \/ (deploy.at = "creating" /\ fet < wallet))
      /\ deploy.tokens \in Int /\ wallet \in Int /\ fet \in Int /\ Fee \in Int /\ Buffer \in Int
  BY <1>1, CohortAssumption DEF CohortTypeOK
<1>3. CohortTypeOK'
  BY <1>1 DEF CohortTypeOK
<1>4. GateHolds'
  <2>0. deploy'.at = "creating" /\ ~deploy'.astray
          => deploy.at = "creating" /\ ~deploy.astray /\ fet >= wallet
    <3>1. deploy'.at = "creating" /\ ~deploy'.astray
            => deploy.at = "creating" /\ ~deploy.astray /\ ~(fet < wallet)
      BY <1>2, Zenon
    <3>2. ~(fet < wallet) => fet >= wallet
      BY <1>2
    <3> QED
      BY <3>1, <3>2
  <2> SUFFICES ASSUME deploy.at = "creating", ~deploy.astray, fet >= wallet
               PROVE  fet >= (deploy.tokens - Cardinality(ofRun \intersect paidFor)) * Fee + Buffer
    BY <2>0, <1>2 DEF GateHolds
  <2> DEFINE need == (deploy.tokens - Cardinality(ofRun \intersect paidFor)) * Fee
  <2>1. need \in Int /\ wallet >= need + Buffer
    BY <1>1, <1>2, PaidCounted, OneFeeLess DEF GateHolds
  <2> HIDE DEF need
  <2>2. fet >= need + Buffer
    BY <1>2, <2>1
  <2> QED
    BY <2>2 DEF need
<1>5. RecordsInOrder' /\ LinksAreReal' /\ (deploy'.at = "none" => ofRun' = {})
  BY <1>1, <1>2 DEF RecordsInOrder, LinksAreReal, CohortInv
<1>6. Covers(ledger, ofRun)' /\ (deploy'.at = "creating" => Covers(deploy.ledger, {})')
  BY <1>2 DEF CohortInv, RunIsCovered, Covers
<1> QED
  BY <1>3, <1>4, <1>5, <1>6 DEF CohortInv, RunIsCovered, GateHolds

(***************************************************************************)
(* A run that passed the gate stays covered however links are paid while it  *)
(* still creates, and the ledger is true to the records, for any fee, any    *)
(* buffer and any number of tokens.                                         *)
(***************************************************************************)
THEOREM RunIsCoveredAlways == CohortSpec => []RunIsCovered
<1>1. CohortInit => CohortInv
  <2> SUFFICES ASSUME CohortInit PROVE CohortInv
    OBVIOUS
  <2>1. CohortTypeOK
    BY CohortAssumption DEF CohortInit, CohortTypeOK, NoRun, NoLedger
  <2>2. deploy.at = "none"
    BY DEF CohortInit, NoRun
  <2> QED
    BY <2>1, <2>2 DEF CohortInit, CohortInv, RunIsCovered, RecordsInOrder, LinksAreReal, Covers, NoLedger
<1>2. CohortInv /\ [CohortNext]_cohortVars => CohortInv'
  <2> SUFFICES ASSUME CohortInv, [CohortNext]_cohortVars PROVE CohortInv'
    OBVIOUS
  <2>1. CASE UNCHANGED cohortVars
    BY <2>1 DEF cohortVars, CohortInv, RunIsCovered, CohortTypeOK, RecordsInOrder, LinksAreReal, Covers
  <2>2. CASE CohortNext
    BY <2>2, PreflightKeeps, CreatesKeeps, CreateThrowsKeeps, HandsOffKeeps, WritesLedgerKeeps,
       MovesKeeps DEF CohortNext
  <2> QED
    BY <2>1, <2>2
<1>3. CohortInv => RunIsCovered
  BY DEF CohortInv
<1> QED
  BY <1>1, <1>2, <1>3, PTL DEF CohortSpec

-----------------------------------------------------------------------------
NamedRequests == \A c \in Callers : verifies[c].at # "none" => verifies[c].who \in Nullifiers

ServerInv == WorldServerTypeOK /\ FileIsProved /\ NamedRequests

Request == [at : {"none", "portal", "ok", "refused", "lost"},
            who : Nullifiers \union {NoNullifier}, store : SUBSET Nullifiers]

(***************************************************************************)
(* A request that changes its place keeps the server's invariant when it     *)
(* vouches only for what was proved.                                        *)
(***************************************************************************)
LEMMA RequestMoves ==
    ASSUME ServerInv, NEW c \in Callers, NEW q \in Request,
           verifies' = [verifies EXCEPT ![c] = q],
           onFile' \subseteq proved', proved' \subseteq Nullifiers, proved \subseteq proved',
           q.store \subseteq proved', q.at = "ok" => q.who \in proved' \union Inherited,
           q.who \in Nullifiers
    PROVE  ServerInv'
<1>1. verifies \in [Callers -> Request]
  BY DEF ServerInv, WorldServerTypeOK, Request
<1>2. WorldServerTypeOK'
  BY <1>1 DEF WorldServerTypeOK, Request
<1>3. ASSUME NEW d \in Callers
      PROVE  /\ verifies'[d].store \subseteq proved'
             /\ verifies'[d].at = "ok" => verifies'[d].who \in proved' \union Inherited
             /\ verifies'[d].at # "none" => verifies'[d].who \in Nullifiers
  <2>1. CASE d = c
    BY <1>1, <2>1
  <2>2. CASE d # c
    BY <1>1, <2>2 DEF ServerInv, FileIsProved, NamedRequests
  <2> QED
    BY <2>1, <2>2
<1> QED
  BY <1>2, <1>3 DEF ServerInv, FileIsProved, NamedRequests

(***************************************************************************)
(* What a step of the backend leaves true of a request: one that was made    *)
(* stays made by the same human, and one answered ok stays so.               *)
(***************************************************************************)
Lasting ==
    /\ proved \subseteq proved'
    /\ \A c \in Callers : verifies[c].at # "none" =>
          verifies'[c].at # "none" /\ verifies'[c].who = verifies[c].who
    /\ \A c \in Callers : verifies[c].at = "ok" => verifies'[c].at = "ok"

LEMMA ReceivedKeeps ==
    ASSUME ServerInv, NEW c \in Callers, NEW n \in Nullifiers,
           RefusesRequest(c, n) \/ LoadsStore(c, n)
    PROVE  /\ ServerInv' /\ Lasting /\ verifies'[c].who = n
           /\ \A d \in Callers : d # c => verifies'[d] = verifies[d]
<1>1. verifies \in [Callers -> Request] /\ verifies[c].at = "none" /\ proved' = proved
      /\ onFile' = onFile /\ onFile \subseteq Nullifiers /\ proved \subseteq Nullifiers
      /\ onFile \subseteq proved
  BY DEF ServerInv, WorldServerTypeOK, FileIsProved, Request, RefusesRequest, LoadsStore
<1>2. \E q \in Request :
          /\ verifies' = [verifies EXCEPT ![c] = q] /\ q.who = n
          /\ q.store \subseteq proved /\ (q.at = "ok" => n \in proved \union Inherited)
  <2>1. CASE RefusesRequest(c, n)
    <3> DEFINE q == [NoVerify EXCEPT !.at = "refused", !.who = n]
    <3>1. NoVerify \in Request /\ NoVerify.store = {}
      BY DEF NoVerify, Request
    <3>2. verifies' = [verifies EXCEPT ![c] = q]
      BY <2>1 DEF RefusesRequest
    <3>3. q \in Request /\ q.at = "refused" /\ q.who = n /\ q.store = {}
      BY <3>1 DEF Request
    <3> HIDE DEF q
    <3> QED
      BY <3>2, <3>3
  <2>2. CASE LoadsStore(c, n)
    <3> DEFINE place == IF OnRecord(n) THEN "ok" ELSE "portal"
               q == [at |-> place, who |-> n, store |-> onFile]
    <3>1. verifies' = [verifies EXCEPT ![c] = q]
      BY <2>2 DEF LoadsStore
    <3>2. place \in {"ok", "portal"} /\ (place = "ok" => n \in onFile \union Inherited)
      BY DEF OnRecord
    <3> HIDE DEF place
    <3>3. q \in Request
      BY <1>1, <3>2 DEF Request
    <3> QED
      BY <1>1, <3>1, <3>2, <3>3
  <2> QED
    BY <2>1, <2>2
<1>3. PICK q \in Request :
          /\ verifies' = [verifies EXCEPT ![c] = q] /\ q.who = n
          /\ q.store \subseteq proved /\ (q.at = "ok" => n \in proved \union Inherited)
  BY <1>2
<1>4. ServerInv'
  BY <1>1, <1>3, RequestMoves
<1>5. Lasting /\ verifies'[c].who = n /\ \A d \in Callers : d # c => verifies'[d] = verifies[d]
  BY <1>1, <1>3 DEF Lasting
<1> QED
  BY <1>4, <1>5

LEMMA AnsweredKeeps ==
    ASSUME ServerInv, NEW c \in Callers,
           PortalRefuses(c) \/ PortalAccepts(c) \/ SaveFails(c)
    PROVE  ServerInv' /\ Lasting
<1>1. /\ verifies \in [Callers -> Request] /\ verifies[c].at = "portal"
      /\ verifies[c].store \subseteq proved /\ verifies[c].who \in Nullifiers
      /\ onFile \subseteq proved /\ proved \subseteq Nullifiers
  BY DEF ServerInv, WorldServerTypeOK, FileIsProved, NamedRequests, Request, PortalRefuses,
         PortalAccepts, SaveFails
<1>2. \E answer \in {"ok", "refused"} :
          /\ verifies' = [verifies EXCEPT ![c].at = answer]
          /\ proved \subseteq proved' /\ onFile' \subseteq proved' /\ proved' \subseteq Nullifiers
          /\ answer = "ok" => verifies[c].who \in proved'
  <2>1. CASE PortalRefuses(c)
    BY <1>1, <2>1 DEF PortalRefuses, Answered
  <2>2. CASE PortalAccepts(c)
    BY <1>1, <2>2 DEF PortalAccepts, Answered
  <2>3. CASE SaveFails(c)
    BY <1>1, <2>3 DEF SaveFails, Answered
  <2> QED
    BY <2>1, <2>2, <2>3
<1>3. PICK answer \in {"ok", "refused"} :
          /\ verifies' = [verifies EXCEPT ![c].at = answer]
          /\ proved \subseteq proved' /\ onFile' \subseteq proved' /\ proved' \subseteq Nullifiers
          /\ answer = "ok" => verifies[c].who \in proved'
  BY <1>2
<1> DEFINE q == [verifies[c] EXCEPT !.at = answer]
<1>4. q \in Request /\ q.at = answer /\ q.who = verifies[c].who /\ q.store = verifies[c].store
  BY <1>1 DEF Request
<1> HIDE DEF q
<1>5. verifies' = [verifies EXCEPT ![c] = q]
  BY <1>3 DEF q
<1>6. ServerInv'
  BY <1>1, <1>3, <1>4, <1>5, RequestMoves
<1>7. Lasting
  BY <1>1, <1>3, <1>4, <1>5 DEF Lasting
<1> QED
  BY <1>6, <1>7

LEMMA ServerDiesKeeps ==
    ASSUME ServerInv, ServerDies
    PROVE  ServerInv' /\ Lasting
<1>1. verifies \in [Callers -> Request]
  BY DEF ServerInv, WorldServerTypeOK, Request
<1>2. /\ onFile' \subseteq onFile /\ proved' = proved
      /\ verifies' = [c \in Callers |->
            IF verifies[c].at = "portal" THEN [verifies[c] EXCEPT !.at = "lost"] ELSE verifies[c]]
  BY DEF ServerDies
<1>3. ASSUME NEW c \in Callers
      PROVE  /\ verifies'[c] \in Request /\ verifies'[c].who = verifies[c].who
             /\ verifies'[c].store = verifies[c].store
             /\ verifies'[c].at = "ok" <=> verifies[c].at = "ok"
             /\ verifies'[c].at = "none" <=> verifies[c].at = "none"
  <2>1. CASE verifies[c].at = "portal"
    <3>1. verifies'[c] = [verifies[c] EXCEPT !.at = "lost"]
      BY <1>2, <2>1
    <3> QED
      BY <1>1, <2>1, <3>1 DEF Request
  <2>2. CASE verifies[c].at # "portal"
    BY <1>1, <1>2, <2>2
  <2> QED
    BY <2>1, <2>2
<1>4. verifies' \in [Callers -> Request]
  BY <1>2, <1>3
<1>5. ServerInv'
  BY <1>2, <1>3, <1>4 DEF ServerInv, WorldServerTypeOK, FileIsProved, NamedRequests, Request
<1>6. Lasting
  BY <1>2, <1>3 DEF Lasting
<1> QED
  BY <1>5, <1>6
----------------------------------------------------------------------------
(***************************************************************************)
(* The invariant of the button: a chain whose request was made is at its     *)
(* verification or past it, for the human it has the proof of; a chain that  *)
(* was not started made none; and a button at work has a chain behind it.    *)
(***************************************************************************)
RequestedByChain ==
    \A f \in Chains : verifies[f].at # "none" =>
        chains[f].at \in {"verify", "done", "silent"} /\ chains[f].who = verifies[f].who

\* World's proofs carry numbers
ProofsAreGenuine == \A f \in Chains : chains[f].who \notin Inherited

UnstartedAreUnused == \A f \in Chains : f > starts => chains[f].at = "unused"

Earned == vouched \/ \E f \in Chains : verifies[f].at = "ok" /\ chains[f].who \in proved

ButtonTypeOK ==
    /\ phase \in Rest \union {"loading-sdk", "requesting-rp-context", "presenting", "verifying"}
    /\ chains \in [Chains -> [at : {"unused", "sdk", "rp", "poll", "verify", "done", "silent"},
                              who : Nullifiers \union {NoNullifier}, ctl : 0 .. MaxStarts]]
    /\ starts \in 0 .. MaxStarts /\ aborted \subseteq Chains
    /\ cancels \in 0 .. MaxCancels /\ vouched \in BOOLEAN

WorldInv ==
    /\ ServerInv /\ ButtonTypeOK
    /\ RequestedByChain /\ ProofsAreGenuine /\ UnstartedAreUnused /\ StuckOnlyInSilence
    /\ phase = "verified" => Earned

(***************************************************************************)
(* What was earned stays earned, whatever the backend does next.             *)
(***************************************************************************)
LEMMA BackendKeeps ==
    ASSUME WorldInv, Backend, UNCHANGED <<phase, chains, chainVars>>
    PROVE  WorldInv'
<1>1. UNCHANGED <<phase, chains, starts, aborted, cancels, vouched>>
  BY DEF chainVars
<1>2. ServerInv' /\ Lasting /\ RequestedByChain'
  <2>1. ASSUME NEW c \in Callers, NEW n \in Nullifiers, Received(c, n)
        PROVE  ServerInv' /\ Lasting /\ RequestedByChain'
    <3>1. RefusesRequest(c, n) \/ LoadsStore(c, n)
      BY <2>1 DEF Received
    <3>2. /\ ServerInv' /\ Lasting /\ verifies'[c].who = n
          /\ \A d \in Callers : d # c => verifies'[d] = verifies[d]
      BY <3>1, ReceivedKeeps DEF WorldInv
    <3>3. c \in Chains => chains[c].at = "verify" /\ chains[c].who = n
      BY <2>1 DEF Received, At
    <3> QED
      BY <3>2, <3>3, <1>1, WorldAssumption DEF RequestedByChain, WorldInv
  <2>2. ASSUME NEW c \in Callers, PortalRefuses(c) \/ PortalAccepts(c) \/ SaveFails(c)
        PROVE  ServerInv' /\ Lasting /\ RequestedByChain'
    <3>1. ServerInv' /\ Lasting
      BY <2>2, AnsweredKeeps DEF WorldInv
    <3>2. verifies[c].at = "portal" /\ verifies' \in [Callers -> Request]
          /\ verifies \in [Callers -> Request]
      BY <2>2, <3>1 DEF PortalRefuses, PortalAccepts, SaveFails, ServerInv, WorldServerTypeOK,
         Request, WorldInv
    <3>3. \A d \in Callers : verifies'[d].at # "none" => verifies[d].at # "none"
      BY <2>2, <3>2 DEF PortalRefuses, PortalAccepts, SaveFails, Answered
    <3> QED
      BY <1>1, <3>1, <3>3, WorldAssumption DEF RequestedByChain, WorldInv, Lasting
  <2>3. CASE ServerDies
    <3>1. ServerInv' /\ Lasting
      BY <2>3, ServerDiesKeeps DEF WorldInv
    <3>2. \A d \in Callers : verifies'[d].at # "none" => verifies[d].at # "none"
      BY <2>3 DEF ServerDies
    <3> QED
      BY <1>1, <3>1, <3>2, WorldAssumption DEF RequestedByChain, WorldInv, Lasting
  <2> QED
    BY <2>1, <2>2, <2>3 DEF Backend
<1>3. Earned => Earned'
  BY <1>1, <1>2, WorldAssumption DEF Earned, Lasting
<1> QED
  BY <1>1, <1>2, <1>3 DEF WorldInv, ButtonTypeOK, UnstartedAreUnused, ProofsAreGenuine, StuckOnlyInSilence

(***************************************************************************)
(* A chain moves: it cannot go back to before its request, and turns the     *)
(* badge green only with something to show.                                 *)
(***************************************************************************)
LEMMA ChainMoves ==
    ASSUME WorldInv, UNCHANGED serverVars, NEW f \in Chains,
           NEW k \in [at : {"unused", "sdk", "rp", "poll", "verify", "done", "silent"},
                     who : Nullifiers \union {NoNullifier}, ctl : 0 .. MaxStarts],
           chains' = [chains EXCEPT ![f] = k], ButtonTypeOK',
           verifies[f].at # "none" => k.at \in {"done", "silent"} /\ k.who = chains[f].who,
           k.who \notin Inherited, phase' \notin Rest => k.at \in AtWork \union {"silent"},
           UnstartedAreUnused', vouched => vouched',
           phase' = "verified" =>
              phase = "verified" \/ vouched' \/ (verifies[f].at = "ok" /\ k.who = chains[f].who)
    PROVE  WorldInv'
<1>1. onFile' = onFile /\ verifies' = verifies /\ proved' = proved
  BY DEF serverVars
<1>2. chains \in [Chains -> [at : {"unused", "sdk", "rp", "poll", "verify", "done", "silent"},
                            who : Nullifiers \union {NoNullifier}, ctl : 0 .. MaxStarts]]
  BY DEF WorldInv, ButtonTypeOK
<1>3. ServerInv'
  BY <1>1 DEF WorldInv, ServerInv, WorldServerTypeOK, FileIsProved, NamedRequests
<1>4. \A g \in Chains : verifies[g].at # "none" => chains'[g].who = chains[g].who
  BY <1>2
<1>5. RequestedByChain'
  BY <1>1, <1>2, <1>4 DEF WorldInv, RequestedByChain
<1>6. Earned => Earned'
  BY <1>1, <1>4 DEF Earned
<1>7. verifies[f].at = "ok" => Earned'
  <2> SUFFICES ASSUME verifies[f].at = "ok" PROVE Earned'
    OBVIOUS
  <2>1. verifies[f].who \in proved \union Inherited /\ chains[f].who = verifies[f].who
    BY WorldAssumption DEF WorldInv, ServerInv, FileIsProved, RequestedByChain
  <2>2. verifies[f].who \in proved
    BY <2>1 DEF WorldInv, ProofsAreGenuine
  <2> QED
    BY <1>1, <1>4, <2>1, <2>2 DEF Earned
<1>8. phase' = "verified" => Earned'
  BY <1>6, <1>7 DEF WorldInv, Earned
<1>9. ProofsAreGenuine'
  BY <1>2 DEF WorldInv, ProofsAreGenuine
<1>10. StuckOnlyInSilence'
  BY <1>2 DEF StuckOnlyInSilence
<1> QED
  BY <1>3, <1>5, <1>8, <1>9, <1>10 DEF WorldInv

(***************************************************************************)
(* Every step of a chain is such a move, or a start or a cancel.             *)
(***************************************************************************)
LEMMA ChainStepKeeps ==
    ASSUME WorldInv, NEW f \in Chains, ChainStep(f)
    PROVE  WorldInv'
<1> DEFINE Chain == [at : {"unused", "sdk", "rp", "poll", "verify", "done", "silent"},
                     who : Nullifiers \union {NoNullifier}, ctl : 0 .. MaxStarts]
<1>1. chains \in [Chains -> Chain] /\ chains[f] \in Chain /\ starts \in 0 .. MaxStarts
  BY DEF WorldInv, ButtonTypeOK
<1>2. ASSUME chains[f].at \in {"sdk", "rp", "poll"} PROVE verifies[f].at = "none"
  BY <1>2 DEF WorldInv, RequestedByChain
<1>3. ASSUME chains[f].at # "unused" PROVE ~(f > starts)
  BY <1>3 DEF WorldInv, UnstartedAreUnused
<1> chains[f].who \notin Inherited
  BY DEF WorldInv, ProofsAreGenuine
<1>4. ASSUME NEW k \in Chain, chains' = [chains EXCEPT ![f] = k], starts' = starts,
             chains[f].at # "unused"
      PROVE  UnstartedAreUnused' /\ chains' \in [Chains -> Chain]
  BY <1>1, <1>3, <1>4 DEF WorldInv, UnstartedAreUnused
\* a chain that only changes its place
<1>5. ASSUME NEW place \in {"rp", "done", "silent"}, chains' = [chains EXCEPT ![f].at = place],
             chains[f].at # "unused", UNCHANGED serverVars,
             starts' = starts, aborted' = aborted, cancels' = cancels,
             vouched' \in BOOLEAN, vouched => vouched',
             phase' \in Rest \union {"loading-sdk", "requesting-rp-context", "presenting", "verifying"},
             verifies[f].at # "none" => place \in {"done", "silent"},
             phase' \notin Rest => place \in AtWork \union {"silent"},
             phase' = "verified" => phase = "verified" \/ vouched' \/ verifies[f].at = "ok"
      PROVE  WorldInv'
  <2> DEFINE k == [chains[f] EXCEPT !.at = place]
  <2>1. k \in Chain /\ k.at = place /\ k.who = chains[f].who
    BY <1>1
  <2> HIDE DEF k
  <2>2. chains' = [chains EXCEPT ![f] = k]
    BY <1>5 DEF k
  <2>3. UnstartedAreUnused' /\ chains' \in [Chains -> Chain]
    BY <1>4, <1>5, <2>1, <2>2
  <2>4. ButtonTypeOK'
    BY <1>5, <2>3 DEF WorldInv, ButtonTypeOK
  <2>5. /\ verifies[f].at # "none" => k.at \in {"done", "silent"} /\ k.who = chains[f].who
        /\ k.who \notin Inherited /\ (phase' \notin Rest => k.at \in AtWork \union {"silent"})
    BY <1>5, <2>1
  <2>6. phase' = "verified" =>
            phase = "verified" \/ vouched' \/ (verifies[f].at = "ok" /\ k.who = chains[f].who)
    BY <1>5, <2>1
  <2>7. UNCHANGED serverVars /\ (vouched => vouched')
    BY <1>5
  <2> QED
    BY <2>1, <2>2, <2>3, <2>4, <2>5, <2>6, <2>7, ChainMoves
<1>6. CASE SdkLoaded(f)
  <2>1. phase' \in Rest \union {"loading-sdk", "requesting-rp-context", "presenting", "verifying"}
        /\ (phase' = "verified" => phase = "verified")
    BY <1>6 DEF SdkLoaded, Emit, Rest
  <2>2. /\ chains' = [chains EXCEPT ![f].at = "rp"] /\ chains[f].at = "sdk" /\ UNCHANGED serverVars
        /\ starts' = starts /\ aborted' = aborted /\ cancels' = cancels /\ vouched' = vouched
    BY <1>6 DEF SdkLoaded, Goes, At, chainVars
  <2>3. vouched \in BOOLEAN
    BY DEF WorldInv, ButtonTypeOK
  <2> QED
    BY <1>2, <1>5, <2>1, <2>2, <2>3 DEF AtWork
<1>7. CASE RequestReady(f)
  <2> DEFINE k == [chains[f] EXCEPT !.at = "poll", !.ctl = starts]
  <2>1. k \in Chain /\ k.at = "poll" /\ k.who = chains[f].who
    BY <1>1
  <2> HIDE DEF k
  <2>2. /\ chains' = [chains EXCEPT ![f] = k] /\ chains[f].at = "rp" /\ UNCHANGED serverVars
        /\ starts' = starts /\ aborted' = aborted /\ cancels' = cancels /\ vouched' = vouched
        /\ phase' = "presenting"
    BY <1>1, <1>7 DEF RequestReady, At, chainVars, k
  <2>3. UnstartedAreUnused' /\ chains' \in [Chains -> Chain]
    BY <1>4, <2>1, <2>2
  <2>4. ButtonTypeOK'
    BY <2>2, <2>3 DEF WorldInv, ButtonTypeOK
  <2> QED
    BY <1>2, <2>1, <2>2, <2>3, <2>4, ChainMoves DEF AtWork
<1>8. ASSUME NEW n \in Nullifiers, Proved(f, n) PROVE WorldInv'
  <2> DEFINE k == [chains[f] EXCEPT !.at = "verify", !.who = n]
  <2>1. k \in Chain /\ k.at = "verify" /\ k.who \notin Inherited
    BY <1>1, <1>8 DEF Proved
  <2> HIDE DEF k
  <2>2. /\ chains' = [chains EXCEPT ![f] = k] /\ chains[f].at = "poll" /\ UNCHANGED serverVars
        /\ starts' = starts /\ aborted' = aborted /\ cancels' = cancels /\ vouched' = vouched
        /\ phase' = "verifying"
    BY <1>1, <1>8 DEF Proved, At, chainVars, k
  <2>3. UnstartedAreUnused' /\ chains' \in [Chains -> Chain]
    BY <1>4, <2>1, <2>2
  <2>4. ButtonTypeOK'
    BY <2>2, <2>3 DEF WorldInv, ButtonTypeOK
  <2> QED
    BY <1>2, <2>1, <2>2, <2>3, <2>4, ChainMoves DEF AtWork
<1>9. ASSUME UserCancels(f) \/ TerminalOk(f) \/ Throws(f) \/ PollAborted(f) \/ BackendAnswers(f)
      PROVE  WorldInv'
  <2>1. /\ chains' = [chains EXCEPT ![f].at = "done"] /\ chains[f].at # "unused"
        /\ UNCHANGED serverVars /\ starts' = starts /\ aborted' = aborted /\ cancels' = cancels
    BY <1>9 DEF UserCancels, TerminalOk, Throws, PollAborted, BackendAnswers, Goes, At, AtWork, chainVars
  <2>2. vouched' \in BOOLEAN /\ (vouched => vouched')
    BY <1>9 DEF UserCancels, TerminalOk, Throws, PollAborted, BackendAnswers, chainVars,
       WorldInv, ButtonTypeOK
  <2>3. phase' \in Rest
    BY <1>9 DEF UserCancels, TerminalOk, Throws, PollAborted, BackendAnswers, VerdictOf, Rest
  <2>4. phase' = "verified" => phase = "verified" \/ vouched' \/ verifies[f].at = "ok"
    BY <1>9 DEF UserCancels, TerminalOk, Throws, PollAborted, BackendAnswers, VerdictOf
  <2> QED
    BY <1>5, <2>1, <2>2, <2>3, <2>4
<1>10. CASE ThrowsAbort(f)
  <2>1. /\ chains' = [chains EXCEPT ![f].at = "silent"] /\ chains[f].at # "unused"
        /\ UNCHANGED serverVars /\ starts' = starts /\ aborted' = aborted /\ cancels' = cancels
        /\ vouched' = vouched /\ phase' = phase
    BY <1>10 DEF ThrowsAbort, Goes, AtWork, chainVars
  <2>2. /\ vouched \in BOOLEAN
        /\ phase \in Rest \union {"loading-sdk", "requesting-rp-context", "presenting", "verifying"}
    BY DEF WorldInv, ButtonTypeOK
  <2> QED
    BY <1>5, <2>1, <2>2
<1> QED
  BY <1>6, <1>7, <1>8, <1>9, <1>10 DEF ChainStep

LEMMA StartKeeps ==
    ASSUME WorldInv, Start
    PROVE  WorldInv'
<1> DEFINE Chain == [at : {"unused", "sdk", "rp", "poll", "verify", "done", "silent"},
                     who : Nullifiers \union {NoNullifier}, ctl : 0 .. MaxStarts]
           f == starts + 1
<1>1. /\ phase # "verified" /\ phase' = "loading-sdk" /\ starts' = f
      /\ chains' = [chains EXCEPT ![f].at = "sdk"] /\ UNCHANGED serverVars
      /\ aborted' = aborted /\ cancels' = cancels /\ vouched' = vouched
      /\ starts < MaxStarts
  BY DEF Start, Goes
<1>2. starts \in Nat /\ MaxStarts \in Nat /\ chains \in [Chains -> Chain]
  BY WorldAssumption DEF WorldInv, ButtonTypeOK
<1>3. f \in Chains /\ f > starts /\ f \in 0 .. MaxStarts
  BY <1>1, <1>2 DEF Chains
<1>4. chains[f].at = "unused" /\ verifies[f].at = "none"
  BY <1>3 DEF WorldInv, UnstartedAreUnused, RequestedByChain
<1> DEFINE k == [chains[f] EXCEPT !.at = "sdk"]
<1>5. k \in Chain /\ chains' = [chains EXCEPT ![f] = k] /\ k.at = "sdk" /\ k.who = chains[f].who
  BY <1>1, <1>2, <1>3
<1> HIDE DEF k, f
<1>6. UnstartedAreUnused' /\ chains' \in [Chains -> Chain]
  <2>1. \A g \in Chains : g > f => g # f /\ g > starts
    BY <1>2 DEF f, Chains
  <2> QED
    BY <1>1, <1>2, <1>5, <2>1 DEF WorldInv, UnstartedAreUnused
<1>7. ButtonTypeOK'
  BY <1>1, <1>3, <1>6 DEF WorldInv, ButtonTypeOK
<1>8. k.who \notin Inherited /\ k.at \in AtWork
  BY <1>3, <1>5 DEF WorldInv, ProofsAreGenuine, AtWork
<1> QED
  BY <1>1, <1>3, <1>4, <1>5, <1>6, <1>7, <1>8, ChainMoves

LEMMA CancelKeeps ==
    ASSUME WorldInv, Cancel
    PROVE  WorldInv'
<1>1. /\ phase' = "cancelled" /\ UNCHANGED <<onFile, verifies, proved, chains, starts, vouched>>
      /\ cancels' \in 0 .. MaxCancels /\ aborted' \subseteq Chains
  <2>1. cancels' \in 0 .. MaxCancels
    BY WorldAssumption DEF Cancel, WorldInv, ButtonTypeOK
  <2>2. {starts} \ {0} \subseteq Chains
    BY WorldAssumption DEF WorldInv, ButtonTypeOK, Chains
  <2> QED
    BY <2>1, <2>2 DEF Cancel, serverVars, WorldInv, ButtonTypeOK
<1>2. ServerInv'
  BY <1>1 DEF WorldInv, ServerInv, WorldServerTypeOK, FileIsProved, NamedRequests
<1>3. ButtonTypeOK'
  BY <1>1 DEF WorldInv, ButtonTypeOK, Rest
<1>4. RequestedByChain' /\ UnstartedAreUnused' /\ ProofsAreGenuine' /\ StuckOnlyInSilence'
  BY <1>1 DEF WorldInv, RequestedByChain, UnstartedAreUnused, ProofsAreGenuine, StuckOnlyInSilence, Rest
<1> QED
  BY <1>1, <1>2, <1>3, <1>4 DEF WorldInv

(***************************************************************************)
(* The invariant holds, through any starts, cancels and requests of others.  *)
(***************************************************************************)
LEMMA WorldInvariant == WorldSpec => []WorldInv
<1>1. WorldInit => WorldInv
  <2> SUFFICES ASSUME WorldInit PROVE WorldInv
    OBVIOUS
  <2>1. NoVerify \in Request /\ NoVerify.at = "none" /\ NoVerify.store = {}
    BY DEF NoVerify, Request
  <2>2. ServerInv
    BY <2>1 DEF WorldInit, WorldServerInit, ServerInv, WorldServerTypeOK, FileIsProved,
       NamedRequests, Request
  <2>3. NoChain \in [at : {"unused", "sdk", "rp", "poll", "verify", "done", "silent"},
                     who : Nullifiers \union {NoNullifier}, ctl : 0 .. MaxStarts]
        /\ NoChain.at = "unused" /\ NoChain.who \notin Inherited
    BY WorldAssumption DEF NoChain
  <2>4. ButtonTypeOK /\ UnstartedAreUnused
    <3>1. chains = [f \in Chains |-> NoChain] /\ vouched = FALSE /\ phase = "idle"
          /\ starts = 0 /\ cancels = 0 /\ aborted = {}
      BY DEF WorldInit
    <3>2. starts \in 0 .. MaxStarts /\ cancels \in 0 .. MaxCancels
      BY <3>1, WorldAssumption
    <3>3. vouched \in BOOLEAN
      BY <3>1
    <3> QED
      BY <2>3, <3>1, <3>2, <3>3 DEF ButtonTypeOK, UnstartedAreUnused, Rest
  <2>5. RequestedByChain
    BY <2>1, WorldAssumption DEF WorldInit, WorldServerInit, RequestedByChain
  <2>6. ProofsAreGenuine /\ StuckOnlyInSilence
    BY <2>3 DEF WorldInit, ProofsAreGenuine, StuckOnlyInSilence, Rest
  <2> QED
    BY <2>2, <2>4, <2>5, <2>6 DEF WorldInit, WorldInv
<1>2. WorldInv /\ [WorldNext]_worldVars => WorldInv'
  <2> SUFFICES ASSUME WorldInv, [WorldNext]_worldVars PROVE WorldInv'
    OBVIOUS
  <2>1. CASE UNCHANGED worldVars
    <3>1. UNCHANGED <<onFile, verifies, proved, phase, chains, starts, aborted, cancels, vouched>>
      BY <2>1 DEF worldVars, serverVars
    <3> QED
      BY <3>1 DEF WorldInv, ServerInv, WorldServerTypeOK, FileIsProved, NamedRequests, ButtonTypeOK,
         RequestedByChain, UnstartedAreUnused, Earned, ProofsAreGenuine, StuckOnlyInSilence
  <2>2. CASE WorldNext
    BY <2>2, StartKeeps, CancelKeeps, ChainStepKeeps, BackendKeeps DEF WorldNext
  <2> QED
    BY <2>1, <2>2
<1> QED
  BY <1>1, <1>2, PTL DEF WorldSpec

(***************************************************************************)
(* The badge is earned, through any starts, cancels and requests of others.  *)
(***************************************************************************)
THEOREM BadgeIsEarnedAlways == WorldSpec => []BadgeIsEarned
<1>1. ButtonTypeOK => phase \in Rest \union {"loading-sdk", "requesting-rp-context", "presenting", "verifying"}
      /\ chains \in [Chains -> [at : AtWork \union {"unused", "done", "silent"},
                              who : Nullifiers \union {NoNullifier}, ctl : 0 .. MaxStarts]]
  <2>1. AtWork \union {"unused", "done", "silent"}
            = {"unused", "sdk", "rp", "poll", "verify", "done", "silent"}
    BY DEF AtWork
  <2> QED
    BY <2>1 DEF ButtonTypeOK
<1>2. WorldInv => BadgeIsEarned
  BY <1>1 DEF WorldInv, ServerInv, ButtonTypeOK, WorldTypeOK, BadgeIsEarned, Earned
<1> QED
  BY <1>2, WorldInvariant, PTL

(***************************************************************************)
(* A button at work has a chain at work behind it, or one that an error      *)
(* speaking of an abort ended in silence, however chains overlap.            *)
(***************************************************************************)
THEOREM StuckOnlyInSilenceAlways == WorldSpec => []StuckOnlyInSilence
<1>1. WorldInv => StuckOnlyInSilence
  BY DEF WorldInv
<1> QED
  BY <1>1, WorldInvariant, PTL
----------------------------------------------------------------------------
(***************************************************************************)
(* The gate.  What is proved is its property itself, which is inductive: the *)
(* nullifiers allowed are those that are kept.                              *)
(***************************************************************************)
Answer == [at : Places, agent : Gated, level : Levels \union {0}, mark : Marks \union {NoMark}]

LEMMA AnswerKeeps ==
    ASSUME AllowedOnce, NEW r \in Asks, NEW a \in Answer,
           asks' = [asks EXCEPT ![r] = a],
           a.at \in {"allow", "blessed"} => a.level >= Needs[a.agent],
           UNCHANGED <<mockProof, used, allowed, restarts>>
    PROVE  AllowedOnce'
<1>1. asks \in [Asks -> Answer]
  BY DEF AllowedOnce, IdkitTypeOK, Answer
<1>2. IdkitTypeOK'
  BY <1>1 DEF AllowedOnce, IdkitTypeOK, Answer
<1> QED
  BY <1>1, <1>2 DEF AllowedOnce

LEMMA UnsentTyped ==
    ASSUME NEW place \in Places
    PROVE  [Unsent EXCEPT !.at = place] \in Answer /\ [Unsent EXCEPT !.at = place].at = place
<1>1. SomeAgent \in Gated
  BY GateAssumption DEF SomeAgent
<1>2. Unsent \in Answer
  BY <1>1 DEF Unsent, Answer, Places
<1> QED
  BY <1>2 DEF Answer

LEMMA RefusedKeeps ==
    ASSUME AllowedOnce, NEW r \in Asks, Refused(r), UNCHANGED <<mockProof, used, allowed, restarts>>
    PROVE  AllowedOnce'
<1>1. PICK outcome \in Refusals : asks' = [asks EXCEPT ![r] = [Unsent EXCEPT !.at = outcome]]
  BY DEF Refused
<1>2. outcome \in Places /\ outcome \notin {"allow", "blessed"}
  BY DEF Refusals, Places
<1>3. [Unsent EXCEPT !.at = outcome] \in Answer /\ [Unsent EXCEPT !.at = outcome].at = outcome
  BY <1>2, UnsentTyped
<1> QED
  BY <1>1, <1>2, <1>3, AnswerKeeps

(***************************************************************************)
(* A nullifier is allowed when it is fresh, and is then kept.                *)
(***************************************************************************)
LEMMA DecidesKeeps ==
    ASSUME AllowedOnce, NEW r \in Asks, NEW g \in Gated, NEW l \in Levels \union {0},
           NEW k \in Marks \union {NoMark}, Decides(r, g, l, k), UNCHANGED <<mockProof, restarts>>
    PROVE  AllowedOnce'
<1>1. asks \in [Asks -> Answer] /\ used \subseteq Marks /\ allowed \in [Marks -> Nat]
      /\ \A m \in Marks : allowed[m] <= 1 /\ (allowed[m] = 1 <=> m \in used)
  BY DEF AllowedOnce, IdkitTypeOK, Answer
<1>2. l \in Int /\ Needs[g] \in Int /\ NoMark \notin Marks
  BY GateAssumption
<1>3. CASE Verdict(g, l, k) = "allow"
  <2>1. l >= Needs[g] /\ ~Seen(k)
    BY <1>2, <1>3 DEF Verdict
  <2>2. /\ asks' = [asks EXCEPT ![r] = Ask("allow", g, l, k)]
        /\ used' = used \union ({k} \ {NoMark})
        /\ allowed' = [m \in Marks |-> allowed[m] + IF m \in {k} \ {NoMark} THEN 1 ELSE 0]
    BY <1>3 DEF Decides
  <2>3. Ask("allow", g, l, k) \in Answer /\ Ask("allow", g, l, k).level = l
        /\ Ask("allow", g, l, k).agent = g
    BY DEF Ask, Answer, Places
  <2>4. asks' \in [Asks -> Answer]
    BY <1>1, <2>2, <2>3
  <2>5. \A q \in Asks : asks'[q].at \in {"allow", "blessed"} => asks'[q].level >= Needs[asks'[q].agent]
    BY <1>1, <2>1, <2>2, <2>3 DEF AllowedOnce
  <2>6. used' \subseteq Marks
    BY <1>1, <2>2
  <2>7. ASSUME NEW m \in Marks
        PROVE  allowed'[m] \in Nat /\ allowed'[m] <= 1 /\ (allowed'[m] = 1 <=> m \in used')
    <3>1. CASE m = k
      <4>1. k # NoMark /\ k \notin used
        BY <3>1, <1>2, <2>1 DEF Seen
      <4>2. allowed[m] = 0
        BY <1>1, <3>1, <4>1
      <4>3. allowed'[m] = allowed[m] + 1 /\ m \in used'
        BY <2>2, <3>1, <4>1
      <4> QED
        BY <4>2, <4>3
    <3>2. CASE m # k
      <4>1. allowed'[m] = allowed[m] + 0 /\ (m \in used' <=> m \in used)
        BY <2>2, <3>2
      <4> QED
        BY <1>1, <4>1
    <3> QED
      BY <3>1, <3>2
  <2>8. allowed' \in [Marks -> Nat]
    BY <2>2, <2>7
  <2> QED
    BY <2>4, <2>5, <2>6, <2>7, <2>8 DEF AllowedOnce, IdkitTypeOK, Answer
<1>4. CASE Verdict(g, l, k) # "allow"
  <2>1. Verdict(g, l, k) \in {"ineligible", "error"}
    BY <1>4 DEF Verdict
  <2>2. asks' = [asks EXCEPT ![r] = [Unsent EXCEPT !.at = Verdict(g, l, k)]] /\ used' = used
        /\ allowed' = [m \in Marks |-> allowed[m] + IF m \in {} THEN 1 ELSE 0]
    BY <1>4 DEF Decides
  <2>3. allowed' = allowed
    BY <1>1, <2>2
  <2>4. Verdict(g, l, k) \in Places /\ Verdict(g, l, k) \notin {"allow", "blessed"}
    BY <2>1 DEF Places, Refusals
  <2> DEFINE a == [Unsent EXCEPT !.at = Verdict(g, l, k)]
  <2>5. a \in Answer /\ a.at \notin {"allow", "blessed"}
    BY <2>4, UnsentTyped
  <2> QED
    BY <2>2, <2>3, <2>5, AnswerKeeps
<1> QED
  BY <1>3, <1>4

(***************************************************************************)
(* While the server lives a human is blessed at most once for an action, for *)
(* any number of requests at the portal at once, and only with a credential  *)
(* good enough for the agent.                                               *)
(***************************************************************************)
THEOREM AllowedOnceAlways == IdkitSpec => []AllowedOnce
<1>1. IdkitInit => AllowedOnce
  <2> SUFFICES ASSUME IdkitInit PROVE AllowedOnce
    OBVIOUS
  <2>1. SomeAgent \in Gated
    BY GateAssumption DEF SomeAgent
  <2>2. Unsent \in Answer /\ Unsent.at = "unsent"
    BY <2>1 DEF Unsent, Answer, Places
  <2>3. IdkitTypeOK
    BY <2>2, GateAssumption DEF IdkitInit, IdkitTypeOK, Answer
  <2> QED
    BY <2>2, <2>3 DEF IdkitInit, AllowedOnce
<1>2. AllowedOnce /\ [IdkitNext]_gateVars => AllowedOnce'
  <2> SUFFICES ASSUME AllowedOnce, [IdkitNext]_gateVars PROVE AllowedOnce'
    OBVIOUS
  <2>1. CASE UNCHANGED gateVars
    BY <2>1 DEF gateVars, AllowedOnce, IdkitTypeOK
  <2>2. asks \in [Asks -> Answer]
    BY DEF AllowedOnce, IdkitTypeOK, Answer
  <2>3. ASSUME NEW r \in Asks, RefusedAtOnce(r) \/ PortalDeclines(r) PROVE AllowedOnce'
    BY <2>3, RefusedKeeps DEF RefusedAtOnce, PortalDeclines
  <2>4. ASSUME NEW r \in Asks, NEW g \in Gated, NEW l \in Levels, NEW k \in Marks \union {NoMark},
               MockVerifies(r, g, l, k)
        PROVE  AllowedOnce'
    <3>1. l \in Levels \union {0} /\ Decides(r, g, l, k) /\ UNCHANGED <<mockProof, restarts>>
      BY <2>4 DEF MockVerifies
    <3> QED
      BY <3>1, DecidesKeeps
  <2>5. ASSUME NEW r \in Asks, NEW g \in Gated, NEW l \in Levels, NEW k \in Marks \union {NoMark},
               Forwards(r, g, l, k)
        PROVE  AllowedOnce'
    <3>1. Ask("portal", g, l, k) \in Answer /\ Ask("portal", g, l, k).at = "portal"
      BY DEF Ask, Answer, Places
    <3>2. asks' = [asks EXCEPT ![r] = Ask("portal", g, l, k)]
          /\ UNCHANGED <<mockProof, used, allowed, restarts>>
      BY <2>5 DEF Forwards
    <3> QED
      BY <3>1, <3>2, AnswerKeeps
  <2>6. ASSUME NEW r \in Asks, PortalVouches(r) PROVE AllowedOnce'
    <3>1. asks[r].agent \in Gated /\ asks[r].level \in Levels \union {0}
          /\ asks[r].mark \in Marks \union {NoMark}
      BY <2>2 DEF Answer
    <3>2. Decides(r, asks[r].agent, asks[r].level, asks[r].mark) /\ UNCHANGED <<mockProof, restarts>>
      BY <2>6 DEF PortalVouches
    <3> QED
      BY <3>1, <3>2, DecidesKeeps
  <2>7. ASSUME NEW r \in Asks, Hears(r) PROVE AllowedOnce'
    <3>1. PICK place \in {"blessed", "unheard"} : asks' = [asks EXCEPT ![r].at = place]
      BY <2>7 DEF Hears
    <3> DEFINE a == [asks[r] EXCEPT !.at = place]
    <3>2. a \in Answer /\ a.level = asks[r].level /\ a.agent = asks[r].agent
      BY <2>2 DEF Answer, Places
    <3>3. asks[r].level >= Needs[asks[r].agent]
      BY <2>7 DEF Hears, AllowedOnce
    <3> HIDE DEF a
    <3>4. asks' = [asks EXCEPT ![r] = a] /\ UNCHANGED <<mockProof, used, allowed, restarts>>
      BY <2>7, <3>1 DEF Hears, a
    <3>5. a.level >= Needs[a.agent]
      BY <3>2, <3>3
    <3> QED
      BY <3>2, <3>4, <3>5, AnswerKeeps
  <2>8. ASSUME NEW r \in Asks, AsksAgain(r) PROVE AllowedOnce'
    <3>1. Unsent \in Answer /\ Unsent.at \notin {"allow", "blessed"}
      <4>1. SomeAgent \in Gated
        BY GateAssumption DEF SomeAgent
      <4> QED
        BY <4>1 DEF Unsent, Answer, Places
    <3>2. asks' = [asks EXCEPT ![r] = Unsent] /\ UNCHANGED <<mockProof, used, allowed, restarts>>
      BY <2>8 DEF AsksAgain
    <3> QED
      BY <3>1, <3>2, AnswerKeeps
  <2>9. CASE Restarts
    <3>1. /\ mockProof' \in BOOLEAN /\ restarts' \in 0 .. MaxRestarts /\ used' = {}
          /\ allowed' = [k \in Marks |-> 0]
      BY <2>9, GateAssumption DEF Restarts, AllowedOnce, IdkitTypeOK
    <3>2. ASSUME NEW r \in Asks
          PROVE  /\ asks'[r] \in Answer
                 /\ asks'[r].at \in {"allow", "blessed"} => asks'[r].level >= Needs[asks'[r].agent]
      <4>1. CASE asks[r].at \in {"portal", "allow"}
        <5>1. asks'[r] = [asks[r] EXCEPT !.at = "unheard"]
          BY <2>9, <4>1 DEF Restarts
        <5> QED
          BY <2>2, <5>1 DEF Answer, Places
      <4>2. CASE asks[r].at \notin {"portal", "allow"}
        <5>1. asks'[r] = asks[r]
          BY <2>9, <4>2 DEF Restarts
        <5> QED
          BY <2>2, <5>1 DEF AllowedOnce
      <4> QED
        BY <4>1, <4>2
    <3>3. asks' \in [Asks -> Answer]
      BY <2>9, <3>2 DEF Restarts
    <3> QED
      BY <3>1, <3>2, <3>3 DEF AllowedOnce, IdkitTypeOK, Answer
  <2> QED
    BY <2>1, <2>3, <2>4, <2>5, <2>6, <2>7, <2>8, <2>9 DEF IdkitNext
<1> QED
  BY <1>1, <1>2, PTL DEF IdkitSpec
----------------------------------------------------------------------------
(***************************************************************************)
(* The feeds of the intake worker.  The inductive invariant says where every *)
(* number is: with one worker, in one place of one pit's history, or taken   *)
(* out; and that a feed is a selection of the history, each entry shown no   *)
(* further down than the newer ones leave it.                                *)
(***************************************************************************)
Selection(list, all, gone) ==
    /\ Len(list) <= Cap
    /\ \A i \in 1 .. Len(list) :
          /\ list[i].n \notin gone
          /\ \E k \in 1 .. Len(all) : list[i] = all[k] /\ k + i <= Len(all) + 1
    /\ \A i, j \in 1 .. Len(list), k, m \in 1 .. Len(all) :
          i < j /\ list[i] = all[k] /\ list[j] = all[m] => k > m
    /\ \A k \in 1 .. Len(all) :
          \/ all[k].n \in gone
          \/ Len(all) - k >= Cap
          \/ \E i \in 1 .. Len(list) : list[i] = all[k]

Numbered(all) == \A k, m \in 1 .. Len(all) : all[k].n = all[m].n => k = m

WorkerInv(w) ==
    LET e == workers[w].entry IN
    /\ workers[w].at = "adding" =>
          /\ workers[w].pit \in Pits /\ e.n <= made /\ e.n \notin removed
          /\ \A p \in Pits : \A k \in 1 .. Len(accepted[p]) : accepted[p][k].n # e.n
          /\ e.upload => e.n \in bucket
          /\ \A v \in Workers : workers[v].at = "adding" /\ workers[v].entry.n = e.n => v = w
    /\ workers[w].at = "unlinking" => e.n \in removed

PitInv(p) ==
    /\ Selection(feeds[p], accepted[p], removed)
    /\ \A i \in 1 .. Len(feeds[p]) : feeds[p][i].upload => feeds[p][i].n \in bucket
    /\ \A k \in 1 .. Len(accepted[p]) : accepted[p][k].n <= made
    /\ \A q \in Pits : \A k \in 1 .. Len(accepted[p]), m \in 1 .. Len(accepted[q]) :
          accepted[p][k].n = accepted[q][m].n => p = q /\ k = m

IntakeInv ==
    /\ IntakeTypeOK /\ removed \subseteq 1 .. made
    /\ \A w \in Workers : WorkerInv(w)
    /\ \A p \in Pits : PitInv(p)

LEMMA NumberOf ==
    ASSUME NEW list \in Seq(Entries), NEW k \in 1 .. Len(list)
    PROVE  list[k].n \in 0 .. MaxEntries
<1>1. list[k] \in Entries
  OBVIOUS
<1> QED
  BY <1>1 DEF Entries

\* what IntakeStore.add and IntakeStore.remove make of a list
LEMMA AddedIs ==
    ASSUME NEW list \in Seq(Entries), NEW e \in Entries
    PROVE  /\ Added(list, e) \in Seq(Entries)
           /\ Len(Added(list, e)) = IF Len(list) < Cap THEN Len(list) + 1 ELSE Cap
           /\ Len(list) \in Nat /\ Added(list, e)[1] = e
           /\ \A i \in 2 .. Len(Added(list, e)) :
                 i - 1 \in 1 .. Len(list) /\ Added(list, e)[i] = list[i - 1]
<1> DEFINE longer == <<e>> \o list
           n == IF Len(list) < Cap THEN Len(list) + 1 ELSE Cap
<1>1. Len(list) \in Nat /\ n \in Nat /\ n >= 1 /\ n <= Len(list) + 1
  BY IntakeAssumption
<1>2. /\ longer \in Seq(Entries) /\ Len(longer) = Len(list) + 1 /\ longer[1] = e
      /\ \A i \in 2 .. Len(list) + 1 : longer[i] = list[i - 1]
  <2>1. <<e>> \in Seq(Entries) /\ Len(<<e>>) = 1 /\ <<e>>[1] = e
    OBVIOUS
  <2>2. /\ longer \in Seq(Entries) /\ Len(longer) = 1 + Len(list)
        /\ \A i \in 1 .. 1 + Len(list) :
              longer[i] = IF i <= 1 THEN <<e>>[i] ELSE list[i - 1]
    BY <2>1, ConcatProperties
  <2> HIDE DEF longer
  <2> QED
    BY <1>1, <2>1, <2>2
<1> HIDE DEF longer, n
<1>3. \A i \in 1 .. n : longer[i] \in Entries
  BY <1>1, <1>2
<1>4. /\ SubSeq(longer, 1, n) \in Seq(Entries) /\ Len(SubSeq(longer, 1, n)) = n
      /\ \A i \in 1 .. n : SubSeq(longer, 1, n)[i] = longer[i]
  BY <1>1, <1>3, SubSeqProperties
<1>5. Added(list, e) = SubSeq(longer, 1, n)
  BY DEF Added, longer, n
<1> QED
  BY <1>1, <1>2, <1>4, <1>5 DEF n

LEMMA FoundIs ==
    ASSUME NEW list \in Seq(Entries), NEW n
    PROVE  /\ (\A i \in 1 .. Len(list) : list[i].n # n) => ~Lists(list, n)
           /\ \A x \in 1 .. Len(list) :
                 list[x].n = n /\ (\A i \in 1 .. Len(list) : list[i].n = n => i = x)
                     => FindIndex(list, n) = x /\ Lists(list, n)
<1> DEFINE found == {i \in 1 .. Len(list) : list[i].n = n}
<1>1. FindIndex(list, n) = IF found # {} THEN Min(found) ELSE 0
  BY DEF FindIndex, SelectInSeq
<1>2. ASSUME \A i \in 1 .. Len(list) : list[i].n # n
      PROVE  ~Lists(list, n)
  BY <1>1, <1>2 DEF Lists
<1>3. ASSUME NEW x \in 1 .. Len(list), list[x].n = n,
             \A i \in 1 .. Len(list) : list[i].n = n => i = x
      PROVE  FindIndex(list, n) = x /\ Lists(list, n)
  <2>1. found = {x}
    BY <1>3
  <2>2. Min({x}) = x
    BY DEF Min
  <2>3. FindIndex(list, n) = x
    BY <1>1, <2>1, <2>2
  <2>4. x # 0
    OBVIOUS
  <2> QED
    BY <2>3, <2>4 DEF Lists
<1> QED
  BY <1>2, <1>3

LEMMA WithoutIs ==
    ASSUME NEW list \in Seq(Entries), NEW n, NEW x \in 1 .. Len(list), FindIndex(list, n) = x
    PROVE  /\ Without(list, n) \in Seq(Entries)
           /\ Len(list) \in Nat /\ Len(Without(list, n)) = Len(list) - 1
           /\ \A i \in 1 .. Len(list) - 1 :
                 Without(list, n)[i] = IF i < x THEN list[i] ELSE list[i + 1]
<1> DEFINE newer == SubSeq(list, 1, x - 1)
           older == SubSeq(list, x + 1, Len(list))
<1>1. Len(list) \in Nat /\ x \in Nat /\ x >= 1 /\ x <= Len(list)
      /\ \A i \in 1 .. Len(list) : list[i] \in Entries
  OBVIOUS
<1>2. /\ newer \in Seq(Entries) /\ Len(newer) = x - 1
      /\ \A i \in 1 .. x - 1 : newer[i] = list[i]
  <2>1. x - 1 \in Int /\ \A i \in 1 .. x - 1 : list[i] \in Entries
    BY <1>1
  <2>2. /\ newer \in Seq(Entries) /\ Len(newer) = IF 1 <= x - 1 THEN x - 1 - 1 + 1 ELSE 0
        /\ \A i \in 1 .. x - 1 - 1 + 1 : newer[i] = list[1 + i - 1]
    BY <2>1, SubSeqProperties
  <2> HIDE DEF newer
  <2> QED
    BY <1>1, <2>2
<1>3. /\ older \in Seq(Entries) /\ Len(older) = Len(list) - x
      /\ \A i \in 1 .. Len(list) - x : older[i] = list[x + i]
  <2>1. x + 1 \in Int /\ Len(list) \in Int /\ \A i \in x + 1 .. Len(list) : list[i] \in Entries
    BY <1>1
  <2>2. /\ older \in Seq(Entries)
        /\ Len(older) = IF x + 1 <= Len(list) THEN Len(list) - (x + 1) + 1 ELSE 0
        /\ \A i \in 1 .. Len(list) - (x + 1) + 1 : older[i] = list[x + 1 + i - 1]
    BY <2>1, SubSeqProperties
  <2> HIDE DEF older
  <2> QED
    BY <1>1, <2>2
<1>4. Without(list, n) = newer \o older
  BY DEF Without, RemoveAt
<1> HIDE DEF newer, older
<1>5. /\ newer \o older \in Seq(Entries) /\ Len(newer \o older) = Len(newer) + Len(older)
      /\ \A i \in 1 .. Len(newer) + Len(older) :
            (newer \o older)[i] = IF i <= Len(newer) THEN newer[i] ELSE older[i - Len(newer)]
  BY <1>2, <1>3, ConcatProperties
<1>6. ASSUME NEW i \in 1 .. Len(list) - 1
      PROVE  (newer \o older)[i] = IF i < x THEN list[i] ELSE list[i + 1]
  <2>1. CASE i < x
    BY <1>1, <1>2, <1>3, <1>5, <2>1
  <2>2. CASE ~(i < x)
    <3>1. i - (x - 1) \in 1 .. Len(list) - x /\ x + (i - (x - 1)) = i + 1 /\ ~(i <= x - 1)
      BY <1>1, <2>2
    <3>2. i \in 1 .. Len(newer) + Len(older) /\ ~(i <= Len(newer))
      BY <1>1, <1>2, <1>3, <2>2
    <3>3. (newer \o older)[i] = older[i - (x - 1)]
      BY <1>2, <1>5, <3>2
    <3>4. older[i - (x - 1)] = list[x + (i - (x - 1))]
      BY <1>3, <3>1
    <3> QED
      BY <2>2, <3>1, <3>3, <3>4
  <2> QED
    BY <2>1, <2>2
<1> QED
  BY <1>1, <1>2, <1>3, <1>4, <1>5, <1>6

(***************************************************************************)
(* A new entry joins feed and history: what Cap drops is older than Cap      *)
(* others, because an entry stands no further down than the newer ones go.   *)
(***************************************************************************)
LEMMA SelectionAdds ==
    ASSUME NEW list \in Seq(Entries), NEW all \in Seq(Entries), NEW gone, NEW e \in Entries,
           Selection(list, all, gone), Numbered(all), e.n \notin gone,
           \A k \in 1 .. Len(all) : all[k].n # e.n
    PROVE  Selection(Added(list, e), Append(all, e), gone)
<1> DEFINE list2 == Added(list, e)
           all2 == Append(all, e)
           c == Len(list)
           n == Len(all)
           c2 == Len(list2)
<1>1. c \in Nat /\ c2 \in Nat /\ n \in Nat /\ Cap \in Nat /\ Cap >= 1 /\ c <= Cap
  BY AddedIs, IntakeAssumption DEF Selection
<1>2. c2 = IF c < Cap THEN c + 1 ELSE Cap
  BY AddedIs
<1>3. list2[1] = e /\ Len(list2) = c2 /\ Len(all2) = n + 1 /\ all2[n + 1] = e
  BY AddedIs, AppendProperties
<1>4. \A i \in 2 .. c2 : i - 1 \in 1 .. c /\ list2[i] = list[i - 1]
  BY AddedIs
<1>5. \A k \in 1 .. n : all2[k] = all[k] /\ all[k] # e
  BY AppendProperties
<1>6. \A k, m \in 1 .. n : all[k] = all[m] => k = m
  BY DEF Numbered
<1>7. \A i \in 1 .. c : list[i].n \notin gone /\ \E k \in 1 .. n : list[i] = all[k] /\ k + i <= n + 1
  BY DEF Selection
<1>8. \A i, j \in 1 .. c, k, m \in 1 .. n : i < j /\ list[i] = all[k] /\ list[j] = all[m] => k > m
  BY DEF Selection
<1>9. \A k \in 1 .. n : all[k].n \in gone \/ n - k >= Cap \/ \E i \in 1 .. c : list[i] = all[k]
  BY DEF Selection
<1> HIDE DEF list2, all2, c, n, c2
<1>10. c2 <= Cap /\ c2 >= 1 /\ c2 <= c + 1
  BY <1>1, <1>2
<1>11. ASSUME NEW i \in 1 .. c2, i # 1
       PROVE  i - 1 \in 1 .. c /\ list2[i] = list[i - 1]
  <2>1. i \in 2 .. c2
    BY <1>1, <1>11
  <2> QED
    BY <1>4, <2>1
\* where an entry of the longer feed stands in the longer history
<1>12. ASSUME NEW i \in 1 .. c2, NEW k \in 1 .. n + 1, list2[i] = all2[k]
       PROVE  IF i = 1 THEN k = n + 1 ELSE k \in 1 .. n /\ list[i - 1] = all[k]
  <2>1. k # n + 1 => k \in 1 .. n
    BY <1>1
  <2>2. CASE i = 1
    BY <1>3, <1>5, <1>12, <2>1, <2>2
  <2>3. CASE i # 1
    <3>1. i - 1 \in 1 .. c /\ list2[i] = list[i - 1]
      BY <1>11, <2>3
    <3>2. PICK o \in 1 .. n : list[i - 1] = all[o]
      BY <1>7, <3>1
    <3>3. k # n + 1
      BY <1>3, <1>5, <1>12, <3>1, <3>2
    <3> QED
      BY <1>5, <1>12, <2>1, <2>3, <3>1, <3>3
  <2> QED
    BY <2>2, <2>3
<1>13. ASSUME NEW i \in 1 .. c2
       PROVE  /\ list2[i].n \notin gone
              /\ \E k \in 1 .. n + 1 : list2[i] = all2[k] /\ k + i <= n + 1 + 1
  <2>1. CASE i = 1
    <3>1. n + 1 \in 1 .. n + 1 /\ n + 1 + i <= n + 1 + 1
      BY <1>1, <2>1
    <3> QED
      BY <1>3, <2>1, <3>1
  <2>2. CASE i # 1
    <3>1. i - 1 \in 1 .. c /\ list2[i] = list[i - 1]
      BY <1>11, <2>2
    <3>2. PICK k \in 1 .. n : list[i - 1] = all[k] /\ k + (i - 1) <= n + 1
      BY <1>7, <3>1
    <3>3. k \in 1 .. n + 1 /\ k + i <= n + 1 + 1
      BY <1>1, <3>2
    <3>4. list2[i].n \notin gone /\ list2[i] = all2[k]
      BY <1>5, <1>7, <3>1, <3>2
    <3> QED
      BY <3>3, <3>4
  <2> QED
    BY <2>1, <2>2
<1>14. ASSUME NEW i \in 1 .. c2, NEW j \in 1 .. c2, NEW k \in 1 .. n + 1, NEW m \in 1 .. n + 1,
              i < j, list2[i] = all2[k], list2[j] = all2[m]
       PROVE  k > m
  <2>1. j # 1
    BY <1>1, <1>14
  <2>2. m \in 1 .. n /\ list[j - 1] = all[m] /\ j - 1 \in 1 .. c
    BY <1>11, <1>12, <1>14, <2>1
  <2>3. CASE i = 1
    <3>1. k = n + 1
      BY <1>12, <1>14, <2>3
    <3> QED
      BY <1>1, <2>2, <3>1
  <2>4. CASE i # 1
    <3>1. k \in 1 .. n /\ list[i - 1] = all[k] /\ i - 1 \in 1 .. c
      BY <1>11, <1>12, <1>14, <2>4
    <3>2. i - 1 < j - 1
      BY <1>1, <1>14
    <3> QED
      BY <1>8, <2>2, <3>1, <3>2
  <2> QED
    BY <2>3, <2>4
<1>15. ASSUME NEW k \in 1 .. n + 1
       PROVE  \/ all2[k].n \in gone
              \/ n + 1 - k >= Cap
              \/ \E i \in 1 .. c2 : list2[i] = all2[k]
  <2>1. CASE k = n + 1
    <3>1. 1 \in 1 .. c2
      BY <1>1, <1>10
    <3> QED
      BY <1>3, <2>1, <3>1
  <2>2. CASE k # n + 1 /\ \E i \in 1 .. c : list[i] = all[k]
    <3>1. k \in 1 .. n
      BY <1>1, <2>2
    <3>2. all2[k] = all[k]
      BY <1>5, <3>1
    <3>3. PICK i \in 1 .. c : list[i] = all[k]
      BY <2>2
    <3>4. CASE i + 1 <= c2
      <4>1. i + 1 \in 1 .. c2 /\ i + 1 # 1 /\ i + 1 - 1 = i
        BY <1>1, <3>4
      <4>2. list2[i + 1] = list[i]
        BY <1>11, <4>1
      <4> QED
        BY <3>2, <3>3, <4>1, <4>2
    <3>5. CASE ~(i + 1 <= c2)
      <4>1. i = Cap
        BY <1>1, <1>2, <3>5
      <4>2. PICK m \in 1 .. n : list[i] = all[m] /\ m + i <= n + 1
        BY <1>7
      <4>3. k = m
        BY <1>6, <3>1, <3>3, <4>2
      <4> QED
        BY <1>1, <4>1, <4>2, <4>3
    <3> QED
      BY <3>4, <3>5
  <2>3. CASE k # n + 1 /\ ~\E i \in 1 .. c : list[i] = all[k]
    <3>1. k \in 1 .. n
      BY <1>1, <2>3
    <3>2. all2[k] = all[k] /\ (all[k].n \in gone \/ n - k >= Cap)
      BY <1>5, <1>9, <2>3, <3>1
    <3>3. n - k >= Cap => n + 1 - k >= Cap
      BY <1>1, <3>1
    <3> QED
      BY <3>2, <3>3
  <2> QED
    BY <2>1, <2>2, <2>3
<1>16. Selection(list2, all2, gone)
  <2>1. Len(list2) <= Cap
    BY <1>3, <1>10
  <2>2. \A i \in 1 .. Len(list2) :
            /\ list2[i].n \notin gone
            /\ \E k \in 1 .. Len(all2) : list2[i] = all2[k] /\ k + i <= Len(all2) + 1
    BY <1>3, <1>13
  <2>3. \A i, j \in 1 .. Len(list2), k, m \in 1 .. Len(all2) :
            i < j /\ list2[i] = all2[k] /\ list2[j] = all2[m] => k > m
    BY <1>3, <1>14
  <2>4. \A k \in 1 .. Len(all2) :
            \/ all2[k].n \in gone
            \/ Len(all2) - k >= Cap
            \/ \E i \in 1 .. Len(list2) : list2[i] = all2[k]
    <3> SUFFICES ASSUME NEW k \in 1 .. Len(all2)
                 PROVE  \/ all2[k].n \in gone
                        \/ Len(all2) - k >= Cap
                        \/ \E i \in 1 .. Len(list2) : list2[i] = all2[k]
      OBVIOUS
    <3>1. k \in 1 .. n + 1 /\ 1 .. Len(list2) = 1 .. c2
      BY <1>3
    <3>2. Len(all2) - k = n + 1 - k
      BY <1>1, <1>3, <3>1
    <3> QED
      BY <1>15, <3>1, <3>2, Zenon
  <2> QED
    BY <2>1, <2>2, <2>3, <2>4, Zenon DEF Selection
<1> QED
  BY <1>16 DEF list2, all2

\* a feed shows a number once
LEMMA FoundOnce ==
    ASSUME NEW list \in Seq(Entries), NEW all \in Seq(Entries), NEW gone, NEW n,
           Selection(list, all, gone), Numbered(all), Lists(list, n)
    PROVE  \E x \in 1 .. Len(list) :
               /\ FindIndex(list, n) = x /\ list[x].n = n
               /\ \A i \in 1 .. Len(list) : list[i].n = n => i = x
<1>1. PICK x \in 1 .. Len(list) : list[x].n = n
  BY FoundIs
<1>2. PICK here \in 1 .. Len(all) : list[x] = all[here]
  BY DEF Selection
<1>3. ASSUME NEW i \in 1 .. Len(list), list[i].n = n PROVE i = x
  <2>1. PICK k \in 1 .. Len(all) : list[i] = all[k]
    BY DEF Selection
  <2>2. k = here
    BY <1>1, <1>2, <1>3, <2>1 DEF Numbered
  <2>3. ~(i < x) /\ ~(x < i)
    <3>1. i < x => here > here
      BY <1>2, <2>1, <2>2 DEF Selection
    <3>2. x < i => here > here
      BY <1>2, <2>1, <2>2 DEF Selection
    <3>3. here \in Int
      OBVIOUS
    <3> QED
      BY <3>1, <3>2, <3>3
  <2>4. i \in Int /\ x \in Int
    OBVIOUS
  <2> QED
    BY <2>3, <2>4
<1>4. FindIndex(list, n) = x
  BY <1>1, <1>3, FoundIs
<1> QED
  BY <1>1, <1>3, <1>4

(***************************************************************************)
(* The admin takes one entry out: the others close up.                       *)
(***************************************************************************)
TakenOut(gone, n, gone2) == gone2 = gone \union {n}

LEMMA SelectionRemoves ==
    ASSUME NEW list \in Seq(Entries), NEW all \in Seq(Entries), NEW gone, NEW n,
           Selection(list, all, gone), Numbered(all), Lists(list, n),
           NEW gone2, TakenOut(gone, n, gone2)
    PROVE  /\ Without(list, n) \in Seq(Entries)
           /\ Selection(Without(list, n), all, gone2)
           /\ \A i \in 1 .. Len(Without(list, n)) :
                 \E j \in 1 .. Len(list) : Without(list, n)[i] = list[j]
<1> PICK x \in 1 .. Len(list) :
        /\ FindIndex(list, n) = x /\ list[x].n = n
        /\ \A i \in 1 .. Len(list) : list[i].n = n => i = x
  BY FoundOnce
<1>0. gone2 = gone \union {n}
  BY DEF TakenOut
<1> DEFINE list2 == Without(list, n)
           c == Len(list)
           Was(i) == IF i < x THEN i ELSE i + 1
<1>1. /\ list2 \in Seq(Entries) /\ c \in Nat /\ Len(list2) = c - 1
      /\ \A i \in 1 .. c - 1 : list2[i] = IF i < x THEN list[i] ELSE list[i + 1]
  BY WithoutIs
<1>2. Len(all) \in Nat /\ Cap \in Nat /\ c <= Cap
  BY IntakeAssumption DEF Selection
<1> HIDE DEF list2
<1>3. ASSUME NEW i \in 1 .. c - 1
      PROVE  /\ Was(i) \in 1 .. c /\ Was(i) # x /\ list2[i] = list[Was(i)]
             /\ i <= Was(i)
  BY <1>1
<1>4. \A i, j \in 1 .. c - 1 : i < j => Was(i) < Was(j)
  BY <1>1
<1>5. ASSUME NEW j \in 1 .. c, j # x
      PROVE  \E i \in 1 .. c - 1 : Was(i) = j
  <2>1. CASE j < x
    BY <1>1, <2>1
  <2>2. CASE j > x
    <3>1. j - 1 \in 1 .. c - 1 /\ Was(j - 1) = j
      BY <1>1, <2>2
    <3> QED
      BY <3>1
  <2> QED
    BY <1>1, <1>5, <2>1, <2>2
<1> HIDE DEF Was
<1>6. ASSUME NEW i \in 1 .. c - 1
      PROVE  /\ list2[i].n \notin gone2
             /\ \E k \in 1 .. Len(all) : list2[i] = all[k] /\ k + i <= Len(all) + 1
  <2>1. Was(i) \in 1 .. c /\ Was(i) # x /\ list2[i] = list[Was(i)] /\ i <= Was(i)
    BY <1>3
  <2>2. list[Was(i)].n \notin gone /\ list[Was(i)].n # n
    BY <2>1 DEF Selection
  <2>3. PICK k \in 1 .. Len(all) : list[Was(i)] = all[k] /\ k + Was(i) <= Len(all) + 1
    BY <2>1 DEF Selection
  <2>4. k + i <= Len(all) + 1
    BY <1>1, <1>2, <2>1, <2>3
  <2> QED
    BY <1>0, <2>1, <2>2, <2>3, <2>4
<1>7. ASSUME NEW i \in 1 .. c - 1, NEW j \in 1 .. c - 1,
             NEW k \in 1 .. Len(all), NEW m \in 1 .. Len(all),
             i < j, list2[i] = all[k], list2[j] = all[m]
      PROVE  k > m
  <2>1. Was(i) \in 1 .. c /\ Was(j) \in 1 .. c /\ Was(i) < Was(j)
        /\ list[Was(i)] = all[k] /\ list[Was(j)] = all[m]
    BY <1>3, <1>4, <1>7
  <2> QED
    BY <2>1 DEF Selection
<1>8. ASSUME NEW k \in 1 .. Len(all)
      PROVE  \/ all[k].n \in gone2
             \/ Len(all) - k >= Cap
             \/ \E i \in 1 .. c - 1 : list2[i] = all[k]
  <2>1. CASE \E j \in 1 .. c : list[j] = all[k]
    <3>1. PICK j \in 1 .. c : list[j] = all[k]
      BY <2>1
    <3>2. CASE j = x
      BY <1>0, <3>1, <3>2
    <3>3. CASE j # x
      <4>1. PICK i \in 1 .. c - 1 : Was(i) = j
        BY <1>5, <3>3
      <4> QED
        BY <1>3, <3>1, <4>1
    <3> QED
      BY <3>2, <3>3
  <2>2. CASE ~\E j \in 1 .. c : list[j] = all[k]
    BY <1>0, <2>2 DEF Selection
  <2> QED
    BY <2>1, <2>2
<1>9. Len(list2) <= Cap
  BY <1>1, <1>2
<1>10. Selection(list2, all, gone2)
  BY <1>1, <1>6, <1>7, <1>8, <1>9 DEF Selection
<1>11. \A i \in 1 .. Len(list2) : \E j \in 1 .. c : list2[i] = list[j]
  BY <1>1, <1>3
<1> QED
  BY <1>1, <1>10, <1>11 DEF list2

(***************************************************************************)
(* The requests, each at its place.                                          *)
(***************************************************************************)
Jobs == [at : {"idle", "submit", "upload", "adding", "unlinking"},
         pit : Pits \union {NoPit}, entry : Entries]

LEMMA WorkerMoves ==
    ASSUME IntakeTypeOK, NEW w \in Workers, NEW x \in Jobs, workers' = [workers EXCEPT ![w] = x]
    PROVE  /\ workers' \in [Workers -> Jobs] /\ workers'[w] = x
           /\ \A v \in Workers : v # w => workers'[v] = workers[v]
  BY DEF IntakeTypeOK, Jobs

LEMMA JobsTyped ==
    /\ Resting \in Jobs /\ Resting.at = "idle"
    /\ \A place \in {"adding", "unlinking"}, p \in Pits, e \in Entries :
          /\ Working(place, p, e) \in Jobs /\ Working(place, p, e).at = place
          /\ Working(place, p, e).pit = p /\ Working(place, p, e).entry = e
    /\ \A d \in {"submit", "upload"} :
          Working(d, NoPit, NoEntry) \in Jobs /\ Working(d, NoPit, NoEntry).at = d
    /\ \A n \in 0 .. MaxEntries, upload \in BOOLEAN, dotted \in BOOLEAN :
          /\ Entry(n, upload, dotted) \in Entries /\ Entry(n, upload, dotted).n = n
          /\ Entry(n, upload, dotted).upload = upload
<1>1. NoEntry \in Entries
  BY IntakeAssumption DEF NoEntry, Entry, Entries
<1> QED
  BY <1>1 DEF Resting, Jobs, Working, Entry, Entries

LEMMA CountTyped ==
    ASSUME IntakeTypeOK, NEW d \in Doors, RateLimit(d)
    PROVE  passed' \in [Doors -> Nat]
<1>1. passed \in [Doors -> Nat] /\ Limit \in [Doors -> Int]
  BY IntakeAssumption DEF IntakeTypeOK
<1>2. passed[d] + 1 \in Nat
  BY <1>1
<1> QED
  BY <1>1, <1>2 DEF RateLimit

\* nothing of the pits changes and no request gets further
LEMMA QuietKeeps ==
    ASSUME IntakeInv, IntakeTypeOK', UNCHANGED <<feeds, bucket, made, accepted, removed>>,
           \A w \in Workers : workers'[w] = workers[w] \/ workers'[w].at \notin {"adding", "unlinking"}
    PROVE  IntakeInv'
<1>1. ASSUME NEW w \in Workers PROVE WorkerInv(w)'
  BY <1>1 DEF IntakeInv, WorkerInv
<1>2. ASSUME NEW p \in Pits PROVE PitInv(p)'
  BY <1>2 DEF IntakeInv, PitInv
<1> QED
  BY <1>1, <1>2 DEF IntakeInv

\* a request gets a number nobody has
LEMMA NumberingKeeps ==
    ASSUME IntakeInv, NEW w \in Workers, NEW p \in Pits, Submits(w, p) \/ Uploads(w, p)
    PROVE  IntakeInv'
<1>1. /\ IntakeTypeOK /\ removed \subseteq 1 .. made /\ made \in 0 .. MaxEntries
      /\ MaxEntries \in Nat /\ made < MaxEntries /\ made' = made + 1
      /\ feeds \in [Pits -> Seq(Entries)] /\ accepted \in [Pits -> Seq(Entries)]
      /\ UNCHANGED <<feeds, accepted, removed>>
  <2>1. IntakeTypeOK /\ removed \subseteq 1 .. made
    BY DEF IntakeInv
  <2>2. made < MaxEntries /\ made' = made + 1 /\ UNCHANGED <<feeds, accepted, removed>>
    BY DEF Submits, Uploads
  <2> QED
    BY <2>1, <2>2, IntakeAssumption DEF IntakeTypeOK
<1>2. made' \in 0 .. MaxEntries /\ made' \in Numbers /\ made' \notin removed
  BY <1>1 DEF Numbers
<1>3. PICK e \in Entries :
          /\ e.n = made' /\ workers' = [workers EXCEPT ![w] = Working("adding", p, e)]
          /\ bucket \subseteq bucket' /\ bucket' \subseteq Numbers
          /\ e.upload => made' \in bucket'
  <2>1. CASE Submits(w, p)
    <3> DEFINE e == Entry(made', FALSE, FALSE)
    <3>1. e \in Entries /\ e.n = made' /\ ~e.upload
      BY <1>2, JobsTyped
    <3>2. workers' = [workers EXCEPT ![w] = Working("adding", p, e)] /\ bucket' = bucket
      BY <2>1 DEF Submits
    <3>3. bucket \subseteq Numbers
      BY <1>1 DEF IntakeTypeOK
    <3> HIDE DEF e
    <3> QED
      BY <3>1, <3>2, <3>3
  <2>2. CASE Uploads(w, p)
    <3>4. PICK dotted \in BOOLEAN :
            workers' = [workers EXCEPT ![w] = Working("adding", p, Entry(made', TRUE, dotted))]
      BY <2>2 DEF Uploads
    <3> DEFINE e == Entry(made', TRUE, dotted)
    <3>5. dotted \in BOOLEAN
      BY <3>4
    <3>1. e \in Entries /\ e.n = made'
      BY <1>2, <3>5 DEF Entry, Entries
    <3>2. /\ workers' = [workers EXCEPT ![w] = Working("adding", p, e)]
          /\ bucket' = bucket \union {made'}
      BY <2>2, <3>4 DEF Uploads
    <3>3. bucket \subseteq Numbers
      BY <1>1 DEF IntakeTypeOK
    <3> HIDE DEF e
    <3> QED
      BY <1>2, <3>1, <3>2, <3>3
  <2> QED
    BY <2>1, <2>2
<1>4. /\ workers' \in [Workers -> Jobs] /\ workers'[w] = Working("adding", p, e)
      /\ \A v \in Workers : v # w => workers'[v] = workers[v]
  <2>1. Working("adding", p, e) \in Jobs
    BY JobsTyped
  <2> QED
    BY <1>1, <1>3, <2>1, WorkerMoves
<1>5. workers'[w].at = "adding" /\ workers'[w].pit = p /\ workers'[w].entry = e
  BY <1>3, <1>4, JobsTyped
<1>6. passed' \in [Doors -> Nat]
  BY <1>1 DEF Submits, Uploads, IntakeTypeOK
<1>7. IntakeTypeOK'
  BY <1>1, <1>2, <1>3, <1>4, <1>6 DEF IntakeTypeOK, Jobs
<1>8. ASSUME NEW q \in Pits PROVE PitInv(q)'
  <2>1. PitInv(q) /\ accepted[q] \in Seq(Entries)
    <3>1. PitInv(q)
      BY DEF IntakeInv
    <3> QED
      BY <1>1, <3>1
  <2>2. \A k \in 1 .. Len(accepted[q]) : accepted[q][k].n <= made'
    <3>1. \A k \in 1 .. Len(accepted[q]) : accepted[q][k].n \in 0 .. MaxEntries
      BY <2>1, NumberOf
    <3> QED
      BY <1>1, <2>1, <3>1 DEF PitInv
  <2> QED
    BY <1>1, <1>3, <2>1, <2>2 DEF PitInv
<1>9. \A q \in Pits : \A k \in 1 .. Len(accepted[q]) : accepted[q][k].n # e.n
  <2> SUFFICES ASSUME NEW q \in Pits, NEW k \in 1 .. Len(accepted[q]) PROVE accepted[q][k].n # e.n
    OBVIOUS
  <2>1. accepted[q] \in Seq(Entries) /\ accepted[q][k].n <= made
    <3>1. PitInv(q)
      BY DEF IntakeInv
    <3> QED
      BY <1>1, <3>1 DEF PitInv
  <2>2. accepted[q][k].n \in 0 .. MaxEntries
    BY <2>1, NumberOf
  <2> QED
    BY <1>1, <1>3, <2>1, <2>2
<1>10. ASSUME NEW v \in Workers, v # w
       PROVE  /\ WorkerInv(v) /\ workers[v].entry.n \in 0 .. MaxEntries
              /\ workers[v].at = "adding" => workers[v].entry.n # e.n /\ workers[v].entry.n <= made'
  <2>1. WorkerInv(v) /\ workers[v].entry \in Entries
    BY <1>1 DEF IntakeInv, IntakeTypeOK
  <2>2. workers[v].entry.n \in 0 .. MaxEntries
    BY <2>1 DEF Entries
  <2>3. workers[v].at = "adding" => workers[v].entry.n <= made
    BY <2>1 DEF WorkerInv
  <2> QED
    BY <1>1, <1>3, <2>1, <2>2, <2>3
<1>11. WorkerInv(w)'
  <2>1. e.n <= made' /\ e.n \notin removed
    BY <1>2, <1>3, <1>1
  <2>2. \A v \in Workers : workers'[v].at = "adding" /\ workers'[v].entry.n = e.n => v = w
    BY <1>4, <1>10
  <2> QED
    BY <1>1, <1>3, <1>5, <1>9, <2>1, <2>2 DEF WorkerInv
<1>12. ASSUME NEW v \in Workers, v # w PROVE WorkerInv(v)'
  <2>1. /\ workers'[v] = workers[v] /\ WorkerInv(v)
        /\ workers[v].at = "adding" => workers[v].entry.n # e.n /\ workers[v].entry.n <= made'
    BY <1>4, <1>10, <1>12
  <2>2. ASSUME workers[v].at = "adding", NEW u \in Workers,
               workers'[u].at = "adding", workers'[u].entry.n = workers[v].entry.n
        PROVE  u = v
    <3>1. u # w
      BY <1>5, <2>1, <2>2
    <3> QED
      BY <1>4, <2>1, <2>2, <3>1 DEF WorkerInv
  <2> QED
    BY <1>1, <1>3, <2>1, <2>2 DEF WorkerInv
<1>13. \A v \in Workers : WorkerInv(v)'
  BY <1>11, <1>12
<1>14. removed' \subseteq 1 .. made'
  BY <1>1
<1>15. \A q \in Pits : PitInv(q)'
  BY <1>8
<1> QED
  BY <1>7, <1>13, <1>14, <1>15 DEF IntakeInv

\* IntakeStore.add: the entry of a request that got this far
LEMMA AddKeeps ==
    ASSUME IntakeInv, NEW w \in Workers, Adds(w)
    PROVE  IntakeInv'
<1> PICK p, e : p = workers[w].pit /\ e = workers[w].entry
  OBVIOUS
<1>1. /\ workers[w].at = "adding" /\ feeds' = [feeds EXCEPT ![p] = Added(@, e)]
      /\ accepted' = [accepted EXCEPT ![p] = Append(@, e)]
      /\ workers' = [workers EXCEPT ![w] = Resting]
      /\ UNCHANGED <<bucket, passed, made, removed>>
  BY DEF Adds
<1>2. /\ IntakeTypeOK /\ removed \subseteq 1 .. made
      /\ feeds \in [Pits -> Seq(Entries)] /\ accepted \in [Pits -> Seq(Entries)]
      /\ \A v \in Workers : WorkerInv(v)
      /\ \A q \in Pits : PitInv(q)
  BY DEF IntakeInv, IntakeTypeOK
<1>3. /\ p \in Pits /\ e.n <= made /\ e.n \notin removed /\ (e.upload => e.n \in bucket)
      /\ \A q \in Pits : \A k \in 1 .. Len(accepted[q]) : accepted[q][k].n # e.n
      /\ \A v \in Workers : workers[v].at = "adding" /\ workers[v].entry.n = e.n => v = w
  BY <1>1, <1>2 DEF WorkerInv
<1>4. e \in Entries
  BY <1>2 DEF IntakeTypeOK
<1>5. /\ workers' \in [Workers -> Jobs] /\ workers'[w] = Resting /\ Resting.at = "idle"
      /\ \A v \in Workers : v # w => workers'[v] = workers[v]
  <2>1. Resting \in Jobs /\ Resting.at = "idle"
    BY JobsTyped
  <2> QED
    BY <1>1, <1>2, <2>1, WorkerMoves
<1>6. /\ feeds'[p] = Added(feeds[p], e) /\ accepted'[p] = Append(accepted[p], e)
      /\ \A q \in Pits : q # p => feeds'[q] = feeds[q] /\ accepted'[q] = accepted[q]
  BY <1>1, <1>2, <1>3
<1>7. feeds[p] \in Seq(Entries) /\ accepted[p] \in Seq(Entries) /\ PitInv(p)
  BY <1>2, <1>3
<1>8. /\ feeds'[p] \in Seq(Entries) /\ feeds'[p][1] = e
      /\ \A i \in 2 .. Len(feeds'[p]) :
            i - 1 \in 1 .. Len(feeds[p]) /\ feeds'[p][i] = feeds[p][i - 1]
  <2>1. /\ Added(feeds[p], e) \in Seq(Entries) /\ Added(feeds[p], e)[1] = e
        /\ \A i \in 2 .. Len(Added(feeds[p], e)) :
              i - 1 \in 1 .. Len(feeds[p]) /\ Added(feeds[p], e)[i] = feeds[p][i - 1]
    BY <1>4, <1>7, AddedIs
  <2> QED
    BY <1>6, <2>1
<1>9. /\ accepted'[p] \in Seq(Entries) /\ Len(accepted[p]) \in Nat
      /\ Len(accepted'[p]) = Len(accepted[p]) + 1
      /\ \A k \in 1 .. Len(accepted[p]) : accepted'[p][k] = accepted[p][k]
      /\ accepted'[p][Len(accepted[p]) + 1] = e
  BY <1>4, <1>6, <1>7, AppendProperties
<1>10. feeds' \in [Pits -> Seq(Entries)] /\ accepted' \in [Pits -> Seq(Entries)]
  <2>1. Added(feeds[p], e) \in Seq(Entries) /\ Append(accepted[p], e) \in Seq(Entries)
    BY <1>6, <1>8, <1>9
  <2> QED
    BY <1>1, <1>2, <2>1
<1>11. IntakeTypeOK'
  BY <1>1, <1>2, <1>5, <1>10 DEF IntakeTypeOK, Jobs
\* an entry of the histories is an old one or the new one
<1>12. ASSUME NEW q \in Pits, NEW k \in 1 .. Len(accepted'[q])
       PROVE  \/ k \in 1 .. Len(accepted[q]) /\ accepted'[q][k] = accepted[q][k]
              \/ q = p /\ k = Len(accepted[p]) + 1 /\ accepted'[q][k] = e
  <2>1. CASE q = p
    <3>1. k \in 1 .. Len(accepted[p]) \/ k = Len(accepted[p]) + 1
      BY <1>9, <1>12, <2>1
    <3> QED
      BY <1>9, <2>1, <3>1
  <2>2. CASE q # p
    BY <1>6, <1>12, <2>2
  <2> QED
    BY <2>1, <2>2
<1>13. \A q \in Pits : \A k \in 1 .. Len(accepted'[q]) : accepted'[q][k].n <= made
  BY <1>2, <1>3, <1>12 DEF PitInv
<1>14. ASSUME NEW q \in Pits, NEW r \in Pits, NEW k \in 1 .. Len(accepted'[q]),
              NEW m \in 1 .. Len(accepted'[r]), accepted'[q][k].n = accepted'[r][m].n
       PROVE  q = r /\ k = m
  <2>1. /\ \/ k \in 1 .. Len(accepted[q]) /\ accepted'[q][k] = accepted[q][k]
           \/ q = p /\ k = Len(accepted[p]) + 1 /\ accepted'[q][k] = e
        /\ \/ m \in 1 .. Len(accepted[r]) /\ accepted'[r][m] = accepted[r][m]
           \/ r = p /\ m = Len(accepted[p]) + 1 /\ accepted'[r][m] = e
    BY <1>12
  <2>2. ASSUME k \in 1 .. Len(accepted[q]), m \in 1 .. Len(accepted[r]),
               accepted[q][k].n = accepted[r][m].n
        PROVE  q = r /\ k = m
    BY <1>2, <2>2 DEF PitInv
  <2> QED
    BY <1>3, <1>14, <2>1, <2>2
<1>15. PitInv(p)'
  <2>1. Numbered(accepted[p])
    BY <1>3, <1>7 DEF PitInv, Numbered
  <2>2. Selection(feeds'[p], accepted'[p], removed)
    <3>1. Selection(feeds[p], accepted[p], removed)
      BY <1>7 DEF PitInv
    <3>2. Selection(Added(feeds[p], e), Append(accepted[p], e), removed)
      BY <1>3, <1>4, <1>7, <2>1, <3>1, SelectionAdds
    <3> QED
      BY <1>6, <3>2
  <2>3. ASSUME NEW i \in 1 .. Len(feeds'[p]), feeds'[p][i].upload
        PROVE  feeds'[p][i].n \in bucket
    <3>1. CASE i = 1
      BY <1>3, <1>8, <2>3, <3>1
    <3>2. CASE i # 1
      <4>1. i \in 2 .. Len(feeds'[p])
        BY <1>8, <3>2
      <4>2. i - 1 \in 1 .. Len(feeds[p]) /\ feeds'[p][i] = feeds[p][i - 1]
        BY <1>8, <4>1
      <4> QED
        BY <1>7, <2>3, <4>2 DEF PitInv
    <3> QED
      BY <3>1, <3>2
  <2>4. /\ Selection(feeds'[p], accepted'[p], removed')
        /\ \A i \in 1 .. Len(feeds'[p]) : feeds'[p][i].upload => feeds'[p][i].n \in bucket'
    BY <1>1, <2>2, <2>3
  <2>5. \A k \in 1 .. Len(accepted'[p]) : accepted'[p][k].n <= made'
    BY <1>1, <1>3, <1>13
  <2> QED
    BY <1>3, <1>14, <2>4, <2>5 DEF PitInv
<1>16. ASSUME NEW q \in Pits, q # p PROVE PitInv(q)'
  <2>1. PitInv(q) /\ feeds'[q] = feeds[q] /\ accepted'[q] = accepted[q]
    BY <1>2, <1>6, <1>16
  <2>2. /\ Selection(feeds'[q], accepted'[q], removed')
        /\ \A i \in 1 .. Len(feeds'[q]) : feeds'[q][i].upload => feeds'[q][i].n \in bucket'
    BY <1>1, <2>1 DEF PitInv
  <2>3. \A k \in 1 .. Len(accepted'[q]) : accepted'[q][k].n <= made'
    BY <1>1, <1>13
  <2> QED
    BY <1>14, <2>2, <2>3 DEF PitInv
<1>17. ASSUME NEW v \in Workers PROVE WorkerInv(v)'
  <2>1. CASE v = w
    BY <1>5, <2>1 DEF WorkerInv
  <2>2. CASE v # w
    <3>1. workers'[v] = workers[v] /\ WorkerInv(v)
      BY <1>2, <1>5, <2>2
    <3>2. ASSUME workers[v].at = "adding", NEW q \in Pits, NEW k \in 1 .. Len(accepted'[q])
          PROVE  accepted'[q][k].n # workers[v].entry.n
      BY <1>3, <1>12, <2>2, <3>1, <3>2 DEF WorkerInv
    <3>3. ASSUME workers[v].at = "adding", NEW u \in Workers,
                 workers'[u].at = "adding", workers'[u].entry.n = workers[v].entry.n
          PROVE  u = v
      BY <1>5, <3>1, <3>3 DEF WorkerInv
    <3> QED
      BY <1>1, <3>1, <3>2, <3>3 DEF WorkerInv
  <2> QED
    BY <2>1, <2>2
<1> QED
  BY <1>1, <1>2, <1>11, <1>15, <1>16, <1>17 DEF IntakeInv

\* DELETE /entry: the entry leaves its feed, its clip stays until the request goes on
LEMMA RemoveKeeps ==
    ASSUME IntakeInv, NEW w \in Workers, NEW p \in Pits, NEW n \in Numbers, Removes(w, p, n)
    PROVE  IntakeInv'
<1>1. /\ workers[w] = Resting /\ Lists(feeds[p], n)
      /\ feeds' = [feeds EXCEPT ![p] = Without(@, n)] /\ removed' = removed \union {n}
      /\ UNCHANGED <<bucket, passed, made, accepted>>
      /\ workers' = [workers EXCEPT ![w] =
            IF EntryOf(p, n).upload THEN Working("unlinking", p, EntryOf(p, n)) ELSE Resting]
  BY DEF Removes
<1>2. /\ IntakeTypeOK /\ removed \subseteq 1 .. made /\ made \in 0 .. MaxEntries
      /\ feeds \in [Pits -> Seq(Entries)] /\ accepted \in [Pits -> Seq(Entries)]
      /\ \A v \in Workers : WorkerInv(v)
      /\ \A q \in Pits : PitInv(q)
  BY DEF IntakeInv, IntakeTypeOK
<1>3. /\ feeds[p] \in Seq(Entries) /\ accepted[p] \in Seq(Entries) /\ PitInv(p)
      /\ Numbered(accepted[p]) /\ Selection(feeds[p], accepted[p], removed)
  BY <1>2 DEF PitInv, Numbered
<1>4. PICK x \in 1 .. Len(feeds[p]) : FindIndex(feeds[p], n) = x /\ feeds[p][x].n = n
  BY <1>1, <1>3, FoundOnce
<1>5. PICK here \in 1 .. Len(accepted[p]) : feeds[p][x] = accepted[p][here]
  BY <1>3 DEF Selection
<1>6. accepted[p][here].n = n /\ n <= made /\ n \in Numbers
  BY <1>3, <1>4, <1>5 DEF PitInv
<1>7. /\ Without(feeds[p], n) \in Seq(Entries)
      /\ Selection(Without(feeds[p], n), accepted[p], removed')
      /\ \A i \in 1 .. Len(Without(feeds[p], n)) :
            \E j \in 1 .. Len(feeds[p]) : Without(feeds[p], n)[i] = feeds[p][j]
  <2>1. TakenOut(removed, n, removed')
    BY <1>1 DEF TakenOut
  <2>2. /\ Lists(feeds[p], n) /\ feeds[p] \in Seq(Entries) /\ accepted[p] \in Seq(Entries)
        /\ Numbered(accepted[p]) /\ Selection(feeds[p], accepted[p], removed)
    BY <1>1, <1>3
  <2> QED
    BY <2>1, <2>2, SelectionRemoves
<1>8. EntryOf(p, n) \in Entries /\ EntryOf(p, n).n = n
  BY <1>3, <1>4 DEF EntryOf
<1>9. /\ feeds'[p] = Without(feeds[p], n) /\ feeds' \in [Pits -> Seq(Entries)]
       /\ \A q \in Pits : q # p => feeds'[q] = feeds[q]
  BY <1>1, <1>2, <1>7
<1>10. /\ workers' \in [Workers -> Jobs]
       /\ workers'[w].at = "idle" \/ (workers'[w].at = "unlinking" /\ workers'[w].entry.n = n)
       /\ \A v \in Workers : v # w => workers'[v] = workers[v]
  <2> DEFINE next == IF EntryOf(p, n).upload THEN Working("unlinking", p, EntryOf(p, n)) ELSE Resting
  <2>1. /\ next \in Jobs
        /\ next.at = "idle" \/ (next.at = "unlinking" /\ next.entry.n = n)
    BY <1>8, JobsTyped
  <2>2. workers' = [workers EXCEPT ![w] = next]
    BY <1>1
  <2> HIDE DEF next
  <2> QED
    BY <1>2, <2>1, <2>2, WorkerMoves
<1>11. removed' \subseteq 1 .. made' /\ removed' \subseteq Numbers
  BY <1>1, <1>2, <1>6 DEF Numbers, IntakeTypeOK
<1>12. IntakeTypeOK'
  BY <1>1, <1>2, <1>9, <1>10, <1>11 DEF IntakeTypeOK, Jobs
<1>13. PitInv(p)'
  <2>1. /\ Selection(feeds'[p], accepted[p], removed')
        /\ \A i \in 1 .. Len(feeds'[p]) : \E j \in 1 .. Len(feeds[p]) : feeds'[p][i] = feeds[p][j]
    BY <1>1, <1>7, <1>9
  <2>2. \A i \in 1 .. Len(feeds'[p]) : feeds'[p][i].upload => feeds'[p][i].n \in bucket
    BY <1>3, <2>1 DEF PitInv
  <2> QED
    BY <1>1, <1>3, <2>1, <2>2 DEF PitInv
<1>14. ASSUME NEW q \in Pits, q # p PROVE PitInv(q)'
  <2>1. PitInv(q) /\ feeds'[q] = feeds[q] /\ accepted' = accepted
    BY <1>1, <1>2, <1>9, <1>14
  <2>2. ASSUME NEW i \in 1 .. Len(feeds[q]) PROVE feeds[q][i].n # n
    <3>1. PICK k \in 1 .. Len(accepted[q]) : feeds[q][i] = accepted[q][k]
      BY <2>1 DEF PitInv, Selection
    <3> QED
      BY <1>6, <1>14, <2>1, <3>1 DEF PitInv
  <2>3. Selection(feeds[q], accepted[q], removed')
    BY <1>1, <2>1, <2>2 DEF PitInv, Selection
  <2>4. /\ Selection(feeds'[q], accepted'[q], removed')
        /\ \A i \in 1 .. Len(feeds'[q]) : feeds'[q][i].upload => feeds'[q][i].n \in bucket'
    BY <1>1, <2>1, <2>3 DEF PitInv
  <2>5. \A k \in 1 .. Len(accepted'[q]) : accepted'[q][k].n <= made'
    BY <1>1, <2>1 DEF PitInv
  <2>6. \A r \in Pits : \A k \in 1 .. Len(accepted'[q]), m \in 1 .. Len(accepted'[r]) :
            accepted'[q][k].n = accepted'[r][m].n => q = r /\ k = m
    BY <2>1 DEF PitInv
  <2> QED
    BY <2>4, <2>5, <2>6 DEF PitInv
<1>15. ASSUME NEW v \in Workers PROVE WorkerInv(v)'
  <2>1. CASE v = w
    BY <1>1, <1>10, <2>1 DEF WorkerInv
  <2>2. CASE v # w
    <3>1. workers'[v] = workers[v] /\ WorkerInv(v)
      BY <1>2, <1>10, <2>2
    <3>2. workers[v].at = "adding" => workers[v].entry.n \notin removed'
      BY <1>1, <1>5, <1>6, <3>1 DEF WorkerInv
    <3>3. ASSUME workers[v].at = "adding", NEW u \in Workers,
                 workers'[u].at = "adding", workers'[u].entry.n = workers[v].entry.n
          PROVE  u = v
      BY <1>10, <3>1, <3>3 DEF WorkerInv
    <3> QED
      BY <1>1, <3>1, <3>2, <3>3 DEF WorkerInv
  <2> QED
    BY <2>1, <2>2
<1> QED
  BY <1>11, <1>12, <1>13, <1>14, <1>15 DEF IntakeInv

\* the clip goes: no feed shows it and no request is about to add it
LEMMA UnlinkKeeps ==
    ASSUME IntakeInv, NEW w \in Workers, Unlinks(w)
    PROVE  IntakeInv'
<1> DEFINE n == workers[w].entry.n
<1>1. /\ workers[w].at = "unlinking" /\ bucket' = bucket \ {n}
      /\ workers' = [workers EXCEPT ![w] = Resting]
      /\ UNCHANGED <<feeds, passed, made, accepted, removed>>
  BY DEF Unlinks
<1>2. /\ IntakeTypeOK /\ removed \subseteq 1 .. made
      /\ \A v \in Workers : WorkerInv(v)
      /\ \A q \in Pits : PitInv(q)
  BY DEF IntakeInv
<1>3. n \in removed
  BY <1>1, <1>2 DEF WorkerInv
<1> HIDE DEF n
<1>4. /\ workers' \in [Workers -> Jobs] /\ workers'[w].at = "idle"
      /\ \A v \in Workers : v # w => workers'[v] = workers[v]
  <2>1. Resting \in Jobs /\ Resting.at = "idle"
    BY JobsTyped
  <2> QED
    BY <1>1, <1>2, <2>1, WorkerMoves
<1>5. IntakeTypeOK'
  BY <1>1, <1>2, <1>4 DEF IntakeTypeOK, Jobs
<1>6. ASSUME NEW v \in Workers PROVE WorkerInv(v)'
  <2>1. CASE v = w
    BY <1>4, <2>1 DEF WorkerInv
  <2>2. CASE v # w
    <3>1. workers'[v] = workers[v] /\ WorkerInv(v)
      BY <1>2, <1>4, <2>2
    <3>2. ASSUME workers[v].at = "adding", NEW u \in Workers,
                 workers'[u].at = "adding", workers'[u].entry.n = workers[v].entry.n
          PROVE  u = v
      BY <1>4, <3>1, <3>2 DEF WorkerInv
    <3> QED
      BY <1>1, <1>3, <3>1, <3>2 DEF WorkerInv
  <2> QED
    BY <2>1, <2>2
<1>7. ASSUME NEW q \in Pits PROVE PitInv(q)'
  <2>1. PitInv(q) /\ Selection(feeds[q], accepted[q], removed)
    BY <1>2 DEF PitInv
  <2>2. \A i \in 1 .. Len(feeds[q]) : feeds[q][i].n # n
    BY <1>3, <2>1 DEF Selection
  <2> QED
    BY <1>1, <2>1, <2>2 DEF PitInv
<1> QED
  BY <1>1, <1>2, <1>5, <1>6, <1>7 DEF IntakeInv

LEMMA IntakeStarts == IntakeInit => IntakeInv
<1> SUFFICES ASSUME IntakeInit PROVE IntakeInv
  OBVIOUS
<1>1. /\ feeds = [p \in Pits |-> <<>>] /\ accepted = [p \in Pits |-> <<>>] /\ bucket = {}
      /\ removed = {} /\ made = 0 /\ workers = [w \in Workers |-> Resting]
      /\ passed = [d \in Doors |-> 0]
  BY DEF IntakeInit
<1>2. IntakeTypeOK
  BY <1>1, IntakeAssumption, JobsTyped DEF IntakeTypeOK, Jobs
<1>3. ASSUME NEW w \in Workers PROVE WorkerInv(w)
  BY <1>1, JobsTyped DEF WorkerInv
<1>4. ASSUME NEW p \in Pits PROVE PitInv(p)
  <2>1. /\ feeds[p] = <<>> /\ Len(feeds[p]) = 0 /\ Len(accepted[p]) = 0 /\ 1 .. 0 = {} /\ 0 <= Cap
        /\ \A q \in Pits : Len(accepted[q]) = 0
    BY <1>1, IntakeAssumption
  <2> QED
    BY <2>1 DEF PitInv, Selection
<1> QED
  BY <1>1, <1>2, <1>3, <1>4 DEF IntakeInv

LEMMA IntakeKeeps == IntakeInv /\ [IntakeNext]_intakeVars => IntakeInv'
<1> SUFFICES ASSUME IntakeInv, [IntakeNext]_intakeVars PROVE IntakeInv'
  OBVIOUS
<1>1. IntakeTypeOK
  BY DEF IntakeInv
<1>2. ASSUME UNCHANGED <<feeds, bucket, workers, made, accepted, removed>>,
             passed' \in [Doors -> Nat]
      PROVE  IntakeInv'
  <2>1. IntakeTypeOK'
    BY <1>1, <1>2 DEF IntakeTypeOK
  <2> QED
    BY <1>2, <2>1, QuietKeeps
<1>3. CASE UNCHANGED intakeVars
  BY <1>1, <1>2, <1>3 DEF intakeVars, IntakeTypeOK
<1>4. ASSUME NEW d \in Doors, WindowEnds(d) PROVE IntakeInv'
  <2>1. passed' \in [Doors -> Nat]
    BY <1>1, <1>4 DEF WindowEnds, IntakeTypeOK
  <2> QED
    BY <1>2, <1>4, <2>1 DEF WindowEnds
<1>5. ASSUME WorldProxy PROVE IntakeInv'
  <2>1. passed' \in [Doors -> Nat]
    BY <1>1, <1>5, CountTyped DEF WorldProxy, Doors
  <2> QED
    BY <1>2, <1>5, <2>1 DEF WorldProxy
<1>6. ASSUME NEW w \in Workers, Dies(w) PROVE IntakeInv'
  <2>1. workers' = [workers EXCEPT ![w] = Resting] /\ UNCHANGED <<feeds, bucket, passed, made, accepted, removed>>
    BY <1>6 DEF Dies
  <2>2. /\ workers' \in [Workers -> Jobs]
        /\ \A v \in Workers : workers'[v] = workers[v] \/ workers'[v].at \notin {"adding", "unlinking"}
    <3>1. Resting \in Jobs /\ Resting.at = "idle"
      BY JobsTyped
    <3>2. /\ workers' \in [Workers -> Jobs] /\ workers'[w] = Resting
          /\ \A v \in Workers : v # w => workers'[v] = workers[v]
      BY <1>1, <2>1, <3>1, WorkerMoves
    <3> QED
      BY <3>1, <3>2
  <2>3. IntakeTypeOK'
    BY <1>1, <2>1, <2>2 DEF IntakeTypeOK, Jobs
  <2> QED
    BY <2>1, <2>2, <2>3, QuietKeeps
<1>7. ASSUME NEW w \in Workers,
             \/ \E p \in Pits : Submits(w, p) \/ Uploads(w, p)
             \/ \E p \in Pits, n \in Numbers : Removes(w, p, n)
             \/ Adds(w) \/ Unlinks(w)
      PROVE  IntakeInv'
  BY <1>7, NumberingKeeps, AddKeeps, RemoveKeeps, UnlinkKeeps
<1>8. ASSUME NEW w \in Workers, NEW d \in {"submit", "upload"}, LetIn(w, d) PROVE IntakeInv'
  <2>1. /\ workers' = [workers EXCEPT ![w] = Working(d, NoPit, NoEntry)] /\ RateLimit(d)
        /\ UNCHANGED <<feeds, bucket, made, accepted, removed>>
    BY <1>8 DEF LetIn
  <2>2. passed' \in [Doors -> Nat]
    BY <1>1, <2>1, CountTyped DEF Doors
  <2>3. /\ workers' \in [Workers -> Jobs] /\ workers'[w].at \notin {"adding", "unlinking"}
        /\ \A v \in Workers : v # w => workers'[v] = workers[v]
    <3>1. Working(d, NoPit, NoEntry) \in Jobs /\ Working(d, NoPit, NoEntry).at = d
      BY JobsTyped
    <3> QED
      BY <1>1, <2>1, <3>1, WorkerMoves
  <2>4. IntakeTypeOK'
    BY <1>1, <2>1, <2>2, <2>3 DEF IntakeTypeOK, Jobs
  <2> QED
    BY <2>1, <2>3, <2>4, QuietKeeps
<1> QED
  BY <1>3, <1>4, <1>5, <1>6, <1>7, <1>8 DEF IntakeNext

(***************************************************************************)
(* Every number is in its place, for any pits, cap, limits and requests.     *)
(***************************************************************************)
THEOREM IntakeInvariant == IntakeSpec => []IntakeInv
  BY IntakeStarts, IntakeKeeps, PTL DEF IntakeSpec

(***************************************************************************)
(* Every clip a feed shows is stored, and can be fetched unless its name     *)
(* holds "..", however many requests run at once and wherever one dies: a    *)
(* clip is deleted under the number of an entry that is out for good.        *)
(***************************************************************************)
THEOREM ListedClipsAlwaysStored == IntakeSpec => []ListedClipsAreStored
<1>1. IntakeInv => ListedClipsAreStored
  <2> SUFFICES ASSUME IntakeInv PROVE ListedClipsAreStored
    OBVIOUS
  <2>1. IntakeTypeOK /\ feeds \in [Pits -> Seq(Entries)] /\ \A p \in Pits : PitInv(p)
    BY DEF IntakeInv, IntakeTypeOK
  <2>2. \A p \in Pits : DOMAIN feeds[p] = 1 .. Len(feeds[p])
    BY <2>1
  <2> QED
    BY <2>1, <2>2 DEF ListedClipsAreStored, Stored, Served, PitInv
<1> QED
  BY <1>1, IntakeInvariant, PTL

(***************************************************************************)
(* Every feed is honest: an entry is missing only if the admin took it out   *)
(* or Cap newer ones came, whatever removals come between.                   *)
(***************************************************************************)
THEOREM FeedsAlwaysHonest == IntakeSpec => []FeedIsHonest
<1>1. ASSUME IntakeInv, NEW p \in Pits
      PROVE  /\ Len(feeds[p]) <= Cap
             /\ \A i \in DOMAIN feeds[p] :
                   /\ \E k \in DOMAIN accepted[p] : feeds[p][i] = accepted[p][k]
                   /\ feeds[p][i].n \notin removed
             /\ \A i, j \in DOMAIN feeds[p], k, m \in DOMAIN accepted[p] :
                   feeds[p][i] = accepted[p][k] /\ feeds[p][j] = accepted[p][m]
                       => (i < j <=> k > m)
             /\ \A k \in DOMAIN accepted[p] :
                   ~Lists(feeds[p], accepted[p][k].n) /\ accepted[p][k].n \notin removed
                       => Len(accepted[p]) - k >= Cap
  <2> DEFINE F == feeds[p]
             A == accepted[p]
  <2>1. /\ F \in Seq(Entries) /\ A \in Seq(Entries) /\ PitInv(p)
        /\ DOMAIN F = 1 .. Len(F) /\ DOMAIN A = 1 .. Len(A) /\ Len(F) \in Nat /\ Len(A) \in Nat
    BY <1>1 DEF IntakeInv, IntakeTypeOK
  <2>2. Selection(F, A, removed) /\ Numbered(A)
    BY <2>1 DEF PitInv, Numbered
  <2>3. ASSUME NEW i \in 1 .. Len(F), NEW j \in 1 .. Len(F), NEW k \in 1 .. Len(A),
               NEW m \in 1 .. Len(A), F[i] = A[k], F[j] = A[m]
        PROVE  i < j <=> k > m
    <3>1. i < j => k > m
      BY <2>2, <2>3 DEF Selection
    <3>2. j < i => m > k
      BY <2>2, <2>3 DEF Selection
    <3>3. i = j => k = m
      BY <2>2, <2>3 DEF Numbered
    <3> QED
      BY <2>1, <3>1, <3>2, <3>3
  <2>4. ASSUME NEW k \in 1 .. Len(A), ~Lists(F, A[k].n), A[k].n \notin removed
        PROVE  Len(A) - k >= Cap
    <3>1. ASSUME NEW i \in 1 .. Len(F), F[i] = A[k] PROVE FALSE
      <4>1. ASSUME NEW j \in 1 .. Len(F), F[j].n = A[k].n PROVE j = i
        <5>1. PICK m \in 1 .. Len(A) : F[j] = A[m]
          BY <2>2 DEF Selection
        <5>2. m = k
          BY <2>2, <4>1, <5>1 DEF Numbered
        <5>3. ~(i < j) /\ ~(j < i)
          BY <2>1, <2>3, <3>1, <5>1, <5>2
        <5> QED
          BY <2>1, <5>3
      <4>2. F[i].n = A[k].n
        BY <3>1
      <4> HIDE DEF F, A
      <4> QED
        BY <2>1, <2>4, <4>1, <4>2, FoundIs
    <3> QED
      BY <2>2, <2>4, <3>1 DEF Selection
  <2>5. \A i \in 1 .. Len(F) : F[i].n \notin removed /\ \E k \in 1 .. Len(A) : F[i] = A[k]
    BY <2>2 DEF Selection
  <2>6. Len(F) <= Cap
    BY <2>2 DEF Selection
  <2> QED
    BY <2>1, <2>3, <2>4, <2>5, <2>6
<1>2. IntakeInv => FeedIsHonest
  BY <1>1 DEF FeedIsHonest
<1> QED
  BY <1>2, IntakeInvariant, PTL
=============================================================================
