----------------------------- MODULE PoolProofs -----------------------------
(***************************************************************************)
(* Proofs about BlessingPool over Aqua, for any tokens, positions, agents    *)
(* and amounts.                                                              *)
(***************************************************************************)
EXTENDS BlessingPool, TLAPS

(***************************************************************************)
(* The approval of a token was given for a position that trades it, so that  *)
(* blessing a position leaves the approvals it does not overwrite to others. *)
(***************************************************************************)
NewestTrades == \A t \in Tokens : \A s \in newest[t] : t \in Pair[s]

PoolInv == PoolTypeOK /\ RecordMirrorsAqua /\ ApprovalWithinBlessing /\ NewestTrades

(***************************************************************************)
(* uint248 of an amount: a balance, and the amount itself if it fits.        *)
(***************************************************************************)
LEMMA CastFits ==
    ASSUME NEW n \in Nat
    PROVE  Cast(n) \in 0 .. Uint248 - 1 /\ (n < Uint248 => Cast(n) = n)
<1>1. Uint248 \in Nat /\ Uint248 > 0
  BY AquaAssumption
<1>2. n % Uint248 \in 0 .. Uint248 - 1
  BY <1>1
<1>3. n < Uint248 => n % Uint248 = n
  BY <1>1
<1> QED
  BY <1>2, <1>3 DEF Cast

LEMMA BalancesAreAmounts == Balances \subseteq Amounts /\ Nothing \in Balances
  BY AquaAssumption DEF Balances, Amounts, Nothing

LEMMA ShippedTyped ==
    ASSUME NEW s \in Strategies, NEW amounts \in Amounts
    PROVE  Shipped(s, amounts) \in Balances
  BY AquaAssumption, CastFits DEF Shipped, Amounts, Balances

(***************************************************************************)
(* What is moved fits, since the wallet cannot hold more: pull and push      *)
(* count what they move.                                                     *)
(***************************************************************************)
LEMMA PullTakes ==
    ASSUME AquaTypeOK, NEW s \in Strategies, NEW t \in Tokens, NEW amount \in Nat, Pull(s, t, amount)
    PROVE  /\ amount <= virtual[s][t] /\ amount <= allowance[t] /\ amount <= holding[t]
           /\ virtual' = [virtual EXCEPT ![s][t] = @ - amount]
           /\ allowance' = [allowance EXCEPT ![t] = @ - amount]
           /\ holding' = [holding EXCEPT ![t] = @ - amount]
<1>1. holding[t] \in 0 .. MaxHolding /\ amount <= holding[t]
  BY DEF Pull, AquaTypeOK
<1>2. Cast(amount) = amount
  BY <1>1, AquaAssumption, CastFits
<1> QED
  BY <1>2 DEF Pull

LEMMA PushAdds ==
    ASSUME AquaTypeOK, NEW s \in Strategies, NEW t \in Tokens, NEW amount \in Nat, Push(s, t, amount)
    PROVE  /\ Live(s) /\ virtual[s][t] + amount < Uint248 /\ holding[t] + amount <= MaxHolding
           /\ virtual' = [virtual EXCEPT ![s][t] = @ + amount]
           /\ holding' = [holding EXCEPT ![t] = @ + amount]
           /\ UNCHANGED <<docking, allowance>>
<1>1. holding[t] \in 0 .. MaxHolding /\ holding[t] + amount <= MaxHolding
  BY DEF Push, AquaTypeOK
<1>2. Cast(amount) = amount
  BY <1>1, AquaAssumption, CastFits
<1> QED
  BY <1>2 DEF Push

LEMMA CallAmountsTyped == CallAmounts \subseteq Amounts
  BY PoolAssumption DEF CallAmounts, Amounts

(***************************************************************************)
(* Blessing a position keeps the invariant: the approval it overwrites is    *)
(* the amount it ships.                                                      *)
(***************************************************************************)
LEMMA BlessKeeps ==
    ASSUME PoolInv, NEW caller \in Callers, NEW s \in Strategies,
           NEW amounts \in CallAmounts, Bless(caller, s, amounts)
    PROVE  PoolInv'
<1>1. amounts \in Amounts /\ Shipped(s, amounts) \in Balances
  BY CallAmountsTyped, ShippedTyped
<1>2. PoolTypeOK'
  <2>1. allowance' \in Amounts
    BY <1>1 DEF Bless, Approve, PoolInv, PoolTypeOK, AquaTypeOK, Amounts
  <2>2. virtual' \in [Strategies -> Balances]
    BY <1>1 DEF Bless, Ship, PoolInv, PoolTypeOK, AquaTypeOK
  <2>3. /\ docking' \in [Strategies -> {"unshipped", "live", "docked"}]
        /\ holding' \in [Tokens -> 0 .. MaxHolding]
    BY DEF Bless, Ship, PoolInv, PoolTypeOK, AquaTypeOK
  <2>4. newest' \in [Tokens -> {{}} \union {{z} : z \in Strategies}]
    BY DEF Bless, PoolInv, PoolTypeOK
  <2>5. active' \subseteq Strategies /\ paid' \in [Strategies -> Amounts]
    BY DEF Bless, PoolInv, PoolTypeOK
  <2> QED
    BY <2>1, <2>2, <2>3, <2>4, <2>5 DEF PoolTypeOK, AquaTypeOK
<1>3. RecordMirrorsAqua'
  BY DEF Bless, Ship, Live, RecordMirrorsAqua, PoolInv, PoolTypeOK, AquaTypeOK
<1>4. NewestTrades'
  BY DEF Bless, NewestTrades, PoolInv, PoolTypeOK
<1>5. ApprovalWithinBlessing'
  <2> SUFFICES ASSUME NEW t \in Tokens, NEW z \in newest'[t], Live(z)'
               PROVE  allowance'[t] <= virtual'[z][t]
    BY DEF ApprovalWithinBlessing
  <2>1. CASE t \in Pair[s]
    <3>1. z = s /\ amounts[t] < Uint248
      BY <2>1 DEF Bless
    <3>2. allowance'[t] = amounts[t] /\ virtual'[s] = Shipped(s, amounts)
      BY <2>1 DEF Bless, Approve, Ship, PoolInv, PoolTypeOK, AquaTypeOK
    <3>3. Shipped(s, amounts)[t] = amounts[t] /\ amounts[t] \in Nat
      BY <1>1, <2>1, <3>1, CastFits DEF Shipped, Amounts
    <3> QED
      BY <3>1, <3>2, <3>3
  <2>2. CASE t \notin Pair[s]
    <3>1. z \in newest[t] /\ z \in Strategies /\ t \in Pair[z]
      BY <2>2 DEF Bless, NewestTrades, PoolInv, PoolTypeOK
    <3>2. z # s
      BY <2>2, <3>1
    <3>3. Live(z) /\ allowance'[t] = allowance[t] /\ virtual'[z] = virtual[z]
      BY <2>2, <3>1, <3>2 DEF Bless, Approve, Ship, Live, PoolInv, PoolTypeOK, AquaTypeOK
    <3> QED
      BY <3>1, <3>3 DEF ApprovalWithinBlessing, PoolInv
  <2> QED
    BY <2>1, <2>2
<1> QED
  BY <1>2, <1>3, <1>4, <1>5 DEF PoolInv

(***************************************************************************)
(* Revoking leaves the approval standing, for a position that is not live.   *)
(***************************************************************************)
LEMMA RevokeKeeps ==
    ASSUME PoolInv, NEW caller \in Callers, NEW s \in Strategies, Revoke(caller, s)
    PROVE  PoolInv'
<1>1. PoolTypeOK'
  BY BalancesAreAmounts DEF Revoke, Deactivated, Dock, PoolInv, PoolTypeOK, AquaTypeOK
<1>2. RecordMirrorsAqua'
  BY DEF Revoke, Deactivated, Dock, Live, RecordMirrorsAqua, PoolInv, PoolTypeOK, AquaTypeOK
<1>3. NewestTrades'
  BY DEF Revoke, NewestTrades, PoolInv
<1>4. ApprovalWithinBlessing'
  <2> SUFFICES ASSUME NEW t \in Tokens, NEW z \in newest[t], Live(z)'
               PROVE  allowance[t] <= virtual'[z][t]
    BY DEF ApprovalWithinBlessing, Revoke
  <2>1. z \in Strategies
    BY DEF PoolInv, PoolTypeOK
  <2>2. z # s /\ Live(z) /\ virtual'[z] = virtual[z]
    BY <2>1 DEF Revoke, Dock, Live, PoolInv, PoolTypeOK, AquaTypeOK
  <2> QED
    BY <2>2 DEF ApprovalWithinBlessing, PoolInv
<1> QED
  BY <1>1, <1>2, <1>3, <1>4 DEF PoolInv

(***************************************************************************)
(* A wage takes as much from the approval as from the position it is paid    *)
(* out of; if the approval is another position's, that one loses nothing.    *)
(***************************************************************************)
LEMMA WageKeeps ==
    ASSUME PoolInv, NEW caller \in Callers, NEW s \in Strategies, NEW t \in Tokens,
           NEW amount \in 1 .. MaxAmount, PayWage(caller, s, t, amount)
    PROVE  PoolInv'
<1> USE PoolAssumption
<1>1. /\ virtual[s][t] \in 0 .. Uint248 - 1 /\ allowance[t] \in Nat
      /\ holding[t] \in 0 .. MaxHolding /\ paid[s][t] \in Nat /\ amount \in Nat
  BY DEF PoolInv, PoolTypeOK, AquaTypeOK, Amounts, Balances
<1>2. /\ amount <= virtual[s][t] /\ amount <= allowance[t] /\ amount <= holding[t]
      /\ virtual' = [virtual EXCEPT ![s][t] = @ - amount]
      /\ allowance' = [allowance EXCEPT ![t] = @ - amount]
      /\ holding' = [holding EXCEPT ![t] = @ - amount]
      /\ paid' = [paid EXCEPT ![s][t] = @ + amount]
      /\ UNCHANGED <<docking, active, newest>>
  BY <1>1, PullTakes DEF PayWage, PoolInv, PoolTypeOK
<1>3. PoolTypeOK'
  <2>1. virtual' \in [Strategies -> Balances]
    <3>1. virtual[s][t] - amount \in 0 .. Uint248 - 1
      BY <1>1, <1>2, AquaAssumption
    <3> QED
      BY <1>2, <3>1 DEF PoolInv, PoolTypeOK, AquaTypeOK, Balances
  <2>2. allowance' \in Amounts
    BY <1>1, <1>2 DEF PoolInv, PoolTypeOK, AquaTypeOK, Amounts
  <2>3. holding' \in [Tokens -> 0 .. MaxHolding]
    BY <1>1, <1>2, AquaAssumption DEF PoolInv, PoolTypeOK, AquaTypeOK
  <2>4. paid' \in [Strategies -> Amounts]
    BY <1>1, <1>2 DEF PoolInv, PoolTypeOK, Amounts
  <2> QED
    BY <1>2, <2>1, <2>2, <2>3, <2>4 DEF PoolInv, PoolTypeOK, AquaTypeOK
<1>4. RecordMirrorsAqua' /\ NewestTrades'
  BY DEF PayWage, Live, RecordMirrorsAqua, NewestTrades, PoolInv
<1>5. ApprovalWithinBlessing'
  <2> SUFFICES ASSUME NEW u \in Tokens, NEW z \in newest[u], Live(z)
               PROVE  allowance'[u] <= virtual'[z][u]
    BY DEF ApprovalWithinBlessing, PayWage, Live
  <2>1. /\ z \in Strategies /\ allowance[u] \in Nat /\ virtual[z][u] \in Nat
        /\ allowance[u] <= virtual[z][u]
    BY DEF ApprovalWithinBlessing, PoolInv, PoolTypeOK, AquaTypeOK, Amounts, Balances
  <2>2. CASE u = t
    <3>1. allowance'[u] = allowance[u] - amount
      BY <1>2, <2>2 DEF PoolInv, PoolTypeOK, AquaTypeOK, Amounts
    <3>2. virtual'[z][u] = IF z = s THEN virtual[z][u] - amount ELSE virtual[z][u]
      BY <1>2, <2>1, <2>2 DEF PoolInv, PoolTypeOK, AquaTypeOK, Balances
    <3> QED
      BY <1>1, <2>1, <3>1, <3>2
  <2>3. CASE u # t
    BY <1>2, <2>1, <2>3 DEF PoolInv, PoolTypeOK, AquaTypeOK, Amounts, Balances
  <2> QED
    BY <2>2, <2>3
<1> QED
  BY <1>3, <1>4, <1>5 DEF PoolInv

(***************************************************************************)
(* A top-up adds to a live position and approves nothing.                    *)
(***************************************************************************)
LEMMA TopUpKeeps ==
    ASSUME PoolInv, NEW s \in Strategies, NEW t \in Tokens,
           NEW amount \in 1 .. MaxAmount, TopUp(s, t, amount)
    PROVE  PoolInv'
<1> USE PoolAssumption
<1>1. /\ virtual[s][t] \in 0 .. Uint248 - 1 /\ holding[t] \in 0 .. MaxHolding /\ amount \in Nat
  BY DEF PoolInv, PoolTypeOK, AquaTypeOK, Balances
<1>2. /\ virtual[s][t] + amount < Uint248 /\ holding[t] + amount <= MaxHolding
      /\ virtual' = [virtual EXCEPT ![s][t] = @ + amount]
      /\ holding' = [holding EXCEPT ![t] = @ + amount]
      /\ UNCHANGED <<docking, allowance, active, newest, paid>>
  BY <1>1, PushAdds DEF TopUp, PoolInv, PoolTypeOK
<1>3. PoolTypeOK'
  <2>1. virtual' \in [Strategies -> Balances]
    <3>1. virtual[s][t] + amount \in 0 .. Uint248 - 1
      BY <1>1, <1>2, AquaAssumption
    <3> QED
      BY <1>2, <3>1 DEF PoolInv, PoolTypeOK, AquaTypeOK, Balances
  <2>2. holding' \in [Tokens -> 0 .. MaxHolding]
    BY <1>1, <1>2, AquaAssumption DEF PoolInv, PoolTypeOK, AquaTypeOK
  <2> QED
    BY <1>2, <2>1, <2>2 DEF PoolInv, PoolTypeOK, AquaTypeOK
<1>4. RecordMirrorsAqua' /\ NewestTrades'
  BY DEF TopUp, Push, Live, RecordMirrorsAqua, NewestTrades, PoolInv
<1>5. ApprovalWithinBlessing'
  <2> SUFFICES ASSUME NEW u \in Tokens, NEW z \in newest[u], Live(z)
               PROVE  allowance[u] <= virtual'[z][u]
    BY DEF ApprovalWithinBlessing, TopUp, Push, Live
  <2>1. /\ z \in Strategies /\ allowance[u] \in Nat /\ virtual[z][u] \in Nat
        /\ allowance[u] <= virtual[z][u]
    BY DEF ApprovalWithinBlessing, PoolInv, PoolTypeOK, AquaTypeOK, Amounts, Balances
  <2>2. virtual'[z][u] = IF z = s /\ u = t THEN virtual[z][u] + amount ELSE virtual[z][u]
    BY <1>2, <2>1 DEF PoolInv, PoolTypeOK, AquaTypeOK, Balances
  <2> QED
    BY <1>1, <2>1, <2>2
<1> QED
  BY <1>3, <1>4, <1>5 DEF PoolInv

LEMMA DepositKeeps ==
    ASSUME PoolInv, NEW t \in Tokens, NEW amount \in 1 .. MaxAmount, Deposit(t, amount)
    PROVE  PoolInv'
<1> USE PoolAssumption
<1>1. PoolTypeOK'
  BY DEF Deposit, PoolInv, PoolTypeOK, AquaTypeOK, Amounts
<1>2. RecordMirrorsAqua' /\ ApprovalWithinBlessing' /\ NewestTrades'
  BY DEF Deposit, Live, RecordMirrorsAqua, ApprovalWithinBlessing, NewestTrades, PoolInv
<1> QED
  BY <1>1, <1>2 DEF PoolInv
----------------------------------------------------------------------------
(***************************************************************************)
(* The inductive invariant of the pool.                                      *)
(***************************************************************************)
THEOREM PoolInvariant == PoolSpec => []PoolInv
<1>1. PoolInit => PoolInv
  <2> SUFFICES ASSUME PoolInit PROVE PoolInv
    OBVIOUS
  <2>1. PoolTypeOK
    <3>1. Nothing \in Amounts /\ Nothing \in Balances
      BY BalancesAreAmounts
    <3> QED
      BY <3>1, AquaAssumption DEF PoolInit, AquaInit, PoolTypeOK, AquaTypeOK
  <2>2. RecordMirrorsAqua /\ ApprovalWithinBlessing /\ NewestTrades
    BY DEF PoolInit, AquaInit, RecordMirrorsAqua, Live, ApprovalWithinBlessing, NewestTrades
  <2> QED
    BY <2>1, <2>2 DEF PoolInv
<1>2. PoolInv /\ [PoolNext]_poolVars => PoolInv'
  <2> SUFFICES ASSUME PoolInv, [PoolNext]_poolVars PROVE PoolInv'
    OBVIOUS
  <2>1. CASE Ceremony
    BY <2>1, BlessKeeps, RevokeKeeps, WageKeeps DEF Ceremony
  <2>2. CASE Funding
    BY <2>2, TopUpKeeps, DepositKeeps DEF Funding
  <2>3. CASE UNCHANGED poolVars
    BY <2>3 DEF poolVars, aquaVars, PoolInv, PoolTypeOK, AquaTypeOK, RecordMirrorsAqua, Live,
                ApprovalWithinBlessing, NewestTrades
  <2> QED
    BY <2>1, <2>2, <2>3 DEF PoolNext
<1> QED
  BY <1>1, <1>2, PTL DEF PoolSpec

(***************************************************************************)
(* Balances never go below zero and no call leaves a field of the wrong      *)
(* kind (the uint248 balances of Aqua and the blessings of the pool).        *)
(***************************************************************************)
THEOREM PoolTyped == PoolSpec => []PoolTypeOK
<1>1. PoolInv => PoolTypeOK
  BY DEF PoolInv
<1> QED
  BY <1>1, PoolInvariant, PTL

(***************************************************************************)
(* The pool's record and the registry never part (blessings, revocations and *)
(* wages of BlessingPool.sol in any order, with anyone's pushes between).    *)
(***************************************************************************)
THEOREM PoolRecordMirrors == PoolSpec => []RecordMirrorsAqua
<1>1. PoolInv => RecordMirrorsAqua
  BY DEF PoolInv
<1> QED
  BY <1>1, PoolInvariant, PTL

(***************************************************************************)
(* bless approves what it ships and no call after it raises the approval     *)
(* above what the blessed position still holds.                              *)
(***************************************************************************)
THEOREM ApprovalStaysWithin == PoolSpec => []ApprovalWithinBlessing
<1>1. PoolInv => ApprovalWithinBlessing
  BY DEF PoolInv
<1> QED
  BY <1>1, PoolInvariant, PTL
----------------------------------------------------------------------------
(***************************************************************************)
(* A gift moves from phase to phase as its strategy does.                    *)
(***************************************************************************)
LEMMA PhaseMoves ==
    ASSUME PoolInv, NEW s \in Strategies, NEW next \in {"unshipped", "live", "docked"},
           docking' = [docking EXCEPT ![s] = next]
    PROVE  /\ Phase[s] = PhaseOf[docking[s]]
           /\ Phase' = [Phase EXCEPT ![s] = PhaseOf[next]]
<1>1. docking \in [Strategies -> {"unshipped", "live", "docked"}]
  BY DEF PoolInv, PoolTypeOK, AquaTypeOK
<1>2. docking' = [z \in Strategies |-> IF z = s THEN next ELSE docking[z]]
  BY <1>1
<1>3. Phase' = [z \in Strategies |-> IF z = s THEN PhaseOf[next] ELSE PhaseOf[docking[z]]]
  BY <1>2 DEF Phase
<1>4. Phase = [z \in Strategies |-> PhaseOf[docking[z]]]
  BY DEF Phase
<1> QED
  BY <1>3, <1>4

LEMMA PhaseNames ==
    PhaseOf["unshipped"] = "sealed" /\ PhaseOf["live"] = "open" /\ PhaseOf["docked"] = "closed"
  BY DEF PhaseOf

(***************************************************************************)
(* Each call of the pool is a step of the gift it is about.                  *)
(***************************************************************************)
LEMMA BlessOpens ==
    ASSUME PoolInv, NEW caller \in Callers, NEW s \in Strategies,
           NEW amounts \in CallAmounts, Bless(caller, s, amounts)
    PROVE  GiftOf!Open(s)
<1>1. docking[s] = "unshipped" /\ docking' = [docking EXCEPT ![s] = "live"]
  BY DEF Bless, Ship, Shippable
<1>2. virtual' = [virtual EXCEPT ![s] = Shipped(s, amounts)] /\ Shipped(s, amounts) \in Amounts
  BY CallAmountsTyped, ShippedTyped, BalancesAreAmounts DEF Bless, Ship
<1>3. virtual'[s] \in Amounts /\ virtual' = [virtual EXCEPT ![s] = virtual'[s]]
  BY <1>2 DEF PoolInv, PoolTypeOK, AquaTypeOK
<1> QED
  BY <1>1, <1>3, PhaseMoves, PhaseNames DEF Bless, GiftOf!Open, GiftOf!Purse, Amounts

LEMMA RevokeCloses ==
    ASSUME PoolInv, NEW caller \in Callers, NEW s \in Strategies, Revoke(caller, s)
    PROVE  GiftOf!Close(s)
<1>1. docking[s] = "live" /\ docking' = [docking EXCEPT ![s] = "docked"]
  BY DEF Revoke, Dock, Live
<1>2. virtual' = [virtual EXCEPT ![s] = GiftOf!Empty] /\ paid' = paid
  BY DEF Revoke, Dock, GiftOf!Empty, Nothing
<1> QED
  BY <1>1, <1>2, PhaseMoves, PhaseNames DEF GiftOf!Close

LEMMA WageDraws ==
    ASSUME PoolInv, NEW caller \in Callers, NEW s \in Strategies, NEW t \in Tokens,
           NEW amount \in 1 .. MaxAmount, PayWage(caller, s, t, amount)
    PROVE  GiftOf!Draw(s)
<1>1. docking[s] = "live" /\ docking' = docking
  BY DEF PayWage, RecordMirrorsAqua, Live, PoolInv
<1>2. /\ amount <= virtual[s][t] /\ virtual' = [virtual EXCEPT ![s][t] = @ - amount]
      /\ paid' = [paid EXCEPT ![s][t] = @ + amount]
  BY PoolAssumption, PullTakes DEF PayWage, PoolInv, PoolTypeOK
<1>3. amount \in 1 .. virtual[s][t]
  BY <1>2, PoolAssumption DEF PoolInv, PoolTypeOK, AquaTypeOK, Balances
<1> QED
  BY <1>1, <1>2, <1>3, PhaseNames DEF GiftOf!Draw, Phase

LEMMA TopUpAdds ==
    ASSUME PoolInv, NEW s \in Strategies, NEW t \in Tokens,
           NEW amount \in 1 .. MaxAmount, TopUp(s, t, amount)
    PROVE  GiftOf!Add(s)
<1>1. docking[s] = "live" /\ docking' = docking /\ paid' = paid
  BY DEF TopUp, Push, Live
<1>2. virtual' = [virtual EXCEPT ![s][t] = @ + amount]
  BY PoolAssumption, PushAdds DEF TopUp, PoolInv, PoolTypeOK
<1>3. virtual[s][t] \in Nat /\ amount \in Nat /\ amount > 0
  BY PoolAssumption DEF PoolInv, PoolTypeOK, AquaTypeOK, Balances
<1>4. virtual'[s][t] = virtual[s][t] + amount
  BY <1>2, <1>3 DEF PoolInv, PoolTypeOK, AquaTypeOK, Balances
<1>5. virtual' = [virtual EXCEPT ![s][t] = virtual'[s][t]]
  BY <1>2, <1>4
<1>6. virtual'[s][t] > virtual[s][t]
  BY <1>3, <1>4
<1> QED
  BY <1>1, <1>5, <1>6, PhaseNames DEF GiftOf!Add, Phase

(***************************************************************************)
(* BlessingPool keeps the promise of a gift: wages come out of what is left  *)
(* of an open blessing, and a revoked one never opens again.                 *)
(***************************************************************************)
THEOREM PoolImplementsGift == PoolSpec => ImplementsGift
<1>1. PoolInit => GiftOf!GiftInit
  BY DEF PoolInit, AquaInit, GiftOf!GiftInit, GiftOf!Empty, Nothing, Phase, PhaseOf
<1>2. PoolInv /\ [PoolNext]_poolVars => [GiftOf!GiftNext]_(GiftOf!giftVars)
  <2> SUFFICES ASSUME PoolInv, [PoolNext]_poolVars
               PROVE  [GiftOf!GiftNext]_(GiftOf!giftVars)
    OBVIOUS
  <2>1. CASE Ceremony
    BY <2>1, BlessOpens, RevokeCloses, WageDraws DEF Ceremony, GiftOf!GiftNext
  <2>2. ASSUME NEW t \in Tokens, NEW amount \in 1 .. MaxAmount,
               NEW s \in Strategies, TopUp(s, t, amount)
        PROVE  GiftOf!GiftNext
    BY <2>2, TopUpAdds DEF GiftOf!GiftNext
  <2>3. ASSUME NEW t \in Tokens, NEW amount \in 1 .. MaxAmount, Deposit(t, amount)
        PROVE  UNCHANGED GiftOf!giftVars
    BY <2>3 DEF Deposit, Phase, GiftOf!giftVars
  <2>4. CASE UNCHANGED poolVars
    BY <2>4 DEF poolVars, aquaVars, Phase, GiftOf!giftVars
  <2> QED
    BY <2>1, <2>2, <2>3, <2>4 DEF PoolNext, Funding
<1> QED
  BY <1>1, <1>2, PoolInvariant, PTL DEF PoolSpec, ImplementsGift, GiftOf!GiftSpec
=============================================================================
