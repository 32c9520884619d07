----------------------------- MODULE SwapProofs -----------------------------
(***************************************************************************)
(* Proofs about BlessingSwap: its pricing for every fee and every amount,    *)
(* and its safety for any gifts, callers, amounts and depth of nesting.      *)
(***************************************************************************)
EXTENDS BlessingSwap, SequenceTheorems, TLAPS

LEMMA FloorBelow ==
    ASSUME NEW n \in Nat, NEW d \in Nat, d > 0
    PROVE  n \div d \in Nat /\ (n \div d) * d <= n
  OBVIOUS

LEMMA FeeOnlyTakes ==
    ASSUME NEW fee \in Nat, fee <= BPS_BASE, NEW amountIn \in Nat
    PROVE  AfterFee(fee, amountIn) \in Nat /\ AfterFee(fee, amountIn) <= amountIn
<1> DEFINE kept == BPS_BASE - fee
<1>1. kept \in Nat /\ kept <= BPS_BASE
  BY DEF BPS_BASE
<1>2. amountIn * kept \in Nat /\ amountIn * kept <= amountIn * BPS_BASE
  BY <1>1 DEF BPS_BASE
<1>3. AfterFee(fee, amountIn) \in Nat /\ AfterFee(fee, amountIn) * BPS_BASE <= amountIn * kept
  BY <1>2, FloorBelow DEF AfterFee, BPS_BASE
<1> QED
  BY <1>2, <1>3 DEF BPS_BASE

(***************************************************************************)
(* The pricing of swapExactIn: for every fee up to 100%, all balances and    *)
(* every input, the output leaves the constant product no smaller than it    *)
(* was, in spite of the two roundings, and never exceeds the balance.        *)
(***************************************************************************)
THEOREM QuoteKeepsProduct ==
    ASSUME NEW fee \in Nat, fee <= BPS_BASE,
           NEW x \in Nat, NEW y \in Nat, NEW amountIn \in Nat,
           x + AfterFee(fee, amountIn) > 0
    PROVE  LET out == Quote(fee, x, y, amountIn)
           IN  /\ out \in Nat /\ out <= y
               /\ (x + amountIn) * (y - out) >= x * y
<1> DEFINE w   == AfterFee(fee, amountIn)
           out == Quote(fee, x, y, amountIn)
<1>1. w \in Nat /\ w <= amountIn /\ x + w > 0
  BY FeeOnlyTakes
<1> HIDE DEF w
<1>2. out \in Nat /\ out * (x + w) <= w * y
  <2>1. out = (w * y) \div (x + w)
    BY DEF w, Quote
  <2>2. w * y \in Nat /\ x + w \in Nat
    BY <1>1
  <2> QED
    BY <1>1, <2>1, <2>2, FloorBelow
<1> HIDE DEF out
<1>3. out <= y
  <2>1. w * y <= (x + w) * y
    BY <1>1
  <2>2. out * (x + w) <= y * (x + w)
    BY <1>1, <1>2, <2>1
  <2> QED
    BY <1>1, <1>2, <2>2
<1>4. (x + amountIn) * (y - out) >= x * y
  <2>1. y - out \in Nat
    BY <1>2, <1>3
  <2>2. (x + amountIn) * (y - out) >= (x + w) * (y - out)
    BY <1>1, <2>1
  <2>3. (x + w) * (y - out) = (x + w) * y - out * (x + w)
    BY <1>1, <1>2
  <2>4. (x + w) * y = x * y + w * y
    BY <1>1
  <2>5. x * y \in Int /\ w * y \in Int /\ out * (x + w) \in Int
    BY <1>1, <1>2
  <2> QED
    BY <1>1, <1>2, <2>1, <2>2, <2>3, <2>4, <2>5
<1> QED
  BY <1>2, <1>3, <1>4 DEF out
----------------------------------------------------------------------------
Grants == {<<StewardOf[s], BlessingOf[s]>> : s \in Strategies}

\* what a frame keeps of the state before its swap
Snapshots == [virtual : [Strategies -> Balances],
              docking : [Strategies -> {"unshipped", "live", "docked"}],
              allowance : Amounts, holding : [Tokens -> 0 .. MaxHolding],
              active : SUBSET Strategies,
              granted : SUBSET Grants, gift : [Strategies -> Amounts]]
Frames == [on : Strategies, tokenIn : Tokens, owed : Nat, undo : Snapshots]

LiveIn(sn, s) == sn.docking[s] = "live"

\* the registry and the contract's record, in a state that is there or kept by a frame
Registered(sn) ==
    /\ sn.active = {s \in Strategies : LiveIn(sn, s)}
    /\ \A s \in Strategies : LiveIn(sn, s) => <<StewardOf[s], BlessingOf[s]>> \in sn.granted
    /\ \A s \in Strategies : ~LiveIn(sn, s) => sn.virtual[s] = Nothing

\* a gift nobody is swapping on holds what it was shipped with
Kept(sn, s) ==
    \A t, u \in Pair[s] : t # u =>
        sn.virtual[s][t] * sn.virtual[s][u] >= sn.gift[s][t] * sn.gift[s][u]

\* a gift under an open swap will, once the swap is paid
KeptOncePaid(sn, f) ==
    LiveIn(sn, f.on) =>
        \A u \in Pair[f.on] : u # f.tokenIn =>
            f.owed * sn.virtual[f.on][u] >= sn.gift[f.on][f.tokenIn] * sn.gift[f.on][u]

\* a state in which the first n swaps of q are open
Sound(sn, q, n) ==
    /\ Registered(sn)
    /\ \A i \in 1 .. n : sn.docking[q[i].on] # "unshipped" /\ KeptOncePaid(sn, q[i])
    /\ \A s \in Strategies : LiveIn(sn, s) /\ (\A i \in 1 .. n : q[i].on # s) => Kept(sn, s)

FramesFormed ==
    /\ swaps \in Seq(Frames) /\ Len(swaps) <= MaxDepth
    /\ \A i \in 1 .. Len(swaps) : swaps[i].tokenIn \in Pair[swaps[i].on] /\ swaps[i].owed > 0

(***************************************************************************)
(* The state is sound under the open swaps, and what each of them would take *)
(* back is sound under the ones it is nested in.                             *)
(***************************************************************************)
SwapInv ==
    /\ Snapshot \in Snapshots
    /\ begun \in 0 .. MaxSwaps
    /\ FramesFormed
    /\ Sound(Snapshot, swaps, Len(swaps))
    /\ \A i \in 1 .. Len(swaps) : Sound(swaps[i].undo, swaps, i - 1)
----------------------------------------------------------------------------
(***************************************************************************)
(* uint248 of an amount: a balance, and the amount itself if it fits.        *)
(***************************************************************************)
LEMMA CastFits ==
    ASSUME NEW n \in Nat
    PROVE  Cast(n) \in 0 .. Uint248 - 1 /\ (n < Uint248 => Cast(n) = n)
<1>1. Uint248 \in Nat /\ Uint248 > 0
  BY AquaAssumption
<1>2. n % Uint248 \in 0 .. Uint248 - 1
  BY <1>1
<1>3. n < Uint248 => n % Uint248 = n
  BY <1>1
<1> QED
  BY <1>2, <1>3 DEF Cast

LEMMA BalancesAreAmounts == Balances \subseteq Amounts /\ Nothing \in Balances
  BY AquaAssumption DEF Balances, Amounts, Nothing

(***************************************************************************)
(* What is moved fits, since the wallet cannot hold more: pull and push      *)
(* count what they move.                                                     *)
(***************************************************************************)
LEMMA PullTakes ==
    ASSUME AquaTypeOK, NEW s \in Strategies, NEW t \in Tokens, NEW amount \in Nat, Pull(s, t, amount)
    PROVE  /\ amount <= virtual[s][t] /\ amount <= allowance[t] /\ amount <= holding[t]
           /\ virtual' = [virtual EXCEPT ![s][t] = @ - amount]
           /\ allowance' = [allowance EXCEPT ![t] = @ - amount]
           /\ holding' = [holding EXCEPT ![t] = @ - amount]
<1>1. holding[t] \in 0 .. MaxHolding /\ amount <= holding[t]
  BY DEF Pull, AquaTypeOK
<1>2. Cast(amount) = amount
  BY <1>1, AquaAssumption, CastFits
<1> QED
  BY <1>2 DEF Pull

LEMMA PushAdds ==
    ASSUME AquaTypeOK, NEW s \in Strategies, NEW t \in Tokens, NEW amount \in Nat, Push(s, t, amount)
    PROVE  /\ Live(s) /\ virtual[s][t] + amount < Uint248 /\ holding[t] + amount <= MaxHolding
           /\ virtual' = [virtual EXCEPT ![s][t] = @ + amount]
           /\ holding' = [holding EXCEPT ![t] = @ + amount]
           /\ UNCHANGED <<docking, allowance>>
<1>1. holding[t] \in 0 .. MaxHolding /\ holding[t] + amount <= MaxHolding
  BY DEF Push, AquaTypeOK
<1>2. Cast(amount) = amount
  BY <1>1, AquaAssumption, CastFits
<1> QED
  BY <1>2 DEF Push

\* the two directions of the record Snapshot
LEMMA SnapshotTyped ==
    Snapshot \in Snapshots <=>
        /\ AquaTypeOK
        /\ active \subseteq Strategies /\ granted \subseteq Grants
        /\ gift \in [Strategies -> Amounts]
  BY DEF Snapshot, Snapshots, AquaTypeOK

LEMMA SameFramesSound ==
    ASSUME NEW sn, NEW q, NEW p, NEW n \in Nat, \A i \in 1 .. n : p[i] = q[i], Sound(sn, q, n)
    PROVE  Sound(sn, p, n)
  BY DEF Sound

(***************************************************************************)
(* A call that opens and closes no swap needs a sound state only.            *)
(***************************************************************************)
LEMMA StateMoves ==
    ASSUME SwapInv, UNCHANGED <<swaps, begun>>, Snapshot' \in Snapshots,
           Sound(Snapshot', swaps, Len(swaps))
    PROVE  SwapInv'
  BY DEF SwapInv, FramesFormed

LEMMA MoreIsMore ==
    ASSUME NEW x \in Nat, NEW y \in Nat, NEW z \in Nat, x <= y
    PROVE  x * z <= y * z /\ z * x <= z * y /\ x * z \in Nat /\ y * z \in Nat
  OBVIOUS

\* a strategy a call did not touch
Untouched(sn, sm, s) ==
    sm.docking[s] = sn.docking[s] /\ sm.virtual[s] = sn.virtual[s] /\ sm.gift[s] = sn.gift[s]

(***************************************************************************)
(* A change of some strategies: the others are as sound as they were.        *)
(***************************************************************************)
LEMMA SomeStrategiesMove ==
    ASSUME NEW sn, NEW sm, NEW q, NEW n \in Nat,
           Sound(sn, q, n), Registered(sm),
           \A i \in 1 .. n : \/ Untouched(sn, sm, q[i].on)
                             \/ sm.docking[q[i].on] # "unshipped" /\ KeptOncePaid(sm, q[i]),
           \A s \in Strategies : LiveIn(sm, s) /\ (\A i \in 1 .. n : q[i].on # s) =>
                                     Untouched(sn, sm, s) \/ Kept(sm, s)
    PROVE  Sound(sm, q, n)
<1>1. ASSUME NEW i \in 1 .. n
      PROVE  sm.docking[q[i].on] # "unshipped" /\ KeptOncePaid(sm, q[i])
  BY DEF Sound, KeptOncePaid, LiveIn, Untouched
<1>2. ASSUME NEW r \in Strategies, LiveIn(sm, r), \A i \in 1 .. n : q[i].on # r
      PROVE  Kept(sm, r)
  <2>1. CASE Untouched(sn, sm, r)
    BY <1>2, <2>1 DEF Sound, Kept, LiveIn, Untouched
  <2> QED
    BY <1>2, <2>1
<1> QED
  BY <1>1, <1>2 DEF Sound

\* what SwapInv says of the state that is there
LEMMA NowSound ==
    ASSUME SwapInv
    PROVE  /\ AquaTypeOK /\ active \subseteq Strategies /\ granted \subseteq Grants
           /\ virtual \in [Strategies -> Amounts] /\ holding \in Amounts
           /\ gift \in [Strategies -> Amounts]
           /\ active = {s \in Strategies : Live(s)}
           /\ \A s \in Strategies : Live(s) => <<StewardOf[s], BlessingOf[s]>> \in granted
           /\ \A s \in Strategies : ~Live(s) => virtual[s] = Nothing
           /\ Len(swaps) \in Nat
           /\ \A i \in 1 .. Len(swaps) : /\ swaps[i] \in Frames /\ swaps[i].on \in Strategies
                                         /\ docking[swaps[i].on] # "unshipped"
           /\ \A s \in Strategies : Pair[s] \subseteq Tokens
<1>1. Sound(Snapshot, swaps, Len(swaps)) /\ Registered(Snapshot)
  BY DEF SwapInv, Sound
<1>2. /\ Snapshot.virtual = virtual /\ Snapshot.docking = docking /\ Snapshot.active = active
      /\ Snapshot.granted = granted
  BY DEF Snapshot
<1>3. /\ active = {s \in Strategies : Live(s)}
      /\ \A s \in Strategies : Live(s) => <<StewardOf[s], BlessingOf[s]>> \in granted
      /\ \A s \in Strategies : ~Live(s) => virtual[s] = Nothing
  BY <1>1, <1>2 DEF Registered, LiveIn, Live
<1>4. swaps \in Seq(Frames) /\ Len(swaps) \in Nat
  BY DEF SwapInv, FramesFormed
<1>5. \A i \in 1 .. Len(swaps) : swaps[i] \in Frames /\ swaps[i].on \in Strategies
  <2>1. \A i \in 1 .. Len(swaps) : swaps[i] \in Frames
    BY <1>4
  <2> QED
    BY <2>1 DEF Frames
<1>6. \A i \in 1 .. Len(swaps) : docking[swaps[i].on] # "unshipped"
  BY <1>1, <1>2 DEF Sound
<1>7. AquaTypeOK /\ active \subseteq Strategies /\ granted \subseteq Grants
      /\ gift \in [Strategies -> Amounts]
  BY SnapshotTyped DEF SwapInv
<1>8. virtual \in [Strategies -> Amounts] /\ holding \in Amounts
  BY <1>7, AquaAssumption, BalancesAreAmounts DEF AquaTypeOK, Amounts
<1> QED
  BY <1>3, <1>4, <1>5, <1>6, <1>7, <1>8, AquaAssumption

LEMMA ShippedTyped ==
    ASSUME NEW s \in Strategies, NEW amounts \in GiftCalls
    PROVE  /\ Shipped(s, amounts) \in Balances /\ Shipped(s, amounts) \in Amounts
           /\ allowance \in Amounts => [t \in Tokens |-> IF t \in Pair[s] THEN amounts[t] ELSE allowance[t]] \in Amounts
<1>1. \A t \in Tokens : amounts[t] \in Nat
  BY SwapAssumption
<1>2. Shipped(s, amounts) \in Balances
  BY <1>1, AquaAssumption, CastFits DEF Shipped, Balances
<1> QED
  BY <1>1, <1>2, BalancesAreAmounts DEF Amounts

LEMMA BlessKeeps ==
    ASSUME SwapInv, NEW s \in Strategies, NEW amounts \in GiftCalls, NEW caller \in Callers,
           Bless(caller, s, amounts)
    PROVE  SwapInv'
<1>1. /\ docking[s] = "unshipped" /\ docking' = [docking EXCEPT ![s] = "live"]
      /\ virtual' = [virtual EXCEPT ![s] = Shipped(s, amounts)]
      /\ active' = active \union {s}
      /\ granted' = granted \union {<<StewardOf[s], BlessingOf[s]>>}
      /\ gift' = [gift EXCEPT ![s] = Shipped(s, amounts)]
      /\ holding' = holding /\ swaps' = swaps /\ begun' = begun
      /\ allowance' = [t \in Tokens |-> IF t \in Pair[s] THEN amounts[t] ELSE allowance[t]]
  BY DEF Bless, Ship, Shippable, Approve
<1>2. Snapshot' \in Snapshots
  <2>1. AquaTypeOK'
    BY <1>1, ShippedTyped, NowSound DEF AquaTypeOK
  <2>2. active' \subseteq Strategies /\ granted' \subseteq Grants /\ gift' \in [Strategies -> Amounts]
    BY <1>1, ShippedTyped, NowSound DEF Grants
  <2> QED
    BY <2>1, <2>2 DEF Snapshot, Snapshots, AquaTypeOK
<1>3. Registered(Snapshot')
  BY <1>1, NowSound DEF Registered, LiveIn, Live, Snapshot, AquaTypeOK
<1>4. \A r \in Strategies : r # s => Untouched(Snapshot, Snapshot', r)
  BY <1>1, NowSound DEF Snapshot, AquaTypeOK, Untouched
<1>5. \A i \in 1 .. Len(swaps) : swaps[i].on # s
  BY <1>1, NowSound
<1>6. Kept(Snapshot', s)
  <2>1. Snapshot'.virtual[s] = Shipped(s, amounts) /\ Snapshot'.gift[s] = Shipped(s, amounts)
    BY <1>1, NowSound DEF Snapshot, AquaTypeOK
  <2>2. Shipped(s, amounts) \in Amounts
    BY ShippedTyped
  <2> QED
    BY <2>1, <2>2, NowSound DEF Kept, Amounts
<1>7. Sound(Snapshot, swaps, Len(swaps))
  BY DEF SwapInv
<1>8. Sound(Snapshot', swaps, Len(swaps))
  <2>1. \A i \in 1 .. Len(swaps) : Untouched(Snapshot, Snapshot', swaps[i].on)
    BY <1>4, <1>5, NowSound
  <2>2. \A r \in Strategies : Untouched(Snapshot, Snapshot', r) \/ Kept(Snapshot', r)
    BY <1>4, <1>6
  <2> QED
    BY <1>3, <1>7, <2>1, <2>2, NowSound, SomeStrategiesMove
<1> QED
  BY <1>1, <1>2, <1>8, StateMoves

LEMMA RevokeKeeps ==
    ASSUME SwapInv, NEW s \in Strategies, NEW caller \in Callers, Revoke(caller, s)
    PROVE  SwapInv'
<1>1. /\ docking[s] = "live" /\ docking' = [docking EXCEPT ![s] = "docked"]
      /\ virtual' = [virtual EXCEPT ![s] = Nothing]
      /\ active' = active \ {s} /\ granted' = granted /\ gift' = gift
      /\ holding' = holding /\ allowance' = allowance /\ swaps' = swaps /\ begun' = begun
  BY DEF Revoke, Dock, Live
<1>2. Snapshot' \in Snapshots
  <2>1. Nothing \in Balances
    BY BalancesAreAmounts
  <2> QED
    BY <1>1, <2>1, NowSound DEF Snapshot, Snapshots, AquaTypeOK
<1>3. Registered(Snapshot')
  BY <1>1, NowSound DEF Registered, LiveIn, Live, Snapshot, AquaTypeOK
<1>4. \A r \in Strategies : r # s => Untouched(Snapshot, Snapshot', r)
  BY <1>1, NowSound DEF Snapshot, AquaTypeOK, Untouched
<1>5. Snapshot'.docking[s] = "docked"
  BY <1>1, NowSound DEF Snapshot, AquaTypeOK
<1>6. Sound(Snapshot, swaps, Len(swaps))
  BY DEF SwapInv
<1>7. Sound(Snapshot', swaps, Len(swaps))
  <2>1. \A i \in 1 .. Len(swaps) :
            \/ Untouched(Snapshot, Snapshot', swaps[i].on)
            \/ Snapshot'.docking[swaps[i].on] # "unshipped" /\ KeptOncePaid(Snapshot', swaps[i])
    BY <1>4, <1>5, NowSound DEF KeptOncePaid, LiveIn
  <2>2. \A r \in Strategies : LiveIn(Snapshot', r) => Untouched(Snapshot, Snapshot', r)
    BY <1>4, <1>5 DEF LiveIn
  <2> QED
    BY <1>3, <1>6, <2>1, <2>2, NowSound, SomeStrategiesMove
<1> QED
  BY <1>1, <1>2, <1>7, StateMoves

LEMMA ReshipKeeps ==
    ASSUME SwapInv, NEW old \in Strategies, NEW new \in Strategies, NEW amounts \in GiftCalls,
           NEW caller \in Callers, Reship(caller, old, new, amounts)
    PROVE  SwapInv'
<1>1. /\ docking[old] = "live" /\ docking[new] = "unshipped" /\ old # new
      /\ docking' = [docking EXCEPT ![old] = "docked", ![new] = "live"]
      /\ virtual' = [virtual EXCEPT ![old] = Nothing, ![new] = Shipped(new, amounts)]
      /\ active' = (active \ {old}) \union {new} /\ granted' = granted
      /\ gift' = [gift EXCEPT ![new] = Shipped(new, amounts)]
      /\ holding' = holding /\ swaps' = swaps /\ begun' = begun
      /\ allowance' = [t \in Tokens |-> IF t \in Pair[new] THEN amounts[t] ELSE allowance[t]]
  BY DEF Reship, DockAndShip, Shippable, Live, Approve, ActiveAfterReship
<1>2. <<StewardOf[new], BlessingOf[new]>> = <<StewardOf[old], BlessingOf[old]>>
  BY DEF Reship, KeepsBlessing
<1>3. Snapshot' \in Snapshots
  <2>1. Nothing \in Balances
    BY BalancesAreAmounts
  <2> QED
    BY <1>1, <2>1, ShippedTyped, NowSound DEF Snapshot, Snapshots, AquaTypeOK
<1>4. Registered(Snapshot')
  <2>1. \A s \in Strategies : Live(s)' <=> s = new \/ (Live(s) /\ s # old)
    BY <1>1, NowSound DEF Live, AquaTypeOK
  <2>2. \A s \in Strategies : ~Live(s)' => virtual'[s] = Nothing
    BY <1>1, <2>1, NowSound DEF AquaTypeOK
  <2>3. \A s \in Strategies : Live(s)' => <<StewardOf[s], BlessingOf[s]>> \in granted'
    <3>1. <<StewardOf[old], BlessingOf[old]>> \in granted
      BY <1>1, NowSound DEF Live
    <3> QED
      BY <1>1, <1>2, <2>1, <3>1, NowSound
  <2>4. active' = {s \in Strategies : Live(s)'}
    BY <1>1, <2>1, NowSound
  <2> QED
    BY <2>2, <2>3, <2>4 DEF Registered, LiveIn, Live, Snapshot
<1>5. \A r \in Strategies : r # old /\ r # new => Untouched(Snapshot, Snapshot', r)
  BY <1>1, NowSound DEF Snapshot, AquaTypeOK, Untouched
<1>6. \A i \in 1 .. Len(swaps) : swaps[i].on # new
  BY <1>1, NowSound
<1>7. Snapshot'.docking[old] = "docked"
  BY <1>1, NowSound DEF Snapshot, AquaTypeOK
<1>8. Kept(Snapshot', new)
  <2>1. Snapshot'.virtual[new] = Shipped(new, amounts) /\ Snapshot'.gift[new] = Shipped(new, amounts)
    BY <1>1, NowSound DEF Snapshot, AquaTypeOK
  <2>2. Shipped(new, amounts) \in Amounts
    BY ShippedTyped
  <2> QED
    BY <2>1, <2>2, NowSound DEF Kept, Amounts
<1>9. Sound(Snapshot, swaps, Len(swaps))
  BY DEF SwapInv
<1>10. Sound(Snapshot', swaps, Len(swaps))
  <2>1. \A i \in 1 .. Len(swaps) :
            \/ Untouched(Snapshot, Snapshot', swaps[i].on)
            \/ Snapshot'.docking[swaps[i].on] # "unshipped" /\ KeptOncePaid(Snapshot', swaps[i])
    BY <1>5, <1>6, <1>7, NowSound DEF KeptOncePaid, LiveIn
  <2>2. \A s \in Strategies : LiveIn(Snapshot', s) =>
            Untouched(Snapshot, Snapshot', s) \/ Kept(Snapshot', s)
    BY <1>5, <1>7, <1>8 DEF LiveIn
  <2> QED
    BY <1>4, <1>9, <2>1, <2>2, NowSound, SomeStrategiesMove
<1> QED
  BY <1>1, <1>3, <1>10, StateMoves

LEMMA PushKeeps ==
    ASSUME SwapInv, NEW s \in Strategies, NEW t \in Tokens, NEW amount \in SwapAmounts,
           TakerPushes(s, t, amount)
    PROVE  SwapInv'
<1>1. /\ docking[s] = "live" /\ docking' = docking
      /\ virtual[s][t] + amount < Uint248 /\ holding[t] + amount <= MaxHolding
      /\ virtual' = [virtual EXCEPT ![s][t] = @ + amount]
      /\ holding' = [holding EXCEPT ![t] = @ + amount] /\ allowance' = allowance
      /\ active' = active /\ granted' = granted /\ gift' = gift /\ swaps' = swaps /\ begun' = begun
  <2>1. amount \in Nat /\ AquaTypeOK /\ Push(s, t, amount)
    BY SwapAssumption, NowSound DEF TakerPushes
  <2> QED
    BY <2>1, PushAdds DEF TakerPushes, Live
<1>2. amount \in Nat /\ virtual \in [Strategies -> Amounts] /\ gift \in [Strategies -> Amounts]
  BY SwapAssumption, NowSound
<1>3. virtual' \in [Strategies -> Balances] /\ holding' \in [Tokens -> 0 .. MaxHolding]
  <2>1. virtual[s] \in Balances /\ virtual[s][t] + amount \in 0 .. Uint248 - 1
        /\ holding[t] + amount \in 0 .. MaxHolding
    BY <1>1, <1>2, AquaAssumption, NowSound DEF Balances, AquaTypeOK
  <2>2. [virtual[s] EXCEPT ![t] = @ + amount] \in Balances
    BY <2>1 DEF Balances
  <2> QED
    BY <1>1, <1>2, <2>1, <2>2, NowSound DEF AquaTypeOK
<1>4. \A r \in Strategies : /\ r # s => virtual'[r] = virtual[r]
                            /\ \A u \in Tokens : /\ virtual[r][u] \in Nat /\ virtual'[r][u] \in Nat
                                                 /\ virtual'[r][u] >= virtual[r][u]
                                                 /\ gift[r][u] \in Nat
  BY <1>1, <1>2, <1>3, BalancesAreAmounts DEF Amounts
<1>5. Snapshot' \in Snapshots
  BY <1>1, <1>3, NowSound DEF Snapshot, Snapshots, AquaTypeOK
<1>6. Registered(Snapshot')
  BY <1>1, <1>4, NowSound DEF Registered, LiveIn, Live, Snapshot
<1>7. Sound(Snapshot, swaps, Len(swaps))
  BY DEF SwapInv
<1>8. ASSUME NEW i \in 1 .. Len(swaps) PROVE KeptOncePaid(Snapshot', swaps[i])
  <2> DEFINE f == swaps[i]
  <2>1. f.on \in Strategies /\ f.owed \in Nat /\ f.tokenIn \in Tokens
    BY NowSound DEF Frames
  <2>2. KeptOncePaid(Snapshot, f)
    BY <1>7 DEF Sound
  <2> HIDE DEF f
  <2>3. ASSUME NEW u \in Pair[f.on], u # f.tokenIn, docking[f.on] = "live"
        PROVE  f.owed * virtual'[f.on][u] >= gift[f.on][f.tokenIn] * gift[f.on][u]
    <3>1. u \in Tokens
      BY <2>1, NowSound
    <3>2. f.owed * virtual[f.on][u] >= gift[f.on][f.tokenIn] * gift[f.on][u]
      BY <2>2, <2>3 DEF KeptOncePaid, LiveIn, Snapshot
    <3>3. virtual[f.on][u] \in Nat /\ virtual'[f.on][u] \in Nat /\ virtual'[f.on][u] >= virtual[f.on][u]
      BY <1>4, <2>1, <3>1
    <3>4. f.owed * virtual[f.on][u] <= f.owed * virtual'[f.on][u]
      BY <2>1, <3>3, MoreIsMore
    <3>5. gift[f.on][f.tokenIn] \in Nat /\ gift[f.on][u] \in Nat
      BY <1>4, <2>1, <3>1
    <3> QED
      BY <2>1, <3>2, <3>3, <3>4, <3>5
  <2> QED
    BY <1>1, <2>3 DEF KeptOncePaid, LiveIn, Snapshot, f
<1>9. ASSUME NEW r \in Strategies, docking[r] = "live", \A i \in 1 .. Len(swaps) : swaps[i].on # r
      PROVE  Kept(Snapshot', r)
  <2>1. Kept(Snapshot, r)
    BY <1>7, <1>9 DEF Sound, LiveIn, Snapshot
  <2>2. ASSUME NEW x \in Pair[r], NEW y \in Pair[r], x # y
        PROVE  virtual'[r][x] * virtual'[r][y] >= gift[r][x] * gift[r][y]
    <3>1. x \in Tokens /\ y \in Tokens
      BY NowSound
    <3>2. virtual[r][x] * virtual[r][y] >= gift[r][x] * gift[r][y]
      BY <2>1, <2>2 DEF Kept, Snapshot
    <3>3. virtual[r][x] * virtual[r][y] <= virtual'[r][x] * virtual[r][y]
      BY <1>4, <3>1, MoreIsMore
    <3>4. virtual'[r][x] * virtual[r][y] <= virtual'[r][x] * virtual'[r][y]
      BY <1>4, <3>1, MoreIsMore
    <3> QED
      BY <1>4, <3>1, <3>2, <3>3, <3>4
  <2> QED
    BY <1>1, <2>2 DEF Kept, Snapshot
<1>10. Sound(Snapshot', swaps, Len(swaps))
  <2>1. Snapshot'.docking = docking
    BY <1>1 DEF Snapshot
  <2> QED
    BY <1>6, <1>8, <1>9, <2>1, NowSound DEF Sound, LiveIn
<1> QED
  BY <1>1, <1>5, <1>10, StateMoves

(***************************************************************************)
(* The shorter and the longer queue of frames a swap leaves.                 *)
(***************************************************************************)
LEMMA FramesPushed ==
    ASSUME NEW q \in Seq(Frames), NEW f \in Frames
    PROVE  /\ Append(q, f) \in Seq(Frames) /\ Len(Append(q, f)) = Len(q) + 1
           /\ Append(q, f)[Len(q) + 1] = f
           /\ \A i \in 1 .. Len(q) : Append(q, f)[i] = q[i]
  OBVIOUS

LEMMA FramesPopped ==
    ASSUME NEW q \in Seq(Frames), q # <<>>
    PROVE  /\ Len(q) \in Nat /\ Len(q) >= 1
           /\ q[Len(q)] \in Frames
           /\ SubSeq(q, 1, Len(q) - 1) \in Seq(Frames)
           /\ Len(SubSeq(q, 1, Len(q) - 1)) = Len(q) - 1
           /\ \A i \in 1 .. Len(q) - 1 : SubSeq(q, 1, Len(q) - 1)[i] = q[i]
<1>1. Len(q) \in Nat /\ Len(q) >= 1 /\ q[Len(q)] \in Frames
  OBVIOUS
<1>2. Len(q) - 1 \in Int /\ \A i \in 1 .. Len(q) - 1 : q[i] \in Frames
  OBVIOUS
<1> DEFINE m == Len(q) - 1
<1> HIDE DEF m
<1>3. /\ SubSeq(q, 1, m) \in Seq(Frames) /\ Len(SubSeq(q, 1, m)) = IF 1 <= m THEN m - 1 + 1 ELSE 0
      /\ \A i \in 1 .. m - 1 + 1 : SubSeq(q, 1, m)[i] = q[1 + i - 1]
  BY <1>2, SubSeqProperties DEF m
<1>4. m \in Nat
  BY <1>1 DEF m
<1>5. Len(SubSeq(q, 1, m)) = m
  BY <1>3, <1>4
<1>6. \A i \in 1 .. m : SubSeq(q, 1, m)[i] = q[i]
  <2>1. m - 1 + 1 = m /\ \A i \in 1 .. m : 1 + i - 1 = i
    BY <1>4
  <2> QED
    BY <1>3, <2>1
<1> QED
  BY <1>1, <1>3, <1>5, <1>6 DEF m

LEMMA SwapPullsKeeps ==
    ASSUME SwapInv, NEW s \in Strategies, NEW tokenIn \in Tokens, NEW tokenOut \in Tokens,
           NEW amountIn \in SwapAmounts, SwapPulls(s, tokenIn, tokenOut, amountIn)
    PROVE  SwapInv'
<1> DEFINE n   == Len(swaps)
           x   == virtual[s][tokenIn]
           y   == virtual[s][tokenOut]
           out == Quote(FeeOf[s], x, y, amountIn)
           f   == [on |-> s, tokenIn |-> tokenIn, owed |-> x + amountIn, undo |-> Snapshot]
<1>1. /\ docking[s] = "live" /\ docking' = docking
      /\ virtual' = [virtual EXCEPT ![s][tokenOut] = @ - out]
      /\ allowance' = [allowance EXCEPT ![tokenOut] = @ - out]
      /\ holding' = [holding EXCEPT ![tokenOut] = @ - out]
      /\ out <= y /\ out <= allowance[tokenOut] /\ out <= holding[tokenOut]
      /\ active' = active /\ granted' = granted /\ gift' = gift
      /\ swaps' = Append(swaps, f) /\ n < MaxDepth
      /\ begun' = begun + 1 /\ begun < MaxSwaps
      /\ Pair[s] = {tokenIn, tokenOut} /\ tokenIn # tokenOut
      /\ FeeOf[s] <= BPS_BASE /\ x + AfterFee(FeeOf[s], amountIn) > 0
  <2>1. /\ amountIn \in Nat /\ FeeOf[s] \in Nat /\ x \in Nat /\ y \in Nat /\ AquaTypeOK
    BY SwapAssumption, NowSound DEF Amounts
  <2>2. /\ FeeOf[s] <= BPS_BASE /\ x + AfterFee(FeeOf[s], amountIn) > 0 /\ Pull(s, tokenOut, out)
    BY DEF SwapPulls
  <2>3. out \in Nat
    BY <2>1, <2>2, QuoteKeepsProduct
  <2> HIDE DEF out
  <2>4. /\ virtual' = [virtual EXCEPT ![s][tokenOut] = @ - out]
        /\ allowance' = [allowance EXCEPT ![tokenOut] = @ - out]
        /\ holding' = [holding EXCEPT ![tokenOut] = @ - out]
        /\ out <= y /\ out <= allowance[tokenOut] /\ out <= holding[tokenOut]
    BY <2>1, <2>2, <2>3, PullTakes
  <2> QED
    BY <2>2, <2>4 DEF SwapPulls, Live
<1>2. \A i \in 1 .. n : swaps[i].on # s
  BY DEF SwapPulls, Unlocked
<1>3. /\ amountIn \in Nat /\ FeeOf[s] \in Nat /\ x \in Nat /\ y \in Nat
      /\ virtual \in [Strategies -> Amounts] /\ gift \in [Strategies -> Amounts]
      /\ allowance \in Amounts /\ holding \in Amounts
  BY SwapAssumption, NowSound DEF AquaTypeOK, Amounts
<1>4. out \in Nat /\ (x + amountIn) * (y - out) >= x * y
  BY <1>1, <1>3, QuoteKeepsProduct
<1>5. x + amountIn > 0
  <2>1. AfterFee(FeeOf[s], amountIn) \in Nat /\ AfterFee(FeeOf[s], amountIn) <= amountIn
    BY <1>1, <1>3, FeeOnlyTakes
  <2> QED
    BY <1>1, <1>3, <2>1
<1> HIDE DEF out, x, y
<1>6. Snapshot' \in Snapshots
  <2>1. y - out \in 0 .. Uint248 - 1 /\ allowance[tokenOut] - out \in Nat
        /\ holding[tokenOut] - out \in 0 .. MaxHolding
    <3>1. allowance[tokenOut] \in Nat /\ holding[tokenOut] \in 0 .. MaxHolding /\ y \in 0 .. Uint248 - 1
      BY <1>3, NowSound DEF Amounts, Balances, AquaTypeOK, y
    <3>2. out <= y /\ out <= allowance[tokenOut] /\ out <= holding[tokenOut]
      BY <1>1
    <3> QED
      BY <1>4, <3>1, <3>2, AquaAssumption
  <2>2. virtual' \in [Strategies -> Balances]
    <3>1. virtual[s] \in Balances
      BY NowSound DEF AquaTypeOK
    <3>2. [virtual[s] EXCEPT ![tokenOut] = @ - out] \in Balances
      BY <2>1, <3>1 DEF Balances, y
    <3> QED
      BY <1>1, <3>2, NowSound DEF AquaTypeOK
  <2>3. allowance' \in Amounts /\ holding' \in [Tokens -> 0 .. MaxHolding]
    BY <1>1, <1>3, <2>1, NowSound DEF Amounts, AquaTypeOK
  <2> QED
    BY <1>1, <2>2, <2>3, NowSound DEF Snapshot, Snapshots, AquaTypeOK
<1>7. f \in Frames
  BY <1>3 DEF Frames, SwapInv
<1>8. swaps \in Seq(Frames) /\ n \in Nat
  BY NowSound DEF SwapInv, FramesFormed
<1>9. /\ swaps' \in Seq(Frames) /\ Len(swaps') = n + 1 /\ swaps'[n + 1] = f
      /\ \A i \in 1 .. n : swaps'[i] = swaps[i]
  BY <1>1, <1>7, <1>8, FramesPushed
<1>10. \A r \in Strategies : r # s => Untouched(Snapshot, Snapshot', r)
  BY <1>1, <1>3 DEF Snapshot, Untouched
<1>11. Sound(Snapshot, swaps, n)
  BY DEF SwapInv
<1>12. Sound(Snapshot, swaps', n)
  BY <1>8, <1>9, <1>11, SameFramesSound
<1>13. Registered(Snapshot')
  BY <1>1, <1>3, NowSound DEF Registered, LiveIn, Live, Snapshot
<1>14. KeptOncePaid(Snapshot', f)
  <2>1. Kept(Snapshot, s)
    BY <1>1, <1>2, <1>11 DEF Sound, LiveIn, Snapshot
  <2>2. x * y >= gift[s][tokenIn] * gift[s][tokenOut]
    BY <1>1, <2>1 DEF Kept, Snapshot, x, y
  <2>3. virtual'[s][tokenOut] = y - out
    BY <1>1, <1>3 DEF y, Amounts
  <2>4. gift[s][tokenIn] \in Nat /\ gift[s][tokenOut] \in Nat
    BY <1>3 DEF Amounts
  <2>5. gift[s][tokenIn] * gift[s][tokenOut] \in Int /\ x * y \in Int
        /\ (x + amountIn) * (y - out) \in Int
    BY <1>3, <1>4, <2>4
  <2>6. (x + amountIn) * virtual'[s][tokenOut] >= gift[s][tokenIn] * gift[s][tokenOut]
    BY <1>4, <2>2, <2>3, <2>5
  <2> QED
    BY <1>1, <2>6 DEF KeptOncePaid, Snapshot
<1> HIDE DEF f
<1>15. Sound(Snapshot', swaps', n + 1)
  <2>1. ASSUME NEW i \in 1 .. n + 1
        PROVE  Snapshot'.docking[swaps'[i].on] # "unshipped" /\ KeptOncePaid(Snapshot', swaps'[i])
    <3>1. CASE i = n + 1
      <4>1. swaps'[i] = f /\ f.on = s /\ Snapshot'.docking[s] = "live"
        BY <1>1, <1>9, <3>1 DEF f, Snapshot
      <4> QED
        BY <1>14, <4>1
    <3>2. CASE i \in 1 .. n
      <4>1. swaps'[i].on \in Strategies /\ swaps'[i].on # s
        BY <1>2, <1>9, <3>2, NowSound
      <4> QED
        BY <1>10, <1>12, <3>2, <4>1 DEF Sound, KeptOncePaid, LiveIn, Untouched
    <3> QED
      BY <1>8, <3>1, <3>2
  <2>2. ASSUME NEW r \in Strategies, LiveIn(Snapshot', r), \A i \in 1 .. n + 1 : swaps'[i].on # r
        PROVE  Kept(Snapshot', r)
    <3>1. r # s
      <4>1. swaps'[n + 1].on = s
        BY <1>9 DEF f
      <4> QED
        BY <1>8, <2>2, <4>1
    <3>2. \A i \in 1 .. n : swaps'[i].on # r
      BY <1>8, <2>2
    <3>3. Untouched(Snapshot, Snapshot', r)
      BY <1>10, <3>1
    <3> QED
      BY <1>12, <2>2, <3>2, <3>3 DEF Sound, Kept, LiveIn, Untouched
  <2> QED
    BY <1>13, <2>1, <2>2 DEF Sound
<1>16. ASSUME NEW i \in 1 .. n + 1
       PROVE  Sound(swaps'[i].undo, swaps', i - 1)
  <2>1. CASE i = n + 1
    <3>1. swaps'[i].undo = Snapshot /\ i - 1 = n
      BY <1>8, <1>9, <2>1 DEF f
    <3> QED
      BY <1>12, <3>1
  <2>2. CASE i \in 1 .. n
    <3>1. Sound(swaps[i].undo, swaps, i - 1) /\ swaps'[i] = swaps[i]
      BY <1>9, <2>2 DEF SwapInv
    <3>2. i - 1 \in Nat /\ \A j \in 1 .. i - 1 : swaps'[j] = swaps[j]
      BY <1>8, <1>9, <2>2
    <3> QED
      BY <3>1, <3>2, SameFramesSound
  <2> QED
    BY <1>8, <2>1, <2>2
<1>17. FramesFormed'
  <2>1. n + 1 <= MaxDepth
    BY <1>1, <1>8, SwapAssumption
  <2>2. ASSUME NEW i \in 1 .. n + 1
        PROVE  swaps'[i].tokenIn \in Pair[swaps'[i].on] /\ swaps'[i].owed > 0
    <3>1. CASE i = n + 1
      BY <1>1, <1>5, <1>9, <3>1 DEF f
    <3>2. CASE i \in 1 .. n
      BY <1>9, <3>2 DEF SwapInv, FramesFormed
    <3> QED
      BY <1>8, <3>1, <3>2
  <2> QED
    BY <1>9, <2>1, <2>2 DEF FramesFormed
<1>18. begun' \in 0 .. MaxSwaps
  BY <1>1, SwapAssumption DEF SwapInv
<1> QED
  BY <1>6, <1>9, <1>15, <1>16, <1>17, <1>18 DEF SwapInv

LEMMA SettlesKeeps ==
    ASSUME SwapInv, SwapSettles
    PROVE  SwapInv'
<1> DEFINE n == Len(swaps)
           f == swaps[n]
           m == n - 1
<1>1. /\ swaps # <<>> /\ swaps' = SubSeq(swaps, 1, m) /\ PushLanded(f)
      /\ virtual' = virtual /\ docking' = docking /\ allowance' = allowance /\ holding' = holding
      /\ active' = active /\ granted' = granted /\ gift' = gift /\ begun' = begun
  BY DEF SwapSettles, Innermost, Outer, record, aquaVars
<1>2. swaps \in Seq(Frames)
  BY DEF SwapInv, FramesFormed
<1>3. /\ n \in Nat /\ m \in Nat /\ n = m + 1 /\ f \in Frames
      /\ swaps' \in Seq(Frames) /\ Len(swaps') = m /\ \A i \in 1 .. m : swaps'[i] = swaps[i]
  BY <1>1, <1>2, FramesPopped
<1>4. Snapshot' = Snapshot
  BY <1>1 DEF Snapshot
<1>5. Sound(Snapshot, swaps, n) /\ FramesFormed /\ \A i \in 1 .. n : Sound(swaps[i].undo, swaps, i - 1)
  BY DEF SwapInv
<1>6. f.on \in Strategies /\ f.tokenIn \in Pair[f.on] /\ f.owed \in Nat
  BY <1>3, <1>5 DEF FramesFormed, Frames
<1>7. KeptOncePaid(Snapshot, f)
  BY <1>3, <1>5 DEF Sound
<1>8. virtual[f.on][f.tokenIn] >= f.owed
  BY <1>1 DEF PushLanded
<1> HIDE DEF n, m, f
<1>9. ASSUME LiveIn(Snapshot, f.on)
      PROVE  Kept(Snapshot, f.on)
  <2>1. ASSUME NEW u \in Pair[f.on], u # f.tokenIn
        PROVE  /\ virtual[f.on][f.tokenIn] * virtual[f.on][u] >= gift[f.on][f.tokenIn] * gift[f.on][u]
               /\ virtual[f.on][u] * virtual[f.on][f.tokenIn] >= gift[f.on][u] * gift[f.on][f.tokenIn]
    <3>1. f.owed * virtual[f.on][u] >= gift[f.on][f.tokenIn] * gift[f.on][u]
      BY <1>7, <1>9, <2>1 DEF KeptOncePaid, Snapshot
    <3>2. /\ virtual[f.on][f.tokenIn] \in Nat /\ virtual[f.on][u] \in Nat
          /\ gift[f.on][f.tokenIn] \in Nat /\ gift[f.on][u] \in Nat
      BY <1>6, <2>1, NowSound DEF Amounts
    <3>3. f.owed * virtual[f.on][u] <= virtual[f.on][f.tokenIn] * virtual[f.on][u]
      BY <1>6, <1>8, <3>2, MoreIsMore
    <3> QED
      BY <1>6, <3>1, <3>2, <3>3
  <2>2. \A t, u \in Pair[f.on] : t # u => t = f.tokenIn \/ u = f.tokenIn
    BY <1>6, AquaAssumption
  <2> QED
    BY <2>1, <2>2 DEF Kept, Snapshot
<1>10. Sound(Snapshot, swaps', m)
  <2>1. ASSUME NEW r \in Strategies, LiveIn(Snapshot, r), \A i \in 1 .. m : swaps'[i].on # r
        PROVE  Kept(Snapshot, r)
    <3>1. CASE r = f.on
      BY <1>9, <2>1, <3>1
    <3>2. CASE r # f.on
      <4>1. \A i \in 1 .. n : swaps[i].on # r
        BY <1>3, <2>1, <3>2 DEF f
      <4> QED
        BY <1>5, <2>1, <4>1 DEF Sound
    <3> QED
      BY <3>1, <3>2
  <2>2. \A i \in 1 .. m : i \in 1 .. n
    BY <1>3
  <2> QED
    BY <1>3, <1>5, <2>1, <2>2 DEF Sound
<1>11. ASSUME NEW i \in 1 .. m
       PROVE  Sound(swaps'[i].undo, swaps', i - 1)
  <2>1. i \in 1 .. n /\ i - 1 \in Nat /\ \A j \in 1 .. i - 1 : swaps'[j] = swaps[j]
    BY <1>3
  <2>2. Sound(swaps[i].undo, swaps, i - 1) /\ swaps'[i] = swaps[i]
    BY <1>3, <1>5, <2>1
  <2> QED
    BY <2>1, <2>2, SameFramesSound
<1>12. FramesFormed'
  BY <1>3, <1>5, SwapAssumption DEF FramesFormed, n
<1> QED
  BY <1>1, <1>3, <1>4, <1>10, <1>11, <1>12 DEF SwapInv

LEMMA RevertsKeeps ==
    ASSUME SwapInv, SwapReverts
    PROVE  SwapInv'
<1> DEFINE n == Len(swaps)
           m == n - 1
           back == swaps[n].undo
<1>1. /\ swaps # <<>> /\ swaps' = SubSeq(swaps, 1, m) /\ begun' = begun
      /\ virtual' = back.virtual /\ docking' = back.docking
      /\ allowance' = back.allowance /\ holding' = back.holding
      /\ active' = back.active /\ granted' = back.granted /\ gift' = back.gift
  BY DEF SwapReverts, Innermost, Outer
<1>2. swaps \in Seq(Frames)
  BY DEF SwapInv, FramesFormed
<1>3. /\ n \in Nat /\ m \in Nat /\ n = m + 1 /\ swaps[n] \in Frames
      /\ swaps' \in Seq(Frames) /\ Len(swaps') = m /\ \A i \in 1 .. m : swaps'[i] = swaps[i]
  BY <1>1, <1>2, FramesPopped
<1>4. back \in Snapshots
  BY <1>3 DEF Frames
<1>5. FramesFormed /\ \A i \in 1 .. n : Sound(swaps[i].undo, swaps, i - 1)
  BY DEF SwapInv
<1>6. Sound(back, swaps, m)
  <2>1. n \in 1 .. n
    BY <1>3
  <2> QED
    BY <1>5, <2>1
<1> HIDE DEF n, m, back
<1>7. Snapshot' = back
  BY <1>1, <1>4 DEF Snapshot, Snapshots
<1>8. Sound(back, swaps', m)
  BY <1>3, <1>6, SameFramesSound
<1>9. ASSUME NEW i \in 1 .. m
      PROVE  Sound(swaps'[i].undo, swaps', i - 1)
  <2>1. i \in 1 .. n /\ i - 1 \in Nat /\ \A j \in 1 .. i - 1 : swaps'[j] = swaps[j]
    BY <1>3
  <2>2. Sound(swaps[i].undo, swaps, i - 1) /\ swaps'[i] = swaps[i]
    BY <1>3, <1>5, <2>1
  <2> QED
    BY <2>1, <2>2, SameFramesSound
<1>10. FramesFormed'
  BY <1>3, <1>5, SwapAssumption DEF FramesFormed, n
<1> QED
  BY <1>1, <1>3, <1>4, <1>7, <1>8, <1>9, <1>10 DEF SwapInv
----------------------------------------------------------------------------
(***************************************************************************)
(* The invariant holds from the first gift on.                               *)
(***************************************************************************)
LEMMA SwapStarts == SwapInit => SwapInv
<1> SUFFICES ASSUME SwapInit PROVE SwapInv
  OBVIOUS
<1>1. /\ virtual = [s \in Strategies |-> Nothing] /\ docking = [s \in Strategies |-> "unshipped"]
      /\ allowance = Nothing /\ holding = [t \in Tokens |-> Treasury]
      /\ active = {} /\ granted = {} /\ gift = [s \in Strategies |-> Nothing]
      /\ swaps = <<>> /\ begun = 0
  BY DEF SwapInit, AquaInit
<1>2. Nothing \in Amounts /\ Nothing \in Balances
  BY BalancesAreAmounts
<1>3. Snapshot \in Snapshots
  BY <1>1, <1>2, AquaAssumption DEF Snapshot, Snapshots, Amounts
<1>4. swaps \in Seq(Frames) /\ Len(swaps) = 0
  BY <1>1
<1>5. Sound(Snapshot, swaps, 0)
  BY <1>1 DEF Sound, Registered, LiveIn, Snapshot
<1> QED
  BY <1>1, <1>3, <1>4, <1>5, SwapAssumption DEF SwapInv, FramesFormed

LEMMA SwapStepKeeps == SwapInv /\ [SwapNext]_swapVars => SwapInv'
<1> SUFFICES ASSUME SwapInv, [SwapNext]_swapVars PROVE SwapInv'
  OBVIOUS
<1>1. ASSUME NEW caller \in Callers, NEW s \in Strategies, NEW amounts \in GiftCalls,
             Bless(caller, s, amounts)
      PROVE  SwapInv'
  BY <1>1, BlessKeeps
<1>2. ASSUME NEW caller \in Callers, NEW s \in Strategies, NEW new \in Strategies,
             NEW amounts \in GiftCalls, Reship(caller, s, new, amounts)
      PROVE  SwapInv'
  BY <1>2, ReshipKeeps
<1>3. ASSUME NEW caller \in Callers, NEW s \in Strategies, Revoke(caller, s)
      PROVE  SwapInv'
  BY <1>3, RevokeKeeps
<1>4. ASSUME NEW s \in Strategies, NEW t \in Tokens, NEW u \in Tokens, NEW amount \in SwapAmounts,
             SwapPulls(s, t, u, amount)
      PROVE  SwapInv'
  BY <1>4, SwapPullsKeeps
<1>5. ASSUME NEW s \in Strategies, NEW t \in Tokens, NEW amount \in SwapAmounts,
             TakerPushes(s, t, amount)
      PROVE  SwapInv'
  BY <1>5, PushKeeps
<1>6. CASE UNCHANGED swapVars
  <2>1. UNCHANGED <<swaps, begun>> /\ Snapshot' = Snapshot
    BY <1>6 DEF swapVars, record, aquaVars, Snapshot
  <2> QED
    BY <2>1, StateMoves DEF SwapInv
<1> QED
  BY <1>1, <1>2, <1>3, <1>4, <1>5, <1>6, SettlesKeeps, RevertsKeeps DEF SwapNext, Ceremony, Trade

(***************************************************************************)
(* Under any nesting of swaps, callbacks, ceremonies and reverts the state   *)
(* is sound, and so is each state a revert would bring back.                 *)
(***************************************************************************)
THEOREM SwapInvariant == SwapSpec => []SwapInv
<1> QED
  BY SwapStarts, SwapStepKeeps, PTL DEF SwapSpec

(***************************************************************************)
(* BlessingSwap's variables keep their types, for any gifts and amounts.     *)
(***************************************************************************)
THEOREM SwapTyped == SwapSpec => []SwapTypeOK
<1>1. SwapInv => SwapTypeOK
  <2> SUFFICES ASSUME SwapInv PROVE SwapTypeOK
    OBVIOUS
  <2>1. ASSUME NEW i \in 1 .. Len(swaps)
        PROVE  [on |-> swaps[i].on, tokenIn |-> swaps[i].tokenIn, owed |-> swaps[i].owed] \in OpenSwaps
    BY NowSound DEF Frames, OpenSwaps
  <2> QED
    BY <2>1, NowSound DEF SwapTypeOK, SwapInv, FramesFormed, Grants
<1> QED
  BY <1>1, SwapInvariant, PTL

(***************************************************************************)
(* The blessing records say active of exactly the strategies Aqua holds      *)
(* live, inside a callback and after a revert too.                           *)
(***************************************************************************)
THEOREM SwapRecordMirrors == SwapSpec => []RecordMirrorsAqua
<1>1. SwapInv => RecordMirrorsAqua
  BY NowSound DEF RecordMirrorsAqua
<1> QED
  BY <1>1, SwapInvariant, PTL

(***************************************************************************)
(* Whatever chain of re-ships led to a live strategy, its steward and        *)
(* blessing are a pair the authorizer has blessed.                           *)
(***************************************************************************)
THEOREM StewardshipAlwaysGranted == SwapSpec => []StewardshipIsGranted
<1>1. SwapInv => StewardshipIsGranted
  BY NowSound DEF StewardshipIsGranted
<1> QED
  BY <1>1, SwapInvariant, PTL

(***************************************************************************)
(* When no swap is open the product of the balances of a live gift is no     *)
(* smaller than it was shipped with, whatever was swapped and nested since.  *)
(***************************************************************************)
THEOREM GiftNeverShrinksAlways == SwapSpec => []GiftNeverShrinks
<1>1. SwapInv => GiftNeverShrinks
  <2> SUFFICES ASSUME SwapInv, swaps = <<>> PROVE \A s \in Strategies : Live(s) => Kept(Snapshot, s)
    BY DEF GiftNeverShrinks, Kept, Snapshot
  <2>1. Sound(Snapshot, swaps, 0)
    BY DEF SwapInv
  <2> QED
    BY <2>1 DEF Sound, LiveIn, Live, Snapshot
<1> QED
  BY <1>1, SwapInvariant, PTL

(***************************************************************************)
(* A swap whose gift was revoked or re-shipped inside its callback does not  *)
(* settle: what a docked strategy holds is nothing, what is owed is not.     *)
(***************************************************************************)
THEOREM SwapsSettleOnlyAlive == SwapSpec => SwapsSettleAlive
<1>1. ASSUME SwapInv, SwapSettles
      PROVE  Live(Innermost.on)
  <2> DEFINE n == Len(swaps)
             f == swaps[n]
  <2>1. swaps # <<>> /\ virtual[f.on][f.tokenIn] >= f.owed
    BY <1>1 DEF SwapSettles, PushLanded, Innermost
  <2>2. swaps \in Seq(Frames)
    BY <1>1 DEF SwapInv, FramesFormed
  <2>3. n \in 1 .. n /\ f \in Frames
    BY <2>1, <2>2, FramesPopped
  <2>4. f.on \in Strategies /\ f.tokenIn \in Tokens /\ f.owed \in Nat /\ f.owed > 0
    BY <1>1, <2>3 DEF SwapInv, FramesFormed, Frames
  <2>5. ~Live(f.on) => virtual[f.on][f.tokenIn] = 0
    BY <1>1, <2>4, NowSound DEF Nothing
  <2> QED
    BY <2>1, <2>4, <2>5 DEF Innermost
<1>2. SwapInv => [SwapSettles => Live(Innermost.on)]_swapVars
  BY <1>1
<1> QED
  BY <1>2, SwapInvariant, PTL DEF SwapsSettleAlive
=============================================================================
