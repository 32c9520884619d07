---------------------------- MODULE BlessingSwap ----------------------------
(***************************************************************************)
(* BlessingSwap.sol: a gift is an Aqua strategy anyone may swap against at   *)
(* the constant-product price.  swapExactIn pulls the output, calls the      *)
(* taker back and then demands the input: between the two the taker runs any *)
(* code, pushes, swaps on other gifts, and the steward or the authorizer may *)
(* re-ship or revoke.  A swap whose input is missing is reverted with        *)
(* everything done inside it; a caller may catch that of an inner swap.      *)
(* The swap takes its two tokens, its fee, its steward and its blessing from *)
(* the strategy, which its hash stands for.                                  *)
(***************************************************************************)
EXTENDS Aqua, Sequences

CONSTANTS
    Authorizer, Stranger,           \* callers; the stewards are callers too
    StewardOf, BlessingOf, FeeOf,   \* what a strategy hash commits to
    GiftCalls, SwapAmounts,         \* bounds: the amounts of the calls
    MaxDepth,                       \* bound: how deep swaps nest
    MaxSwaps                        \* bound: how many swaps are begun

ASSUME SwapAssumption ==
    /\ DOMAIN StewardOf = Strategies /\ DOMAIN BlessingOf = Strategies
    /\ FeeOf \in [Strategies -> Nat]
    /\ GiftCalls \subseteq [Tokens -> Nat] /\ SwapAmounts \subseteq Nat
    /\ MaxDepth \in Nat /\ MaxSwaps \in Nat

BPS_BASE == 10000

Callers == {Authorizer, Stranger} \union {StewardOf[s] : s \in Strategies}

VARIABLES
    active,         \* the strategies whose blessing record says active
    granted,        \* history: the steward and blessing id of every bless
    gift,           \* history: the balances a strategy was shipped with
    swaps,          \* the swaps that wait for their callback, innermost last
    begun           \* how many swaps have begun

record == <<aquaVars, active, granted, gift>>
swapVars == <<record, swaps, begun>>

OpenSwaps == [on : Strategies, tokenIn : Tokens, owed : Nat]

SwapTypeOK ==
    /\ AquaTypeOK
    /\ active \subseteq Strategies
    /\ granted \subseteq {<<StewardOf[s], BlessingOf[s]>> : s \in Strategies}
    /\ gift \in [Strategies -> Amounts]
    /\ begun \in 0 .. MaxSwaps
    /\ Len(swaps) <= MaxDepth
    /\ \A i \in 1 .. Len(swaps) :
          [on |-> swaps[i].on, tokenIn |-> swaps[i].tokenIn, owed |-> swaps[i].owed] \in OpenSwaps

SwapInit ==
    /\ AquaInit
    /\ active = {}
    /\ granted = {}
    /\ gift = [s \in Strategies |-> Nothing]
    /\ swaps = <<>>
    /\ begun = 0
----------------------------------------------------------------------------
Bless(caller, s, amounts) ==
    /\ caller = Authorizer
    /\ s \notin active
    /\ Approve(s, amounts)
    /\ Ship(s, amounts)
    /\ active' = active \union {s}
    /\ granted' = granted \union {<<StewardOf[s], BlessingOf[s]>>}
    /\ gift' = [gift EXCEPT ![s] = Shipped(s, amounts)]
    /\ UNCHANGED <<holding, swaps, begun>>

\* mutant: the steward stays, the blessing may be another
KeepsSteward(old, new) == StewardOf[new] = StewardOf[old]
KeepsBlessing(old, new) ==
    StewardOf[new] = StewardOf[old] /\ BlessingOf[new] = BlessingOf[old]

\* mutant: the record of the docked strategy stays active
BothActive(old, new) == active \union {new}
ActiveAfterReship(old, new) == (active \ {old}) \union {new}

\* reship: dock the old strategy and ship the new one with the amounts of the call
Reship(caller, old, new, amounts) ==
    /\ old \in active
    /\ caller \in {StewardOf[old], Authorizer}
    /\ KeepsBlessing(old, new)
    /\ new \notin active \ {old}
    /\ Approve(new, amounts)
    /\ DockAndShip(old, new, amounts)
    /\ active' = ActiveAfterReship(old, new)
    /\ gift' = [gift EXCEPT ![new] = Shipped(new, amounts)]
    /\ UNCHANGED <<holding, granted, swaps, begun>>

Revoke(caller, s) ==
    /\ caller = Authorizer
    /\ s \in active
    /\ Dock(s)
    /\ active' = active \ {s}
    /\ UNCHANGED <<allowance, holding, granted, gift, swaps, begun>>
----------------------------------------------------------------------------
AfterFee(fee, amountIn) == (amountIn * (BPS_BASE - fee)) \div BPS_BASE

\* mutant: the output is rounded in favour of the taker
QuoteRoundedUp(fee, balanceIn, balanceOut, amountIn) ==
    (AfterFee(fee, amountIn) * balanceOut + balanceIn + AfterFee(fee, amountIn) - 1)
        \div (balanceIn + AfterFee(fee, amountIn))

\* _quoteExactIn; both divisions round down
Quote(fee, balanceIn, balanceOut, amountIn) ==
    (AfterFee(fee, amountIn) * balanceOut) \div (balanceIn + AfterFee(fee, amountIn))

\* mutant: the lock is not looked at
UnlockedAlways(s) == TRUE
\* nonReentrantStrategy: one open swap per strategy
Unlocked(s) == \A i \in 1 .. Len(swaps) : swaps[i].on # s

Snapshot == [virtual |-> virtual, docking |-> docking, allowance |-> allowance,
             holding |-> holding, active |-> active, granted |-> granted, gift |-> gift]

\* swapExactIn up to the callback: quote, pull the output
SwapPulls(s, tokenIn, tokenOut, amountIn) ==
    /\ Len(swaps) < MaxDepth /\ begun < MaxSwaps
    /\ begun' = begun + 1
    /\ Unlocked(s)
    /\ Live(s)
    /\ Pair[s] = {tokenIn, tokenOut} /\ tokenIn # tokenOut
    /\ FeeOf[s] <= BPS_BASE
    /\ virtual[s][tokenIn] + AfterFee(FeeOf[s], amountIn) > 0
    /\ Pull(s, tokenOut, Quote(FeeOf[s], virtual[s][tokenIn], virtual[s][tokenOut], amountIn))
    /\ swaps' = Append(swaps, [on |-> s, tokenIn |-> tokenIn,
                               owed |-> virtual[s][tokenIn] + amountIn, undo |-> Snapshot])
    /\ UNCHANGED <<docking, active, granted, gift>>

Innermost == swaps[Len(swaps)]
Outer == SubSeq(swaps, 1, Len(swaps) - 1)

\* mutant: what the wallet gained is looked at, not what the strategy holds
WalletGained(q) ==
    holding[q.tokenIn] - q.undo.holding[q.tokenIn] >= q.owed - q.undo.virtual[q.on][q.tokenIn]
\* _safeCheckAquaPush: rawBalances, so a docked strategy holds nothing
PushLanded(q) == virtual[q.on][q.tokenIn] >= q.owed

SwapSettles ==
    /\ swaps # <<>>
    /\ PushLanded(Innermost)
    /\ swaps' = Outer
    /\ UNCHANGED <<record, begun>>

\* the input is missing, or the callback reverts
SwapReverts ==
    /\ swaps # <<>>
    /\ virtual' = Innermost.undo.virtual /\ docking' = Innermost.undo.docking
    /\ allowance' = Innermost.undo.allowance /\ holding' = Innermost.undo.holding
    /\ active' = Innermost.undo.active /\ granted' = Innermost.undo.granted
    /\ gift' = Innermost.undo.gift
    /\ swaps' = Outer
    /\ UNCHANGED begun

\* a taker settles, or anyone tops a gift up
TakerPushes(s, t, amount) ==
    /\ Push(s, t, amount)
    /\ UNCHANGED <<active, granted, gift, swaps, begun>>
----------------------------------------------------------------------------
Ceremony ==
    \E caller \in Callers, s \in Strategies :
        \/ \E amounts \in GiftCalls : Bless(caller, s, amounts)
        \/ \E new \in Strategies, amounts \in GiftCalls : Reship(caller, s, new, amounts)
        \/ Revoke(caller, s)

Trade ==
    \/ \E s \in Strategies, t, u \in Tokens, amount \in SwapAmounts :
          \/ SwapPulls(s, t, u, amount)
          \/ TakerPushes(s, t, amount)
    \/ SwapSettles
    \/ SwapReverts

SwapNext == Ceremony \/ Trade

SwapSpec == SwapInit /\ [][SwapNext]_swapVars
----------------------------------------------------------------------------
(***************************************************************************)
(* The blessing records and the registry agree on what is live, inside a     *)
(* callback too: nobody can re-ship or revoke a strategy Aqua has docked,    *)
(* and no strategy trades whose record says it was stopped.                  *)
(***************************************************************************)
RecordMirrorsAqua == active = {s \in Strategies : Live(s)}

(***************************************************************************)
(* "A steward re-tunes, never re-assigns": whatever chain of re-ships led to *)
(* a live strategy, its steward and blessing are a pair the authorizer has   *)
(* blessed.                                                                  *)
(***************************************************************************)
StewardshipIsGranted ==
    \A s \in Strategies : Live(s) => <<StewardOf[s], BlessingOf[s]>> \in granted

(***************************************************************************)
(* "The maker can never be short-changed": when no swap is open, the product *)
(* of the two balances of a live gift is no smaller than it was shipped      *)
(* with, whatever was swapped, nested and rounded since.                     *)
(***************************************************************************)
GiftNeverShrinks ==
    swaps = <<>> =>
        \A s \in Strategies : Live(s) =>
            \A t, u \in Pair[s] : t # u =>
                virtual[s][t] * virtual[s][u] >= gift[s][t] * gift[s][u]

(***************************************************************************)
(* "The gift dies the moment consent is withdrawn": a swap whose gift was    *)
(* revoked or re-shipped inside its callback does not settle, not even when  *)
(* the treasury got its tokens through another gift.                         *)
(***************************************************************************)
SwapsSettleAlive == [][SwapSettles => Live(Innermost.on)]_swapVars
=============================================================================
