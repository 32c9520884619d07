-------------------------------- MODULE Aqua --------------------------------
(***************************************************************************)
(* The part of the 1inch Aqua registry that belongs to one maker that is     *)
(* its own app, as contracts/aqua/test/MockAqua.sol gives its storage        *)
(* semantics, with the ERC-20 approvals and balances it spends.  Aqua holds  *)
(* no tokens: it keeps virtual balances of strategies over the wallet of     *)
(* their maker and moves real tokens with the maker's approval.              *)
(***************************************************************************)
EXTENDS Integers

CONSTANTS
    Tokens,         \* the ERC-20 tokens
    Strategies,     \* strategy hashes
    Pair,           \* strategy -> its two tokens
    Treasury,       \* what the wallet holds of each token at first
    Uint248,        \* 2^248: a virtual balance is below it, a call's amount need not be
    MaxHolding      \* bound: what the maker's wallet may hold of a token

ASSUME AquaAssumption ==
    /\ Pair \in [Strategies -> SUBSET Tokens]
    /\ \A s \in Strategies : \E t, u \in Tokens : t # u /\ Pair[s] = {t, u}
    /\ Treasury \in Nat /\ MaxHolding \in Nat /\ Treasury <= MaxHolding
    \* no token has 2^248 units to hold
    /\ Uint248 \in Nat /\ MaxHolding < Uint248

VARIABLES
    virtual,        \* _balances[..].amount: strategy -> token -> amount
    docking,        \* _balances[..].tokensCount: 0, the number of tokens, or 0xff
    allowance,      \* token -> what the maker's approval to Aqua has left
    holding         \* token -> balanceOf(maker)

aquaVars == <<virtual, docking, allowance, holding>>

Amounts == [Tokens -> Nat]
Balances == [Tokens -> 0 .. Uint248 - 1]
Nothing == [t \in Tokens |-> 0]

AquaTypeOK ==
    /\ virtual \in [Strategies -> Balances]
    /\ docking \in [Strategies -> {"unshipped", "live", "docked"}]
    /\ allowance \in Amounts
    /\ holding \in [Tokens -> 0 .. MaxHolding]

AquaInit ==
    /\ virtual = [s \in Strategies |-> Nothing]
    /\ docking = [s \in Strategies |-> "unshipped"]
    /\ allowance = Nothing
    /\ holding = [t \in Tokens |-> Treasury]

Live(s) == docking[s] = "live"

\* uint248(n): the high bits are dropped
Cast(n) == n % Uint248

\* mutant: the approval is added to what was left of the last one
ApproveOnTop(s, amounts) ==
    allowance' = [t \in Tokens |-> IF t \in Pair[s] THEN allowance[t] + amounts[t] ELSE allowance[t]]

\* the two approve calls before a ship: they overwrite what was left
Approve(s, amounts) ==
    allowance' = [t \in Tokens |-> IF t \in Pair[s] THEN amounts[t] ELSE allowance[t]]

\* mutant: a docked strategy can be shipped again
ShippableUnlessLive(s) == docking[s] # "live"
Shippable(s) == docking[s] = "unshipped"

\* mutant: the amounts are recorded as they came
ShippedInFull(s, amounts) == [t \in Tokens |-> IF t \in Pair[s] THEN amounts[t] ELSE 0]
Shipped(s, amounts) == [t \in Tokens |-> IF t \in Pair[s] THEN Cast(amounts[t]) ELSE 0]

Ship(s, amounts) ==
    /\ Shippable(s)
    /\ docking' = [docking EXCEPT ![s] = "live"]
    /\ virtual' = [virtual EXCEPT ![s] = Shipped(s, amounts)]

Dock(s) ==
    /\ Live(s)
    /\ docking' = [docking EXCEPT ![s] = "docked"]
    /\ virtual' = [virtual EXCEPT ![s] = Nothing]

\* dock one strategy and ship another
DockAndShip(old, new, amounts) ==
    /\ Live(old) /\ Shippable(new)
    /\ docking' = [docking EXCEPT ![old] = "docked", ![new] = "live"]
    /\ virtual' = [virtual EXCEPT ![old] = Nothing, ![new] = Shipped(new, amounts)]

\* mutant: the approval is not checked when it is spent
PullUnapproved(s, t, amount) ==
    /\ Cast(amount) <= virtual[s][t] /\ amount <= holding[t]
    /\ virtual' = [virtual EXCEPT ![s][t] = @ - Cast(amount)]
    /\ allowance' = [allowance EXCEPT ![t] = @ - amount]
    /\ holding' = [holding EXCEPT ![t] = @ - amount]

\* pull: the underflow of the virtual balance and the transferFrom are its only guards
Pull(s, t, amount) ==
    /\ Cast(amount) <= virtual[s][t]
    /\ amount <= allowance[t] /\ amount <= holding[t]
    /\ virtual' = [virtual EXCEPT ![s][t] = @ - Cast(amount)]
    /\ allowance' = [allowance EXCEPT ![t] = @ - amount]
    /\ holding' = [holding EXCEPT ![t] = @ - amount]

\* push: open to anyone who pays, up to the width of the balance
Push(s, t, amount) ==
    /\ Live(s) /\ t \in Pair[s]
    /\ virtual[s][t] + Cast(amount) < Uint248
    /\ holding[t] + amount <= MaxHolding
    /\ virtual' = [virtual EXCEPT ![s][t] = @ + Cast(amount)]
    /\ holding' = [holding EXCEPT ![t] = @ + amount]
    /\ UNCHANGED <<docking, allowance>>
=============================================================================
