---------------------------- MODULE BlessingPool ----------------------------
(***************************************************************************)
(* BlessingPool.sol: a treasury that is maker and app of its Aqua positions. *)
(* The authorizer blesses an agent (ship) and revokes the blessing (dock);   *)
(* while it is live the authorizer or the agent draws the agent's wage       *)
(* (pull).  A position hash stands for its agent, pair and salt.             *)
(***************************************************************************)
EXTENDS Aqua

CONSTANTS
    Authorizer, Stranger,   \* callers; the agents are callers too
    AgentOf,                \* position -> the blessed agent
    BlessAmounts,           \* bound: the amounts of a blessing
    MaxAmount               \* bound: the largest amount of any other call

ASSUME PoolAssumption ==
    DOMAIN AgentOf = Strategies /\ BlessAmounts \subseteq Nat /\ MaxAmount \in Nat

Callers == {Authorizer, Stranger} \union {AgentOf[s] : s \in Strategies}
CallAmounts == [Tokens -> BlessAmounts]

VARIABLES
    active,         \* the positions whose record says active
    newest,         \* history: token -> {the position last approved for, if its amount fits}
    paid            \* history: position -> token -> the WagePaid events, added up

poolVars == <<aquaVars, active, newest, paid>>

PoolTypeOK ==
    /\ AquaTypeOK
    /\ active \subseteq Strategies
    /\ newest \in [Tokens -> {{}} \union {{s} : s \in Strategies}]
    /\ paid \in [Strategies -> Amounts]

PoolInit ==
    /\ AquaInit
    /\ active = {}
    /\ newest = [t \in Tokens |-> {}]
    /\ paid = [s \in Strategies |-> Nothing]
----------------------------------------------------------------------------
Bless(caller, s, amounts) ==
    /\ caller = Authorizer
    /\ s \notin active
    /\ Approve(s, amounts)
    /\ Ship(s, amounts)
    /\ active' = active \union {s}
    /\ newest' = [t \in Tokens |-> IF t \notin Pair[s] THEN newest[t]
                                  ELSE IF amounts[t] < Uint248 THEN {s} ELSE {}]
    /\ UNCHANGED <<holding, paid>>

\* mutant: the record is not told that the strategy is docked
StillActive(s) == active
Deactivated(s) == active \ {s}

Revoke(caller, s) ==
    /\ caller = Authorizer
    /\ s \in active
    /\ Dock(s)
    /\ active' = Deactivated(s)
    /\ UNCHANGED <<allowance, holding, newest, paid>>

\* mutant: anyone may draw a wage
AnyoneDraws(caller, s) == TRUE
MayDraw(caller, s) == caller \in {Authorizer, AgentOf[s]}

PayWage(caller, s, t, amount) ==
    /\ s \in active
    /\ MayDraw(caller, s)
    /\ Pull(s, t, amount)
    /\ paid' = [paid EXCEPT ![s][t] = @ + amount]
    /\ UNCHANGED <<docking, active, newest>>

\* anyone may push to a live strategy through Aqua itself
TopUp(s, t, amount) ==
    /\ Push(s, t, amount)
    /\ UNCHANGED <<active, newest, paid>>

\* a deposit to the treasury, which no contract is told about
Deposit(t, amount) ==
    /\ holding[t] + amount <= MaxHolding
    /\ holding' = [holding EXCEPT ![t] = @ + amount]
    /\ UNCHANGED <<virtual, docking, allowance, active, newest, paid>>
----------------------------------------------------------------------------
Ceremony ==
    \E caller \in Callers, s \in Strategies :
        \/ \E amounts \in CallAmounts : Bless(caller, s, amounts)
        \/ Revoke(caller, s)
        \/ \E t \in Tokens, amount \in 1 .. MaxAmount : PayWage(caller, s, t, amount)

Funding ==
    \E t \in Tokens, amount \in 1 .. MaxAmount :
        \/ \E s \in Strategies : TopUp(s, t, amount)
        \/ Deposit(t, amount)

PoolNext == Ceremony \/ Funding

PoolSpec == PoolInit /\ [][PoolNext]_poolVars
----------------------------------------------------------------------------
(***************************************************************************)
(* The pool's own record and the registry agree on which blessings live: no  *)
(* wage can be refused on a live position as inactive, no revoke can find    *)
(* its strategy docked, whatever order they are opened and closed in.        *)
(***************************************************************************)
RecordMirrorsAqua == active = {s \in Strategies : Live(s)}

(***************************************************************************)
(* "We approve Aqua for the EXACT shipped amounts (not max)": through top-   *)
(* ups, draws on other positions and revocations, the approval of a token    *)
(* never exceeds what the live position it was given for still holds.  (A    *)
(* blessing of 2^248 or more is approved in full and recorded truncated.)    *)
(***************************************************************************)
ApprovalWithinBlessing ==
    \A t \in Tokens : \A s \in newest[t] : Live(s) => allowance[t] <= virtual[s][t]

PhaseOf == [unshipped |-> "sealed", live |-> "open", docked |-> "closed"]
Phase == [s \in Strategies |-> PhaseOf[docking[s]]]

GiftOf == INSTANCE Gift WITH
    Gifts <- Strategies,
    Coins <- Tokens,
    phase <- Phase,
    left <- virtual,
    drawn <- paid

(***************************************************************************)
(* The pool keeps the promise of a gift: wages are paid only out of what is  *)
(* left of an open blessing, and a revoked one is dead for good, even when   *)
(* the same agent, pair and salt are blessed again.                          *)
(***************************************************************************)
ImplementsGift == GiftOf!GiftSpec
=============================================================================
