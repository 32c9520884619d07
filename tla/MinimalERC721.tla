--------------------------- MODULE MinimalERC721 ---------------------------
(***************************************************************************)
(* The ERC-721 core of the launch registry (contracts/src/MinimalERC721.sol). *)
(* A transaction that reverts changes nothing, so a revert is a disabled    *)
(* action.  Tokens are the agent identities: whoever may move a token holds *)
(* the consent keys of that agent, which is why the approvals matter.       *)
(***************************************************************************)
EXTENDS Integers, FiniteSets

CONSTANTS
    Address,    \* the accounts that send transactions
    Zero,       \* address(0)
    Owners,     \* the accounts identities are minted for or handed to
    Deputies,   \* the accounts approvals are given to
    MaxAgents   \* bound: how many token ids exist

ASSUME AddressAssumption ==
    /\ Zero \notin Address
    /\ Owners \subseteq Address
    /\ Deputies \subseteq Address
ASSUME MaxAgentsAssumption == MaxAgents \in Nat

TokenIds == 1 .. MaxAgents

VARIABLES
    owners,             \* _owners: token id -> owner, Zero until minted
    balances,           \* _balances
    tokenApprovals,     \* _tokenApprovals: token id -> the one approved account
    operatorApprovals   \* _operatorApprovals as the set of <<owner, operator>> pairs

tokenVars == <<owners, balances, tokenApprovals, operatorApprovals>>

Minted(t) == owners[t] # Zero

TokenTypeOK ==
    /\ owners \in [TokenIds -> Address \union {Zero}]
    /\ balances \in [Address -> Int]
    /\ tokenApprovals \in [TokenIds -> Address \union {Zero}]
    /\ operatorApprovals \subseteq Address \X Address

TokenInit ==
    /\ owners = [t \in TokenIds |-> Zero]
    /\ balances = [a \in Address |-> 0]
    /\ tokenApprovals = [t \in TokenIds |-> Zero]
    /\ operatorApprovals = {}

\* _isApprovedOrOwner: reverts (is false) on a token nobody owns
IsApprovedOrOwner(spender, t) ==
    /\ Minted(t)
    /\ \/ spender = owners[t]
       \/ spender = tokenApprovals[t]
       \/ <<owners[t], spender>> \in operatorApprovals

\* mutant: both balances computed from the values read before the transfer
MovedFromStaleReads(from, to) ==
    [balances EXCEPT ![from] = balances[from] - 1, ![to] = balances[to] + 1]

\* _balances[from] -= 1, then _balances[to] += 1: a transfer to oneself is neutral
Moved(from, to) ==
    LET debited == [balances EXCEPT ![from] = @ - 1]
    IN  [debited EXCEPT ![to] = @ + 1]

Mint(to, t) ==
    /\ to # Zero
    /\ ~Minted(t)
    /\ balances' = [balances EXCEPT ![to] = @ + 1]
    /\ owners' = [owners EXCEPT ![t] = to]
    /\ UNCHANGED <<tokenApprovals, operatorApprovals>>

Approve(caller, to, t) ==
    /\ Minted(t)
    /\ caller = owners[t] \/ <<owners[t], caller>> \in operatorApprovals
    /\ tokenApprovals' = [tokenApprovals EXCEPT ![t] = to]
    /\ UNCHANGED <<owners, balances, operatorApprovals>>

SetApprovalForAll(caller, operator, approved) ==
    /\ operator # Zero
    /\ operatorApprovals' = IF approved
                            THEN operatorApprovals \union {<<caller, operator>>}
                            ELSE operatorApprovals \ {<<caller, operator>>}
    /\ UNCHANGED <<owners, balances, tokenApprovals>>

\* mutant: the approval the old owner gave stays
KeptApproval(t) == tokenApprovals

\* delete _tokenApprovals[tokenId]
ClearedApproval(t) == [tokenApprovals EXCEPT ![t] = Zero]

(***************************************************************************)
(* transferFrom with from = ownerOf(t), the only value that does not revert. *)
(* safeTransferFrom adds a call to the recipient after the last state       *)
(* change, which can only revert the whole transfer or send transactions of *)
(* its own, so its effect is this one.                                      *)
(***************************************************************************)
TransferFrom(caller, to, t) ==
    /\ IsApprovedOrOwner(caller, t)
    /\ to # Zero
    /\ tokenApprovals' = ClearedApproval(t)
    /\ balances' = Moved(owners[t], to)
    /\ owners' = [owners EXCEPT ![t] = to]
    /\ UNCHANGED operatorApprovals

TokenNext ==
    \E caller \in Address, t \in TokenIds :
        \/ \E to \in Deputies \union {Zero} : Approve(caller, to, t)
        \/ \E to \in Owners : TransferFrom(caller, to, t)

ApprovalNext ==
    \E caller \in Owners, operator \in Deputies, approved \in BOOLEAN :
        SetApprovalForAll(caller, operator, approved)
----------------------------------------------------------------------------
(***************************************************************************)
(* Every balance counts exactly the tokens its account owns, through every  *)
(* mint and transfer, a transfer to oneself included.                       *)
(***************************************************************************)
BalancesCountTokens ==
    \A a \in Address : balances[a] = Cardinality({t \in TokenIds : owners[t] = a})

(***************************************************************************)
(* When an identity changes hands, the accounts that can act for it after   *)
(* the transfer are the new owner and the deputies the new owner itself     *)
(* chose: no approval the old owner gave survives the handoff.              *)
(***************************************************************************)
HandoffRevokesDeputies ==
    [][\A t \in TokenIds, c \in Address :
          Minted(t) /\ owners'[t] # owners[t] /\ IsApprovedOrOwner(c, t)'
            => c = owners'[t] \/ <<owners'[t], c>> \in operatorApprovals']_tokenVars
=============================================================================
