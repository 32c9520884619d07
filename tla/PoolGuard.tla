----------------------------- MODULE PoolGuard -----------------------------
(***************************************************************************)
(* PoolGuard.sol: one slot of the blessing pool for one verified human,     *)
(* numbered in the order the attester claims them; 0 is no slot.  A call of  *)
(* anyone else reverts, so every call here is the attester's.               *)
(***************************************************************************)
EXTENDS Integers, FiniteSets

CONSTANT Humans     \* the subjects World signs for, hashed

VARIABLES
    slots,      \* human -> the index of its slot, 0 when it has none
    slotCount

guardVars == <<slots, slotCount>>

GuardInit ==
    /\ slots = [h \in Humans |-> 0]
    /\ slotCount = 0

HasSlot(h) == slots[h] # 0

\* mutant: claimSlot does not look whether the human has a slot
ClaimableAgain(h) == TRUE
Claimable(h) == ~HasSlot(h)

ClaimSlot(h) ==
    /\ Claimable(h)
    /\ slotCount' = slotCount + 1
    /\ slots' = [slots EXCEPT ![h] = slotCount']
----------------------------------------------------------------------------
Holders == {h \in Humans : HasSlot(h)}

\* the slots handed out are numbered without gaps and held by one human each
SlotsAreNumbered ==
    /\ slots \in [Humans -> 0 .. slotCount]
    /\ slotCount = Cardinality(Holders)
    /\ \A h, k \in Holders : slots[h] = slots[k] => h = k
=============================================================================
