-------------------------------- MODULE Gift --------------------------------
(***************************************************************************)
(* What a blessing promises, whatever contract keeps it: a gift is opened    *)
(* once, given amounts are drawn from what is left of it while it is open,   *)
(* and once closed it never opens, holds or gives anything again.            *)
(***************************************************************************)
EXTENDS Integers

CONSTANTS Gifts, Coins

VARIABLES
    phase,      \* gift -> sealed, open or closed
    left,       \* gift -> coin -> what may still be drawn
    drawn       \* gift -> coin -> what has been drawn

giftVars == <<phase, left, drawn>>

Purse == [Coins -> Nat]
Empty == [c \in Coins |-> 0]

GiftInit ==
    /\ phase = [g \in Gifts |-> "sealed"]
    /\ left = [g \in Gifts |-> Empty]
    /\ drawn = [g \in Gifts |-> Empty]

Open(g) ==
    /\ phase[g] = "sealed"
    /\ phase' = [phase EXCEPT ![g] = "open"]
    /\ left'[g] \in Purse /\ left' = [left EXCEPT ![g] = left'[g]]
    /\ UNCHANGED drawn

Draw(g) ==
    /\ phase[g] = "open"
    /\ \E c \in Coins : \E n \in 1 .. left[g][c] :
          /\ left' = [left EXCEPT ![g][c] = @ - n]
          /\ drawn' = [drawn EXCEPT ![g][c] = @ + n]
    /\ UNCHANGED phase

Add(g) ==
    /\ phase[g] = "open"
    /\ \E c \in Coins :
          /\ left'[g][c] > left[g][c]
          /\ left' = [left EXCEPT ![g][c] = left'[g][c]]
    /\ UNCHANGED <<phase, drawn>>

Close(g) ==
    /\ phase[g] = "open"
    /\ phase' = [phase EXCEPT ![g] = "closed"]
    /\ left' = [left EXCEPT ![g] = Empty]
    /\ UNCHANGED drawn

GiftNext == \E g \in Gifts : Open(g) \/ Draw(g) \/ Add(g) \/ Close(g)

GiftSpec == GiftInit /\ [][GiftNext]_giftVars
=============================================================================
