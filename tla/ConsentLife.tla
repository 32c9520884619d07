---------------------------- MODULE ConsentLife ----------------------------
(***************************************************************************)
(* What the consent server promises about one identity token, seen from     *)
(* outside: it is spent at most once, grants at most one consent, and that  *)
(* consent authorises actions until it is revoked or expires, for good.     *)
(***************************************************************************)
CONSTANTS Tokens, NoToken

VARIABLES
    life,   \* token -> how far its life went
    acted   \* the token the last step authorised an action for, or NoToken

lifeVars == <<life, acted>>

LifeInit ==
    /\ life = [t \in Tokens |-> "unused"]
    /\ acted = NoToken

Becomes(t, old, new) ==
    /\ life[t] = old
    /\ life' = [life EXCEPT ![t] = new]
    /\ acted' = NoToken

Act(t) ==
    /\ life[t] = "active"
    /\ acted' = t
    /\ UNCHANGED life

\* a step of the server that concerns no token
Rest == acted' = NoToken /\ UNCHANGED life

LifeNext ==
    \/ \E t \in Tokens : \/ Becomes(t, "unused", "spent")
                         \/ Becomes(t, "spent", "active")
                         \/ Becomes(t, "active", "revoked")
                         \/ Becomes(t, "active", "expired")
                         \/ Becomes(t, "expired", "revoked")
                         \/ Act(t)
    \/ Rest

LifeSpec == LifeInit /\ [][LifeNext]_lifeVars
=============================================================================
