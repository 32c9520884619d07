----------------------------- MODULE MCConsent -----------------------------
(***************************************************************************)
(* The consent server with two requests in flight, two sessions of one      *)
(* agent, and two tokens: one free to be used with any session, one that    *)
(* echoes the nonce of the first.                                           *)
(***************************************************************************)
EXTENDS ConsentServer, TLC

CONSTANTS s1, s2, t1, t2, scribe, gift

MCScopeMap == (scribe :> {gift})
MCNoScopes == (scribe :> {})
MCTokenExp == (t1 :> 1 @@ t2 :> 2)
MCTokenNonce == (t1 :> NoSession @@ t2 :> s1)
MCSymmetry == Permutations(Requests)

\* the last authorisation tells no state from another; only ImplementsLife reads it
MCView == <<now, store, requests, minted, era>>
=============================================================================
