----------------------------- MODULE MCRegistry -----------------------------
(***************************************************************************)
(* The registry on a small instance: two identities, a pad, two accounts    *)
(* that launch, own and hand over, and one that they deputise; two issuers, *)
(* each of a family of its own, that write on one resolver, so one label    *)
(* has two nodes.                                                           *)
(***************************************************************************)
EXTENDS AgentLaunchRegistry, TLC

CONSTANTS padder, alice, bob, carol, ohana, kapua, ohanaNode, kapuaNode, padResolver

MCAddress == {padder, alice, bob, carol}
MCNamehash == [call \in Issuers \X Labels |-> IF call[1] = ohana THEN ohanaNode ELSE kapuaNode]
MCResolverOf == [i \in Issuers |-> padResolver]

\* the two accounts, and the two families with their nodes, are interchangeable
FamilySwap == (ohana :> kapua) @@ (kapua :> ohana) @@ (ohanaNode :> kapuaNode)
                  @@ (kapuaNode :> ohanaNode)
MCSymmetry == Permutations({alice, bob}) \union {FamilySwap}
MCInit == Init /\ pad = padder

\* the last transaction's events tell no state from another: WindowChangesAreSigned,
\* their one reader, looks at them in the step that emits them
MCView == <<tokenVars, ensVars, registryVars>>

MCSpec == MCInit /\ [][Next]_vars
=============================================================================
