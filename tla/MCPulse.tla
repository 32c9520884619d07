------------------------------ MODULE MCPulse ------------------------------
(***************************************************************************)
(* The subgraph behind a registry with one identity: the pad, an operator   *)
(* who may take the pad over, and a rail that records hires and blessings.  *)
(***************************************************************************)
EXTENDS PulseSubgraph

CONSTANTS padder, alice, carol, ohana, ohanaNode, padResolver

MCAddress == {padder, alice, carol}
MCNamehash == [call \in Issuers \X Labels |-> ohanaNode]
MCResolverOf == [i \in Issuers |-> padResolver]

MCInit == PulseInit /\ pad = padder
MCSpec == MCInit /\ [][PulseNext]_allVars /\ WF_allVars(Index)
=============================================================================
