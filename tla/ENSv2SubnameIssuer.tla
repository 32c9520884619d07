------------------------- MODULE ENSv2SubnameIssuer -------------------------
(***************************************************************************)
(* The ENSv2 leg of the launch (contracts/src/ENSv2SubnameIssuer.sol): an   *)
(* issuer registers <label>.<family>.eth on its family's UserRegistry, for  *)
(* ever or until an expiry, and writes the consent text records of the node *)
(* on its resolver.  The UserRegistry and the resolver are external: they   *)
(* do what the interfaces and the test doubles of                           *)
(* contracts/test/mocks/MockENSv2.sol say, and a name whose expiry is past  *)
(* is free again.  An issuer is deployed with its family and its resolver;  *)
(* a name is identified by its node, and the pad may wire another issuer.   *)
(***************************************************************************)
EXTENDS Integers

CONSTANTS
    Labels, NoLabel,    \* the subname labels; the empty one
    Nodes, NoNode,      \* the nodes of the names; bytes32(0)
    Resolvers,          \* the resolvers that hold text records
    Issuers, NoIssuer,  \* the deployed issuers; address(0)
    Namehash,           \* <<issuer, label>> -> the node of that label in the issuer's family
    ResolverOf,         \* the resolver an issuer was deployed with
    Doors, NoDoor       \* values of the pair (consent.contact, pit); never written

ASSUME NodeAssumption ==
    /\ NoNode \notin Nodes
    /\ Namehash \in [Issuers \X Labels -> Nodes]
    /\ \A i, j \in Issuers, l, k \in Labels : Namehash[<<i, l>>] = Namehash[<<j, k>>] => l = k
ASSUME IssuerAssumption ==
    /\ NoIssuer \notin Issuers
    /\ ResolverOf \in [Issuers -> Resolvers]
ASSUME DoorAssumption == NoDoor \notin Doors

VARIABLES
    names,      \* UserRegistry: node -> agent id its label was registered for, 0 if free
    permanent,  \* the nodes registered with expiry type(uint64).max
    resolver    \* resolver -> node -> its consent.window and (consent.contact, pit)

ensVars == <<names, permanent, resolver>>

Windows == {"active", "paused", "withdrawn"}

NoText == [window |-> "", door |-> NoDoor]
Text(window, door) == [window |-> window, door |-> door]
Texts == [window : Windows \union {""}, door : Doors \union {NoDoor}]

ENSTypeOK ==
    /\ names \in [Nodes -> Nat]
    /\ permanent \subseteq Nodes
    /\ resolver \in [Resolvers -> [Nodes -> Texts]]

ENSInit ==
    /\ names = [n \in Nodes |-> 0]
    /\ permanent = {}
    /\ resolver = [r \in Resolvers |-> [n \in Nodes |-> NoText]]

\* UserRegistry.register: reverts when the label is taken
Register(node, agentId, forever) ==
    /\ names[node] = 0
    /\ names' = [names EXCEPT ![node] = agentId]
    /\ permanent' = IF forever THEN permanent \union {node} ELSE permanent

\* the expiry of a name passes: its label may be registered again
Lapse(node) ==
    /\ names[node] # 0
    /\ node \notin permanent
    /\ names' = [names EXCEPT ![node] = 0]
    /\ UNCHANGED <<permanent, resolver>>

\* mutant: a node that already has a window keeps it, only contact and pit are rewritten
SetDoorOnly(r, node, window, door) ==
    resolver' = [resolver EXCEPT ![r][node] = Text(IF @.window = "" THEN window ELSE @.window, door)]

\* PermissionedResolver.setText of consent.window, consent.contact and pit
SetText(r, node, window, door) ==
    resolver' = [resolver EXCEPT ![r][node] = Text(window, door)]

Issue(issuer, agentId, label, door, forever) ==
    /\ Register(Namehash[<<issuer, label>>], agentId, forever)
    /\ SetText(ResolverOf[issuer], Namehash[<<issuer, label>>], "active", door)

\* on the issuer's own resolver, whichever issuer the node was registered by
SyncConsent(issuer, node, window, door) ==
    /\ SetText(ResolverOf[issuer], node, window, door)
    /\ UNCHANGED <<names, permanent>>
=============================================================================
