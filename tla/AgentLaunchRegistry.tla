------------------------ MODULE AgentLaunchRegistry ------------------------
(***************************************************************************)
(* The launch registry (contracts/src/AgentLaunchRegistry.sol): one launch  *)
(* mints an identity, assigns its ENSv2 subname and opens its Standing      *)
(* Consent Window; the operator flips the window, the pad moderates.        *)
(*                                                                         *)
(* One action per external function; "caller" is msg.sender.  The pair      *)
(* (consentContact, pitPointer) always travels together and is one value,   *)
(* a door.  launchedAt, expiry and ensTokenId are written once and read by  *)
(* no function: they are left out of the record; what the expiry does to    *)
(* the name is the UserRegistry's.                                          *)
(***************************************************************************)
EXTENDS MinimalERC721, ENSv2SubnameIssuer, Sequences

CONSTANTS
    Hashes, ZeroHash,   \* the manifest hashes passed in; bytes32(0), maybe one of them
    Uris, NoUri,        \* the manifest URIs passed in; the empty one, maybe one of them
    Notes, NoNote,      \* values of a metadata key of the operator's own; unset
    Pads,               \* accounts the pad role may be handed to
    Rails,              \* accounts the pad may allow as hire recorders
    Lanes,              \* accounts the pad may allow as blessers
    Amounts,            \* amounts of a hire
    Durations,          \* the subname lifetimes of a launch: 0 is permanent
    IssuerChoices,      \* what setSubnameIssuer is called with; NoIssuer unwires
    Anchors             \* the nodes the pad anchors by hand, bytes32(0) maybe among them

ASSUME NoteAssumption == NoNote \notin Notes
ASSUME RolesAssumption ==
    Pads \subseteq Address /\ Rails \subseteq Address /\ Lanes \subseteq Address
ASSUME AmountsAssumption == Amounts \subseteq Nat
ASSUME LifetimeAssumption == Durations \subseteq Nat
ASSUME PlumbingAssumption ==
    /\ IssuerChoices \subseteq Issuers \union {NoIssuer}
    /\ Anchors \subseteq Nodes \union {NoNode}

VARIABLES
    pad,            \* the launchpad operator
    subnameIssuer,  \* the wired issuer, NoIssuer in fallback mode
    totalAgents,
    records,        \* agent id -> AgentRecord
    metadata,       \* agent id -> the ERC-8004 metadata keys
    agentURIs,
    hireRecorders,
    blessers,
    emitted         \* the spine events of the last transaction, in order

adminVars == <<pad, subnameIssuer, hireRecorders, blessers>>
agentVars == <<totalAgents, records, metadata, agentURIs>>
registryVars == <<adminVars, agentVars>>
vars == <<tokenVars, ensVars, registryVars, emitted>>

Active == 0
Paused == 1
Withdrawn == 2
Consent == {Active, Paused, Withdrawn}

\* mutant: the vocabulary of the revoke button instead of the canon
WindowTextRevoked(status) ==
    CASE status = Active -> "active" [] status = Paused -> "paused" [] OTHER -> "revoked"

\* _windowText
WindowText(status) ==
    CASE status = Active -> "active" [] status = Paused -> "paused" [] OTHER -> "withdrawn"

AgentRecord == [manifestHash : Hashes \union {ZeroHash},
                ensNode : Nodes \union {NoNode},
                consent : Consent,
                listed : BOOLEAN]

\* a storage slot never written: consent is the zero of the enum, Active
NoRecord == [manifestHash |-> ZeroHash, ensNode |-> NoNode,
             consent |-> Active, listed |-> FALSE]

Metadata == [window : Windows \union {""}, door : Doors \union {NoDoor},
             manifestHash : Hashes \union {ZeroHash},
             label : Labels \union {NoLabel}, note : Notes \union {NoNote}]

NoMetadata == [window |-> "", door |-> NoDoor, manifestHash |-> ZeroHash,
               label |-> NoLabel, note |-> NoNote]

\* a spine event: its name, the agent, an account (the one it names, else the sender)
\* and the value it carries
Spine(ev, a, who, what) == [ev |-> ev, id |-> a, who |-> who, what |-> what]

Events == [ev : {"Registered", "AgentLaunched", "ConsentChanged", "Delisted", "Relisted",
                 "SubnameAssigned", "Hired", "Blessed"},
           id : TokenIds,
           who : Address,
           what : Consent \union Amounts \union Nodes \union {NoNode}]

RegistryTypeOK ==
    /\ pad \in Address
    /\ subnameIssuer \in Issuers \union {NoIssuer}
    /\ totalAgents \in 0 .. MaxAgents
    /\ records \in [TokenIds -> AgentRecord]
    /\ metadata \in [TokenIds -> Metadata]
    /\ agentURIs \in [TokenIds -> Uris \union {NoUri}]
    /\ hireRecorders \subseteq Address
    /\ blessers \subseteq Address

TypeOK ==
    /\ TokenTypeOK
    /\ ENSTypeOK
    /\ RegistryTypeOK
    /\ emitted \in Seq(Events)

Init ==
    /\ TokenInit
    /\ ENSInit
    /\ pad \in Address
    /\ subnameIssuer = NoIssuer
    /\ totalAgents = 0
    /\ records = [a \in TokenIds |-> NoRecord]
    /\ metadata = [a \in TokenIds |-> NoMetadata]
    /\ agentURIs = [a \in TokenIds |-> NoUri]
    /\ hireRecorders = {}
    /\ blessers = {}
    /\ emitted = <<>>
----------------------------------------------------------------------------
\* agentId = ++totalAgents
NextId == totalAgents + 1
MayCreate == totalAgents < MaxAgents

OpenRecord(hash, node) ==
    [manifestHash |-> hash, ensNode |-> node, consent |-> Active, listed |-> TRUE]

\* agentURIs and the six canonical keys; serviceEndpoint is written once and left out
OpenMetadata(a, hash, label, door) ==
    [metadata EXCEPT ![a].window = "active", ![a].door = door,
                     ![a].manifestHash = hash, ![a].label = label]

\* expiry = duration == 0 ? type(uint64).max : block.timestamp + duration, which
\* reverts when it overflows
Forever(duration) == duration = 0

LaunchAgent(caller, operator, uri, hash, label, door, duration) ==
    LET a == NextId IN
    /\ MayCreate
    /\ caller = pad \/ caller = operator
    /\ operator # Zero
    /\ uri # NoUri
    /\ label # NoLabel
    /\ totalAgents' = a
    /\ Mint(operator, a)
    /\ agentURIs' = [agentURIs EXCEPT ![a] = uri]
    /\ metadata' = OpenMetadata(a, hash, label, door)
    /\ IF subnameIssuer # NoIssuer
       THEN LET node == Namehash[<<subnameIssuer, label>>] IN
            /\ Issue(subnameIssuer, a, label, door, Forever(duration))
            /\ records' = [records EXCEPT ![a] = OpenRecord(hash, node)]
            /\ emitted' = <<Spine("Registered", a, operator, NoNode),
                            Spine("AgentLaunched", a, operator, NoNode),
                            Spine("SubnameAssigned", a, caller, node)>>
       ELSE /\ UNCHANGED ensVars
            /\ records' = [records EXCEPT ![a] = OpenRecord(hash, NoNode)]
            /\ emitted' = <<Spine("Registered", a, operator, NoNode),
                            Spine("AgentLaunched", a, operator, NoNode)>>
    /\ UNCHANGED adminVars

RegisterAgent(caller, uri) ==
    LET a == NextId IN
    /\ MayCreate
    /\ totalAgents' = a
    /\ Mint(caller, a)
    /\ agentURIs' = [agentURIs EXCEPT ![a] = uri]
    /\ records' = [records EXCEPT ![a] = [NoRecord EXCEPT !.consent = Paused]]
    /\ emitted' = <<Spine("Registered", a, caller, NoNode)>>
    /\ UNCHANGED <<ensVars, metadata, adminVars>>
----------------------------------------------------------------------------
\* _syncIssuer: the resolver is rewritten only while an issuer is wired and the
\* agent has a node; that the name is still the agent's is not looked up
SyncIssuer(a, status, door) ==
    IF subnameIssuer # NoIssuer /\ records[a].ensNode # NoNode
    THEN SyncConsent(subnameIssuer, records[a].ensNode, WindowText(status), door)
    ELSE UNCHANGED ensVars

\* mutant: the pad may flip the window too
MayFlipOrPad(caller, a) == IsApprovedOrOwner(caller, a) \/ (Minted(a) /\ caller = pad)
MayFlip(caller, a) == IsApprovedOrOwner(caller, a)

\* mutant: withdrawing leaves the agent on the marketplace
StaysListed(status) == TRUE
ListedAfter(status) == status # Withdrawn

SetConsent(caller, a, status, door) ==
    /\ MayFlip(caller, a)
    /\ records[a].listed
    /\ records[a].consent # Withdrawn
    /\ metadata' = [metadata EXCEPT ![a].window = WindowText(status), ![a].door = door]
    /\ SyncIssuer(a, status, door)
    /\ records' = [records EXCEPT ![a].consent = status,
                                  ![a].listed = ListedAfter(status)]
    /\ emitted' = IF ~ListedAfter(status)
                  THEN <<Spine("ConsentChanged", a, caller, status), Spine("Delisted", a, caller, NoNode)>>
                  ELSE <<Spine("ConsentChanged", a, caller, status)>>
    /\ UNCHANGED <<tokenVars, totalAgents, agentURIs, adminVars>>

Delist(caller, a) ==
    /\ Minted(a)
    /\ caller = pad \/ IsApprovedOrOwner(caller, a)
    /\ records[a].listed
    /\ records' = [records EXCEPT ![a].listed = FALSE]
    /\ emitted' = <<Spine("Delisted", a, caller, NoNode)>>
    /\ UNCHANGED <<tokenVars, ensVars, totalAgents, metadata, agentURIs, adminVars>>

\* mutant: a withdrawn window is reset in the record only
MetadataUntouched(a) == metadata
ResetWindow(a) == [metadata EXCEPT ![a].window = "paused"]

(***************************************************************************)
(* relist checks nothing but the flag: an id nobody has minted yet, and one *)
(* that was only register()ed, can be put on the marketplace.               *)
(***************************************************************************)
Relist(caller, a) ==
    /\ caller = pad
    /\ ~records[a].listed
    /\ IF records[a].consent = Withdrawn
       THEN /\ records' = [records EXCEPT ![a].listed = TRUE, ![a].consent = Paused]
            /\ metadata' = ResetWindow(a)
            /\ SyncIssuer(a, Paused, metadata[a].door)
            /\ emitted' = <<Spine("Relisted", a, caller, NoNode), Spine("ConsentChanged", a, caller, Paused)>>
       ELSE /\ records' = [records EXCEPT ![a].listed = TRUE]
            /\ emitted' = <<Spine("Relisted", a, caller, NoNode)>>
            /\ UNCHANGED <<metadata, ensVars>>
    /\ UNCHANGED <<tokenVars, totalAgents, agentURIs, adminVars>>
----------------------------------------------------------------------------
SetSubnameIssuer(caller, issuer) ==
    /\ caller = pad
    /\ subnameIssuer' = issuer
    /\ emitted' = <<>>
    /\ UNCHANGED <<tokenVars, ensVars, pad, hireRecorders, blessers, agentVars>>

\* mutant: a node already anchored can be replaced
AnchorAgain(a) == Minted(a)
\* mutant: an id nobody minted can be anchored
AnchorEarly(a) == records[a].ensNode = NoNode
MayAnchor(a) == Minted(a) /\ records[a].ensNode = NoNode

AnchorSubname(caller, a, node) ==
    /\ caller = pad
    /\ MayAnchor(a)
    /\ records' = [records EXCEPT ![a].ensNode = node]
    /\ emitted' = <<Spine("SubnameAssigned", a, caller, node)>>
    /\ UNCHANGED <<tokenVars, ensVars, totalAgents, metadata, agentURIs, adminVars>>
----------------------------------------------------------------------------
\* setHireRecorder and setBlesser
Allow(list, account, allowed) ==
    IF allowed THEN list \union {account} ELSE list \ {account}

SetHireRecorder(caller, recorder, allowed) ==
    /\ caller = pad
    /\ hireRecorders' = Allow(hireRecorders, recorder, allowed)
    /\ emitted' = <<>>
    /\ UNCHANGED <<tokenVars, ensVars, pad, subnameIssuer, blessers, agentVars>>

SetBlesser(caller, blesser, allowed) ==
    /\ caller = pad
    /\ blessers' = Allow(blessers, blesser, allowed)
    /\ emitted' = <<>>
    /\ UNCHANGED <<tokenVars, ensVars, pad, subnameIssuer, hireRecorders, agentVars>>

RecordHire(caller, a, amount) ==
    /\ caller \in hireRecorders
    /\ Minted(a)
    /\ emitted' = <<Spine("Hired", a, caller, amount)>>
    /\ UNCHANGED <<tokenVars, ensVars, registryVars>>

Bless(caller, a) ==
    /\ caller \in blessers
    /\ Minted(a)
    /\ emitted' = <<Spine("Blessed", a, owners[a], NoNode)>>
    /\ UNCHANGED <<tokenVars, ensVars, registryVars>>
----------------------------------------------------------------------------
SetAgentURI(caller, a, uri) ==
    /\ IsApprovedOrOwner(caller, a)
    /\ agentURIs' = [agentURIs EXCEPT ![a] = uri]
    /\ emitted' = <<>>
    /\ UNCHANGED <<tokenVars, ensVars, totalAgents, records, metadata, adminVars>>

UpdateManifestHash(caller, a, hash) ==
    /\ IsApprovedOrOwner(caller, a)
    /\ records' = [records EXCEPT ![a].manifestHash = hash]
    /\ metadata' = [metadata EXCEPT ![a].manifestHash = hash]
    /\ emitted' = <<>>
    /\ UNCHANGED <<tokenVars, ensVars, totalAgents, agentURIs, adminVars>>

\* the keys setMetadata refuses: lifecycle-managed ones, and the ERC-8004 agentWallet
CanonicalKeys == {"window", "door", "manifestHash", "label"}

SetMetadata(caller, a, key, value) ==
    /\ IsApprovedOrOwner(caller, a)
    /\ key \notin CanonicalKeys
    /\ metadata' = [metadata EXCEPT ![a][key] = value]
    /\ emitted' = <<>>
    /\ UNCHANGED <<tokenVars, ensVars, totalAgents, records, agentURIs, adminVars>>

TransferPad(caller, newPad) ==
    /\ caller = pad
    /\ newPad # Zero
    /\ pad' = newPad
    /\ emitted' = <<>>
    /\ UNCHANGED <<tokenVars, ensVars, subnameIssuer, hireRecorders, blessers, agentVars>>

\* time: the expiry of a registered name passes; the pad's registry is not told
Expiry ==
    /\ \E node \in Nodes : Lapse(node)
    /\ emitted' = <<>>
    /\ UNCHANGED <<tokenVars, registryVars>>

\* the inherited ERC-721 functions
TokenTransaction ==
    /\ TokenNext \/ ApprovalNext
    /\ emitted' = <<>>
    /\ UNCHANGED <<ensVars, registryVars>>
----------------------------------------------------------------------------
Creation ==
    \E caller \in Address :
        \/ \E operator \in Owners, uri \in Uris, hash \in Hashes, label \in Labels,
              door \in Doors, duration \in Durations :
               LaunchAgent(caller, operator, uri, hash, label, door, duration)
        \/ \E uri \in Uris : caller \in Owners /\ RegisterAgent(caller, uri)

ConsentLaw ==
    \E caller \in Address, a \in TokenIds :
        \/ \E status \in Consent, door \in Doors : SetConsent(caller, a, status, door)
        \/ Delist(caller, a)
        \/ Relist(caller, a)

Plumbing ==
    \E caller \in Address :
        \/ \E issuer \in IssuerChoices : SetSubnameIssuer(caller, issuer)
        \/ \E a \in TokenIds, node \in Anchors : AnchorSubname(caller, a, node)
        \/ \E newPad \in Pads : TransferPad(caller, newPad)

\* a hire or a blessing from an account the pad never allows is refused
TrustAndHire ==
    \/ \E caller \in Address :
        \/ \E r \in Rails, allowed \in BOOLEAN : SetHireRecorder(caller, r, allowed)
        \/ \E b \in Lanes, allowed \in BOOLEAN : SetBlesser(caller, b, allowed)
    \/ \E r \in Rails, a \in TokenIds, amount \in Amounts : RecordHire(r, a, amount)
    \/ \E b \in Lanes, a \in TokenIds : Bless(b, a)

Bindings ==
    \E caller \in Address, a \in TokenIds :
        \/ \E uri \in Uris : SetAgentURI(caller, a, uri)
        \/ \E hash \in Hashes : UpdateManifestHash(caller, a, hash)
        \/ \E key \in CanonicalKeys \union {"note"}, value \in Notes :
               SetMetadata(caller, a, key, value)

Next == Creation \/ ConsentLaw \/ Plumbing \/ TrustAndHire \/ Bindings \/ TokenTransaction \/ Expiry

Spec == Init /\ [][Next]_vars
----------------------------------------------------------------------------
(***************************************************************************)
(* The one-word revoke: whatever sequence of flips, delists, relists and    *)
(* handoffs happened, an agent whose window says withdrawn is off the       *)
(* marketplace.                                                             *)
(***************************************************************************)
WithdrawnIsUnlisted ==
    \A a \in TokenIds : records[a].consent = Withdrawn => ~records[a].listed

(***************************************************************************)
(* What getMetadata answers for consent.window and manifestHash is what the *)
(* record holds; only an identity that never went through a launch or a     *)
(* flip has no window text, and its window is paused.                       *)
(***************************************************************************)
MetadataMirrorsRecord ==
    \A a \in TokenIds : Minted(a) =>
        /\ metadata[a].manifestHash = records[a].manifestHash
        /\ \/ metadata[a].window = WindowText(records[a].consent)
           \/ metadata[a].window = "" /\ records[a].consent = Paused

(***************************************************************************)
(* Nothing reaches an agent before it exists: until its id is minted it has *)
(* no window text, no node and no withdrawn consent.  The pad can relist    *)
(* such an id, and the launch overwrites that.                              *)
(***************************************************************************)
BlankUntilMinted ==
    \A a \in TokenIds : ~Minted(a) =>
        /\ metadata[a] = NoMetadata
        /\ [records[a] EXCEPT !.listed = FALSE] = NoRecord

\* the labels an issuer registers node n for
LabelsOf(n) == {l \in Labels : \E i \in Issuers : Namehash[<<i, l>>] = n}

(***************************************************************************)
(* A name an issuer registered stays the name of the agent launched with    *)
(* it: no step takes it over, hands it to another agent, relabels the agent *)
(* or anchors it elsewhere.  Only the expiry the launch asked for frees the *)
(* name, and a permanent one is never freed.                                *)
(***************************************************************************)
IssuedNameStays ==
    [][\A n \in Nodes : names[n] # 0 =>
         /\ names'[n] = names[n] \/ (names'[n] = 0 /\ n \notin permanent)
         /\ records'[names[n]].ensNode = n
         /\ metadata'[names[n]].label \in LabelsOf(n)]_vars

\* no agent but the one n is registered for has n as its node
Unshared(n) == \A b \in TokenIds : records[b].ensNode = n => b = names[n]

\* every issuer the pad wires writes its texts on r, and none is ever unwired
OnlyResolver(r) ==
    NoIssuer \notin IssuerChoices /\ \A i \in IssuerChoices : ResolverOf[i] = r

\* what r says of n is what the registry says of the agent n is registered for
Resolves(r, n) ==
    resolver[r][n] = Text(WindowText(records[names[n]].consent), metadata[names[n]].door)

(***************************************************************************)
(* Dedicated mode on one resolver: what a lookup of a registered name       *)
(* resolves is the agent's window, contact and pit in the registry,         *)
(* whichever issuer is wired now, provided no other agent's record still    *)
(* holds that node (one anchored there by the pad, or one whose own lease   *)
(* of the name ran out).                                                    *)
(***************************************************************************)
ResolverMirrorsRegistry ==
    \A r \in Resolvers : OnlyResolver(r) =>
        \A n \in Nodes : names[n] # 0 /\ Unshared(n) => Resolves(r, n)

(***************************************************************************)
(* What ENSv2SubnameIssuer.sol says of the consent flip: the window any app *)
(* resolves in one lookup always mirrors the registry.  Stated of every     *)
(* registered name, with the pad anchoring nothing by hand.                 *)
(***************************************************************************)
LookupMirrorsRegistry ==
    \A r \in Resolvers : OnlyResolver(r) =>
        \A n \in Nodes : names[n] # 0 =>
            resolver[r][n].window = WindowText(records[names[n]].consent)

\* the events of the transaction just executed that announce the window of a
Announcements(a) ==
    {i \in DOMAIN emitted : emitted[i].ev = "ConsentChanged" /\ emitted[i].id = a}

(***************************************************************************)
(* The consent law: a step that changes the window of an existing agent     *)
(* announces exactly one ConsentChanged for it, with the new status, signed *)
(* by its operator or a deputy; the pad signs only the reset of a withdrawn *)
(* window to paused.                                                        *)
(***************************************************************************)
WindowChangesAreSigned ==
    [][\A a \in TokenIds :
         Minted(a) /\ records'[a].consent # records[a].consent =>
           \E i \in Announcements(a)' :
               /\ Announcements(a)' = {i}
               /\ emitted'[i].what = records'[a].consent
               /\ \/ IsApprovedOrOwner(emitted'[i].who, a)
                  \/ /\ emitted'[i].who = pad
                     /\ records[a].consent = Withdrawn
                     /\ emitted'[i].what = Paused]_vars
=============================================================================
