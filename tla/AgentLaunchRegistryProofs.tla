--------------------- MODULE AgentLaunchRegistryProofs ---------------------
(***************************************************************************)
(* Proofs about the launch registry, for any accounts, issuers, labels,     *)
(* doors and number of identities.                                          *)
(***************************************************************************)
EXTENDS AgentLaunchRegistry, TLAPS

(***************************************************************************)
(* The window texts are those of the canon.                                 *)
(***************************************************************************)
LEMMA WindowTexts ==
    ASSUME NEW status \in Consent
    PROVE  WindowText(status) \in Windows
  BY DEF Consent, Active, Paused, Withdrawn, WindowText, Windows

LEMMA StatusVocabulary ==
    /\ Active # Paused /\ Active # Withdrawn /\ Paused # Withdrawn
    /\ WindowText(Active) = "active"
    /\ WindowText(Paused) = "paused"
    /\ WindowText(Withdrawn) = "withdrawn"
  BY DEF Active, Paused, Withdrawn, WindowText

(***************************************************************************)
(* The default values have the types of the storage that holds them.        *)
(***************************************************************************)
LEMMA DefaultsTyped ==
    /\ NoRecord \in AgentRecord
    /\ NoMetadata \in Metadata
    /\ NoText \in Texts
  BY DEF NoRecord, NoMetadata, NoText, AgentRecord, Metadata, Texts, Consent, Active

(***************************************************************************)
(* A spine event about an agent, an account and a value is an Event.        *)
(***************************************************************************)
LEMMA SpineTyped ==
    ASSUME NEW ev \in {"Registered", "AgentLaunched", "ConsentChanged", "Delisted", "Relisted",
                       "SubnameAssigned", "Hired", "Blessed"},
           NEW a \in TokenIds, NEW who \in Address,
           NEW what \in Consent \union Amounts \union Nodes \union {NoNode}
    PROVE  Spine(ev, a, who, what) \in Events
  BY DEF Spine, Events

(***************************************************************************)
(* A transaction emits up to three of them.                                 *)
(***************************************************************************)
LEMMA EmissionTyped ==
    ASSUME NEW e1 \in Events, NEW e2 \in Events, NEW e3 \in Events
    PROVE  /\ <<e1>> \in Seq(Events)
           /\ <<e1, e2>> \in Seq(Events)
           /\ <<e1, e2, e3>> \in Seq(Events)
  OBVIOUS

(***************************************************************************)
(* The ERC-721 core keeps its types through every mint and transfer.        *)
(***************************************************************************)
LEMMA MintTyped ==
    ASSUME TokenTypeOK, NEW to \in Address, NEW t \in TokenIds, Mint(to, t)
    PROVE  TokenTypeOK'
  BY DEF TokenTypeOK, Mint

LEMMA TokenNextTyped ==
    ASSUME TokenTypeOK, TokenNext \/ ApprovalNext
    PROVE  TokenTypeOK'
<1>1. ASSUME NEW caller \in Address, NEW t \in TokenIds, NEW to \in Deputies \union {Zero},
             Approve(caller, to, t)
      PROVE  TokenTypeOK'
  BY <1>1, AddressAssumption DEF TokenTypeOK, Approve
<1>2. ASSUME NEW caller \in Address, NEW t \in TokenIds, NEW to \in Owners,
             TransferFrom(caller, to, t)
      PROVE  TokenTypeOK'
  <2>1. to \in Address /\ owners[t] \in Address
    BY <1>2, AddressAssumption DEF TokenTypeOK, TransferFrom, IsApprovedOrOwner, Minted
  <2>2. Moved(owners[t], to) \in [Address -> Int]
    BY <2>1 DEF TokenTypeOK, Moved
  <2> QED
    BY <1>2, <2>1, <2>2 DEF TokenTypeOK, TransferFrom, ClearedApproval
<1>3. ASSUME NEW caller \in Owners, NEW operator \in Deputies, NEW approved \in BOOLEAN,
             SetApprovalForAll(caller, operator, approved)
      PROVE  TokenTypeOK'
  BY <1>3, AddressAssumption DEF TokenTypeOK, SetApprovalForAll
<1> QED
  BY <1>1, <1>2, <1>3 DEF TokenNext, ApprovalNext

(***************************************************************************)
(* The issuer keeps the types of the names and of the resolver.             *)
(***************************************************************************)
LEMMA SetTextTyped ==
    ASSUME ENSTypeOK, NEW r \in Resolvers, NEW node \in Nodes, NEW window \in Windows,
           NEW door \in Doors \union {NoDoor}, SetText(r, node, window, door)
    PROVE  resolver' \in [Resolvers -> [Nodes -> Texts]]
<1>1. Text(window, door) \in Texts
  BY DEF Text, Texts
<1>2. resolver[r] \in [Nodes -> Texts]
  BY DEF ENSTypeOK
<1>3. [resolver[r] EXCEPT ![node] = Text(window, door)] \in [Nodes -> Texts]
  BY <1>1, <1>2
<1>4. resolver' = [resolver EXCEPT ![r] = [resolver[r] EXCEPT ![node] = Text(window, door)]]
  BY DEF SetText
<1> QED
  BY <1>3, <1>4 DEF ENSTypeOK

\* the node and the resolver of an issuer
LEMMA IssuerDeployed ==
    ASSUME NEW issuer \in Issuers, NEW label \in Labels
    PROVE  Namehash[<<issuer, label>>] \in Nodes /\ ResolverOf[issuer] \in Resolvers
  BY NodeAssumption, IssuerAssumption

LEMMA IssueTyped ==
    ASSUME ENSTypeOK, NEW issuer \in Issuers, NEW a \in Nat, NEW label \in Labels,
           NEW door \in Doors, NEW forever, Issue(issuer, a, label, door, forever)
    PROVE  ENSTypeOK'
<1> DEFINE node == Namehash[<<issuer, label>>]
<1>1. node \in Nodes /\ ResolverOf[issuer] \in Resolvers
  BY IssuerDeployed
<1>2. Register(node, a, forever) /\ SetText(ResolverOf[issuer], node, "active", door)
  BY DEF Issue
<1> HIDE DEF node
<1>3. names' \in [Nodes -> Nat] /\ permanent' \subseteq Nodes
  BY <1>1, <1>2 DEF ENSTypeOK, Register
<1>4. resolver' \in [Resolvers -> [Nodes -> Texts]]
  BY <1>1, <1>2, SetTextTyped DEF Windows
<1> QED
  BY <1>3, <1>4 DEF ENSTypeOK

LEMMA SyncIssuerTyped ==
    ASSUME TypeOK, NEW a \in TokenIds, NEW status \in Consent, NEW door \in Doors \union {NoDoor},
           SyncIssuer(a, status, door)
    PROVE  ENSTypeOK'
<1>1. CASE subnameIssuer # NoIssuer /\ records[a].ensNode # NoNode
  <2>1. records[a].ensNode \in Nodes
    BY <1>1 DEF TypeOK, RegistryTypeOK, AgentRecord
  <2>2. ResolverOf[subnameIssuer] \in Resolvers
    BY <1>1, IssuerAssumption DEF TypeOK, RegistryTypeOK
  <2>3. /\ SetText(ResolverOf[subnameIssuer], records[a].ensNode, WindowText(status), door)
        /\ UNCHANGED <<names, permanent>>
    BY <1>1 DEF SyncIssuer, SyncConsent
  <2>4. resolver' \in [Resolvers -> [Nodes -> Texts]]
    BY <2>1, <2>2, <2>3, SetTextTyped, WindowTexts DEF TypeOK
  <2> QED
    BY <2>3, <2>4 DEF TypeOK, ENSTypeOK
<1>2. CASE ~(subnameIssuer # NoIssuer /\ records[a].ensNode # NoNode)
  BY <1>2 DEF TypeOK, ENSTypeOK, SyncIssuer, ensVars
<1> QED
  BY <1>1, <1>2

LEMMA ExpiryTyped ==
    ASSUME TypeOK, Expiry
    PROVE  TypeOK'
<1>1. ENSTypeOK'
  BY DEF Expiry, Lapse, TypeOK, ENSTypeOK
<1> QED
  BY <1>1 DEF Expiry, TypeOK, TokenTypeOK, RegistryTypeOK, tokenVars, registryVars,
              adminVars, agentVars

LEMMA InitTyped == Init => TypeOK
<1> SUFFICES ASSUME Init PROVE TypeOK
  OBVIOUS
<1>1. TokenTypeOK
  BY DEF Init, TokenInit, TokenTypeOK
<1>2. ENSTypeOK
  BY DefaultsTyped DEF Init, ENSInit, ENSTypeOK
<1>3. RegistryTypeOK
  <2>1. totalAgents \in 0 .. MaxAgents
    BY MaxAgentsAssumption DEF Init
  <2>2. records \in [TokenIds -> AgentRecord] /\ metadata \in [TokenIds -> Metadata]
    BY DefaultsTyped DEF Init
  <2>3. subnameIssuer \in Issuers \union {NoIssuer} /\ hireRecorders \subseteq Address /\ blessers \subseteq Address
    BY DEF Init
  <2> QED
    BY <2>1, <2>2, <2>3 DEF Init, RegistryTypeOK
<1>4. emitted \in Seq(Events)
  BY DEF Init
<1> QED
  BY <1>1, <1>2, <1>3, <1>4 DEF TypeOK

(***************************************************************************)
(* Every transaction keeps the types: launches and registrations.           *)
(***************************************************************************)
LEMMA LaunchTyped ==
    ASSUME TypeOK, NEW caller \in Address, NEW operator \in Owners, NEW uri \in Uris,
           NEW hash \in Hashes, NEW label \in Labels, NEW door \in Doors,
           NEW duration \in Durations,
           LaunchAgent(caller, operator, uri, hash, label, door, duration)
    PROVE  TypeOK'
<1> DEFINE a == NextId
           node == Namehash[<<subnameIssuer, label>>]
<1>1. a \in TokenIds /\ a \in Nat /\ operator \in Address
  BY MaxAgentsAssumption, AddressAssumption
     DEF LaunchAgent, MayCreate, NextId, TypeOK, RegistryTypeOK, TokenIds
<1>2. TokenTypeOK'
  BY <1>1, MintTyped DEF LaunchAgent, TypeOK
<1>3. ENSTypeOK'
  <2>1. CASE subnameIssuer # NoIssuer
    <3>1. Issue(subnameIssuer, a, label, door, Forever(duration)) /\ subnameIssuer \in Issuers
      BY <2>1 DEF LaunchAgent, TypeOK, RegistryTypeOK
    <3> QED
      BY <1>1, <3>1, IssueTyped DEF TypeOK
  <2>2. CASE subnameIssuer = NoIssuer
    BY <2>2 DEF LaunchAgent, TypeOK, ENSTypeOK, ensVars
  <2> QED
    BY <2>1, <2>2
<1>4. RegistryTypeOK'
  <2>1. \A n \in Nodes \union {NoNode} : OpenRecord(hash, n) \in AgentRecord
    BY DEF OpenRecord, AgentRecord, Consent, Active
  <2>2. records' \in [TokenIds -> AgentRecord]
    <3>1. PICK n \in Nodes \union {NoNode} : records' = [records EXCEPT ![a] = OpenRecord(hash, n)]
      BY IssuerDeployed DEF LaunchAgent, TypeOK, RegistryTypeOK
    <3> QED
      BY <1>1, <2>1, <3>1 DEF TypeOK, RegistryTypeOK
  <2>3. metadata' \in [TokenIds -> Metadata]
    <3>1. metadata[a] \in Metadata
      BY <1>1 DEF TypeOK, RegistryTypeOK
    <3>2. [metadata[a] EXCEPT !.window = "active", !.door = door,
                              !.manifestHash = hash, !.label = label] \in Metadata
      BY <3>1 DEF Metadata, Windows
    <3>3. metadata' = [metadata EXCEPT ![a] = [metadata[a] EXCEPT
                           !.window = "active", !.door = door,
                           !.manifestHash = hash, !.label = label]]
      BY <1>1, <3>1 DEF LaunchAgent, OpenMetadata, TypeOK, RegistryTypeOK
    <3> QED
      BY <3>2, <3>3 DEF TypeOK, RegistryTypeOK
  <2>4. agentURIs' \in [TokenIds -> Uris \union {NoUri}]
    BY <1>1 DEF LaunchAgent, TypeOK, RegistryTypeOK
  <2>5. totalAgents' \in 0 .. MaxAgents
    BY <1>1 DEF LaunchAgent, TokenIds
  <2> QED
    BY <2>2, <2>3, <2>4, <2>5 DEF LaunchAgent, TypeOK, RegistryTypeOK, adminVars
<1>5. emitted' \in Seq(Events)
  <2>1. /\ Spine("Registered", a, operator, NoNode) \in Events
        /\ Spine("AgentLaunched", a, operator, NoNode) \in Events
        /\ subnameIssuer # NoIssuer => Spine("SubnameAssigned", a, caller, node) \in Events
    BY <1>1, SpineTyped, IssuerDeployed DEF TypeOK, RegistryTypeOK
  <2>2. \/ /\ subnameIssuer # NoIssuer
           /\ emitted' = <<Spine("Registered", a, operator, NoNode),
                           Spine("AgentLaunched", a, operator, NoNode),
                           Spine("SubnameAssigned", a, caller, node)>>
        \/ emitted' = <<Spine("Registered", a, operator, NoNode),
                        Spine("AgentLaunched", a, operator, NoNode)>>
    BY DEF LaunchAgent
  <2> QED
    BY <2>1, <2>2, EmissionTyped
<1> QED
  BY <1>2, <1>3, <1>4, <1>5 DEF TypeOK

LEMMA RegisterTyped ==
    ASSUME TypeOK, NEW caller \in Address, NEW uri \in Uris, RegisterAgent(caller, uri)
    PROVE  TypeOK'
<1> DEFINE a == NextId
<1>1. a \in TokenIds
  BY MaxAgentsAssumption DEF RegisterAgent, MayCreate, NextId, TypeOK, RegistryTypeOK, TokenIds
<1>2. TokenTypeOK'
  BY <1>1, MintTyped DEF RegisterAgent, TypeOK
<1>3. ENSTypeOK'
  BY DEF RegisterAgent, TypeOK, ENSTypeOK, ensVars
<1>4. RegistryTypeOK'
  <2>1. [NoRecord EXCEPT !.consent = Paused] \in AgentRecord
    BY DEF NoRecord, AgentRecord, Consent, Paused
  <2>2. records' \in [TokenIds -> AgentRecord]
    BY <1>1, <2>1 DEF RegisterAgent, TypeOK, RegistryTypeOK
  <2>3. agentURIs' \in [TokenIds -> Uris \union {NoUri}]
    BY <1>1 DEF RegisterAgent, TypeOK, RegistryTypeOK
  <2>4. totalAgents' \in 0 .. MaxAgents
    BY <1>1 DEF RegisterAgent, TokenIds
  <2> QED
    BY <2>2, <2>3, <2>4 DEF RegisterAgent, TypeOK, RegistryTypeOK, adminVars
<1>5. emitted' \in Seq(Events)
  BY <1>1, SpineTyped DEF RegisterAgent
<1> QED
  BY <1>2, <1>3, <1>4, <1>5 DEF TypeOK

(***************************************************************************)
(* The consent law keeps the types.                                         *)
(***************************************************************************)
LEMMA SetConsentTyped ==
    ASSUME TypeOK, NEW caller \in Address, NEW a \in TokenIds, NEW status \in Consent,
           NEW door \in Doors, SetConsent(caller, a, status, door)
    PROVE  TypeOK'
<1>1. TokenTypeOK'
  BY DEF SetConsent, TypeOK, TokenTypeOK, tokenVars
<1>2. ENSTypeOK'
  BY SyncIssuerTyped DEF SetConsent
<1>3. RegistryTypeOK'
  <2>1. records' \in [TokenIds -> AgentRecord]
    BY DEF SetConsent, ListedAfter, TypeOK, RegistryTypeOK, AgentRecord
  <2>2. metadata' \in [TokenIds -> Metadata]
    <3>1. metadata[a] \in Metadata /\ WindowText(status) \in Windows
      BY WindowTexts DEF TypeOK, RegistryTypeOK
    <3>2. [metadata[a] EXCEPT !.window = WindowText(status), !.door = door] \in Metadata
      BY <3>1 DEF Metadata
    <3>3. metadata' = [metadata EXCEPT ![a] =
                           [metadata[a] EXCEPT !.window = WindowText(status), !.door = door]]
      BY <3>1 DEF SetConsent, TypeOK, RegistryTypeOK
    <3> QED
      BY <3>2, <3>3 DEF TypeOK, RegistryTypeOK
  <2> QED
    BY <2>1, <2>2 DEF SetConsent, TypeOK, RegistryTypeOK, adminVars
<1>4. emitted' \in Seq(Events)
  BY SpineTyped DEF SetConsent
<1> QED
  BY <1>1, <1>2, <1>3, <1>4 DEF TypeOK

LEMMA DelistTyped ==
    ASSUME TypeOK, NEW caller \in Address, NEW a \in TokenIds, Delist(caller, a)
    PROVE  TypeOK'
<1>1. TokenTypeOK' /\ ENSTypeOK'
  BY DEF Delist, TypeOK, TokenTypeOK, ENSTypeOK, tokenVars, ensVars
<1>2. RegistryTypeOK'
  BY DEF Delist, TypeOK, RegistryTypeOK, AgentRecord, adminVars
<1>3. emitted' \in Seq(Events)
  BY SpineTyped DEF Delist
<1> QED
  BY <1>1, <1>2, <1>3 DEF TypeOK

LEMMA RelistTyped ==
    ASSUME TypeOK, NEW caller \in Address, NEW a \in TokenIds, Relist(caller, a)
    PROVE  TypeOK'
<1>1. TokenTypeOK'
  BY DEF Relist, TypeOK, TokenTypeOK, tokenVars
<1>2. Paused \in Consent /\ metadata[a].door \in Doors \union {NoDoor}
  BY DEF Paused, Consent, TypeOK, RegistryTypeOK, Metadata
<1>3. ENSTypeOK'
  <2>1. CASE records[a].consent = Withdrawn
    BY <1>2, <2>1, SyncIssuerTyped DEF Relist
  <2>2. CASE records[a].consent # Withdrawn
    BY <2>2 DEF Relist, TypeOK, ENSTypeOK, ensVars
  <2> QED
    BY <2>1, <2>2
<1>4. RegistryTypeOK'
  <2>1. records' \in [TokenIds -> AgentRecord]
    <3>1. records[a] \in AgentRecord
      BY DEF TypeOK, RegistryTypeOK
    <3>2. /\ [records[a] EXCEPT !.listed = TRUE, !.consent = Paused] \in AgentRecord
          /\ [records[a] EXCEPT !.listed = TRUE] \in AgentRecord
      BY <1>2, <3>1 DEF AgentRecord
    <3>3. \/ records' = [records EXCEPT ![a] = [records[a] EXCEPT !.listed = TRUE,
                                                              !.consent = Paused]]
          \/ records' = [records EXCEPT ![a] = [records[a] EXCEPT !.listed = TRUE]]
      BY <3>1 DEF Relist, TypeOK, RegistryTypeOK
    <3> QED
      BY <3>2, <3>3 DEF TypeOK, RegistryTypeOK
  <2>2. metadata' \in [TokenIds -> Metadata]
    <3>1. metadata[a] \in Metadata
      BY DEF TypeOK, RegistryTypeOK
    <3>2. [metadata[a] EXCEPT !.window = "paused"] \in Metadata
      BY <3>1 DEF Metadata, Windows
    <3>3. \/ metadata' = [metadata EXCEPT ![a] = [metadata[a] EXCEPT !.window = "paused"]]
          \/ metadata' = metadata
      BY <3>1 DEF Relist, ResetWindow, TypeOK, RegistryTypeOK
    <3> QED
      BY <3>2, <3>3 DEF TypeOK, RegistryTypeOK
  <2> QED
    BY <2>1, <2>2 DEF Relist, TypeOK, RegistryTypeOK, adminVars
<1>5. emitted' \in Seq(Events)
  <2>1. /\ Spine("Relisted", a, caller, NoNode) \in Events
        /\ Spine("ConsentChanged", a, caller, Paused) \in Events
    BY <1>2, SpineTyped
  <2>2. \/ emitted' = <<Spine("Relisted", a, caller, NoNode),
                        Spine("ConsentChanged", a, caller, Paused)>>
        \/ emitted' = <<Spine("Relisted", a, caller, NoNode)>>
    BY DEF Relist
  <2> QED
    BY <2>1, <2>2, EmissionTyped
<1> QED
  BY <1>1, <1>3, <1>4, <1>5 DEF TypeOK

(***************************************************************************)
(* The pad's plumbing keeps the types.                                      *)
(***************************************************************************)
LEMMA AnchorSubnameTyped ==
    ASSUME TypeOK, NEW caller \in Address, NEW a \in TokenIds,
           NEW node \in Anchors, AnchorSubname(caller, a, node)
    PROVE  TypeOK'
<1>1. TokenTypeOK' /\ ENSTypeOK'
  BY DEF AnchorSubname, TypeOK, TokenTypeOK, ENSTypeOK, tokenVars, ensVars
<1>2. RegistryTypeOK'
  BY PlumbingAssumption DEF AnchorSubname, TypeOK, RegistryTypeOK, AgentRecord, adminVars
<1>3. emitted' \in Seq(Events)
  <2>1. Spine("SubnameAssigned", a, caller, node) \in Events
    BY SpineTyped, PlumbingAssumption
  <2>2. emitted' = <<Spine("SubnameAssigned", a, caller, node)>>
    BY DEF AnchorSubname
  <2> QED
    BY <2>1, <2>2, EmissionTyped
<1> QED
  BY <1>1, <1>2, <1>3 DEF TypeOK

LEMMA PlumbingTyped ==
    ASSUME TypeOK, Plumbing
    PROVE  TypeOK'
<1>1. ASSUME NEW caller \in Address, NEW issuer \in IssuerChoices, SetSubnameIssuer(caller, issuer)
      PROVE  TypeOK'
  BY <1>1, PlumbingAssumption DEF SetSubnameIssuer, TypeOK, TokenTypeOK, ENSTypeOK, RegistryTypeOK,
                                tokenVars, ensVars, agentVars
<1>2. ASSUME NEW caller \in Address, NEW newPad \in Pads, TransferPad(caller, newPad)
      PROVE  TypeOK'
  BY <1>2, RolesAssumption DEF TransferPad, TypeOK, TokenTypeOK, ENSTypeOK, RegistryTypeOK,
                               tokenVars, ensVars, agentVars
<1> QED
  BY <1>1, <1>2, AnchorSubnameTyped DEF Plumbing

(***************************************************************************)
(* The hire and blessing rails keep the types.                              *)
(***************************************************************************)
LEMMA TrustAndHireTyped ==
    ASSUME TypeOK, TrustAndHire
    PROVE  TypeOK'
<1>1. ASSUME NEW caller \in Address, NEW r \in Rails, NEW allowed \in BOOLEAN,
             SetHireRecorder(caller, r, allowed)
      PROVE  TypeOK'
  BY <1>1, RolesAssumption DEF SetHireRecorder, Allow, TypeOK, TokenTypeOK, ENSTypeOK,
                               RegistryTypeOK, tokenVars, ensVars, agentVars
<1>2. ASSUME NEW caller \in Address, NEW b \in Lanes, NEW allowed \in BOOLEAN,
             SetBlesser(caller, b, allowed)
      PROVE  TypeOK'
  BY <1>2, RolesAssumption DEF SetBlesser, Allow, TypeOK, TokenTypeOK, ENSTypeOK,
                               RegistryTypeOK, tokenVars, ensVars, agentVars
<1>3. ASSUME NEW caller \in Address, NEW a \in TokenIds, NEW amount \in Amounts,
             RecordHire(caller, a, amount)
      PROVE  TypeOK'
  <2>1. <<Spine("Hired", a, caller, amount)>> \in Seq(Events)
    BY SpineTyped, EmissionTyped
  <2> QED
    BY <1>3, <2>1 DEF RecordHire, TypeOK, TokenTypeOK, ENSTypeOK, RegistryTypeOK,
                      tokenVars, ensVars, registryVars, adminVars, agentVars
<1>4. ASSUME NEW caller \in Address, NEW a \in TokenIds, Bless(caller, a)
      PROVE  TypeOK'
  <2>1. owners[a] \in Address
    BY <1>4 DEF Bless, Minted, TypeOK, TokenTypeOK
  <2>2. <<Spine("Blessed", a, owners[a], NoNode)>> \in Seq(Events)
    BY <2>1, SpineTyped, EmissionTyped
  <2> QED
    BY <1>4, <2>2 DEF Bless, TypeOK, TokenTypeOK, ENSTypeOK, RegistryTypeOK,
                      tokenVars, ensVars, registryVars, adminVars, agentVars
<1> QED
  BY <1>1, <1>2, <1>3, <1>4, RolesAssumption DEF TrustAndHire

(***************************************************************************)
(* The operator's bindings keep the types.                                  *)
(***************************************************************************)
LEMMA BindingsTyped ==
    ASSUME TypeOK, Bindings
    PROVE  TypeOK'
<1>1. ASSUME NEW caller \in Address, NEW a \in TokenIds, NEW uri \in Uris,
             SetAgentURI(caller, a, uri)
      PROVE  TypeOK'
  BY <1>1 DEF SetAgentURI, TypeOK, TokenTypeOK, ENSTypeOK, RegistryTypeOK,
              tokenVars, ensVars, adminVars
<1>2. ASSUME NEW caller \in Address, NEW a \in TokenIds, NEW hash \in Hashes,
             UpdateManifestHash(caller, a, hash)
      PROVE  TypeOK'
  <2>1. /\ records' \in [TokenIds -> AgentRecord]
        /\ metadata' \in [TokenIds -> Metadata]
    <3>1. records[a] \in AgentRecord /\ metadata[a] \in Metadata
      BY DEF TypeOK, RegistryTypeOK
    <3>2. /\ [records[a] EXCEPT !.manifestHash = hash] \in AgentRecord
          /\ [metadata[a] EXCEPT !.manifestHash = hash] \in Metadata
      BY <3>1 DEF AgentRecord, Metadata
    <3> QED
      BY <1>2, <3>2 DEF UpdateManifestHash, TypeOK, RegistryTypeOK
  <2> QED
    BY <1>2, <2>1 DEF UpdateManifestHash, TypeOK, TokenTypeOK, ENSTypeOK, RegistryTypeOK,
                      tokenVars, ensVars, adminVars
<1>3. ASSUME NEW caller \in Address, NEW a \in TokenIds,
             NEW key \in CanonicalKeys \union {"note"}, NEW value \in Notes,
             SetMetadata(caller, a, key, value)
      PROVE  TypeOK'
  <2>1. metadata[a] \in Metadata
    BY DEF TypeOK, RegistryTypeOK
  <2>2. metadata' \in [TokenIds -> Metadata]
    <3>1. [metadata[a] EXCEPT !.note = value] \in Metadata
      BY <2>1 DEF Metadata
    <3>2. key = "note"
      BY <1>3 DEF SetMetadata
    <3>3. metadata' = [metadata EXCEPT ![a] = [metadata[a] EXCEPT !.note = value]]
      BY <1>3, <3>2 DEF SetMetadata
    <3> QED
      BY <3>1, <3>3 DEF TypeOK, RegistryTypeOK
  <2> QED
    BY <1>3, <2>2 DEF SetMetadata, TypeOK, TokenTypeOK, ENSTypeOK, RegistryTypeOK,
                      tokenVars, ensVars, adminVars
<1> QED
  BY <1>1, <1>2, <1>3 DEF Bindings

LEMMA TokenTransactionTyped ==
    ASSUME TypeOK, TokenTransaction
    PROVE  TypeOK'
  BY TokenNextTyped DEF TokenTransaction, TypeOK, ENSTypeOK, RegistryTypeOK,
                        ensVars, registryVars, adminVars, agentVars

LEMMA StepTyped == TypeOK /\ [Next]_vars => TypeOK'
<1> SUFFICES ASSUME TypeOK, [Next]_vars PROVE TypeOK'
  OBVIOUS
<1>1. CASE Creation
  BY <1>1, LaunchTyped, RegisterTyped, AddressAssumption DEF Creation
<1>2. CASE ConsentLaw
  BY <1>2, SetConsentTyped, DelistTyped, RelistTyped DEF ConsentLaw
<1>3. CASE Plumbing \/ TrustAndHire \/ Bindings \/ TokenTransaction \/ Expiry
  BY <1>3, PlumbingTyped, TrustAndHireTyped, BindingsTyped, TokenTransactionTyped, ExpiryTyped
<1>4. CASE UNCHANGED vars
  BY <1>4 DEF vars, tokenVars, ensVars, registryVars, adminVars, agentVars,
              TypeOK, TokenTypeOK, ENSTypeOK, RegistryTypeOK
<1> QED
  BY <1>1, <1>2, <1>3, <1>4 DEF Next

(***************************************************************************)
(* Every state the registry reaches is well typed.                          *)
(***************************************************************************)
THEOREM TypeCorrect == Spec => []TypeOK
  BY InitTyped, StepTyped, PTL DEF Spec
=============================================================================
