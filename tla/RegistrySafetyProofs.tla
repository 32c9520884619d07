----------------------- MODULE RegistrySafetyProofs -----------------------
(***************************************************************************)
(* The safety invariants of the launch registry, from one inductive         *)
(* invariant: a condition on each agent's own storage, and the tie between  *)
(* the names the issuer registered and the agents launched with them.       *)
(***************************************************************************)
EXTENDS AgentLaunchRegistryProofs, FiniteSetTheorems

\* what the storage of one agent satisfies, minted or not
AgentOK(minted, record, data) ==
    /\ record.consent = Withdrawn => ~record.listed
    /\ minted => /\ data.manifestHash = record.manifestHash
                 /\ \/ data.window = WindowText(record.consent)
                    \/ data.window = "" /\ record.consent = Paused
    /\ ~minted => /\ data = NoMetadata
                  /\ record.manifestHash = ZeroHash
                  /\ record.ensNode = NoNode
                  /\ record.consent = Active

AgentsOK == \A a \in TokenIds : AgentOK(Minted(a), records[a], metadata[a])

\* a registered name belongs to a minted agent, anchored at its node under its label
NamesOK ==
    \A n \in Nodes : names[n] # 0 =>
        /\ names[n] \in TokenIds
        /\ Minted(names[n])
        /\ records[names[n]].ensNode = n
        /\ metadata[names[n]].label \in LabelsOf(n)

RegistryInv == TypeOK /\ AgentsOK /\ NamesOK

(***************************************************************************)
(* The invariant holds before the first transaction.                        *)
(***************************************************************************)
LEMMA InitInv == Init => RegistryInv
<1> SUFFICES ASSUME Init PROVE RegistryInv
  OBVIOUS
<1>1. AgentsOK
  BY DEF Init, TokenInit, AgentsOK, AgentOK, Minted, NoRecord, NoMetadata,
         Active, Withdrawn
<1>2. NamesOK
  BY DEF Init, ENSInit, NamesOK
<1> QED
  BY <1>1, <1>2, InitTyped DEF RegistryInv

(***************************************************************************)
(* A transaction that touches one existing or future agent, and neither its *)
(* node, nor its label, nor who has which name, keeps the invariant when    *)
(* the storage it leaves that agent is in order.                            *)
(***************************************************************************)
LEMMA OneAgent ==
    ASSUME RegistryInv, TypeOK', NEW a \in TokenIds,
           \A b \in TokenIds : Minted(b) <=> Minted(b)',
           \A b \in TokenIds \ {a} : records'[b] = records[b] /\ metadata'[b] = metadata[b],
           names' = names,
           AgentOK(Minted(a), records[a], metadata[a])
               => AgentOK(Minted(a), records'[a], metadata'[a]),
           records[a].ensNode # NoNode => records'[a].ensNode = records[a].ensNode,
           metadata'[a].label = metadata[a].label
    PROVE  RegistryInv'
<1>1. AgentsOK'
  <2> SUFFICES ASSUME NEW b \in TokenIds
               PROVE  AgentOK(Minted(b)', records'[b], metadata'[b])
    BY DEF AgentsOK
  <2>1. AgentOK(Minted(b), records[b], metadata[b])
    BY DEF RegistryInv, AgentsOK
  <2>2. Minted(b)' = Minted(b)
    BY DEF Minted
  <2> QED
    BY <2>1, <2>2
<1>2. NamesOK'
  <2> SUFFICES ASSUME NEW n \in Nodes, names[n] # 0
               PROVE  /\ names[n] \in TokenIds
                      /\ Minted(names[n])'
                      /\ records'[names[n]].ensNode = n
                      /\ metadata'[names[n]].label \in LabelsOf(n)
    BY DEF NamesOK, TokenIds, LabelsOf
  <2>1. /\ names[n] \in TokenIds
        /\ Minted(names[n])
        /\ records[names[n]].ensNode = n
        /\ metadata[names[n]].label \in LabelsOf(n)
    BY DEF RegistryInv, NamesOK
  <2>2. n # NoNode
    BY NodeAssumption
  <2> QED
    BY <2>1, <2>2
<1> QED
  BY <1>1, <1>2 DEF RegistryInv

(***************************************************************************)
(* A transaction that touches no agent keeps it, even if it hands agents    *)
(* over or a name expires.                                                  *)
(***************************************************************************)
LEMMA NoAgentTouched ==
    ASSUME RegistryInv, TypeOK', \A b \in TokenIds : Minted(b) <=> Minted(b)',
           UNCHANGED <<records, metadata>>,
           \A n \in Nodes : names'[n] = names[n] \/ names'[n] = 0
    PROVE  RegistryInv'
<1>1. AgentsOK'
  <2> SUFFICES ASSUME NEW b \in TokenIds
               PROVE  AgentOK(Minted(b)', records[b], metadata[b])
    BY DEF AgentsOK
  <2>1. Minted(b)' = Minted(b)
    BY DEF Minted
  <2> QED
    BY <2>1 DEF RegistryInv, AgentsOK
<1>2. NamesOK'
  BY DEF RegistryInv, NamesOK, TokenIds, LabelsOf
<1> QED
  BY <1>1, <1>2 DEF RegistryInv

(***************************************************************************)
(* Creating an agent: its id was free, so no name belongs to it yet, and    *)
(* what the launch or the registration writes is in order.                  *)
(***************************************************************************)
LEMMA NewAgentInv ==
    ASSUME RegistryInv, TypeOK', NEW a \in TokenIds, ~Minted(a), owners'[a] # Zero,
           \A b \in TokenIds \ {a} : owners'[b] = owners[b],
           \A b \in TokenIds \ {a} : records'[b] = records[b] /\ metadata'[b] = metadata[b],
           AgentOK(TRUE, records'[a], metadata'[a]),
           \/ names' = names
           \/ \E node \in Nodes : /\ names' = [names EXCEPT ![node] = a]
                                  /\ records'[a].ensNode = node
                                  /\ metadata'[a].label \in LabelsOf(node)
    PROVE  RegistryInv'
<1>1. AgentsOK'
  <2> SUFFICES ASSUME NEW b \in TokenIds
               PROVE  AgentOK(Minted(b)', records'[b], metadata'[b])
    BY DEF AgentsOK
  <2>1. CASE b = a
    BY <2>1 DEF Minted, AgentOK
  <2>2. CASE b # a
    <3>1. AgentOK(Minted(b), records[b], metadata[b]) /\ Minted(b)' = Minted(b)
      BY <2>2 DEF RegistryInv, AgentsOK, Minted
    <3> QED
      BY <2>2, <3>1
  <2> QED
    BY <2>1, <2>2
<1>2. NamesOK'
  <2> SUFFICES ASSUME NEW n \in Nodes, names'[n] # 0
               PROVE  /\ names'[n] \in TokenIds
                      /\ owners'[names'[n]] # Zero
                      /\ records'[names'[n]].ensNode = n
                      /\ metadata'[names'[n]].label \in LabelsOf(n)
    BY Zenon DEF NamesOK, Minted, TokenIds, LabelsOf
  <2>1. CASE names'[n] = names[n]
    <3>1. /\ names[n] \in TokenIds
          /\ Minted(names[n])
          /\ records[names[n]].ensNode = n
          /\ metadata[names[n]].label \in LabelsOf(n)
      BY <2>1 DEF RegistryInv, NamesOK
    <3>2. names[n] # a
      BY <3>1
    <3> QED
      BY <2>1, <3>1, <3>2 DEF Minted
  <2>2. CASE names'[n] # names[n]
    <3>1. names'[n] = a /\ records'[a].ensNode = n /\ metadata'[a].label \in LabelsOf(n)
      BY <2>2 DEF RegistryInv, TypeOK, ENSTypeOK
    <3> QED
      BY <3>1 DEF Minted
  <2> QED
    BY <2>1, <2>2
<1> QED
  BY <1>1, <1>2 DEF RegistryInv

LEMMA CreationInv ==
    ASSUME RegistryInv, TypeOK', Creation
    PROVE  RegistryInv'
<1> USE DEF NextId
<1>1. ASSUME NEW caller \in Address, NEW operator \in Owners, NEW uri \in Uris,
             NEW hash \in Hashes, NEW label \in Labels, NEW door \in Doors,
             NEW duration \in Durations,
             LaunchAgent(caller, operator, uri, hash, label, door, duration)
      PROVE  RegistryInv'
  <2> DEFINE a == totalAgents + 1
  <2>1. a \in TokenIds
    BY <1>1, MaxAgentsAssumption
       DEF LaunchAgent, MayCreate, RegistryInv, TypeOK, RegistryTypeOK, TokenIds
  <2> HIDE DEF a
  <2>2. Mint(operator, a)
    BY <1>1 DEF LaunchAgent, a
  <2>3. ~Minted(a) /\ owners'[a] # Zero /\ \A b \in TokenIds \ {a} : owners'[b] = owners[b]
    BY <2>1, <2>2 DEF Mint, RegistryInv, TypeOK, TokenTypeOK
  <2>4. metadata' = OpenMetadata(a, hash, label, door)
    BY <1>1 DEF LaunchAgent, a
  <2>5. \A b \in TokenIds \ {a} : metadata'[b] = metadata[b]
    BY <2>1, <2>4 DEF OpenMetadata, RegistryInv, TypeOK, RegistryTypeOK
  <2>6. /\ metadata'[a].window = "active"
        /\ metadata'[a].manifestHash = hash
        /\ metadata'[a].label = label
    BY <2>1, <2>4 DEF OpenMetadata, RegistryInv, TypeOK, RegistryTypeOK, Metadata
  <2>7. PICK node : records' = [records EXCEPT ![a] = OpenRecord(hash, node)]
    BY <1>1 DEF LaunchAgent, a
  <2>8. records'[a] = OpenRecord(hash, node) /\ \A b \in TokenIds \ {a} : records'[b] = records[b]
    BY <2>1, <2>7 DEF RegistryInv, TypeOK, RegistryTypeOK
  <2>9. AgentOK(TRUE, records'[a], metadata'[a])
    <3>1. records'[a].consent = Active /\ records'[a].manifestHash = hash
      BY <2>8 DEF OpenRecord
    <3> QED
      BY <2>6, <3>1, StatusVocabulary DEF AgentOK
  <2>10. CASE subnameIssuer # NoIssuer
    <3> DEFINE named == Namehash[<<subnameIssuer, label>>]
    <3>1. /\ names' = [names EXCEPT ![named] = a]
          /\ records' = [records EXCEPT ![a] = OpenRecord(hash, named)]
      BY <1>1, <2>10 DEF LaunchAgent, Issue, Register, a
    <3>2. named \in Nodes /\ label \in LabelsOf(named)
      BY <2>10, IssuerDeployed DEF LabelsOf, RegistryInv, TypeOK, RegistryTypeOK
    <3> HIDE DEF named
    <3>3. records'[a].ensNode = named
      BY <2>1, <3>1 DEF OpenRecord, RegistryInv, TypeOK, RegistryTypeOK
    <3> QED
      BY <2>1, <2>3, <2>5, <2>6, <2>8, <2>9, <3>1, <3>2, <3>3, NewAgentInv
  <2>11. CASE subnameIssuer = NoIssuer
    <3>1. names' = names
      BY <1>1, <2>11 DEF LaunchAgent, ensVars
    <3> QED
      BY <2>1, <2>3, <2>5, <2>8, <2>9, <3>1, NewAgentInv
  <2> QED
    BY <2>10, <2>11
<1>2. ASSUME NEW caller \in Address, NEW uri \in Uris, RegisterAgent(caller, uri)
      PROVE  RegistryInv'
  <2> DEFINE a == totalAgents + 1
  <2>1. a \in TokenIds
    BY <1>2, MaxAgentsAssumption
       DEF RegisterAgent, MayCreate, RegistryInv, TypeOK, RegistryTypeOK, TokenIds
  <2> HIDE DEF a
  <2>2. Mint(caller, a)
    BY <1>2 DEF RegisterAgent, a
  <2>3. ~Minted(a) /\ owners'[a] # Zero /\ \A b \in TokenIds \ {a} : owners'[b] = owners[b]
    BY <2>1, <2>2 DEF Mint, RegistryInv, TypeOK, TokenTypeOK
  <2>4. /\ metadata' = metadata /\ names' = names
        /\ records' = [records EXCEPT ![a] = [NoRecord EXCEPT !.consent = Paused]]
    BY <1>2 DEF RegisterAgent, ensVars, a
  <2>5. /\ records'[a] = [NoRecord EXCEPT !.consent = Paused]
        /\ \A b \in TokenIds \ {a} : records'[b] = records[b]
    BY <2>1, <2>4 DEF RegistryInv, TypeOK, RegistryTypeOK
  <2>6. metadata[a] = NoMetadata
    BY <2>1, <2>3 DEF RegistryInv, AgentsOK, AgentOK
  <2>7. AgentOK(TRUE, records'[a], metadata'[a])
    <3>1. records'[a].consent = Paused /\ records'[a].manifestHash = ZeroHash
      BY <2>5 DEF NoRecord
    <3>2. metadata'[a].window = "" /\ metadata'[a].manifestHash = ZeroHash
      <4>1. NoMetadata.window = "" /\ NoMetadata.manifestHash = ZeroHash
        BY DEF NoMetadata
      <4>2. metadata'[a] = NoMetadata
        BY <2>4, <2>6
      <4> QED
        BY <4>1, <4>2
    <3> QED
      BY <3>1, <3>2, StatusVocabulary DEF AgentOK
  <2> QED
    BY <2>1, <2>3, <2>4, <2>5, <2>7, NewAgentInv
<1> QED
  BY <1>1, <1>2 DEF Creation

(***************************************************************************)
(* A flip, a delisting and a relisting each leave the one agent they touch  *)
(* in order.  A relisting resets a withdrawn window, and only a minted      *)
(* agent has one.                                                           *)
(***************************************************************************)
LEMMA ConsentLawInv ==
    ASSUME RegistryInv, TypeOK', ConsentLaw
    PROVE  RegistryInv'
<1>1. ASSUME NEW caller \in Address, NEW a \in TokenIds, NEW status \in Consent,
             NEW door \in Doors, SetConsent(caller, a, status, door)
      PROVE  RegistryInv'
  <2>1. records[a] \in AgentRecord /\ metadata[a] \in Metadata
    BY DEF RegistryInv, TypeOK, RegistryTypeOK
  <2>2. /\ \A b \in TokenIds : Minted(b) <=> Minted(b)'
        /\ names' = names
    BY <1>1 DEF SetConsent, tokenVars, Minted, SyncIssuer, SyncConsent, ensVars
  <2>3. /\ \A b \in TokenIds \ {a} : records'[b] = records[b] /\ metadata'[b] = metadata[b]
        /\ records'[a].consent = status
        /\ records'[a].listed = ListedAfter(status)
        /\ records'[a].ensNode = records[a].ensNode
        /\ records'[a].manifestHash = records[a].manifestHash
        /\ metadata'[a].window = WindowText(status)
        /\ metadata'[a].manifestHash = metadata[a].manifestHash
        /\ metadata'[a].label = metadata[a].label
    BY <1>1, <2>1 DEF SetConsent, RegistryInv, TypeOK, RegistryTypeOK, AgentRecord, Metadata
  <2>4. Minted(a)
    BY <1>1 DEF SetConsent, MayFlip, IsApprovedOrOwner
  <2>5. AgentOK(Minted(a), records[a], metadata[a])
            => AgentOK(Minted(a), records'[a], metadata'[a])
    BY <2>3, <2>4 DEF AgentOK, ListedAfter
  <2> QED
    BY <2>2, <2>3, <2>5, OneAgent
<1>2. ASSUME NEW caller \in Address, NEW a \in TokenIds, Delist(caller, a)
      PROVE  RegistryInv'
  <2>1. records[a] \in AgentRecord
    BY DEF RegistryInv, TypeOK, RegistryTypeOK
  <2>2. /\ \A b \in TokenIds : Minted(b) <=> Minted(b)'
        /\ names' = names /\ metadata' = metadata
    BY <1>2 DEF Delist, tokenVars, Minted, ensVars
  <2>3. /\ \A b \in TokenIds \ {a} : records'[b] = records[b]
        /\ records'[a].consent = records[a].consent
        /\ records'[a].listed = FALSE
        /\ records'[a].ensNode = records[a].ensNode
        /\ records'[a].manifestHash = records[a].manifestHash
    BY <1>2, <2>1 DEF Delist, RegistryInv, TypeOK, RegistryTypeOK, AgentRecord
  <2>4. AgentOK(Minted(a), records[a], metadata[a])
            => AgentOK(Minted(a), records'[a], metadata'[a])
    BY <2>2, <2>3 DEF AgentOK
  <2> QED
    BY <2>2, <2>3, <2>4, OneAgent
<1>3. ASSUME NEW caller \in Address, NEW a \in TokenIds, Relist(caller, a)
      PROVE  RegistryInv'
  <2>1. records[a] \in AgentRecord /\ metadata[a] \in Metadata
    BY DEF RegistryInv, TypeOK, RegistryTypeOK
  <2>2. /\ \A b \in TokenIds : Minted(b) <=> Minted(b)'
        /\ names' = names
    BY <1>3 DEF Relist, tokenVars, Minted, SyncIssuer, SyncConsent, ensVars
  <2>3. CASE records[a].consent = Withdrawn
    <3>1. /\ records' = [records EXCEPT ![a].listed = TRUE, ![a].consent = Paused]
          /\ metadata' = ResetWindow(a)
      BY <1>3, <2>3 DEF Relist
    <3>2. /\ \A b \in TokenIds \ {a} : records'[b] = records[b] /\ metadata'[b] = metadata[b]
          /\ records'[a].consent = Paused
          /\ records'[a].ensNode = records[a].ensNode
          /\ records'[a].manifestHash = records[a].manifestHash
          /\ metadata'[a].window = "paused"
          /\ metadata'[a].manifestHash = metadata[a].manifestHash
          /\ metadata'[a].label = metadata[a].label
      BY <2>1, <3>1 DEF ResetWindow, RegistryInv, TypeOK, RegistryTypeOK, AgentRecord, Metadata
    <3>3. Minted(a)
      BY <2>3, StatusVocabulary DEF RegistryInv, AgentsOK, AgentOK
    <3>4. AgentOK(Minted(a), records[a], metadata[a])
              => AgentOK(Minted(a), records'[a], metadata'[a])
      BY <3>2, <3>3, StatusVocabulary DEF AgentOK
    <3> QED
      BY <2>2, <3>2, <3>4, OneAgent
  <2>4. CASE records[a].consent # Withdrawn
    <3>1. /\ records' = [records EXCEPT ![a].listed = TRUE]
          /\ metadata' = metadata
      BY <1>3, <2>4 DEF Relist
    <3>2. /\ \A b \in TokenIds \ {a} : records'[b] = records[b]
          /\ records'[a].consent = records[a].consent
          /\ records'[a].ensNode = records[a].ensNode
          /\ records'[a].manifestHash = records[a].manifestHash
      BY <2>1, <3>1 DEF RegistryInv, TypeOK, RegistryTypeOK, AgentRecord
    <3>3. AgentOK(Minted(a), records[a], metadata[a])
              => AgentOK(Minted(a), records'[a], metadata'[a])
      BY <2>4, <3>1, <3>2 DEF AgentOK
    <3> QED
      BY <2>2, <3>1, <3>2, <3>3, OneAgent
  <2> QED
    BY <2>3, <2>4
<1> QED
  BY <1>1, <1>2, <1>3 DEF ConsentLaw

(***************************************************************************)
(* The other transactions: an anchor only fills an empty node of a minted   *)
(* agent, a new manifest hash goes to the record and to the metadata.       *)
(***************************************************************************)
LEMMA PlumbingInv ==
    ASSUME RegistryInv, TypeOK', Plumbing \/ TrustAndHire \/ TokenTransaction \/ Expiry
    PROVE  RegistryInv'
<1>1. ASSUME NEW caller \in Address, NEW a \in TokenIds, NEW node \in Anchors,
             AnchorSubname(caller, a, node)
      PROVE  RegistryInv'
  <2>1. records[a] \in AgentRecord /\ metadata[a] \in Metadata
    BY DEF RegistryInv, TypeOK, RegistryTypeOK
  <2>2. /\ \A b \in TokenIds : Minted(b) <=> Minted(b)'
        /\ names' = names /\ metadata' = metadata
        /\ Minted(a) /\ records[a].ensNode = NoNode
    BY <1>1 DEF AnchorSubname, MayAnchor, tokenVars, Minted, ensVars
  <2>3. /\ \A b \in TokenIds \ {a} : records'[b] = records[b]
        /\ records'[a].consent = records[a].consent
        /\ records'[a].listed = records[a].listed
        /\ records'[a].manifestHash = records[a].manifestHash
    BY <1>1, <2>1 DEF AnchorSubname, RegistryInv, TypeOK, RegistryTypeOK, AgentRecord
  <2>4. AgentOK(Minted(a), records[a], metadata[a])
            => AgentOK(Minted(a), records'[a], metadata'[a])
    BY <2>2, <2>3 DEF AgentOK
  <2> QED
    BY <2>2, <2>3, <2>4, OneAgent
<1>2. CASE TrustAndHire \/ \E caller \in Address :
              \/ \E issuer \in IssuerChoices : SetSubnameIssuer(caller, issuer)
              \/ \E newPad \in Pads : TransferPad(caller, newPad)
  <2>1. UNCHANGED <<owners, records, metadata, names>>
    BY <1>2 DEF TrustAndHire, SetHireRecorder, SetBlesser, RecordHire, Bless, SetSubnameIssuer,
                TransferPad, tokenVars, ensVars, agentVars, registryVars
  <2> QED
    BY <2>1, NoAgentTouched DEF Minted
<1>3. CASE TokenTransaction
  <2>1. UNCHANGED <<records, metadata, names>>
    BY <1>3 DEF TokenTransaction, ensVars, registryVars, agentVars
  <2>2. \A b \in TokenIds : Minted(b) <=> Minted(b)'
    <3>1. ASSUME NEW caller \in Address, NEW t \in TokenIds, NEW to \in Owners,
                 TransferFrom(caller, to, t)
          PROVE  \A b \in TokenIds : owners[b] # Zero <=> owners'[b] # Zero
      BY <3>1 DEF TransferFrom, IsApprovedOrOwner, Minted, RegistryInv, TypeOK, TokenTypeOK
    <3>2. CASE owners' = owners
      BY <3>2 DEF Minted
    <3> QED
      BY <1>3, <3>1, <3>2
         DEF TokenTransaction, TokenNext, ApprovalNext, Approve, SetApprovalForAll, Minted
  <2> QED
    BY <2>1, <2>2, NoAgentTouched
<1>4. CASE Expiry
  <2>1. UNCHANGED <<owners, records, metadata>> /\ \A n \in Nodes : names'[n] = names[n] \/ names'[n] = 0
    BY <1>4 DEF Expiry, Lapse, tokenVars, registryVars, agentVars, RegistryInv, TypeOK, ENSTypeOK
  <2> QED
    BY <2>1, NoAgentTouched DEF Minted
<1> QED
  BY <1>1, <1>2, <1>3, <1>4 DEF Plumbing

LEMMA BindingsInv ==
    ASSUME RegistryInv, TypeOK', Bindings
    PROVE  RegistryInv'
<1>1. ASSUME NEW caller \in Address, NEW a \in TokenIds, NEW uri \in Uris,
             SetAgentURI(caller, a, uri)
      PROVE  RegistryInv'
  <2>1. UNCHANGED <<owners, records, metadata, names>>
    BY <1>1 DEF SetAgentURI, tokenVars, ensVars
  <2> QED
    BY <2>1, NoAgentTouched DEF Minted
<1>2. ASSUME NEW caller \in Address, NEW a \in TokenIds, NEW hash \in Hashes,
             UpdateManifestHash(caller, a, hash)
      PROVE  RegistryInv'
  <2>1. records[a] \in AgentRecord /\ metadata[a] \in Metadata
    BY DEF RegistryInv, TypeOK, RegistryTypeOK
  <2>2. /\ \A b \in TokenIds : Minted(b) <=> Minted(b)'
        /\ names' = names /\ Minted(a)
    BY <1>2 DEF UpdateManifestHash, IsApprovedOrOwner, tokenVars, Minted, ensVars
  <2>3. /\ \A b \in TokenIds \ {a} : records'[b] = records[b] /\ metadata'[b] = metadata[b]
        /\ records'[a].consent = records[a].consent
        /\ records'[a].listed = records[a].listed
        /\ records'[a].ensNode = records[a].ensNode
        /\ records'[a].manifestHash = hash
        /\ metadata'[a].manifestHash = hash
        /\ metadata'[a].window = metadata[a].window
        /\ metadata'[a].label = metadata[a].label
    BY <1>2, <2>1 DEF UpdateManifestHash, RegistryInv, TypeOK, RegistryTypeOK, AgentRecord, Metadata
  <2>4. AgentOK(Minted(a), records[a], metadata[a])
            => AgentOK(Minted(a), records'[a], metadata'[a])
    BY <2>2, <2>3 DEF AgentOK
  <2> QED
    BY <2>2, <2>3, <2>4, OneAgent
<1>3. ASSUME NEW caller \in Address, NEW a \in TokenIds,
             NEW key \in CanonicalKeys \union {"note"}, NEW value \in Notes,
             SetMetadata(caller, a, key, value)
      PROVE  RegistryInv'
  <2>1. metadata[a] \in Metadata /\ key = "note"
    BY <1>3 DEF SetMetadata, RegistryInv, TypeOK, RegistryTypeOK
  <2>2. /\ \A b \in TokenIds : Minted(b) <=> Minted(b)'
        /\ names' = names /\ Minted(a) /\ records' = records
    BY <1>3 DEF SetMetadata, IsApprovedOrOwner, tokenVars, Minted, ensVars
  <2>3. metadata' = [metadata EXCEPT ![a] = [metadata[a] EXCEPT !.note = value]]
    BY <1>3, <2>1 DEF SetMetadata
  <2>4. /\ \A b \in TokenIds \ {a} : metadata'[b] = metadata[b]
        /\ metadata'[a].manifestHash = metadata[a].manifestHash
        /\ metadata'[a].window = metadata[a].window
        /\ metadata'[a].label = metadata[a].label
    BY <2>1, <2>3 DEF RegistryInv, TypeOK, RegistryTypeOK, Metadata
  <2>5. AgentOK(Minted(a), records[a], metadata[a])
            => AgentOK(Minted(a), records'[a], metadata'[a])
    BY <2>2, <2>4 DEF AgentOK
  <2> QED
    BY <2>2, <2>4, <2>5, OneAgent
<1> QED
  BY <1>1, <1>2, <1>3 DEF Bindings

LEMMA StepInv == RegistryInv /\ TypeOK' /\ [Next]_vars => RegistryInv'
<1> SUFFICES ASSUME RegistryInv, TypeOK', [Next]_vars PROVE RegistryInv'
  OBVIOUS
<1>1. CASE UNCHANGED vars
  BY <1>1, NoAgentTouched DEF vars, tokenVars, ensVars, registryVars, agentVars, Minted
<1> QED
  BY <1>1, CreationInv, ConsentLawInv, PlumbingInv, BindingsInv DEF Next

THEOREM RegistryInvariant == Spec => [](TypeOK /\ RegistryInv)
<1>1. Init => TypeOK /\ RegistryInv
  BY InitInv DEF RegistryInv
<1>2. TypeOK /\ RegistryInv /\ [Next]_vars => (TypeOK /\ RegistryInv)'
  BY StepTyped, StepInv
<1> QED
  BY <1>1, <1>2, PTL DEF Spec

(***************************************************************************)
(* The one-word revoke: a withdrawn agent is never on the marketplace.      *)
(***************************************************************************)
THEOREM WithdrawnStaysUnlisted == Spec => []WithdrawnIsUnlisted
<1>1. RegistryInv => WithdrawnIsUnlisted
  BY DEF RegistryInv, AgentsOK, AgentOK, WithdrawnIsUnlisted
<1> QED
  BY <1>1, RegistryInvariant, PTL

(***************************************************************************)
(* getMetadata never disagrees with the record.                             *)
(***************************************************************************)
THEOREM MetadataFollowsRecord == Spec => []MetadataMirrorsRecord
<1>1. RegistryInv => MetadataMirrorsRecord
  BY DEF RegistryInv, AgentsOK, AgentOK, MetadataMirrorsRecord
<1> QED
  BY <1>1, RegistryInvariant, PTL

(***************************************************************************)
(* Nothing reaches an agent before it is minted.                            *)
(***************************************************************************)
THEOREM UnmintedIsBlank == Spec => []BlankUntilMinted
<1>1. RegistryInv => BlankUntilMinted
  <2> SUFFICES ASSUME RegistryInv, NEW a \in TokenIds, ~Minted(a)
               PROVE  /\ metadata[a] = NoMetadata
                      /\ [records[a] EXCEPT !.listed = FALSE] = NoRecord
    BY DEF BlankUntilMinted
  <2>1. AgentOK(Minted(a), records[a], metadata[a])
    BY DEF RegistryInv, AgentsOK
  <2>2. /\ metadata[a] = NoMetadata
        /\ records[a].manifestHash = ZeroHash
        /\ records[a].ensNode = NoNode
        /\ records[a].consent = Active
    BY <2>1 DEF AgentOK
  <2>3. records[a] \in AgentRecord
    BY DEF RegistryInv, TypeOK, RegistryTypeOK
  <2>4. [records[a] EXCEPT !.listed = FALSE] = NoRecord
    <3> DEFINE r == [records[a] EXCEPT !.listed = FALSE]
    <3>1. r \in AgentRecord
      BY <2>3 DEF AgentRecord
    <3>2. /\ r.manifestHash = ZeroHash
          /\ r.ensNode = NoNode
          /\ r.consent = Active
          /\ r.listed = FALSE
      BY <2>2, <2>3 DEF AgentRecord
    <3> HIDE DEF r
    <3>3. r = [manifestHash |-> r.manifestHash, ensNode |-> r.ensNode,
               consent |-> r.consent, listed |-> r.listed]
      BY <3>1 DEF AgentRecord
    <3> QED
      BY <3>2, <3>3 DEF r, NoRecord
  <2> QED
    BY <2>2, <2>4
<1> QED
  BY <1>1, RegistryInvariant, PTL

(***************************************************************************)
(* What the registry does with its tokens: it mints one for an owner, or the *)
(* holders trade and approve (MinimalERC721.sol); nothing else touches them. *)
(***************************************************************************)
LEMMA TokenSteps ==
    ASSUME TypeOK, [Next]_vars
    PROVE  \/ UNCHANGED tokenVars
           \/ \E to \in Address, n \in TokenIds : Mint(to, n)
           \/ TokenNext \/ ApprovalNext
<1>1. MayCreate => NextId \in TokenIds
  BY MaxAgentsAssumption DEF MayCreate, NextId, TypeOK, RegistryTypeOK, TokenIds
<1>2. ASSUME NEW caller \in Address, NEW operator \in Owners, NEW uri \in Uris,
             NEW hash \in Hashes, NEW label \in Labels, NEW door \in Doors,
             NEW duration \in Durations,
             LaunchAgent(caller, operator, uri, hash, label, door, duration)
      PROVE  \E to \in Address, n \in TokenIds : Mint(to, n)
  <2>1. MayCreate /\ Mint(operator, NextId)
    BY <1>2, Zenon DEF LaunchAgent
  <2> QED
    BY <1>1, <2>1, AddressAssumption
<1>3. ASSUME NEW caller \in Address, NEW uri \in Uris, RegisterAgent(caller, uri)
      PROVE  \E to \in Address, n \in TokenIds : Mint(to, n)
  <2>1. MayCreate /\ Mint(caller, NextId)
    BY <1>3, Zenon DEF RegisterAgent
  <2> QED
    BY <1>1, <2>1
<1>4. ASSUME NEW caller \in Address, NEW a \in TokenIds, NEW status \in Consent,
             NEW door \in Doors,
             SetConsent(caller, a, status, door)
      PROVE  UNCHANGED tokenVars
  BY <1>4, Zenon DEF SetConsent
<1>5. ConsentLaw => UNCHANGED tokenVars
  <2>1. ASSUME NEW caller \in Address, NEW a \in TokenIds, Delist(caller, a) \/ Relist(caller, a)
        PROVE  UNCHANGED tokenVars
    BY <2>1, Zenon DEF Delist, Relist
  <2> QED
    BY <1>4, <2>1 DEF ConsentLaw
<1>6. Plumbing \/ TrustAndHire => UNCHANGED tokenVars
  BY DEF Plumbing, SetSubnameIssuer, AnchorSubname, TransferPad,
         TrustAndHire, SetHireRecorder, SetBlesser, RecordHire, Bless
<1>7. Bindings => UNCHANGED tokenVars
  BY Zenon DEF Bindings, SetAgentURI, UpdateManifestHash, SetMetadata
<1>8. Expiry => UNCHANGED tokenVars
  BY DEF Expiry
<1> QED
  BY <1>2, <1>3, <1>5, <1>6, <1>7, <1>8 DEF Next, Creation, TokenTransaction, vars

\* the tokens an account owns
Held(a) == {t \in TokenIds : owners[t] = a}

(***************************************************************************)
(* A token that goes from one account to another leaves one fewer to the     *)
(* first and one more to the second, and as many if they are the same.       *)
(***************************************************************************)
LEMMA HeldMoves ==
    ASSUME NEW t \in TokenIds, NEW to, NEW a,
           \A u \in TokenIds : owners'[u] = IF u = t THEN to ELSE owners[u]
    PROVE  /\ Cardinality(Held(a)) \in Nat
           /\ Cardinality(Held(a)') =
                 Cardinality(Held(a)) + (IF a = to THEN 1 ELSE 0) - (IF a = owners[t] THEN 1 ELSE 0)
<1>1. IsFiniteSet(Held(a)) /\ IsFiniteSet(Held(a) \ {t})
  <2>1. IsFiniteSet(TokenIds)
    BY FS_Interval, MaxAgentsAssumption DEF TokenIds
  <2> QED
    BY <2>1, FS_Subset DEF Held
<1>2. Cardinality(Held(a)) \in Nat
  BY <1>1, FS_CardinalityType
<1>3. Cardinality(Held(a) \ {t}) = Cardinality(Held(a)) - (IF a = owners[t] THEN 1 ELSE 0)
  <2>1. t \in Held(a) <=> a = owners[t]
    BY DEF Held
  <2> QED
    BY <1>1, <1>2, <2>1, FS_RemoveElement
<1>4. CASE a = to
  <2>1. Held(a)' = (Held(a) \ {t}) \union {t} /\ t \notin Held(a) \ {t}
    BY <1>4 DEF Held
  <2>2. Cardinality(Held(a)') = Cardinality(Held(a) \ {t}) + 1
    BY <1>1, <2>1, FS_AddElement
  <2> QED
    BY <1>2, <1>3, <1>4, <2>2
<1>5. CASE a # to
  <2>1. Held(a)' = Held(a) \ {t}
    BY <1>5 DEF Held
  <2> QED
    BY <1>2, <1>3, <1>5, <2>1
<1> QED
  BY <1>4, <1>5

(***************************************************************************)
(* Every balance counts exactly the tokens its account owns, through every   *)
(* mint and transfer (mint and transferFrom of MinimalERC721.sol).           *)
(***************************************************************************)
THEOREM BalancesAlwaysCount == Spec => []BalancesCountTokens
<1>1. Init => BalancesCountTokens
  <2> SUFFICES ASSUME Init, NEW a \in Address
               PROVE  balances[a] = Cardinality({t \in TokenIds : owners[t] = a})
    BY DEF BalancesCountTokens
  <2>1. {t \in TokenIds : owners[t] = a} = {} /\ balances[a] = 0
    BY AddressAssumption DEF Init, TokenInit
  <2> QED
    BY <2>1, FS_EmptySet
<1>2. TypeOK /\ BalancesCountTokens /\ [Next]_vars => BalancesCountTokens'
  <2> SUFFICES ASSUME TypeOK, BalancesCountTokens, [Next]_vars, NEW a \in Address
               PROVE  balances'[a] = Cardinality(Held(a)')
    BY DEF BalancesCountTokens, Held
  <2>1. balances[a] = Cardinality(Held(a)) /\ balances \in [Address -> Int]
        /\ owners \in [TokenIds -> Address \union {Zero}]
    BY DEF BalancesCountTokens, Held, TypeOK, TokenTypeOK
  <2>2. CASE UNCHANGED <<owners, balances>>
    BY <2>1, <2>2 DEF Held
  <2>3. ASSUME NEW to \in Address, NEW n \in TokenIds, Mint(to, n)
        PROVE  balances'[a] = Cardinality(Held(a)')
    <3>1. owners[n] = Zero /\ \A u \in TokenIds : owners'[u] = IF u = n THEN to ELSE owners[u]
      BY <2>1, <2>3 DEF Mint, Minted
    <3>2. balances'[a] = balances[a] + (IF a = to THEN 1 ELSE 0)
      BY <2>1, <2>3 DEF Mint
    <3>3. /\ Cardinality(Held(a)) \in Nat
          /\ Cardinality(Held(a)') = Cardinality(Held(a))
                + (IF a = to THEN 1 ELSE 0) - (IF a = owners[n] THEN 1 ELSE 0)
      BY <3>1, HeldMoves
    <3> QED
      BY <2>1, <3>1, <3>2, <3>3, AddressAssumption
  <2>4. ASSUME NEW caller \in Address, NEW n \in TokenIds, NEW to \in Owners,
               TransferFrom(caller, to, n)
        PROVE  balances'[a] = Cardinality(Held(a)')
    <3>1. owners[n] \in Address /\ to \in Address
          /\ \A u \in TokenIds : owners'[u] = IF u = n THEN to ELSE owners[u]
      BY <2>1, <2>4, AddressAssumption DEF TransferFrom, IsApprovedOrOwner, Minted
    <3>2. balances'[a] = balances[a] + (IF a = to THEN 1 ELSE 0) - (IF a = owners[n] THEN 1 ELSE 0)
      BY <2>1, <2>4, <3>1 DEF TransferFrom, Moved
    <3>3. /\ Cardinality(Held(a)) \in Nat
          /\ Cardinality(Held(a)') = Cardinality(Held(a))
                + (IF a = to THEN 1 ELSE 0) - (IF a = owners[n] THEN 1 ELSE 0)
      BY <3>1, HeldMoves
    <3> QED
      BY <2>1, <3>2, <3>3
  <2> QED
    BY <2>2, <2>3, <2>4, TokenSteps
    DEF tokenVars, TokenNext, Approve, ApprovalNext, SetApprovalForAll
<1> QED
  BY <1>1, <1>2, TypeCorrect, PTL DEF Spec

(***************************************************************************)
(* No approval of the old owner survives a handoff.                         *)
(***************************************************************************)
THEOREM HandoffLeavesNoDeputy == Spec => HandoffRevokesDeputies
<1> DEFINE Handoff ==
      \A t \in TokenIds, c \in Address :
          Minted(t) /\ owners'[t] # owners[t] /\ IsApprovedOrOwner(c, t)'
            => c = owners'[t] \/ <<owners'[t], c>> \in operatorApprovals'
<1>1. TypeOK /\ [Next]_vars => [Handoff]_tokenVars
  <2> SUFFICES ASSUME TypeOK, [Next]_vars, NEW t \in TokenIds, NEW c \in Address,
                      owners[t] # Zero, owners'[t] # owners[t], IsApprovedOrOwner(c, t)'
               PROVE  c = owners'[t] \/ <<owners'[t], c>> \in operatorApprovals'
    BY DEF Minted
  <2>1. ASSUME NEW to, NEW n \in TokenIds, Mint(to, n)
        PROVE  owners'[t] = owners[t]
    BY <2>1 DEF Mint, Minted, TypeOK, TokenTypeOK
  <2>2. TokenNext
    BY <2>1, TokenSteps DEF tokenVars, ApprovalNext, SetApprovalForAll
  <2>3. PICK caller \in Address, n \in TokenIds, to \in Owners : TransferFrom(caller, to, n)
    BY <2>2 DEF TokenNext, Approve
  <2>4. n = t /\ tokenApprovals'[t] = Zero
    BY <2>3 DEF TransferFrom, ClearedApproval, TypeOK, TokenTypeOK
  <2> QED
    BY <2>4, AddressAssumption DEF IsApprovedOrOwner
<1> QED
  BY <1>1, TypeCorrect, PTL DEF Spec, HandoffRevokesDeputies
----------------------------------------------------------------------------
\* what the invariant of the registry says of a registered name
LEMMA NamedAgents ==
    ASSUME RegistryInv, NEW n \in Nodes, names[n] # 0
    PROVE  /\ names[n] \in TokenIds /\ Minted(names[n]) /\ records[names[n]].ensNode = n
           /\ metadata[names[n]].label \in LabelsOf(n) /\ n # NoNode
  BY NodeAssumption DEF RegistryInv, NamesOK

LEMMA StorageTyped ==
    ASSUME RegistryInv, NEW a \in TokenIds
    PROVE  /\ records \in [TokenIds -> AgentRecord] /\ metadata \in [TokenIds -> Metadata]
           /\ records[a] \in AgentRecord /\ metadata[a] \in Metadata
           /\ names \in [Nodes -> Nat] /\ resolver \in [Resolvers -> [Nodes -> Texts]]
           /\ subnameIssuer \in Issuers \union {NoIssuer}
  BY DEF RegistryInv, TypeOK, RegistryTypeOK, ENSTypeOK

\* the names change hands in no other way than by a registration or an expiry
LEMMA NamesMove ==
    ASSUME RegistryInv, [Next]_vars, NEW n \in Nodes, names[n] # 0
    PROVE  names'[n] = names[n] \/ (names'[n] = 0 /\ n \notin permanent)
<1>1. names \in [Nodes -> Nat]
  BY DEF RegistryInv, TypeOK, ENSTypeOK
<1>2. ASSUME NEW caller \in Address, NEW operator \in Owners, NEW uri \in Uris,
             NEW hash \in Hashes, NEW label \in Labels, NEW door \in Doors,
             NEW duration \in Durations,
             LaunchAgent(caller, operator, uri, hash, label, door, duration)
      PROVE  names'[n] = names[n]
  <2> DEFINE node == Namehash[<<subnameIssuer, label>>]
  <2>1. CASE subnameIssuer # NoIssuer
    <3>1. names[node] = 0 /\ names' = [names EXCEPT ![node] = NextId]
      BY <1>2, <2>1 DEF LaunchAgent, Issue, Register
    <3> HIDE DEF node
    <3> QED
      BY <1>1, <3>1
  <2>2. CASE subnameIssuer = NoIssuer
    BY <1>2, <2>2 DEF LaunchAgent, ensVars
  <2> QED
    BY <2>1, <2>2
<1>3. ASSUME NEW caller \in Address, NEW uri \in Uris, RegisterAgent(caller, uri)
      PROVE  names' = names
  BY <1>3 DEF RegisterAgent, ensVars
<1>4. ConsentLaw => names' = names
  <2>1. ASSUME NEW a, NEW status, NEW door, SyncIssuer(a, status, door)
        PROVE  names' = names
    BY <2>1 DEF SyncIssuer, SyncConsent, ensVars
  <2>2. ASSUME NEW caller \in Address, NEW a \in TokenIds, NEW status \in Consent,
               NEW door \in Doors, SetConsent(caller, a, status, door)
        PROVE  names' = names
    BY <2>1, <2>2 DEF SetConsent
  <2>3. ASSUME NEW caller \in Address, NEW a \in TokenIds, Delist(caller, a) \/ Relist(caller, a)
        PROVE  names' = names
    BY <2>1, <2>3 DEF Delist, Relist, ensVars
  <2> QED
    BY <2>2, <2>3 DEF ConsentLaw
<1>5. Plumbing \/ TrustAndHire => names' = names
  BY DEF Plumbing, SetSubnameIssuer, AnchorSubname, TransferPad, TrustAndHire, SetHireRecorder,
         SetBlesser, RecordHire, Bless, ensVars
<1>6. Bindings \/ TokenTransaction \/ UNCHANGED vars => names' = names
  BY DEF Bindings, SetAgentURI, UpdateManifestHash, SetMetadata, TokenTransaction, ensVars, vars
<1>7. Expiry => names'[n] = names[n] \/ (names'[n] = 0 /\ n \notin permanent)
  BY <1>1 DEF Expiry, Lapse
<1> QED
  BY <1>2, <1>3, <1>4, <1>5, <1>6, <1>7 DEF Next, Creation

\* the anchor an agent has and the label it was launched with stay
KeepsAnchor(a) ==
    /\ records[a].ensNode # NoNode => records'[a].ensNode = records[a].ensNode
    /\ metadata'[a].label = metadata[a].label

LEMMA CreationKeepsAnchor ==
    ASSUME RegistryInv, NEW a \in TokenIds, Minted(a), Creation
    PROVE  KeepsAnchor(a)
<1>1. ASSUME NEW caller \in Address, NEW operator \in Owners, NEW uri \in Uris,
             NEW hash \in Hashes, NEW label \in Labels, NEW door \in Doors,
             NEW duration \in Durations,
             LaunchAgent(caller, operator, uri, hash, label, door, duration)
      PROVE  records'[a] = records[a] /\ metadata'[a] = metadata[a]
  <2> DEFINE b == NextId
  <2>1. PICK node : /\ Mint(operator, b)
                    /\ metadata' = OpenMetadata(b, hash, label, door)
                    /\ records' = [records EXCEPT ![b] = OpenRecord(hash, node)]
    BY <1>1 DEF LaunchAgent
  <2> HIDE DEF b
  <2>2. a # b
    BY <2>1 DEF Mint
  <2> QED
    BY <2>1, <2>2, StorageTyped DEF OpenMetadata
<1>2. ASSUME NEW caller \in Address, NEW uri \in Uris, RegisterAgent(caller, uri)
      PROVE  records'[a] = records[a] /\ metadata'[a] = metadata[a]
  <2> DEFINE b == NextId
  <2>1. /\ Mint(caller, b) /\ metadata' = metadata
        /\ records' = [records EXCEPT ![b] = [NoRecord EXCEPT !.consent = Paused]]
    BY <1>2 DEF RegisterAgent
  <2> HIDE DEF b
  <2>2. a # b
    BY <2>1 DEF Mint
  <2> QED
    BY <2>1, <2>2, StorageTyped
<1> QED
  BY <1>1, <1>2 DEF Creation, KeepsAnchor

LEMMA ConsentLawKeepsAnchor ==
    ASSUME RegistryInv, NEW a \in TokenIds, ConsentLaw
    PROVE  KeepsAnchor(a)
<1>1. ASSUME NEW caller \in Address, NEW b \in TokenIds, NEW status \in Consent,
             NEW door \in Doors, SetConsent(caller, b, status, door)
      PROVE  KeepsAnchor(a)
  BY <1>1, StorageTyped DEF SetConsent, AgentRecord, Metadata, KeepsAnchor
<1>2. ASSUME NEW caller \in Address, NEW b \in TokenIds, Delist(caller, b)
      PROVE  KeepsAnchor(a)
  BY <1>2, StorageTyped DEF Delist, AgentRecord, KeepsAnchor
<1>3. ASSUME NEW caller \in Address, NEW b \in TokenIds, Relist(caller, b)
      PROVE  KeepsAnchor(a)
  <2>1. records'[a].ensNode = records[a].ensNode
    <3>1. \/ records' = [records EXCEPT ![b].listed = TRUE, ![b].consent = Paused]
          \/ records' = [records EXCEPT ![b].listed = TRUE]
      BY <1>3 DEF Relist
    <3>2. CASE a # b
      BY <3>1, <3>2, StorageTyped
    <3>3. CASE a = b
      BY <3>1, <3>3, StorageTyped DEF AgentRecord
    <3> QED
      BY <3>2, <3>3
  <2>2. metadata'[a].label = metadata[a].label
    <3>1. metadata' = [metadata EXCEPT ![b].window = "paused"] \/ metadata' = metadata
      BY <1>3 DEF Relist, ResetWindow
    <3>2. CASE a # b
      BY <3>1, <3>2, StorageTyped
    <3>3. CASE a = b
      BY <3>1, <3>3, StorageTyped DEF Metadata
    <3> QED
      BY <3>2, <3>3
  <2> QED
    BY <2>1, <2>2 DEF KeepsAnchor
<1> QED
  BY <1>1, <1>2, <1>3 DEF ConsentLaw

LEMMA BindingsKeepAnchor ==
    ASSUME RegistryInv, NEW a \in TokenIds, Bindings \/ Plumbing
    PROVE  KeepsAnchor(a)
<1>1. ASSUME NEW caller \in Address, NEW b \in TokenIds, NEW hash \in Hashes,
             UpdateManifestHash(caller, b, hash)
      PROVE  KeepsAnchor(a)
  BY <1>1, StorageTyped DEF UpdateManifestHash, AgentRecord, Metadata, KeepsAnchor
<1>2. ASSUME NEW caller \in Address, NEW b \in TokenIds,
             NEW key \in CanonicalKeys \union {"note"}, NEW value \in Notes,
             SetMetadata(caller, b, key, value)
      PROVE  KeepsAnchor(a)
  <2>1. key = "note" /\ records' = records
    BY <1>2 DEF SetMetadata
  <2>2. metadata' = [metadata EXCEPT ![b] = [metadata[b] EXCEPT !.note = value]]
    BY <1>2, <2>1 DEF SetMetadata
  <2>3. metadata'[a].label = metadata[a].label
    BY <2>2, StorageTyped DEF Metadata
  <2> QED
    BY <2>1, <2>3 DEF KeepsAnchor
<1>3. ASSUME NEW caller \in Address, NEW b \in TokenIds, NEW node \in Anchors,
             AnchorSubname(caller, b, node)
      PROVE  KeepsAnchor(a)
  BY <1>3, StorageTyped DEF AnchorSubname, MayAnchor, AgentRecord, KeepsAnchor
<1>4. CASE UNCHANGED <<records, metadata>>
  BY <1>4 DEF KeepsAnchor
<1> QED
  BY <1>1, <1>2, <1>3, <1>4
     DEF Bindings, Plumbing, SetAgentURI, SetSubnameIssuer, TransferPad, agentVars

LEMMA OthersKeepAnchor ==
    ASSUME NEW a \in TokenIds, TrustAndHire \/ TokenTransaction \/ Expiry \/ UNCHANGED vars
    PROVE  KeepsAnchor(a)
<1>1. records' = records /\ metadata' = metadata
  BY DEF TrustAndHire, SetHireRecorder, SetBlesser, RecordHire, Bless, TokenTransaction, Expiry,
         vars, registryVars, agentVars
<1> QED
  BY <1>1 DEF KeepsAnchor

(***************************************************************************)
(* A name an issuer registered is taken over by no later launch, moved to no *)
(* other agent and left by no anchor (launchAgent, anchorSubname and         *)
(* UserRegistry.register); only an expiry the launch asked for frees it.     *)
(***************************************************************************)
THEOREM NamesStay == Spec => IssuedNameStays
<1>1. RegistryInv /\ [Next]_vars => [\A n \in Nodes : names[n] # 0 =>
         /\ names'[n] = names[n] \/ (names'[n] = 0 /\ n \notin permanent)
         /\ records'[names[n]].ensNode = n
         /\ metadata'[names[n]].label \in LabelsOf(n)]_vars
  <2> SUFFICES ASSUME RegistryInv, [Next]_vars, NEW n \in Nodes, names[n] # 0
               PROVE  /\ names'[n] = names[n] \/ (names'[n] = 0 /\ n \notin permanent)
                      /\ records'[names[n]].ensNode = n
                      /\ metadata'[names[n]].label \in LabelsOf(n)
    OBVIOUS
  <2>1. names'[n] = names[n] \/ (names'[n] = 0 /\ n \notin permanent)
    BY NamesMove
  <2>2. /\ names[n] \in TokenIds /\ Minted(names[n]) /\ records[names[n]].ensNode = n
        /\ metadata[names[n]].label \in LabelsOf(n) /\ n # NoNode
    BY NamedAgents
  <2>3. KeepsAnchor(names[n])
    BY <2>2, CreationKeepsAnchor, ConsentLawKeepsAnchor, BindingsKeepAnchor, OthersKeepAnchor DEF Next
  <2> QED
    BY <2>1, <2>2, <2>3 DEF KeepsAnchor
<1> QED
  BY <1>1, RegistryInvariant, PTL DEF Spec, IssuedNameStays
----------------------------------------------------------------------------
\* r holds the texts of the registry: the issuer of a registered name is followed by
\* others that write on r, and every flip so far has reached it
Tracks(r) ==
    /\ subnameIssuer # NoIssuer => ResolverOf[subnameIssuer] = r
    /\ \A n \in Nodes : names[n] # 0 => subnameIssuer # NoIssuer /\ (Unshared(n) => Resolves(r, n))

ResolverInv == \A r \in Resolvers : OnlyResolver(r) => Tracks(r)

\* the wired issuer stays, or is followed by one that writes on r
WiringKept(r) ==
    subnameIssuer' = subnameIssuer \/ (subnameIssuer' # NoIssuer /\ ResolverOf[subnameIssuer'] = r)

\* the agent storage a mirrored name depends on
SameFace(a) == records'[a].consent = records[a].consent /\ metadata'[a].door = metadata[a].door

(***************************************************************************)
(* An anchor once set stays, so a name shared before a step is shared after  *)
(* it: it is enough that each name still unshared keeps agent, face and      *)
(* texts, or gets the texts of its agent written anew.                       *)
(***************************************************************************)
LEMMA ResolverStays ==
    ASSUME NEW r \in Resolvers, Tracks(r), WiringKept(r),
           \A b \in TokenIds : records[b].ensNode # NoNode => records'[b].ensNode = records[b].ensNode,
           \A n \in Nodes : names'[n] # 0 =>
               \/ /\ names'[n] = names[n]
                  /\ Unshared(n)' => \/ Resolves(r, n)'
                                     \/ resolver'[r][n] = resolver[r][n] /\ SameFace(names[n])
               \/ subnameIssuer' # NoIssuer /\ Resolves(r, n)'
    PROVE  Tracks(r)'
<1>1. subnameIssuer' # NoIssuer => ResolverOf[subnameIssuer'] = r
  BY DEF Tracks, WiringKept
<1>2. ASSUME NEW n \in Nodes, names'[n] # 0
      PROVE  subnameIssuer' # NoIssuer /\ (Unshared(n)' => Resolves(r, n)')
  <2>1. CASE subnameIssuer' # NoIssuer /\ Resolves(r, n)'
    BY <2>1
  <2>2. CASE /\ names'[n] = names[n]
             /\ Unshared(n)' => \/ Resolves(r, n)'
                                \/ resolver'[r][n] = resolver[r][n] /\ SameFace(names[n])
    <3>1. subnameIssuer' # NoIssuer /\ (Unshared(n) => Resolves(r, n))
      BY <1>2, <2>2 DEF Tracks, WiringKept
    <3>2. Unshared(n)' => Unshared(n)
      BY <2>2, NodeAssumption DEF Unshared
    <3>3. Resolves(r, n) /\ resolver'[r][n] = resolver[r][n] /\ SameFace(names[n]) => Resolves(r, n)'
      BY <2>2 DEF Resolves, SameFace
    <3> QED
      BY <2>2, <3>1, <3>2, <3>3
  <2> QED
    BY <1>2, <2>1, <2>2
<1> QED
  BY <1>1, <1>2 DEF Tracks

(***************************************************************************)
(* Writing a text on r changes the texts of its node only.                   *)
(***************************************************************************)
LEMMA TextWritten ==
    ASSUME RegistryInv, NEW r \in Resolvers, NEW node \in Nodes, NEW window, NEW door,
           SetText(r, node, window, door)
    PROVE  /\ resolver'[r][node] = Text(window, door)
           /\ \A n \in Nodes : n # node => resolver'[r][n] = resolver[r][n]
<1>1. resolver \in [Resolvers -> [Nodes -> Texts]]
  BY DEF RegistryInv, TypeOK, ENSTypeOK
<1>2. resolver'[r] = [resolver[r] EXCEPT ![node] = Text(window, door)]
  BY <1>1 DEF SetText
<1>3. resolver[r] \in [Nodes -> Texts]
  BY <1>1
<1> QED
  BY <1>2, <1>3

(***************************************************************************)
(* A flip of the window of a is written through to the node a is anchored    *)
(* at: the node of its name, if it has one.                                  *)
(***************************************************************************)
LEMMA FlipReachesResolver ==
    ASSUME RegistryInv, NEW r \in Resolvers, Tracks(r), NEW a \in TokenIds,
           NEW status \in Consent, NEW door,
           SyncIssuer(a, status, door), subnameIssuer' = subnameIssuer,
           \A b \in TokenIds : /\ records'[b].ensNode = records[b].ensNode
                               /\ b # a => SameFace(b),
           records'[a].consent = status, metadata'[a].door = door
    PROVE  Tracks(r)'
<1>1. names' = names
  BY DEF SyncIssuer, SyncConsent, ensVars
<1>2. ASSUME NEW n \in Nodes, names'[n] # 0, Unshared(n)'
      PROVE  Resolves(r, n)' \/ (resolver'[r][n] = resolver[r][n] /\ SameFace(names[n]))
  <2>1. /\ names[n] \in TokenIds /\ records[names[n]].ensNode = n /\ n # NoNode
        /\ subnameIssuer # NoIssuer /\ ResolverOf[subnameIssuer] = r
    BY <1>1, <1>2, NamedAgents DEF Tracks
  <2>2. CASE names[n] = a
    <3>1. SetText(r, n, WindowText(status), door)
      BY <2>1, <2>2 DEF SyncIssuer, SyncConsent
    <3>2. resolver'[r][n] = Text(WindowText(status), door)
      BY <3>1, TextWritten
    <3> QED
      BY <1>1, <2>2, <3>2 DEF Resolves
  <2>3. CASE names[n] # a
    <3>1. records[a].ensNode # n
      BY <1>1, <1>2, <2>3 DEF Unshared
    <3>2. CASE records[a].ensNode = NoNode
      BY <2>1, <2>3, <3>2 DEF SyncIssuer, ensVars
    <3>3. CASE records[a].ensNode # NoNode
      <4>1. records[a].ensNode \in Nodes
        BY <3>3, StorageTyped DEF AgentRecord
      <4>2. SetText(r, records[a].ensNode, WindowText(status), door)
        BY <2>1, <3>3 DEF SyncIssuer, SyncConsent
      <4>3. resolver'[r][n] = resolver[r][n]
        BY <3>1, <4>1, <4>2, TextWritten
      <4> QED
        BY <2>1, <2>3, <4>3
    <3> QED
      BY <3>2, <3>3
  <2> QED
    BY <2>2, <2>3
<1> QED
  BY <1>1, <1>2, ResolverStays DEF WiringKept

(***************************************************************************)
(* A call that changes no face, no anchor and no text record, and frees      *)
(* names at most.                                                            *)
(***************************************************************************)
LEMMA FacesStay ==
    ASSUME RegistryInv, NEW r \in Resolvers, Tracks(r), resolver' = resolver, WiringKept(r),
           \A n \in Nodes : names'[n] = names[n] \/ names'[n] = 0,
           \A b \in TokenIds :
               /\ records[b].ensNode # NoNode => records'[b].ensNode = records[b].ensNode
               /\ Minted(b) => SameFace(b)
    PROVE  Tracks(r)'
<1>1. \A n \in Nodes : names[n] # 0 => SameFace(names[n])
  BY NamedAgents
<1> QED
  BY <1>1, ResolverStays

LEMMA CreationResolves ==
    ASSUME RegistryInv, NEW r \in Resolvers, Tracks(r), Creation
    PROVE  Tracks(r)'
<1>1. ASSUME NEW caller \in Address, NEW operator \in Owners, NEW uri \in Uris,
             NEW hash \in Hashes, NEW label \in Labels, NEW door \in Doors,
             NEW duration \in Durations,
             LaunchAgent(caller, operator, uri, hash, label, door, duration)
      PROVE  Tracks(r)'
  <2> DEFINE a == NextId
  <2>1. a \in TokenIds
    BY <1>1, MaxAgentsAssumption
       DEF LaunchAgent, MayCreate, NextId, RegistryInv, TypeOK, RegistryTypeOK, TokenIds
  <2> HIDE DEF a
  <2>2. /\ ~Minted(a) /\ subnameIssuer' = subnameIssuer
        /\ metadata' = OpenMetadata(a, hash, label, door)
    BY <1>1 DEF LaunchAgent, Mint, adminVars, a
  <2>3. records[a].ensNode = NoNode
    BY <2>1, <2>2 DEF RegistryInv, AgentsOK, AgentOK
  <2>4. metadata'[a].door = door /\ \A b \in TokenIds : b # a => metadata'[b] = metadata[b]
    BY <2>1, <2>2, StorageTyped DEF OpenMetadata, Metadata
  <2>5. PICK n : /\ records' = [records EXCEPT ![a] = OpenRecord(hash, n)]
                 /\ subnameIssuer # NoIssuer => Issue(subnameIssuer, a, label, door, Forever(duration))
                 /\ subnameIssuer = NoIssuer => UNCHANGED ensVars
    BY <1>1 DEF LaunchAgent, a
  <2>6. records'[a] = OpenRecord(hash, n) /\ \A b \in TokenIds : b # a => records'[b] = records[b]
    BY <2>1, <2>5, StorageTyped
  <2>7. \A b \in TokenIds : /\ records[b].ensNode # NoNode => records'[b].ensNode = records[b].ensNode
                            /\ b # a => SameFace(b)
    BY <2>3, <2>4, <2>6 DEF SameFace
  <2>8. CASE subnameIssuer # NoIssuer
    <3>1. Namehash[<<subnameIssuer, label>>] \in Nodes /\ ResolverOf[subnameIssuer] = r
      BY <2>1, <2>8, StorageTyped, IssuerDeployed DEF Tracks
    <3>2. PICK node \in Nodes : node = Namehash[<<subnameIssuer, label>>]
      BY <3>1
    <3>3. names' = [names EXCEPT ![node] = a] /\ SetText(r, node, "active", door)
      BY <2>5, <2>8, <3>1, <3>2 DEF Issue, Register
    <3>4. /\ names'[node] = a /\ resolver'[r][node] = Text("active", door)
          /\ \A l \in Nodes : l # node => names'[l] = names[l] /\ resolver'[r][l] = resolver[r][l]
      <4>1. /\ resolver'[r][node] = Text("active", door)
            /\ \A l \in Nodes : l # node => resolver'[r][l] = resolver[r][l]
        BY <3>2, <3>3, TextWritten
      <4>2. names'[node] = a /\ \A l \in Nodes : l # node => names'[l] = names[l]
        BY <2>1, <3>2, <3>3, StorageTyped
      <4> QED
        BY <4>1, <4>2
    <3>5. records'[a].consent = Active
      BY <2>6 DEF OpenRecord
    <3>6. Resolves(r, node)'
      BY <2>4, <3>4, <3>5, StatusVocabulary DEF Resolves
    <3>7. ASSUME NEW l \in Nodes, l # node, names'[l] # 0
          PROVE  names'[l] = names[l] /\ resolver'[r][l] = resolver[r][l] /\ SameFace(names[l])
      <4>1. names'[l] = names[l] /\ resolver'[r][l] = resolver[r][l]
        BY <3>4, <3>7
      <4>2. names[l] \in TokenIds /\ names[l] # a
        BY <2>2, <3>7, <4>1, NamedAgents
      <4> QED
        BY <2>7, <4>1, <4>2
    <3> QED
      BY <2>2, <2>7, <2>8, <3>6, <3>7, ResolverStays DEF WiringKept
  <2>9. CASE subnameIssuer = NoIssuer
    BY <2>2, <2>5, <2>7, <2>9, FacesStay DEF ensVars, WiringKept
  <2> QED
    BY <2>8, <2>9
<1>2. ASSUME NEW caller \in Address, NEW uri \in Uris, RegisterAgent(caller, uri)
      PROVE  Tracks(r)'
  <2> DEFINE a == NextId
  <2>1. a \in TokenIds
    BY <1>2, MaxAgentsAssumption
       DEF RegisterAgent, MayCreate, NextId, RegistryInv, TypeOK, RegistryTypeOK, TokenIds
  <2> HIDE DEF a
  <2>2. /\ ~Minted(a) /\ subnameIssuer' = subnameIssuer /\ metadata' = metadata /\ UNCHANGED ensVars
        /\ records' = [records EXCEPT ![a] = [NoRecord EXCEPT !.consent = Paused]]
    BY <1>2 DEF RegisterAgent, Mint, adminVars, a
  <2>3. records[a].ensNode = NoNode /\ \A b \in TokenIds : b # a => records'[b] = records[b]
    BY <2>1, <2>2, StorageTyped DEF RegistryInv, AgentsOK, AgentOK
  <2> QED
    BY <2>2, <2>3, FacesStay DEF SameFace, ensVars, WiringKept
<1> QED
  BY <1>1, <1>2 DEF Creation

LEMMA ConsentLawResolves ==
    ASSUME RegistryInv, NEW r \in Resolvers, Tracks(r), ConsentLaw
    PROVE  Tracks(r)'
<1>1. ASSUME NEW caller \in Address, NEW a \in TokenIds, NEW status \in Consent,
             NEW door \in Doors, SetConsent(caller, a, status, door)
      PROVE  Tracks(r)'
  <2>1. subnameIssuer' = subnameIssuer /\ SyncIssuer(a, status, door)
    BY <1>1 DEF SetConsent, adminVars
  <2>2. /\ \A b \in TokenIds : /\ records'[b].ensNode = records[b].ensNode
                               /\ b # a => SameFace(b)
        /\ records'[a].consent = status /\ metadata'[a].door = door
    BY <1>1, StorageTyped DEF SetConsent, AgentRecord, Metadata, SameFace
  <2> QED
    BY <2>1, <2>2, FlipReachesResolver
<1>2. ASSUME NEW caller \in Address, NEW a \in TokenIds, Delist(caller, a)
      PROVE  Tracks(r)'
  <2>1. subnameIssuer' = subnameIssuer /\ UNCHANGED ensVars
    BY <1>2 DEF Delist, adminVars
  <2>2. \A b \in TokenIds : records'[b].ensNode = records[b].ensNode /\ SameFace(b)
    BY <1>2, StorageTyped DEF Delist, AgentRecord, SameFace
  <2> QED
    BY <2>1, <2>2, FacesStay DEF ensVars, WiringKept
<1>3. ASSUME NEW caller \in Address, NEW a \in TokenIds, Relist(caller, a)
      PROVE  Tracks(r)'
  <2>1. subnameIssuer' = subnameIssuer
    BY <1>3 DEF Relist, adminVars
  <2>2. CASE records[a].consent = Withdrawn
    <3>1. /\ records' = [records EXCEPT ![a].listed = TRUE, ![a].consent = Paused]
          /\ metadata' = ResetWindow(a) /\ SyncIssuer(a, Paused, metadata[a].door)
      BY <1>3, <2>2 DEF Relist
    <3>2. /\ \A b \in TokenIds : /\ records'[b].ensNode = records[b].ensNode
                                 /\ b # a => SameFace(b)
          /\ records'[a].consent = Paused /\ metadata'[a].door = metadata[a].door
      BY <3>1, StorageTyped DEF ResetWindow, AgentRecord, Metadata, SameFace
    <3>3. Paused \in Consent
      BY DEF Consent
    <3> QED
      BY <2>1, <3>1, <3>2, <3>3, FlipReachesResolver
  <2>3. CASE records[a].consent # Withdrawn
    <3>1. records' = [records EXCEPT ![a].listed = TRUE] /\ metadata' = metadata /\ UNCHANGED ensVars
      BY <1>3, <2>3 DEF Relist
    <3>2. \A b \in TokenIds : records'[b].ensNode = records[b].ensNode /\ SameFace(b)
      BY <3>1, StorageTyped DEF AgentRecord, SameFace
    <3> QED
      BY <2>1, <3>1, <3>2, FacesStay DEF ensVars, WiringKept
  <2> QED
    BY <2>2, <2>3
<1> QED
  BY <1>1, <1>2, <1>3 DEF ConsentLaw

(***************************************************************************)
(* Another issuer may be wired in a dedicated deployment, on the same        *)
(* resolver; an anchor gives an agent a node and changes no other.           *)
(***************************************************************************)
LEMMA PlumbingResolves ==
    ASSUME RegistryInv, NEW r \in Resolvers, Tracks(r), OnlyResolver(r), Plumbing \/ Bindings
    PROVE  Tracks(r)'
<1>1. ASSUME NEW caller \in Address, NEW issuer \in IssuerChoices, SetSubnameIssuer(caller, issuer)
      PROVE  Tracks(r)'
  <2>1. issuer # NoIssuer /\ ResolverOf[issuer] = r
    BY DEF OnlyResolver
  <2>2. subnameIssuer' = issuer /\ UNCHANGED ensVars /\ records' = records /\ metadata' = metadata
    BY <1>1 DEF SetSubnameIssuer, agentVars
  <2> QED
    BY <2>1, <2>2, FacesStay DEF SameFace, ensVars, WiringKept
<1>2. ASSUME NEW caller \in Address, NEW a \in TokenIds, NEW node \in Anchors,
             AnchorSubname(caller, a, node)
      PROVE  Tracks(r)'
  <2>1. /\ subnameIssuer' = subnameIssuer /\ UNCHANGED ensVars /\ metadata' = metadata
        /\ records[a].ensNode = NoNode
    BY <1>2 DEF AnchorSubname, MayAnchor, adminVars
  <2>2. \A b \in TokenIds : /\ b # a => records'[b] = records[b]
                            /\ records'[b].consent = records[b].consent
    BY <1>2, StorageTyped DEF AnchorSubname, AgentRecord
  <2> QED
    BY <2>1, <2>2, FacesStay DEF SameFace, ensVars, WiringKept
<1>3. ASSUME NEW caller \in Address, NEW newPad \in Pads, TransferPad(caller, newPad)
      PROVE  Tracks(r)'
  <2>1. subnameIssuer' = subnameIssuer /\ UNCHANGED ensVars /\ records' = records /\ metadata' = metadata
    BY <1>3 DEF TransferPad, agentVars
  <2> QED
    BY <2>1, FacesStay DEF SameFace, ensVars, WiringKept
<1>4. ASSUME NEW caller \in Address, NEW a \in TokenIds, NEW uri \in Uris, SetAgentURI(caller, a, uri)
      PROVE  Tracks(r)'
  <2>1. subnameIssuer' = subnameIssuer /\ UNCHANGED ensVars /\ records' = records /\ metadata' = metadata
    BY <1>4 DEF SetAgentURI, adminVars
  <2> QED
    BY <2>1, FacesStay DEF SameFace, ensVars, WiringKept
<1>5. ASSUME NEW caller \in Address, NEW a \in TokenIds, NEW hash \in Hashes,
             UpdateManifestHash(caller, a, hash)
      PROVE  Tracks(r)'
  <2>1. subnameIssuer' = subnameIssuer /\ UNCHANGED ensVars
    BY <1>5 DEF UpdateManifestHash, adminVars
  <2>2. \A b \in TokenIds : records'[b].ensNode = records[b].ensNode /\ SameFace(b)
    BY <1>5, StorageTyped DEF UpdateManifestHash, AgentRecord, Metadata, SameFace
  <2> QED
    BY <2>1, <2>2, FacesStay DEF ensVars, WiringKept
<1>6. ASSUME NEW caller \in Address, NEW a \in TokenIds,
             NEW key \in CanonicalKeys \union {"note"}, NEW value \in Notes,
             SetMetadata(caller, a, key, value)
      PROVE  Tracks(r)'
  <2>1. subnameIssuer' = subnameIssuer /\ UNCHANGED ensVars /\ records' = records /\ key = "note"
    BY <1>6 DEF SetMetadata, adminVars
  <2>2. metadata' = [metadata EXCEPT ![a] = [metadata[a] EXCEPT !.note = value]]
    BY <1>6, <2>1 DEF SetMetadata
  <2>3. \A b \in TokenIds : metadata'[b].door = metadata[b].door
    BY <2>2, StorageTyped DEF Metadata
  <2> QED
    BY <2>1, <2>3, FacesStay DEF SameFace, ensVars, WiringKept
<1> QED
  BY <1>1, <1>2, <1>3, <1>4, <1>5, <1>6 DEF Plumbing, Bindings

LEMMA OthersResolve ==
    ASSUME RegistryInv, NEW r \in Resolvers, Tracks(r),
           TrustAndHire \/ TokenTransaction \/ Expiry \/ UNCHANGED vars
    PROVE  Tracks(r)'
<1>1. subnameIssuer' = subnameIssuer /\ resolver' = resolver /\ records' = records /\ metadata' = metadata
  BY DEF TrustAndHire, SetHireRecorder, SetBlesser, RecordHire, Bless, TokenTransaction, Expiry,
         Lapse, vars, ensVars, registryVars, adminVars, agentVars
<1>2. \A n \in Nodes : names'[n] = names[n] \/ names'[n] = 0
  <2>1. CASE Expiry
    BY <2>1 DEF Expiry, Lapse, RegistryInv, TypeOK, ENSTypeOK
  <2>2. CASE ~Expiry
    BY <2>2 DEF TrustAndHire, SetHireRecorder, SetBlesser, RecordHire, Bless, TokenTransaction,
                vars, ensVars
  <2> QED
    BY <2>1, <2>2
<1> QED
  BY <1>1, <1>2, FacesStay DEF SameFace, WiringKept

(***************************************************************************)
(* Dedicated mode: a lookup of a registered name answers with the window and *)
(* the door in the registry, for any agents, labels, issuers on the resolver *)
(* and sequence of calls and expiries.                                       *)
(***************************************************************************)
THEOREM ResolverAlwaysMirrors == Spec => []ResolverMirrorsRegistry
<1>1. Init => ResolverInv
  BY DEF Init, ENSInit, ResolverInv, Tracks
<1>2. RegistryInv /\ ResolverInv /\ [Next]_vars => ResolverInv'
  <2> SUFFICES ASSUME RegistryInv, ResolverInv, [Next]_vars, NEW r \in Resolvers, OnlyResolver(r)
               PROVE  Tracks(r)'
    BY DEF ResolverInv, OnlyResolver
  <2>1. Tracks(r)
    BY DEF ResolverInv
  <2> QED
    BY <2>1, CreationResolves, ConsentLawResolves, PlumbingResolves, OthersResolve DEF Next
<1>3. ResolverInv => ResolverMirrorsRegistry
  BY DEF ResolverInv, Tracks, ResolverMirrorsRegistry
<1> QED
  BY <1>1, <1>2, <1>3, RegistryInvariant, PTL DEF Spec
----------------------------------------------------------------------------
\* the change of the window of a is announced, once, and signed
SignedFlip(a) ==
    \E i \in Announcements(a)' :
        /\ Announcements(a)' = {i}
        /\ emitted'[i].what = records'[a].consent
        /\ \/ IsApprovedOrOwner(emitted'[i].who, a)
           \/ /\ emitted'[i].who = pad
              /\ records[a].consent = Withdrawn
              /\ emitted'[i].what = Paused

(***************************************************************************)
(* A flip announces once and is signed by an account with the keys.          *)
(***************************************************************************)
LEMMA SetConsentSigned ==
    ASSUME RegistryInv, NEW caller \in Address, NEW a \in TokenIds, NEW status \in Consent,
           NEW door \in Doors, SetConsent(caller, a, status, door)
    PROVE  SignedFlip(a) /\ \A b \in TokenIds : b # a => records'[b] = records[b]
<1> DEFINE flip == Spine("ConsentChanged", a, caller, status)
           off  == Spine("Delisted", a, caller, NoNode)
<1>1. IsApprovedOrOwner(caller, a)
  BY DEF SetConsent, MayFlip
<1>2. records'[a].consent = status /\ \A b \in TokenIds : b # a => records'[b] = records[b]
  BY StorageTyped DEF SetConsent, AgentRecord
<1>3. emitted' = <<flip, off>> \/ emitted' = <<flip>>
  BY DEF SetConsent
<1>4. flip.ev = "ConsentChanged" /\ flip.id = a /\ flip.who = caller /\ flip.what = status
      /\ off.ev = "Delisted"
  BY DEF Spine
<1> HIDE DEF flip, off
<1>5. /\ emitted'[1] = flip /\ DOMAIN emitted' \in {{1}, {1, 2}}
      /\ 2 \in DOMAIN emitted' => emitted'[2] = off
  BY <1>3
<1>6. Announcements(a)' = {1}
  <2>1. Announcements(a)' =
            {i \in DOMAIN emitted' : emitted'[i].ev = "ConsentChanged" /\ emitted'[i].id = a}
    BY DEF Announcements
  <2> QED
    BY <1>4, <1>5, <2>1
<1> QED
  BY <1>1, <1>2, <1>4, <1>5, <1>6 DEF SignedFlip

(***************************************************************************)
(* A relisting flips a withdrawn window only, to paused, and only the pad    *)
(* does it.                                                                  *)
(***************************************************************************)
LEMMA RelistSigned ==
    ASSUME RegistryInv, NEW caller \in Address, NEW a \in TokenIds, Relist(caller, a)
    PROVE  /\ records'[a].consent # records[a].consent => SignedFlip(a)
           /\ \A b \in TokenIds : b # a => records'[b] = records[b]
<1>1. CASE records[a].consent = Withdrawn
  <2> DEFINE on   == Spine("Relisted", a, caller, NoNode)
             flip == Spine("ConsentChanged", a, caller, Paused)
  <2>1. /\ caller = pad /\ emitted' = <<on, flip>>
        /\ records' = [records EXCEPT ![a].listed = TRUE, ![a].consent = Paused]
    BY <1>1 DEF Relist
  <2>2. records'[a].consent = Paused /\ \A b \in TokenIds : b # a => records'[b] = records[b]
    BY <2>1, StorageTyped DEF AgentRecord
  <2>3. flip.ev = "ConsentChanged" /\ flip.id = a /\ flip.who = caller /\ flip.what = Paused
        /\ on.ev = "Relisted"
    BY DEF Spine
  <2> HIDE DEF flip, on
  <2>4. emitted'[1] = on /\ emitted'[2] = flip /\ DOMAIN emitted' = {1, 2}
    BY <2>1
  <2>5. Announcements(a)' = {2}
    <3>1. Announcements(a)' =
              {i \in DOMAIN emitted' : emitted'[i].ev = "ConsentChanged" /\ emitted'[i].id = a}
      BY DEF Announcements
    <3> QED
      BY <2>3, <2>4, <3>1
  <2> QED
    BY <1>1, <2>1, <2>2, <2>3, <2>4, <2>5 DEF SignedFlip
<1>2. CASE records[a].consent # Withdrawn
  <2>1. records' = [records EXCEPT ![a].listed = TRUE]
    BY <1>2 DEF Relist
  <2> QED
    BY <2>1, StorageTyped DEF AgentRecord
<1> QED
  BY <1>1, <1>2

(***************************************************************************)
(* No other transaction changes the window of an agent that exists.          *)
(***************************************************************************)
LEMMA OthersFlipNothing ==
    ASSUME RegistryInv, NEW a \in TokenIds, Minted(a),
           \/ Creation \/ Plumbing \/ Bindings \/ TrustAndHire \/ TokenTransaction \/ Expiry
           \/ UNCHANGED vars
           \/ \E caller \in Address, b \in TokenIds : Delist(caller, b)
    PROVE  records'[a].consent = records[a].consent
<1>1. ASSUME NEW b \in TokenIds, NEW r, ~Minted(b), records' = [records EXCEPT ![b] = r]
      PROVE  records'[a].consent = records[a].consent
  BY <1>1, StorageTyped
<1>2. CASE Creation
  <2>1. MayCreate => NextId \in TokenIds
    BY MaxAgentsAssumption DEF MayCreate, NextId, RegistryInv, TypeOK, RegistryTypeOK, TokenIds
  <2>2. PICK r, to : MayCreate /\ Mint(to, NextId) /\ records' = [records EXCEPT ![NextId] = r]
    <3>1. ASSUME NEW caller \in Address, NEW operator \in Owners, NEW uri \in Uris,
                 NEW hash \in Hashes, NEW label \in Labels, NEW door \in Doors,
                 NEW duration \in Durations,
                 LaunchAgent(caller, operator, uri, hash, label, door, duration)
          PROVE  /\ MayCreate /\ Mint(operator, NextId)
                 /\ \E r : records' = [records EXCEPT ![NextId] = r]
      BY <3>1 DEF LaunchAgent
    <3>2. ASSUME NEW caller \in Address, NEW uri \in Uris, RegisterAgent(caller, uri)
          PROVE  /\ MayCreate /\ Mint(caller, NextId)
                 /\ \E r : records' = [records EXCEPT ![NextId] = r]
      BY <3>2 DEF RegisterAgent
    <3> QED
      BY <1>2, <3>1, <3>2 DEF Creation
  <2>3. ~Minted(NextId)
    BY <2>2 DEF Mint
  <2> QED
    BY <1>1, <2>1, <2>2, <2>3
<1>3. CASE \E caller \in Address, b \in TokenIds : Delist(caller, b)
  <2>1. PICK b \in TokenIds : records' = [records EXCEPT ![b].listed = FALSE]
    BY <1>3 DEF Delist
  <2> QED
    BY <2>1, StorageTyped DEF AgentRecord
<1>4. CASE Plumbing
  <2>1. CASE records' = records
    BY <2>1
  <2>2. ASSUME NEW b \in TokenIds, NEW node, records' = [records EXCEPT ![b].ensNode = node]
        PROVE  records'[a].consent = records[a].consent
    BY <2>2, StorageTyped DEF AgentRecord
  <2> QED
    BY <1>4, <2>1, <2>2 DEF Plumbing, SetSubnameIssuer, AnchorSubname, TransferPad, agentVars
<1>5. CASE Bindings
  <2>1. CASE records' = records
    BY <2>1
  <2>2. ASSUME NEW b \in TokenIds, NEW hash, records' = [records EXCEPT ![b].manifestHash = hash]
        PROVE  records'[a].consent = records[a].consent
    BY <2>2, StorageTyped DEF AgentRecord
  <2> QED
    BY <1>5, <2>1, <2>2 DEF Bindings, SetAgentURI, UpdateManifestHash, SetMetadata
<1>6. CASE TrustAndHire \/ TokenTransaction \/ Expiry \/ UNCHANGED vars
  BY <1>6 DEF Expiry, TrustAndHire, SetHireRecorder, SetBlesser, RecordHire, Bless, TokenTransaction,
              vars, registryVars, agentVars
<1> QED
  BY <1>2, <1>3, <1>4, <1>5, <1>6

(***************************************************************************)
(* The consent law: whatever changes the window of an agent is announced     *)
(* once, with the new status, by an account that holds the agent's keys; the *)
(* pad signs only the reset of a withdrawn window.                           *)
(***************************************************************************)
THEOREM WindowChangesAlwaysSigned == Spec => WindowChangesAreSigned
<1> DEFINE Law == \A a \in TokenIds :
                      Minted(a) /\ records'[a].consent # records[a].consent => SignedFlip(a)
<1>1. RegistryInv /\ [Next]_vars => [Law]_vars
  <2> SUFFICES ASSUME RegistryInv, [Next]_vars, NEW a \in TokenIds, Minted(a),
                      records'[a].consent # records[a].consent
               PROVE  SignedFlip(a)
    OBVIOUS
  <2>1. ConsentLaw /\ ~ \E caller \in Address, b \in TokenIds : Delist(caller, b)
    BY OthersFlipNothing DEF Next
  <2>2. ASSUME NEW caller \in Address, NEW b \in TokenIds, NEW status \in Consent,
               NEW door \in Doors, SetConsent(caller, b, status, door)
        PROVE  SignedFlip(a)
    <3>1. SignedFlip(b) /\ (a # b => records'[a] = records[a])
      BY <2>2, SetConsentSigned
    <3> QED
      BY <3>1
  <2>3. ASSUME NEW caller \in Address, NEW b \in TokenIds, Relist(caller, b)
        PROVE  SignedFlip(a)
    BY <2>3, RelistSigned
  <2> QED
    BY <2>1, <2>2, <2>3 DEF ConsentLaw
<1>2. RegistryInv /\ [Next]_vars => [\A a \in TokenIds :
         Minted(a) /\ records'[a].consent # records[a].consent =>
           \E i \in Announcements(a)' :
               /\ Announcements(a)' = {i}
               /\ emitted'[i].what = records'[a].consent
               /\ \/ IsApprovedOrOwner(emitted'[i].who, a)
                  \/ /\ emitted'[i].who = pad
                     /\ records[a].consent = Withdrawn
                     /\ emitted'[i].what = Paused]_vars
  BY <1>1 DEF SignedFlip
<1> QED
  BY <1>2, RegistryInvariant, PTL DEF Spec, WindowChangesAreSigned
=============================================================================
