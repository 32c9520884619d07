--------------------------- MODULE PulseSubgraph ---------------------------
(***************************************************************************)
(* The Pulse subgraph (subgraph/src/mapping.ts): graph-node feeds it the    *)
(* registry's spine events in chain order, some time after the transaction  *)
(* that emitted them, and each handler updates the Agent entity and the     *)
(* PulseStats singleton.  The immutable event entities (LaunchEvent and so  *)
(* on) are one row per event handled and are counted by the same totals.    *)
(***************************************************************************)
EXTENDS AgentLaunchRegistry, Folds

CONSTANT MaxEvents   \* bound: the spine events of the whole history

ASSUME EventsAssumption == MaxEvents \in Nat

VARIABLES
    posted,     \* how many spine events the chain holds
    backlog,    \* those not indexed yet, oldest first
    agents,     \* Agent entities: agent id -> entity, NoEntity if absent
    stats       \* the PulseStats singleton

pulseVars == <<posted, backlog, agents, stats>>
allVars == <<vars, pulseVars>>

NoEntity == [exists |-> FALSE, operator |-> Zero, consentStatus |-> "", listed |-> FALSE,
             ensNode |-> NoNode, registeredOnly |-> FALSE, blessCount |-> 0, hireCount |-> 0,
             hiredAmount |-> 0]

\* newAgent: the defaults of an identity that was only registered
NewAgent == [NoEntity EXCEPT !.exists = TRUE, !.consentStatus = "paused",
                             !.registeredOnly = TRUE]

NoStats == [agents |-> 0, registered |-> 0, hires |-> 0, consentChanges |-> 0,
            blessings |-> 0, delists |-> 0, relists |-> 0, hiredAmount |-> 0]

PulseInit ==
    /\ Init
    /\ posted = 0
    /\ backlog = <<>>
    /\ agents = [a \in TokenIds |-> NoEntity]
    /\ stats = NoStats
----------------------------------------------------------------------------
\* the entity of e's agent becomes `entity`, and the counter `total` grows by one
Handled(e, entity, total) ==
    /\ agents' = [agents EXCEPT ![e.id] = entity]
    /\ stats' = [stats EXCEPT ![total] = @ + 1]

\* the handlers that change nothing in an agent they cannot load
IfLoaded(e, entity) == IF agents[e.id].exists THEN entity ELSE NoEntity

HandleRegistered(e) ==
    IF agents[e.id].exists
    THEN UNCHANGED <<agents, stats>>
    ELSE Handled(e, [NewAgent EXCEPT !.operator = e.who], "registered")

\* mutant: a bare registration becomes a launch without opening its window
LaunchedPaused(e) ==
    LET loaded == IF agents[e.id].exists THEN agents[e.id] ELSE NewAgent
    IN  Handled(e, [loaded EXCEPT !.operator = e.who, !.listed = TRUE,
                                  !.registeredOnly = FALSE], "agents")

HandleAgentLaunched(e) ==
    LET loaded == IF agents[e.id].exists THEN agents[e.id] ELSE NewAgent
    IN  Handled(e, [loaded EXCEPT !.operator = e.who, !.consentStatus = "active",
                                  !.listed = TRUE, !.registeredOnly = FALSE], "agents")

\* mutant: a withdrawn window is shown as paused
StatusNameTwoWay(s) == IF s = Active THEN "active" ELSE "paused"

\* statusName
StatusName(s) ==
    CASE s = Paused -> "paused" [] s = Withdrawn -> "withdrawn" [] OTHER -> "active"

HandleConsentChanged(e) ==
    Handled(e, IfLoaded(e, [agents[e.id] EXCEPT !.consentStatus = StatusName(e.what)]),
            "consentChanges")

HandleDelisted(e) ==
    Handled(e, IfLoaded(e, [agents[e.id] EXCEPT !.listed = FALSE]), "delists")

HandleRelisted(e) ==
    Handled(e, IfLoaded(e, [agents[e.id] EXCEPT !.listed = TRUE]), "relists")

HandleSubnameAssigned(e) ==
    /\ agents' = [agents EXCEPT ![e.id] = IfLoaded(e, [agents[e.id] EXCEPT !.ensNode = e.what])]
    /\ UNCHANGED stats

\* mutant: the agent counts its hires but not their amounts
HandleHiredCountOnly(e) ==
    /\ agents' = [agents EXCEPT ![e.id] = IfLoaded(e, [agents[e.id] EXCEPT !.hireCount = @ + 1])]
    /\ stats' = [stats EXCEPT !.hires = @ + 1, !.hiredAmount = @ + e.what]

HandleHired(e) ==
    /\ agents' = [agents EXCEPT ![e.id] =
                      IfLoaded(e, [agents[e.id] EXCEPT !.hireCount = @ + 1,
                                                       !.hiredAmount = @ + e.what])]
    /\ stats' = [stats EXCEPT !.hires = @ + 1, !.hiredAmount = @ + e.what]

HandleBlessed(e) ==
    Handled(e, IfLoaded(e, [agents[e.id] EXCEPT !.blessCount = @ + 1]), "blessings")
----------------------------------------------------------------------------
Transact ==
    /\ Next
    /\ posted' = posted + Len(emitted')
    /\ posted' <= MaxEvents
    /\ backlog' = backlog \o emitted'
    /\ UNCHANGED <<agents, stats>>

Index ==
    /\ backlog # <<>>
    /\ backlog' = Tail(backlog)
    /\ LET e == Head(backlog) IN
           \/ e.ev = "Registered" /\ HandleRegistered(e)
           \/ e.ev = "AgentLaunched" /\ HandleAgentLaunched(e)
           \/ e.ev = "ConsentChanged" /\ HandleConsentChanged(e)
           \/ e.ev = "Delisted" /\ HandleDelisted(e)
           \/ e.ev = "Relisted" /\ HandleRelisted(e)
           \/ e.ev = "SubnameAssigned" /\ HandleSubnameAssigned(e)
           \/ e.ev = "Hired" /\ HandleHired(e)
           \/ e.ev = "Blessed" /\ HandleBlessed(e)
    /\ UNCHANGED <<vars, posted>>

PulseNext == Transact \/ Index

\* graph-node keeps indexing; nobody has to send another transaction
PulseSpec == PulseInit /\ [][PulseNext]_allVars /\ WF_allVars(Index)
----------------------------------------------------------------------------
Entities == [exists : BOOLEAN, operator : Address \union {Zero},
             consentStatus : Windows \union {""}, listed : BOOLEAN,
             ensNode : Nodes \union {NoNode}, registeredOnly : BOOLEAN,
             blessCount : Nat, hireCount : Nat, hiredAmount : Nat]

PulseTypeOK ==
    /\ TypeOK
    /\ posted \in 0 .. MaxEvents
    /\ backlog \in Seq(Events)
    /\ agents \in [TokenIds -> Entities]
    /\ stats \in [DOMAIN NoStats -> Nat]

Pending(a) == {i \in DOMAIN backlog : backlog[i].id = a}

(***************************************************************************)
(* The events carry the whole public state of an agent: once every event of *)
(* a minted agent is indexed, its entity shows the status, the listing and  *)
(* the node of the record, however late the indexer was and whatever        *)
(* happened to the id before it was minted.                                 *)
(***************************************************************************)
PulseMirrorsRegistry ==
    \A a \in TokenIds : Minted(a) /\ Pending(a) = {} =>
        /\ agents[a].consentStatus = WindowText(records[a].consent)
        /\ agents[a].listed = records[a].listed
        /\ agents[a].ensNode = records[a].ensNode

\* the sum over all entities of one of their counters
Summed(field) == MapThenFoldSet(+, 0, LAMBDA a : agents[a][field], LAMBDA S : CHOOSE a \in S : TRUE, TokenIds)

(***************************************************************************)
(* The totals of PulseStats are the totals of the entities it shows: no     *)
(* hire and no blessing is counted for an agent the index does not have.    *)
(***************************************************************************)
TotalsAddUp ==
    /\ PulseTypeOK
    /\ Summed("hireCount") = stats.hires
    /\ Summed("hiredAmount") = stats.hiredAmount
    /\ Summed("blessCount") = stats.blessings

(***************************************************************************)
(* A withdrawal reaches the public feed: some time after a window is        *)
(* withdrawn its entity says so, even when the pad relists the agent before *)
(* the indexer gets there.                                                  *)
(***************************************************************************)
WithdrawalReachesPulse ==
    \A a \in TokenIds :
        Minted(a) /\ records[a].consent = Withdrawn ~> agents[a].consentStatus = "withdrawn"
=============================================================================
