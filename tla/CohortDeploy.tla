---------------------------- MODULE CohortDeploy ----------------------------
(***************************************************************************)
(* The launcher of a cohort of tokens (deploy-cohort.mjs): a preflight and   *)
(* the FET gate, one record after another at the platform, the ledger at the *)
(* end.  A human pays for each record by its link, also while the run is     *)
(* still creating, and uses the wallet for other things.  The platform and   *)
(* the chain are external; a run may be interrupted anywhere.               *)
(***************************************************************************)
EXTENDS Integers, FiniteSets

CONSTANTS
    Planned,        \* tokens of the cohort file, in order: 1 .. Planned
    Fee, Buffer,    \* FET
    MaxFet,         \* bound: FET in the wallet
    MaxRecords      \* bound: records of a behaviour

ASSUME CohortAssumption ==
    /\ Planned \in Nat /\ Fee \in Nat /\ Buffer \in Nat /\ MaxFet \in Nat /\ MaxRecords \in Nat

Symbols == 1 .. Planned
Ids == 1 .. MaxRecords

VARIABLES
    wallet,     \* the deployer's FET
    deploy,     \* the run: [at, tokens, next, ledger, astray: FET left for something else]
    records,    \* record -> its symbol, 0 while there is none
    ofRun,      \* the records the run has printed a link for
    ledger,     \* deployments/bsc.json: symbol -> record, 0 for none
    paidFor,    \* the records the human has deployed
    unheard     \* history: records whose creation no ledger was told of

cohortVars == <<wallet, deploy, records, ofRun, ledger, paidFor, unheard>>

NoLedger == [s \in Symbols |-> 0]
NoRun == [at |-> "none", tokens |-> 0, next |-> 1, ledger |-> NoLedger, astray |-> FALSE]

CohortInit ==
    /\ wallet \in 0 .. MaxFet
    /\ deploy = NoRun
    /\ records = [r \in Ids |-> 0]
    /\ ofRun = {} /\ ledger = NoLedger /\ paidFor = {} /\ unheard = {}
----------------------------------------------------------------------------
\* mutant: the gate counts the tokens after the one at hand
RequiredAfter(tokens, i) == (tokens - i) * Fee + Buffer
Required(tokens, i) == (tokens - i + 1) * Fee + Buffer

\* every row of the preview passes; a dry run and an aborted run end here
Preflight(tokens) ==
    /\ deploy.at = "none"
    /\ \A i \in 1 .. tokens : wallet >= Required(tokens, i)
    /\ deploy' = [NoRun EXCEPT !.at = "creating", !.tokens = tokens, !.ledger = ledger]
    /\ ofRun' = {}
    /\ UNCHANGED <<wallet, records, ledger, paidFor, unheard>>

NewRecord(r) == records[r] = 0 /\ \A q \in 1 .. r - 1 : records[q] # 0

Creates(r) ==
    /\ deploy.at = "creating" /\ deploy.next <= deploy.tokens /\ NewRecord(r)
    /\ records' = [records EXCEPT ![r] = deploy.next]
    /\ deploy' = [deploy EXCEPT !.next = @ + 1, !.ledger[deploy.next] = r]
    /\ ofRun' = ofRun \union {r}
    /\ UNCHANGED <<wallet, ledger, paidFor, unheard>>

\* the call throws; the platform may have created the record
CreateThrows(r) ==
    /\ deploy.at = "creating" /\ deploy.next <= deploy.tokens /\ NewRecord(r)
    /\ \/ UNCHANGED <<records, unheard>>
       \/ records' = [records EXCEPT ![r] = deploy.next] /\ unheard' = unheard \union {r}
    /\ deploy' = [deploy EXCEPT !.next = @ + 1]
    /\ UNCHANGED <<wallet, ofRun, ledger, paidFor>>

WritesLedger ==
    /\ deploy.at = "creating" /\ deploy.next > deploy.tokens
    /\ ledger' = deploy.ledger
    /\ deploy' = NoRun /\ ofRun' = {}
    /\ UNCHANGED <<wallet, records, paidFor, unheard>>

Interrupted ==
    /\ deploy.at = "creating"
    /\ deploy' = NoRun /\ ofRun' = {}
    /\ unheard' = unheard \union ofRun
    /\ UNCHANGED <<wallet, records, ledger, paidFor>>

\* the human opens a link: approve and deploy
HandsOff(r) ==
    /\ records[r] # 0 /\ r \notin paidFor /\ wallet >= Fee
    /\ wallet' = wallet - Fee
    /\ paidFor' = paidFor \union {r}
    /\ deploy' = [deploy EXCEPT !.astray = @ \/ (deploy.at = "creating" /\ r \notin ofRun)]
    /\ UNCHANGED <<records, ofRun, ledger, unheard>>

\* FET comes to the wallet, or leaves it for something else
Moves(fet) ==
    /\ fet \in 0 .. MaxFet /\ fet # wallet
    /\ wallet' = fet
    /\ deploy' = [deploy EXCEPT !.astray = @ \/ (deploy.at = "creating" /\ fet < wallet)]
    /\ UNCHANGED <<records, ofRun, ledger, paidFor, unheard>>

CohortNext ==
    \/ \E tokens \in Symbols : Preflight(tokens)
    \/ \E r \in Ids : Creates(r) \/ CreateThrows(r) \/ HandsOff(r)
    \/ WritesLedger \/ Interrupted
    \/ \E fet \in 0 .. MaxFet : Moves(fet)

CohortSpec == CohortInit /\ [][CohortNext]_cohortVars
----------------------------------------------------------------------------
CohortTypeOK ==
    /\ wallet \in 0 .. MaxFet
    /\ deploy \in [at : {"none", "creating"}, tokens : 0 .. Planned, next : 1 .. Planned + 1,
                   ledger : [Symbols -> 0 .. MaxRecords], astray : BOOLEAN]
    /\ records \in [Ids -> 0 .. Planned] /\ ledger \in [Symbols -> 0 .. MaxRecords]
    /\ ofRun \subseteq Ids /\ paidFor \subseteq Ids /\ unheard \subseteq Ids

\* what a ledger says of a symbol is a record of it; what it leaves out is in progress, was
\* never heard of, or gave way to a newer record of its symbol
Covers(book, inProgress) ==
    /\ \A s \in Symbols : book[s] # 0 => records[book[s]] = s
    /\ \A r \in Ids : records[r] # 0 /\ r \notin unheard \union inProgress => book[records[r]] >= r

(***************************************************************************)
(* "the gate math above remains correct" (deploy-cohort.mjs:199-201) even    *)
(* when links are paid during the run: unless FET left for something else,   *)
(* the wallet holds the fee of every token of the run not paid yet, and the  *)
(* buffer.  And both ledgers tell the truth about the records.              *)
(***************************************************************************)
RunIsCovered ==
    /\ CohortTypeOK
    /\ deploy.at = "creating" /\ ~deploy.astray =>
          wallet >= (deploy.tokens - Cardinality(ofRun \intersect paidFor)) * Fee + Buffer
    /\ Covers(ledger, ofRun)
    /\ deploy.at = "creating" => Covers(deploy.ledger, {})
=============================================================================
