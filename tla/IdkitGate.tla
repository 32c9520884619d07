----------------------------- MODULE IdkitGate -----------------------------
(***************************************************************************)
(* The IDKit gate in front of six agents: verify.mjs, the route that calls   *)
(* it and keeps the used nullifiers in memory, and the page that is told.    *)
(* A nullifier stands for one human and one action (the client may name any  *)
(* action); what World's portal says of a proof is external.  From the       *)
(* portal's answer to the nullifier being kept, the route only awaits        *)
(* promises already settled, so no other request runs in between.           *)
(***************************************************************************)
EXTENDS Integers

CONSTANTS
    Gated,          \* the agents
    Needs,          \* agent -> the assurance its credential has
    Levels,         \* the assurance of the credentials a proof may carry
    Marks, NoMark,  \* nullifiers, and a response that carries none
    Asks,           \* requests
    MaxRestarts     \* bound: restarts of the server

ASSUME GateAssumption ==
    /\ Gated # {} /\ Levels \subseteq Nat /\ Needs \in [Gated -> Nat]
    /\ NoMark \notin Marks /\ MaxRestarts \in Nat

VARIABLES
    mockProof,  \* the configuration: mock proofs, or World's portal
    asks,       \* request -> [at, agent, level, mark]
    used,       \* usedNullifiers
    allowed,    \* history: mark -> blessings allowed since the server started
    restarts

gateVars == <<mockProof, asks, used, allowed, restarts>>

\* denied, cancelled and expired are told apart by their wording only
Refusals == {"declined", "ineligible", "error"}
Places == {"unsent", "portal", "allow", "blessed", "unheard"} \union Refusals
SomeAgent == CHOOSE g \in Gated : TRUE
Unsent == [at |-> "unsent", agent |-> SomeAgent, level |-> 0, mark |-> NoMark]

IdkitInit ==
    /\ mockProof \in BOOLEAN
    /\ asks = [r \in Asks |-> Unsent]
    /\ used = {}
    /\ allowed = [k \in Marks |-> 0] /\ restarts = 0

Ask(place, g, l, k) == [at |-> place, agent |-> g, level |-> l, mark |-> k]
Refused(r) == \E outcome \in Refusals : asks' = [asks EXCEPT ![r] = [Unsent EXCEPT !.at = outcome]]
----------------------------------------------------------------------------
\* mutant: the replay guard is skipped for mock proofs
SeenByPortal(k) == k # NoMark /\ k \in used /\ ~mockProof
Seen(k) == k # NoMark /\ k \in used

\* the credential meets or exceeds what the agent needs, the nullifier is fresh or absent
Verdict(g, l, k) ==
    IF l < Needs[g] THEN "ineligible"
    ELSE IF Seen(k) THEN "error"
    ELSE "allow"

Decides(r, g, l, k) ==
    LET verdict == Verdict(g, l, k)
        kept == IF verdict = "allow" THEN {k} \ {NoMark} ELSE {}
    IN  /\ asks' = [asks EXCEPT ![r] =
              IF verdict = "allow" THEN Ask("allow", g, l, k) ELSE [Unsent EXCEPT !.at = verdict]]
        /\ used' = used \union kept
        /\ allowed' = [m \in Marks |-> allowed[m] + IF m \in kept THEN 1 ELSE 0]

\* the widget's own error, a malformed payload, a proof not bound to the signal or (mock)
\* for another action, a server without an rpId
RefusedAtOnce(r) ==
    /\ asks[r].at = "unsent"
    /\ Refused(r)
    /\ UNCHANGED <<mockProof, used, allowed, restarts>>

MockVerifies(r, g, l, k) ==
    /\ asks[r].at = "unsent" /\ mockProof
    /\ Decides(r, g, l, k)
    /\ UNCHANGED <<mockProof, restarts>>

Forwards(r, g, l, k) ==
    /\ asks[r].at = "unsent" /\ ~mockProof
    /\ asks' = [asks EXCEPT ![r] = Ask("portal", g, l, k)]
    /\ UNCHANGED <<mockProof, used, allowed, restarts>>

\* unreachable, not a success (classified), or a proof of another environment
PortalDeclines(r) ==
    /\ asks[r].at = "portal"
    /\ Refused(r)
    /\ UNCHANGED <<mockProof, used, allowed, restarts>>

PortalVouches(r) ==
    /\ asks[r].at = "portal"
    /\ Decides(r, asks[r].agent, asks[r].level, asks[r].mark)
    /\ UNCHANGED <<mockProof, restarts>>

\* the page hears of the blessing, or its fetch fails and the human is told it failed
Hears(r) ==
    /\ asks[r].at = "allow"
    /\ \E place \in {"blessed", "unheard"} : asks' = [asks EXCEPT ![r].at = place]
    /\ UNCHANGED <<mockProof, used, allowed, restarts>>

\* the human asks again from the same page
AsksAgain(r) ==
    /\ asks[r].at \in Refusals \union {"unheard"}
    /\ asks' = [asks EXCEPT ![r] = Unsent]
    /\ UNCHANGED <<mockProof, used, allowed, restarts>>

\* the set of used nullifiers dies with the server, the pages live on
Restarts ==
    /\ restarts < MaxRestarts
    /\ restarts' = restarts + 1
    /\ used' = {} /\ allowed' = [k \in Marks |-> 0]
    /\ asks' = [r \in Asks |->
          IF asks[r].at \in {"portal", "allow"} THEN [asks[r] EXCEPT !.at = "unheard"] ELSE asks[r]]
    /\ UNCHANGED <<mockProof>>

IdkitNext ==
    \/ Restarts
    \/ \E r \in Asks :
        \/ \E g \in Gated, l \in Levels, k \in Marks \union {NoMark} :
              MockVerifies(r, g, l, k) \/ Forwards(r, g, l, k)
        \/ RefusedAtOnce(r) \/ PortalDeclines(r) \/ PortalVouches(r) \/ Hears(r) \/ AsksAgain(r)

IdkitSpec == IdkitInit /\ [][IdkitNext]_gateVars
----------------------------------------------------------------------------
IdkitTypeOK ==
    /\ mockProof \in BOOLEAN /\ restarts \in 0 .. MaxRestarts
    /\ asks \in [Asks -> [at : Places, agent : Gated, level : Levels \union {0},
                          mark : Marks \union {NoMark}]]
    /\ used \subseteq Marks /\ allowed \in [Marks -> Nat]

(***************************************************************************)
(* "same human + same action must not pass twice" (verify.mjs:203): while    *)
(* the server lives a nullifier is allowed at most once, whatever requests   *)
(* are at the portal at once, heard or not and asked again; and whoever is   *)
(* blessed showed a credential good enough for the agent.                   *)
(***************************************************************************)
AllowedOnce ==
    /\ IdkitTypeOK
    /\ \A k \in Marks : allowed[k] <= 1 /\ (allowed[k] = 1 <=> k \in used)
    /\ \A r \in Asks : asks[r].at \in {"allow", "blessed"} => asks[r].level >= Needs[asks[r].agent]
=============================================================================
