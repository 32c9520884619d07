---------------------------- MODULE WorldServer ----------------------------
(***************************************************************************)
(* POST /api/world/verify of the World ID verifier's backend (server.mjs)    *)
(* and its file of nullifiers.  The file is read before the developer portal *)
(* is asked and written whole after it answered; requests overlap there, and *)
(* the process can die, or a write be cut short, which empties the file.     *)
(* What the portal decides is external.                                     *)
(***************************************************************************)
EXTENDS Integers, FiniteSets

CONSTANTS
    Nullifiers,     \* one for each human and action, in lower case
    Inherited,      \* the ones every plain object has a property for, as "constructor"
    Callers,        \* the requests to verify
    NoNullifier

VARIABLES
    onFile,     \* nullifiers.json
    verifies,   \* request -> [at, who, store: what loadStore gave it]
    proved      \* history: the nullifiers the portal accepted

serverVars == <<onFile, verifies, proved>>

NoVerify == [at |-> "none", who |-> NoNullifier, store |-> {}]

WorldServerInit ==
    /\ onFile = {}
    /\ verifies = [c \in Callers |-> NoVerify]
    /\ proved = {}

\* store[primaryNullifier]
OnRecord(n) == n \in onFile \union Inherited

Answered(c, answer) == verifies' = [verifies EXCEPT ![c].at = answer]
----------------------------------------------------------------------------
\* not configured, malformed, or for another action
RefusesRequest(c, n) ==
    /\ verifies[c].at = "none"
    /\ verifies' = [verifies EXCEPT ![c] = [NoVerify EXCEPT !.at = "refused", !.who = n]]
    /\ UNCHANGED <<onFile, proved>>

\* a nullifier on file is answered ok without the portal
LoadsStore(c, n) ==
    /\ verifies[c].at = "none"
    /\ verifies' = [verifies EXCEPT ![c] =
          [at |-> IF OnRecord(n) THEN "ok" ELSE "portal", who |-> n, store |-> onFile]]
    /\ UNCHANGED <<onFile, proved>>

\* an HTTP error, success: false, or no answer
PortalRefuses(c) ==
    /\ verifies[c].at = "portal"
    /\ Answered(c, "refused")
    /\ UNCHANGED <<onFile, proved>>

\* the store of before the call, with the nullifier, becomes the file
PortalAccepts(c) ==
    /\ verifies[c].at = "portal"
    /\ proved' = proved \union {verifies[c].who}
    /\ onFile' = verifies[c].store \union {verifies[c].who}
    /\ Answered(c, "ok")

\* the write throws (answered 500), the file as it was or cut short
SaveFails(c) ==
    /\ verifies[c].at = "portal"
    /\ proved' = proved \union {verifies[c].who}
    /\ onFile' \in {onFile, {}}
    /\ Answered(c, "refused")

\* the process dies, in a write or not: no request under way is answered
ServerDies ==
    /\ \E c \in Callers : verifies[c].at = "portal"
    /\ onFile' \in {onFile, {}}
    /\ verifies' = [c \in Callers |->
          IF verifies[c].at = "portal" THEN [verifies[c] EXCEPT !.at = "lost"] ELSE verifies[c]]
    /\ UNCHANGED proved
----------------------------------------------------------------------------
WorldServerTypeOK ==
    /\ onFile \subseteq Nullifiers /\ proved \subseteq Nullifiers
    /\ verifies \in [Callers -> [at : {"none", "portal", "ok", "refused", "lost"},
                                 who : Nullifiers \union {NoNullifier}, store : SUBSET Nullifiers]]

\* the file and the answers vouch only for what the portal accepted, or an object inherits
FileIsProved ==
    /\ onFile \subseteq proved
    /\ \A c \in Callers : /\ verifies[c].store \subseteq proved
                          /\ verifies[c].at = "ok" => verifies[c].who \in proved \union Inherited
=============================================================================
