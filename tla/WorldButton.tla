---------------------------- MODULE WorldButton ----------------------------
(***************************************************************************)
(* The "verified human operator" button (verify.js) over its backend.  One   *)
(* start is a chain of promises: load the SDK, fetch the signed context,     *)
(* poll World for the human's proof, have the backend verify it.  A cancel   *)
(* aborts a poll only; the rest of a chain runs on, next to the chain of the *)
(* next start.  Others verify at the same backend.  World's answers are      *)
(* external; a fetch may hang for ever.                                     *)
(***************************************************************************)
EXTENDS WorldServer

CONSTANTS MaxStarts, MaxCancels     \* bounds: starts and cancels of a behaviour

Chains == 1 .. MaxStarts

ASSUME WorldAssumption ==
    /\ MaxStarts \in Nat /\ MaxCancels \in Nat
    /\ Chains \subseteq Callers /\ NoNullifier \notin Nullifiers /\ Inherited \subseteq Nullifiers

VARIABLES
    phase,      \* state
    chains,     \* chain -> [at, who: the proof it got, ctl: the controller of its poll];
                \* at "silent": it ended without a word
    starts,     \* the starts made; abort is the controller of the last one
    aborted,    \* the controllers aborted
    cancels,    \* calls of cancel
    vouched     \* history: World said that the human had proved before

worldVars == <<serverVars, phase, chains, starts, aborted, cancels, vouched>>
chainVars == <<starts, aborted, cancels, vouched>>

Rest == {"idle", "failed", "cancelled", "verified"}
\* where a chain can still move the button
AtWork == {"sdk", "rp", "poll", "verify"}
NoChain == [at |-> "unused", who |-> NoNullifier, ctl |-> 0]

WorldInit ==
    /\ WorldServerInit
    /\ phase = "idle" /\ starts = 0 /\ aborted = {} /\ cancels = 0 /\ vouched = FALSE
    /\ chains = [f \in Chains |-> NoChain]

\* emit: without force nothing follows a success
Emit(state) == phase' = IF phase = "verified" THEN phase ELSE state
Goes(f, place) == chains' = [chains EXCEPT ![f].at = place]
At(f, place) == f \in Chains /\ chains[f].at = place
----------------------------------------------------------------------------
Start ==
    /\ phase \in {"idle", "failed", "cancelled"} /\ starts < MaxStarts
    /\ phase' = "loading-sdk"
    /\ starts' = starts + 1
    /\ Goes(starts', "sdk")
    /\ UNCHANGED <<serverVars, aborted, cancels, vouched>>

SdkLoaded(f) ==
    /\ At(f, "sdk")
    /\ Emit("requesting-rp-context")
    /\ Goes(f, "rp")
    /\ UNCHANGED <<serverVars, chainVars>>

\* the poll is under the controller of the latest start, whichever chain it is of
RequestReady(f) ==
    /\ At(f, "rp")
    /\ phase' = "presenting"
    /\ chains' = [chains EXCEPT ![f].at = "poll", ![f].ctl = starts]
    /\ UNCHANGED <<serverVars, chainVars>>

\* what World's poll resolves with: a proof, a rejection, "proved before", an error;
\* the nullifier of a proof is a number
Proved(f, n) ==
    /\ At(f, "poll") /\ n \notin Inherited
    /\ phase' = "verifying"
    /\ chains' = [chains EXCEPT ![f].at = "verify", ![f].who = n]
    /\ UNCHANGED <<serverVars, chainVars>>

UserCancels(f) ==
    /\ At(f, "poll")
    /\ phase' = "cancelled"
    /\ Goes(f, "done")
    /\ UNCHANGED <<serverVars, chainVars>>

TerminalOk(f) ==
    /\ At(f, "poll")
    /\ phase' = "verified" /\ vouched' = TRUE
    /\ Goes(f, "done")
    /\ UNCHANGED <<serverVars, starts, aborted, cancels>>

\* mutant: the catch at the end of the chain keeps every error to itself
ThrowsQuietly(f) ==
    /\ f \in Chains /\ chains[f].at \in AtWork
    /\ Goes(f, "done")
    /\ UNCHANGED <<serverVars, phase, chainVars>>
\* fail: a script that does not load, a fetch that fails, an error or the timeout of the poll
Throws(f) ==
    /\ f \in Chains /\ chains[f].at \in AtWork
    /\ phase' = "failed"
    /\ Goes(f, "done")
    /\ UNCHANGED <<serverVars, chainVars>>

\* the error speaks of an abort: it is kept quiet, cancelled or not
ThrowsAbort(f) ==
    /\ f \in Chains /\ chains[f].at \in AtWork
    /\ Goes(f, "silent")
    /\ UNCHANGED <<serverVars, phase, chainVars>>

\* a poll whose controller is aborted resolves with "cancelled"
PollAborted(f) ==
    /\ chains[f].ctl \in aborted
    /\ UserCancels(f)

\* mutant: any answer of the backend is a success
VerdictOfAny(f) == IF verifies[f].at = "lost" THEN "failed" ELSE "verified"
VerdictOf(f) == IF verifies[f].at = "ok" THEN "verified" ELSE "failed"

BackendAnswers(f) ==
    /\ At(f, "verify") /\ verifies[f].at \in {"ok", "refused", "lost"}
    /\ phase' = VerdictOf(f)
    /\ Goes(f, "done")
    /\ UNCHANGED <<serverVars, chainVars>>

Cancel ==
    /\ cancels < MaxCancels
    /\ cancels' = cancels + 1
    /\ aborted' = aborted \union ({starts} \ {0})
    /\ phase' = "cancelled"
    /\ UNCHANGED <<serverVars, chains, starts, vouched>>
----------------------------------------------------------------------------
\* the request of a chain, or of a page elsewhere, reaches the backend
Received(c, n) ==
    /\ c \in Chains => At(c, "verify") /\ chains[c].who = n
    /\ RefusesRequest(c, n) \/ LoadsStore(c, n)

Backend ==
    \/ \E c \in Callers : \/ \E n \in Nullifiers : Received(c, n)
                          \/ PortalRefuses(c) \/ PortalAccepts(c) \/ SaveFails(c)
    \/ ServerDies

ChainStep(f) ==
    \/ SdkLoaded(f) \/ RequestReady(f)
    \/ (\E n \in Nullifiers : Proved(f, n))
    \/ UserCancels(f) \/ TerminalOk(f) \/ Throws(f) \/ ThrowsAbort(f) \/ PollAborted(f)
    \/ BackendAnswers(f)

WorldNext ==
    \/ Start \/ Cancel
    \/ \E f \in Chains : ChainStep(f)
    \/ Backend /\ UNCHANGED <<phase, chains, chainVars>>

WorldSpec == WorldInit /\ [][WorldNext]_worldVars
----------------------------------------------------------------------------
WorldTypeOK ==
    /\ WorldServerTypeOK
    /\ phase \in Rest \union {"loading-sdk", "requesting-rp-context", "presenting", "verifying"}
    /\ chains \in [Chains -> [at : AtWork \union {"unused", "done", "silent"},
                              who : Nullifiers \union {NoNullifier}, ctl : 0 .. MaxStarts]]
    /\ starts \in 0 .. MaxStarts /\ aborted \subseteq Chains
    /\ cancels \in 0 .. MaxCancels /\ vouched \in BOOLEAN

(***************************************************************************)
(* A green badge is earned: World said that the human proved before, or the  *)
(* backend answered ok to one of the button's own chains for a nullifier the *)
(* portal accepted.  It holds through cancels, restarts, two chains at once, *)
(* a file that lost entries to an overlap, and a backend that died.          *)
(***************************************************************************)
BadgeIsEarned ==
    /\ WorldTypeOK /\ FileIsProved
    /\ phase = "verified" =>
          \/ vouched
          \/ \E f \in Chains : verifies[f].at = "ok" /\ chains[f].who \in proved

(***************************************************************************)
(* A button that says "Verifying" ignores every click, so some chain must    *)
(* still be there to move it on: whatever was cancelled, started again and   *)
(* overlapped, none is only after an error that spoke of an abort, which the *)
(* catch at verify.js:234 keeps quiet.                                      *)
(***************************************************************************)
StuckOnlyInSilence ==
    phase \notin Rest => \E f \in Chains : chains[f].at \in AtWork \union {"silent"}
=============================================================================
