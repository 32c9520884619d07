---------------------------- MODULE MCServices ----------------------------
(***************************************************************************)
(* The services and tools at the edge of the launchpad.  They share no      *)
(* state, so a behaviour runs one of them and leaves the others as they     *)
(* begin: what is explored is the sum of their behaviours, not the product. *)
(***************************************************************************)
EXTENDS PitIntake, PitClaims, WorldButton, IdkitGate, Screening, CohortDeploy, TLC

CONSTANTS pit, terri

VARIABLE service    \* the one that runs

MCLimit == [submit |-> -1, upload |-> 2, world |-> 1]
MCNeeds == (pit :> 5) @@ (terri :> 1)

ServicesInit ==
    /\ IntakeInit /\ ClaimsInit /\ WorldInit /\ IdkitInit /\ ScreeningInit /\ CohortInit
    /\ service \in {"intake", "claims", "world", "idkit", "screening", "cohort"}
    /\ service # "idkit" => ~mockProof
    /\ service # "cohort" => wallet = 0

ServicesNext ==
    \/ /\ service = "intake" /\ IntakeNext
       /\ UNCHANGED <<service, claimVars, worldVars, gateVars, screeningVars, cohortVars>>
    \/ /\ service = "claims" /\ ClaimsNext
       /\ UNCHANGED <<service, intakeVars, worldVars, gateVars, screeningVars, cohortVars>>
    \/ /\ service = "world" /\ WorldNext
       /\ UNCHANGED <<service, intakeVars, claimVars, gateVars, screeningVars, cohortVars>>
    \/ /\ service = "idkit" /\ IdkitNext
       /\ UNCHANGED <<service, intakeVars, claimVars, worldVars, screeningVars, cohortVars>>
    \/ /\ service = "screening" /\ ScreeningNext
       /\ UNCHANGED <<service, intakeVars, claimVars, worldVars, gateVars, cohortVars>>
    \/ /\ service = "cohort" /\ CohortNext
       /\ UNCHANGED <<service, intakeVars, claimVars, worldVars, gateVars, screeningVars>>

allVars == <<service, intakeVars, claimVars, worldVars, gateVars, screeningVars, cohortVars>>

ServicesSpec == ServicesInit /\ [][ServicesNext]_allVars
=============================================================================
