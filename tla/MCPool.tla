------------------------------- MODULE MCPool -------------------------------
EXTENDS BlessingPool, TLC

CONSTANTS weth, dai, wageA, wageB, terri, tai

MCPair == [s \in {wageA, wageB} |-> {weth, dai}]
MCAgentOf == (wageA :> terri) @@ (wageB :> tai)

\* the tokens are alike, and so are the positions, each with its agent
PositionSwap == (wageA :> wageB) @@ (wageB :> wageA) @@ (terri :> tai) @@ (tai :> terri)
MCSymmetry == Permutations({weth, dai}) \union {PositionSwap}

\* nothing depends on what was paid: ImplementsGift looks at it in the step that pays
MCView == <<aquaVars, active, newest>>
=============================================================================
