------------------------------- MODULE MCSwap -------------------------------
EXTENDS BlessingSwap, TLC

CONSTANTS weth, dai, first, retuned, other, terri, blessing, secondBlessing

MCStrategies == {first, retuned, other}
MCPair == [s \in MCStrategies |-> {weth, dai}]
MCStewardOf == [s \in MCStrategies |-> terri]
MCBlessingOf == [s \in MCStrategies |-> IF s = other THEN secondBlessing ELSE blessing]
MCFeeOf == (first :> 0) @@ (retuned :> 4000) @@ (other :> 0)
MCGiftCalls == {[t \in {weth, dai} |-> amount] : amount \in {4, 9}}
MCTokenSymmetry == Permutations({weth, dai})
=============================================================================
