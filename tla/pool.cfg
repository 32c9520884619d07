SPECIFICATION PoolSpec
CONSTANTS
    weth = weth
    dai = dai
    wageA = wageA
    wageB = wageB
    terri = terri
    tai = tai
    Authorizer = authorizer
    Stranger = stranger
    Tokens = {weth, dai}
    Strategies = {wageA, wageB}
    Pair <- MCPair
    AgentOf <- MCAgentOf
    BlessAmounts = {0, 1, 2, 5}
    MaxAmount = 2
    Uint248 = 4
    Treasury = 2
    MaxHolding = 3
INVARIANTS
    PoolTypeOK
    RecordMirrorsAqua
    ApprovalWithinBlessing
PROPERTY
    ImplementsGift
VIEW MCView
SYMMETRY MCSymmetry
CHECK_DEADLOCK FALSE
