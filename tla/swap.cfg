SPECIFICATION SwapSpec
CONSTANTS
    weth = weth
    dai = dai
    first = first
    retuned = retuned
    other = other
    terri = terri
    blessing = blessing
    secondBlessing = secondBlessing
    Authorizer = authorizer
    Stranger = stranger
    Tokens = {weth, dai}
    Strategies <- MCStrategies
    Pair <- MCPair
    StewardOf <- MCStewardOf
    BlessingOf <- MCBlessingOf
    FeeOf <- MCFeeOf
    GiftCalls <- MCGiftCalls
    SwapAmounts = {2}
    Treasury = 4
    MaxSwaps = 2
    MaxHolding = 6
    Uint248 = 8
    MaxDepth = 2
INVARIANTS
    SwapTypeOK
    RecordMirrorsAqua
    StewardshipIsGranted
    GiftNeverShrinks
PROPERTY
    SwapsSettleAlive
SYMMETRY MCTokenSymmetry
CHECK_DEADLOCK FALSE
