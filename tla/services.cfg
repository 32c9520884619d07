SPECIFICATION ServicesSpec
CONSTANTS
    Pits = {live, gard}
    NoPit = NoPit
    Cap = 2
    Limit <- MCLimit
    Workers = {w1, w2}
    MaxEntries = 3
    Humans = {h1, h2}
    NoHuman = NoHuman
    Claims = {c1, c2}
    MaxTxs = 3
    Nullifiers = {n1, n2, constructor}
    Inherited = {constructor}
    NoNullifier = NoNullifier
    Callers = {1, 2, 3}
    MaxStarts = 2
    MaxCancels = 1
    pit = pit
    terri = terri
    Gated = {pit, terri}
    Needs <- MCNeeds
    Levels = {1, 5}
    Marks = {k1, k2}
    NoMark = NoMark
    Asks = {r1, r2}
    MaxRestarts = 1
    Scores = {0, 14, 15, 40, 70}
    Amounts = {0, 1, 3, 5}
    RefuseScore = 70
    AskScore = 40
    CapScore = 15
    AskAbove = 4
    CapAmount = NoNumber
    CapPercent = 90
    Millionth = 4
    NoNumber = NoNumber
    Planned = 2
    Fee = 2
    Buffer = 1
    MaxFet = 6
    MaxRecords = 3
INVARIANTS
    ListedClipsAreStored
    FeedIsHonest
    ClaimsAreHonest
    BadgeIsEarned
    StuckOnlyInSilence
    AllowedOnce
    RiskNeverRelaxes
    RunIsCovered
CHECK_DEADLOCK FALSE
