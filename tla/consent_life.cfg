SPECIFICATION ServerSpec
CONSTANTS
    s1 = s1
    s2 = s2
    t1 = t1
    t2 = t2
    scribe = scribe
    gift = gift
    Requests = {r1, r2}
    Sessions = {s1, s2}
    Agents = {scribe}
    NoAgent = NoAgent
    Actions = {gift}
    ScopeMap <- MCScopeMap
    Tokens = {t1, t2}
    NoToken = NoToken
    TokenExp <- MCTokenExp
    TokenNonce <- MCTokenNonce
    NoSession = NoSession
    Bindable = {t1, t2}
    SessionTTL = 1
    ClockSkew = 1
    BeginLimit = 0
    BeginWindow = 1
    MaxTime = 2
    MaxConsents = 2
    MaxResets = 0
    MaxDenials = 0
SYMMETRY MCSymmetry
PROPERTIES
    ImplementsLife
CHECK_DEADLOCK FALSE
