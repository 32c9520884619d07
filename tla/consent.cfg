SPECIFICATION ServerSpec
CONSTANTS
    s1 = s1
    s2 = s2
    t1 = t1
    t2 = t2
    scribe = scribe
    gift = gift
    Requests = {r1, r2}
    Sessions = {s1, s2}
    Agents = {scribe}
    NoAgent = NoAgent
    Actions = {gift}
    ScopeMap <- MCNoScopes
    Tokens = {t1, t2}
    NoToken = NoToken
    TokenExp <- MCTokenExp
    TokenNonce <- MCTokenNonce
    NoSession = NoSession
    Bindable = {t1, t2}
    SessionTTL = 0
    ClockSkew = 0
    BeginLimit = 1
    BeginWindow = 1
    MaxTime = 1
    MaxConsents = 2
    MaxResets = 1
    MaxDenials = 1
SYMMETRY MCSymmetry
VIEW MCView
INVARIANTS
    ServerTypeOK
    TokenMintsOnce
    LedgerAccounts
    BeginsBounded
PROPERTIES
    RevokedIsFinal
CHECK_DEADLOCK FALSE
