SPECIFICATION MCSpec
CONSTANTS
    padder = padder
    alice = alice
    carol = carol
    ohana = ohana
    ohanaNode = ohanaNode
    padResolver = padResolver
    Address <- MCAddress
    Zero = Zero
    Owners = {alice}
    Deputies = {}
    MaxAgents = 1
    Labels = {l1}
    NoLabel = NoLabel
    Nodes = {ohanaNode}
    NoNode = NoNode
    Resolvers = {padResolver}
    Issuers = {ohana}
    NoIssuer = NoIssuer
    Namehash <- MCNamehash
    ResolverOf <- MCResolverOf
    Doors = {d1}
    NoDoor = NoDoor
    Hashes = {ZeroHash}
    ZeroHash = ZeroHash
    Uris = {u1}
    NoUri = NoUri
    Notes = {n1}
    NoNote = NoNote
    Pads = {padder}
    Rails = {carol}
    Lanes = {carol}
    Amounts = {2}
    Durations = {0}
    IssuerChoices = {ohana}
    Anchors = {ohanaNode}
    MaxEvents = 6
INVARIANTS
    PulseMirrorsRegistry
    TotalsAddUp
PROPERTIES
    WithdrawalReachesPulse
CHECK_DEADLOCK FALSE
