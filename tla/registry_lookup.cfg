SPECIFICATION MCSpec
CONSTANTS
    padder = padder
    alice = alice
    bob = bob
    carol = carol
    ohana = ohana
    kapua = kapua
    ohanaNode = ohanaNode
    kapuaNode = kapuaNode
    padResolver = padResolver
    Address <- MCAddress
    Zero = Zero
    Owners = {alice, bob}
    Deputies = {carol}
    MaxAgents = 2
    Labels = {l1}
    NoLabel = NoLabel
    Nodes = {ohanaNode, kapuaNode}
    NoNode = NoNode
    Resolvers = {padResolver}
    Issuers = {ohana, kapua}
    NoIssuer = NoIssuer
    Namehash <- MCNamehash
    ResolverOf <- MCResolverOf
    Doors = {d1}
    NoDoor = NoDoor
    Hashes = {ZeroHash}
    ZeroHash = ZeroHash
    Uris = {u1}
    NoUri = NoUri
    Notes = {}
    NoNote = NoNote
    Pads = {}
    Rails = {}
    Lanes = {}
    Amounts = {}
    Durations = {60}
    IssuerChoices = {ohana, kapua}
    Anchors = {}
SYMMETRY MCSymmetry
VIEW MCView
INVARIANT
    LookupMirrorsRegistry
CHECK_DEADLOCK FALSE
