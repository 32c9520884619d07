SPECIFICATION LaunchpadSpec
CONSTANTS
    Agents = {scribe, scout}
    NoAgent = NoAgent
    MaxFlows = 2
INVARIANT ChipsAreTheCards
