SPECIFICATION LaunchpadSpec
CONSTANTS
    Agents = {scribe, scout}
    NoAgent = NoAgent
    MaxFlows = 2
INVARIANTS
    LaunchpadTypeOK
    GateIsProbed
PROPERTIES
    WorkIsBlessed
    BlessingEnds
    ConsentScreenAnswers
