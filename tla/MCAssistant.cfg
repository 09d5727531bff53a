CONSTANTS
    capabilities = capabilities
    trends = trends
    unknown = unknown
    None = None
    Indexes <- TwoIndexes
    CallIds <- TwoIds
    Names <- AnyName
    Finishes <- AnyFinish
    Tools <- TwoTools
    Trends = trends
    PublicTools <- TwoTools
    MaxEvents = 8
    MaxTurns = 2
    MaxToolCalls = 3
    MaxRepeated = 2
    MaxExpensive = 1
    MaxOutput = 3
    MaxAnswer = 2
SPECIFICATION FairSpec
INVARIANTS
    PublishedStream
    ToolsBounded
PROPERTY HarnessEnds
