CONSTANTS
    Connections = {c1, c2}
    c1 = c1
    c2 = c2
    Hypotheses <- SomeTexts
    Window = 2
    Step = 1
    MaxCalls = 2
    MaxAudio = 3
    MaxRolling = 1
    ServiceSlots = 1
    PcmFrames <- OnePcm
    OggFrames <- SomeOgg
    Loads <- SomeLoads
    MaxSessions = 1
    MaxUpdates = 4
SPECIFICATION FairSpec
INVARIANTS
    FaithfulTranscript
    LimitsHold
    DecoderLetGo
PROPERTY EverythingEnds
