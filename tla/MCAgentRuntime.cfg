CONSTANTS
    policy = policy
    history = history
    submit = submit
    foreign = foreign
    ReadTools <- TwoReaders
    Required <- RequiredTool
    SubmitTool = submit
    ForeignTools <- OneForeign
    CallIds <- FourIds
    MaxTurns = 3
    MaxToolCalls = 4
    MaxRepeated = 2
    MaxCalls = 2
SPECIFICATION FairSpec
INVARIANTS
    SubmitOnRetrieved
    SubmitIsLast
    NothingAfterTheEnd
    CallsAccounted
PROPERTY ContractSpec
