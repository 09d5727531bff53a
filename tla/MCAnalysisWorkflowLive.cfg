\* Every run is over in the end.
CONSTANTS
    r1 = r1
    r2 = r2
    classifier = classifier
    quality = quality
    compliance = compliance
    req = req
    Runs <- OneRun
    Agents <- ThreeAgents
    Requests <- OneRequest
    RequestOf <- SameRequestId
    SpeechErrors <- SpeechTimeout
    AgentErrors <- TwoErrors
SPECIFICATION FairSpec
PROPERTY LedgerSpec
CHECK_DEADLOCK FALSE
