\* The runs are over in the end, and then nothing moves.
CONSTANTS
    r1 = r1
    r2 = r2
    classifier = classifier
    quality = quality
    compliance = compliance
    req = req
    Runs <- TwoRuns
    Agents <- TwoAgents
    Requests <- OneRequest
    RequestOf <- SameRequestId
    SpeechErrors <- SpeechTimeout
    AgentErrors <- TwoErrors
SPECIFICATION Spec
SYMMETRY WorkflowSymmetry
INVARIANTS
    StoredWhole
    StoredChainIsFinal
    NoPartialAnalysis
    AnswerMatchesRecord
PROPERTY
    LedgerSafety
CHECK_DEADLOCK FALSE
