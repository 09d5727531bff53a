CONSTANTS
    q1 = q1
    q2 = q2
    u1 = u1
    u2 = u2
    c1 = c1
    c2 = c2
    c3 = c3
    k1 = k1
    None = None
    Absent = Absent
    Requests = {q1, q2}
    Lead = q1
    Users = {u1, u2}
    Owner = u1
    Contents <- SomeContents
    Versions <- SomeVersions
    Types = {"wav", "webm", "other"}
    MaxBytes = 2
    Ttls = {1}
    MaxSkew = 1
    MaxTokens = 2
    MaxConfigs = 1
    MaxClock = 2
    Hosts = {"a", "local"}
    LocalHosts = {"local"}
    Addresses = {1, 2}
    PublicAddresses = {1}
    MaxRedirects = 1
    MaxSize = 2
    Recordings <- SomeRecordings
    Submissions <- AllSubmissions
    Uploads <- SomeUploads
    MaxUpload = 2
    MaxDuration = 3
    MaxCandidates = 2
    MediaTypes = {"wav", "ogg", "mp3"}
    Calls = {c1, c2, c3}
    Queries = {k1}
    Transcripts <- SomeTranscripts
    Outputs <- SomeOutputs
    Taxonomy <- SomeTaxonomy
    Weights <- SomeWeights
    Severity <- SomeSeverity
    ReviewConfidence = 50
    RoleConfidence = 50
    MinSample = 2
    MaxRecords = 3
    MaxWindow = 2
    AssistantWindow = 2
    Topics = {"cards", "loans", "other"}
    MaxNow = 3
CHECK_DEADLOCK FALSE
SPECIFICATION Spec
INVARIANTS
    SentIsVerified
    TokenDiscipline
    OnlyCheckedHosts
    
    TrendBacked
    FaultsAreTold
