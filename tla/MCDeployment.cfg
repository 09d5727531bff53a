CONSTANTS
    m1 = m1
    m2 = m2
    r1 = r1
    h1 = h1
    h2 = h2
    nobody = nobody
    i1 = i1
    i2 = i2
    earlier = earlier
    Runs = {r1}
    Hashes = {h1, h2}
    Migrators = {m1, m2}
    Nobody = nobody
    MaxEvents = 2
    MaxFaults = 1
    Components = {"asr", "diarization"}
    Gated = {"diarization"}
    Invocations = {i1, i2}
    Earlier = earlier
SPECIFICATION DeploymentSpec
SYMMETRY Interchangeable
PROPERTIES
    MigrationWhole
    PublishedIsVerified
CHECK_DEADLOCK FALSE
