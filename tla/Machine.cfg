CONSTANTS
    Releases = {"1.0", "1.1"}
    MaxUpdates = 3
    Runs = {1, 2, 3}
    MaxPrepares = 3
    Workers = {w1, w2}
    FileCount = 3
    MaxBatch = 2
    MaxDownloads = 2
    MaxSignals = 3
    ChannelSize = 2
    Clients = {a, b, c}
    Handlers = {h1, h2}
    Rate = 1
    Burst = 2
    MaxBuckets = 2
    ForgetAfter = 2
    MaxDelay = 1
    MaxTime = 4
    MaxRequests = 5
SPECIFICATION Spec
INVARIANTS
    RateBounded
    RecoverableInstall
    OneInstallationId
    StoredPasswordsWork
    DownloadsAccounted
    RelayedOnce
PROPERTIES
    SignalsArrive
CHECK_DEADLOCK FALSE
