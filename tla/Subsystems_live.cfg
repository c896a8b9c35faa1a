SPECIFICATION SubsystemsSpec
CONSTANTS
    Channels = {"c1"}
    Configured = {"c1"}
    AskedTypes = {0, 96}
    MaxSessions = 2
    MaxInbox = 1
    Profiles = {"p1", "p2"}
    ProfileSource <- MCProfileSource
    ProcCalls = {"a", "b"}
    YoloProbes = {"h"}
    LlamaEnabled = TRUE
    YoloEnabled = TRUE
    VlmHandlers = {"a", "b"}
    VlmMaxLimit = 1
    MaxLlamaNodes = 1
    HistoryMax = 1
    MaxVlmTasks = 2
    PushConns = {"c"}
    PushRounds = 2
    VlmResults = {"v"}
    YoloNodes = 2
    YoloRequests = {"a", "b"}
    IndexPeriod = 2
    MaxFails = 2
    MaxPicks = 3
    GwTasks = {"t1", "t2"}
    DedupKeys = {"k1"}
    WorkNodes = {"n1"}
    MaxQueueSize = 1
    ExecMax = 1
    TaskRetries = 2
    SchedRetries = 1
    PerNode = 1
    OwnTasks = {"t1"}
    CacheKeys = {"k1", "k2", "k3"}
    CacheReaders = {"r"}
    CacheMax = 2
    TrackedTasks = {"t1", "t2"}
    TrackedNodes = {"n1", "n2"}
    MaxStarts = 2
    HistorySize = 1
    DetailsMax = 1
    HubClients = {"m", "f"}
    HubChannels = {"k1"}
    ClientChannel <- MCClientChannel
    SendBuffer = 1
    QueueSize = 1
    OwlUsers = {"u1", "u2"}
    c1 = c1
    c2 = c2
    OwlChannels = {c1, c2}
    OwlPlayed = {c1}
    OwlFirstList <- MCOwlFirstList
    OwlCalls <- MCOwlCalls
    OwlRestarts = 1
    OwlMaxPages = 2
    TrkCameras = {"A", "B"}
    TrkObjects = {"o1", "o2", "o3"}
    ObjectCamera <- MCObjectCamera
    ObjectBox <- MCObjectBox
    FrameWidth = 0
    TrackBuffer = 2
    MaxTrackId = 5
    MaxJunk = 1
    IndexTasks = {"t1", "t2"}
    Thumbnails = {"a", "b"}
    Uploads = {"u1", "u2"}
    BatchOf <- MCBatchOf
    MaxBackfills = 1
    Detections = {"r1", "r2", "r3"}
    HttpThreads = 2
    PreThreads = {"p1", "p2"}
    PreMax = 1
    YoloWorkers = {"w1"}
INVARIANTS
    SubsystemsTypeOK
    ClosedOnceUntilStop
    CountersHold
    AnswersHold
    BatchesAreWhole
    NothingHangs
    DetectorOutlivesRequests
PROPERTIES
    StoppedMediaEnds
    StopReapsChildren
    SignalEndsWebUi
    FlagFollowsYolo
    WorkIsBounded
    IsolatedKeepsId
CHECK_DEADLOCK FALSE
