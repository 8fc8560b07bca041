CONSTANTS
    w1 = w1  w2 = w2  c1 = c1  NoUrl = NoUrl  NoSite = NoSite
    Scenes = {"run"}
    Mode = "PREVIEW_REFRESH"
    MaxVersion = 5
    QueueUrls = {}
    QueueWorkers = {}
    QueueRequests = 0
    QueueTime = 3
    QueueDeaths = 0
    ScanSlots = 1
    ScanDeaths = 0
    Dying = FALSE
    Waking = FALSE
SPECIFICATION SceneSpec
VIEW Moving
PROPERTIES RunSound
CHECK_DEADLOCK FALSE
