CONSTANTS
    w1 = w1  w2 = w2  c1 = c1  NoUrl = NoUrl  NoSite = NoSite
    Scenes = {"one message", "two messages", "votes", "delivery"}
    Mode = "COLLECT"
    MaxVersion = 4
    QueueUrls = {}
    QueueWorkers = {}
    QueueRequests = 0
    QueueTime = 3
    QueueDeaths = 0
    ScanSlots = 2
    ScanDeaths = 1
    Dying = TRUE
    Waking = TRUE
SPECIFICATION SceneSpec
VIEW Moving
PROPERTIES ScanSound VoteSound DeliverySound
CHECK_DEADLOCK FALSE
