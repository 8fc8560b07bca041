CONSTANTS
    w1 = w1  w2 = w2  c1 = c1  NoUrl = NoUrl  NoSite = NoSite
    Scenes = {"run", "settings", "processes"}
    Mode = "COLLECT"
    MaxVersion = 5
    QueueUrls = {u1}
    QueueWorkers = {w1, w2}
    QueueRequests = 2
    QueueTime = 3
    QueueDeaths = 1
    ScanSlots = 1
    ScanDeaths = 0
    Dying = FALSE
    Waking = FALSE
SPECIFICATION SceneSpec
VIEW Moving
PROPERTIES RunSound QueueSound
CHECK_DEADLOCK FALSE
