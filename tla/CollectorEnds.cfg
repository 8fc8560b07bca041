CONSTANTS
    w1 = w1  w2 = w2  c1 = c1  NoUrl = NoUrl  NoSite = NoSite
    Scenes = {"run", "inputs", "two messages", "delivery"}
    Mode = "COLLECT"
    MaxVersion = 4
    QueueUrls = {u1, u2}
    QueueWorkers = {w1}
    QueueRequests = 1
    QueueTime = 3
    QueueDeaths = 1
    ScanSlots = 1
    ScanDeaths = 1
    Dying = FALSE
    Waking = FALSE
SPECIFICATION FairSpec
PROPERTIES RunEnds QueueMoves ScanEnds Removed
CHECK_DEADLOCK FALSE
