CONSTANTS
    p1 = p1  p2 = p2  i1 = i1  i2 = i2  c1 = c1  c2 = c2  w1 = w1  w2 = w2
    None = None
    Cleaner = Cleaner
    Scenes = {"one post"}
    Posts = {p1}
    Images = {i1}
    Cmds = {c1}
    Workers = {w1}
    Home <- HomeFirst
    Paged = {}
    Viewed = {}
    Slots <- OneSlot
    MaxVersion = 3
    MaxAttempts = 2
SPECIFICATION MCFairSpec
PROPERTIES WithdrawalEnds OrphanRemoved
CHECK_DEADLOCK FALSE
