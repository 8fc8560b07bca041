SPECIFICATION MCFreeSpec
CONSTANTS
    p1 = p1
    p2 = p2
    i1 = i1
    i2 = i2
    c1 = c1
    c2 = c2
    w1 = w1
    w2 = w2
    None = None
    Scenes = {"any"}
    Cleaner = Cleaner
    Posts = {p1, p2}
    Images = {i1}
    Cmds = {c1}
    Workers = {w1}
    Home <- HomeAny
    Paged = {}
    Viewed = {}
    Slots <- Compensations
    MaxVersion = 4
    MaxAttempts = 1
INVARIANT PublishedServable
CHECK_DEADLOCK FALSE
CONSTRAINT DraftsAndPublications
