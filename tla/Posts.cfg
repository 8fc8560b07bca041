CONSTANTS
    p1 = p1  p2 = p2  i1 = i1  i2 = i2  c1 = c1  c2 = c2  w1 = w1  w2 = w2
    None = None
    Cleaner = Cleaner
    Scenes = {"withdrawals", "requests", "orphans", "two images", "pages"}
    Posts = {p1, p2}
    Images = {i1, i2}
    Cmds = {c1, c2}
    Workers = {w1, w2}
    Home <- HomeFirst
    Paged = {p2}
    Viewed = {p1}
    Slots <- TwoSlots
    MaxVersion = 5
    MaxAttempts = 2
SPECIFICATION MCSpec
SYMMETRY Symmetric
INVARIANTS TypeOK PublishedServable WithdrawalNotForgotten StalePagePurged StorageDiscipline OriginalKept
PROPERTY WithdrawnIsGone
CHECK_DEADLOCK FALSE
