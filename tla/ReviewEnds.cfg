CONSTANTS
    i1 = i1  i2 = i2  d1 = d1  d2 = d2
    a1 = a1  a2 = a2  s1 = s1  u1 = u1  x1 = x1  w1 = w1  w2 = w2
    Scenes = {"any"}
    Items = {i1}
    Commands = {a1, s1}
    Workers = {w1}
    Drafts = {d1}
    Origin <- OriginByAuthor
    Source <- OneSource
    Revocable = {}
    LegacyItems = {}
    LegacyDraft <- NoLegacyDraft
    None = None
    MaxPostVersion = 2
SPECIFICATION MCFairSpec
PROPERTY CommandEnds
CHECK_DEADLOCK FALSE
