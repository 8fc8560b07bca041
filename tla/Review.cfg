CONSTANTS
    i1 = i1  i2 = i2  d1 = d1  d2 = d2
    a1 = a1  a2 = a2  s1 = s1  u1 = u1  x1 = x1  w1 = w1  w2 = w2
    Scenes = {"alone", "preemption", "same source", "automatic"}
    Items = {i1, i2}
    Commands = {a1, a2, s1, u1, x1}
    Workers = {w1, w2}
    Drafts = {d1, d2}
    Origin <- OriginByAuthor
    Source <- OneSource
    Revocable = {s1, u1}
    LegacyItems = {}
    LegacyDraft <- NoLegacyDraft
    None = None
    MaxPostVersion = 3
SPECIFICATION MCSpec
SYMMETRY Symmetric
INVARIANTS TypeOK RejectedStaysDraft UnfinishedInForce OneDraftPerSource DraftKeepsImages OpenMessageIsUndecided
PROPERTIES FinishedIsFinal ImplementsDecision
CHECK_DEADLOCK FALSE
