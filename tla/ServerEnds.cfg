CONSTANTS
    i1 = i1  i2 = i2  i3 = i3  u1 = u1  u2 = u2  w1 = w1  w2 = w2
    p1 = p1  j1 = j1  j2 = j2
    e1 = e1  e2 = e2  e3 = e3  k1 = k1  k2 = k2  s1 = s1  s2 = s2
    x1 = x1  x2 = x2  c1 = c1  r1 = r1  r2 = r2
    None = None
    Scenes = {"collected image", "schedule", "alerts", "updating", "legacy", "dropped", "purge"}
    Uploads = {u1, u2}
    StagedImages = {i1, i2, i3}
    UploadOf <- OneOfEach
    Collected = {u1}
    StagingWorkers = {w1}
    StagingAttempts = 1
    Posts = {p1}
    ScheduleJobs = {j1}
    ScheduleTime = 2
    ScheduleVersions = 4
    ScheduleFailures = 2
    Editors = {e1, e2, e3}
    EditorKind <- TwoEditACreation
    Slots = {s1, s2}
    CommandKeys = {k1}
    CommandVersions = 3
    Executions = {x1, x2}
    Collectors = {c1}
    ExecutionOwner <- OneCollector
    SpringMode = TRUE
    CandidateKeys = 2
    CandidateVersions = 4
    CandidateClaims = 3
    RetentionRuns = 2
    RetentionWorkers = {r1}
    RetentionDeaths = 1
SPECIFICATION FairSpec
PROPERTIES CollectedGoes ScheduleEnds OutcomeIsLearnt CandidateEnds InTheEndGone
CHECK_DEADLOCK FALSE
