------------------------------- MODULE Server -------------------------------
(***************************************************************************)
(* Five parts of the API server and its workers side by side.              *)
(* They share no state: each step is a step of one of them.  What is       *)
(* proved of a part by itself holds of it here, for all values of the      *)
(* constants.                                                              *)
(***************************************************************************)
EXTENDS TLAPS

CONSTANTS
    None,
    Uploads, StagedImages, UploadOf, Collected, StagingWorkers, StagingAttempts,  \* ImageStaging
    Posts, ScheduleJobs, ScheduleTime, ScheduleVersions, ScheduleFailures,  \* PostSchedule
    Editors, EditorKind, CommandKeys, Slots, CommandVersions,                   \* IdempotentCommand
    Executions, Collectors, ExecutionOwner, SpringMode,
    CandidateVersions, CandidateClaims, CandidateKeys,                          \* CandidateCollection
    RetentionRuns, RetentionWorkers, RetentionDeaths                        \* BatchRetention

VARIABLES
    imageRow, privateObjects, imageTask, upload, answered, uploadExpired, uploadAged,
    outboxWorker, sweeping,
    now, post, alert, recent, sent, job, alertLock,
    editor, command, try, keyLock, receipt, version, taken, effects, forgotten, doubtful,
    cand, image, previews, old, tasks, receipts, known, seen, hand, posts,
    itemRow, life, manifest, dedup, retried, failures, cleanup, running, proc, store, inflight,
    retentionWorker, deaths, late

Staging == INSTANCE StagingProofs WITH
    Images <- StagedImages, Upload <- UploadOf, Workers <- StagingWorkers, MaxAttempts <- StagingAttempts,
    row <- imageRow, objects <- privateObjects, task <- imageTask, expired <- uploadExpired,
    aged <- uploadAged, worker <- outboxWorker

Commands == INSTANCE PostCommandProofs WITH
    Kind <- EditorKind, Keys <- CommandKeys, MaxVersion <- CommandVersions, lock <- keyLock,
    Jobs <- ScheduleJobs, MaxTime <- ScheduleTime, MaxScheduled <- ScheduleVersions,
    MaxFailures <- ScheduleFailures, Nobody <- None

Candidate == INSTANCE CandidateProofs WITH
    Owner <- ExecutionOwner, MaxVersion <- CandidateVersions, MaxClaims <- CandidateClaims,
    MaxKeys <- CandidateKeys, objects <- previews

Retention == INSTANCE RetentionProofs WITH
    MaxRuns <- RetentionRuns, MaxDeaths <- RetentionDeaths, Workers <- RetentionWorkers, NoOne <- None,
    row <- itemRow, worker <- retentionWorker

stagingVars   == <<imageRow, privateObjects, imageTask, upload, answered, uploadExpired, uploadAged,
                   outboxWorker, sweeping>>
scheduleVars  == <<now, post, alert, recent, sent, job, alertLock>>
commandVars   == <<editor, command, try, keyLock, receipt, version, taken, effects, forgotten, doubtful>>
candidateVars == <<cand, image, previews, old, tasks, receipts, known, seen, hand, posts>>
retentionVars == <<itemRow, life, manifest, dedup, retried, failures, cleanup, running, proc, store,
                   inflight, retentionWorker, deaths, late>>
vars == <<stagingVars, scheduleVars, commandVars, candidateVars, retentionVars>>

Init == Staging!Init /\ Commands!ScheduleInit /\ Commands!Init /\ Candidate!Init /\ Retention!Init

Next ==
    \/ Staging!Next /\ UNCHANGED <<scheduleVars, commandVars, candidateVars, retentionVars>>
    \/ Commands!ScheduleNext /\ UNCHANGED <<stagingVars, commandVars, candidateVars, retentionVars>>
    \/ Commands!Next /\ UNCHANGED <<stagingVars, scheduleVars, candidateVars, retentionVars>>
    \/ Candidate!Next /\ UNCHANGED <<stagingVars, scheduleVars, commandVars, retentionVars>>
    \/ Retention!Next /\ UNCHANGED <<stagingVars, scheduleVars, commandVars, candidateVars>>

Spec == Init /\ [][Next]_vars

----------------------------------------------------------------------------
\* What each part promises is stated in its module.  An image that was answered has its original, none is
\* stored without a trace, and no work on one is lost (PrivateObjectStorage, OutboxService, CleanupService).
StagingSound == Staging!StagingSound
\* A change of a schedule stands against a late run of the job, and what an alert counts as sent was
\* sent (PublishDueService).
ScheduleSound == Commands!ScheduleSound
\* A save is carried out once, one that counts as saved was, and one that was rejected was not, but
\* for a rejected retry that overtook an earlier try (execute in admin.vue, PostsService.command).
CommandSound == Commands!CommandSound
\* The review page, promotion and the collectors agree about what was collected (CollectionService,
\* CollectorService, PromotionService).
CandidateSound == Candidate!CandidateSound
\* What the retention worker deletes is what it may delete, and all of it (BatchRetentionWorker).
RetentionSafe == Retention!RetentionSafe
\* Only the owner of a purge's lease ends it while it lasts (assert_purge_lease).
LeaseIsOwners == Retention!LeaseIsOwners

\* The images: no original that a caller or a row still needs is deleted, whatever workers that lost
\* their claim, the sweep of orphans and calls that fail do.
THEOREM ImagesSound ==
    ASSUME Staging!StagingAssumption
    PROVE  Spec => []StagingSound
<1>1. Staging!Spec => []StagingSound
  BY Staging!StagingIsSound DEF StagingSound
<1>2. Init => Staging!Init
  BY DEF Init
<1>3. [Next]_vars => [Staging!Next]_(Staging!vars)
  BY DEF Next, vars, stagingVars, Staging!vars
<1>. QED
  BY <1>1, <1>2, <1>3, PTL DEF Spec, Staging!Spec

\* The schedule: no run of the job acts on a schedule that an administrator has replaced, and no alert
\* counts what nobody received.
THEOREM SchedulesSound ==
    ASSUME Commands!ScheduleAssumption
    PROVE  Spec => ScheduleSound
<1>1. Commands!ScheduleSpec => ScheduleSound
  BY Commands!ScheduleIsSound DEF ScheduleSound
<1>2. Init => Commands!ScheduleInit
  BY DEF Init
<1>3. [Next]_vars => [Commands!ScheduleNext]_(Commands!scheduleVars)
  BY DEF Next, vars, scheduleVars, Commands!scheduleVars
<1>. QED
  BY <1>1, <1>2, <1>3, PTL DEF Spec, Commands!ScheduleSpec

\* The commands: a save that is tried again, by its page or on the way, is carried out once.
THEOREM CommandsSound ==
    ASSUME Commands!CommandAssumption
    PROVE  Spec => []CommandSound
<1>1. Commands!Spec => []CommandSound
  BY Commands!CommandIsSound DEF CommandSound
<1>2. Init => Commands!Init
  BY DEF Init
<1>3. [Next]_vars => [Commands!Next]_(Commands!vars)
  BY DEF Next, vars, commandVars, Commands!vars
<1>. QED
  BY <1>1, <1>2, <1>3, PTL DEF Spec, Commands!Spec

\* The candidates: what is shown was fetched under the last claim, is stored, and is what a post is
\* made of, whatever answers are lost, sent again or late.
THEOREM CandidatesSound ==
    ASSUME Candidate!CollectorsAssumption
    PROVE  Spec => CandidateSound
<1>1. Candidate!Spec => CandidateSound
  BY Candidate!CandidateIsSound DEF CandidateSound
<1>2. Init => Candidate!Init
  BY DEF Init
<1>3. [Next]_vars => [Candidate!Next]_(Candidate!vars)
  BY DEF Next, vars, candidateVars, Candidate!vars
<1>. QED
  BY <1>1, <1>2, <1>3, PTL DEF Spec, Candidate!Spec

LEMMA RetentionMoves == Spec => Retention!Spec
<1>1. Init => Retention!Init
  BY DEF Init
<1>2. [Next]_vars => [Retention!Next]_(Retention!vars)
  BY DEF Next, vars, retentionVars, Retention!vars
<1>. QED
  BY <1>1, <1>2, PTL DEF Spec, Retention!Spec

\* Retention: the objects of an item whose time is not over are kept, and of a purged one nothing is
\* left but what reached the store after the claim of its purge.
THEOREM ItemsSafe ==
    ASSUME Retention!RetentionAssumption
    PROVE  Spec => []RetentionSafe
  BY RetentionMoves, Retention!RetentionIsSafe DEF RetentionSafe

\* The lease: a worker that has lost its own can not end that of another.
THEOREM LeasesSafe ==
    ASSUME Retention!RetentionAssumption
    PROVE  Spec => LeaseIsOwners
  BY RetentionMoves, Retention!LeasesAreOwners DEF LeaseIsOwners

=============================================================================
