------------------------------ MODULE MCServer ------------------------------
(***************************************************************************)
(* Server for TLC: its parts share no state, so in each behaviour one part *)
(* moves, the part and the constants that its scene names, and the others  *)
(* rest in their initial states.                                           *)
(***************************************************************************)
EXTENDS Server, TLC, Integers, FiniteSets

CONSTANTS
    i1, i2, i3, u1, u2, w1, w2,     \* ImageStaging
    p1, j1, j2,                     \* PostSchedule
    e1, e2, e3, k1, k2, s1, s2,     \* IdempotentCommand
    x1, x2, c1,                     \* CandidateCollection
    r1, r2,                         \* BatchRetention
    Scenes                          \* the scenes to be played

VARIABLE scene

----------------------------------------------------------------------------
OneOfEach == (i1 :> u1) @@ (i2 :> u2) @@ (i3 :> u2)
TwoEditACreation == (e1 :> "UPDATE") @@ (e2 :> "UPDATE") @@ (e3 :> "CREATE")

OneCollector == (x1 :> c1) @@ (x2 :> c1)

\* The candidate under the older contract, with one preview at a time.
Legacy == INSTANCE CandidateCollection WITH
    Owner <- ExecutionOwner, SpringMode <- FALSE, MaxVersion <- CandidateVersions,
    MaxClaims <- CandidateClaims, MaxKeys <- 1, objects <- previews

ASSUME Staging!StagingAssumption
ASSUME Commands!ScheduleAssumption
ASSUME Commands!CommandAssumption
ASSUME Candidate!CollectorsAssumption /\ Legacy!CollectorsAssumption
ASSUME Retention!RetentionAssumption

----------------------------------------------------------------------------
sceneVars == <<scene, vars>>

SceneInit ==
    /\ Init
    /\ scene \in Scenes

\* What the other parts do.
Rest(part) ==
    /\ part # "staging" => UNCHANGED stagingVars
    /\ part # "schedule" => UNCHANGED scheduleVars
    /\ part # "command" => UNCHANGED commandVars
    /\ part # "candidate" => UNCHANGED candidateVars
    /\ part # "retention" => UNCHANGED retentionVars
    /\ UNCHANGED scene

\* A collected image and two workers, or an upload of two images and one worker.
CollectedImage == Staging!Next /\ upload'[u2] = upload[u2] /\ u2 \notin uploadAged'
EditedImages   == Staging!Next /\ upload'[u1] = upload[u1] /\ u1 \notin uploadAged'
                               /\ \A w \in StagingWorkers \ {w1} : outboxWorker'[w] = outboxWorker[w]

\* Many changes of the schedule and no failure, or few and failures.
Schedules == Commands!ScheduleNext /\ \A g \in Commands!Groups : alert'[g].attempts = 0
Alerts    == Commands!ScheduleNext /\ now' < ScheduleTime /\ post'[p1].at # ScheduleTime
                      /\ (job' = job => post'[p1].version < ScheduleVersions)

\* A page that saves a post, two pages that save the same post, with one try at a time
\* of each key, or a page that creates a draft.
Updating == Commands!Next /\ \A e \in {e2, e3} : editor'[e] = editor[e]
TwoPages == Commands!Next /\ editor'[e3] = editor[e3] /\ \A k \in CommandKeys : try'[<<k, s2>>] = try[<<k, s2>>]
Creating == Commands!Next /\ \A e \in {e1, e2} : editor'[e] = editor[e]

OneWorker == \A r \in RetentionWorkers \ {r1} : retentionWorker'[r] = retentionWorker[r]

\* Two runs that come to the item and one worker, and nobody dies; two runs, of which one
\* may die, and an item that does not expire; one run, and a second worker once the first
\* was too slow for its lease.
Runs    == Retention!Next /\ OneWorker /\ deaths' = 0
Dropped == Retention!Next /\ OneWorker /\ ~life'.expired
Purge   == Retention!Next /\ proc'.run # 2 /\ (deaths' # deaths => life' # life)
                          /\ (OneWorker \/ deaths = 1)

SceneNext ==
    \/ scene = "collected image" /\ CollectedImage /\ Rest("staging")
    \/ scene = "edited images" /\ EditedImages /\ Rest("staging")
    \/ scene = "schedule" /\ Schedules /\ Rest("schedule")
    \/ scene = "alerts" /\ Alerts /\ Rest("schedule")
    \/ scene = "updating" /\ Updating /\ Rest("command")
    \/ scene = "two pages" /\ TwoPages /\ Rest("command")
    \/ scene = "creating" /\ Creating /\ Rest("command")
    \/ scene = "spring" /\ Candidate!Next /\ Rest("candidate")
    \/ scene = "legacy" /\ Legacy!Next /\ Rest("candidate")
    \/ scene = "runs" /\ Runs /\ Rest("retention")
    \/ scene = "dropped" /\ Dropped /\ Rest("retention")
    \/ scene = "purge" /\ Purge /\ Rest("retention")

SceneSpec == SceneInit /\ [][SceneNext]_sceneVars

----------------------------------------------------------------------------
(* Fairness.  Time passes; jobs and workers are started again and again by  *)
(* their schedulers, and what is running goes on or dies; in the end calls   *)
(* stop failing.  Nothing obliges an administrator or a collector to act,    *)
(* except that an administrator whose save failed tries it again.            *)

FairStaging ==
    /\ WF_stagingVars(scene = "collected image" /\ Staging!Store(u1))
    /\ WF_stagingVars(scene = "collected image" /\ Staging!Expire(u1))
    /\ WF_stagingVars(scene = "collected image" /\ Staging!Age(u1))
    /\ \A w \in StagingWorkers : WF_stagingVars(scene = "collected image" /\ Staging!Work(w))
    /\ \A t \in {i1} \X Staging!Kinds :
        /\ WF_stagingVars(scene = "collected image" /\ ~Staging!Held(t) /\ Staging!RecoverExpired(t))
        /\ WF_stagingVars(scene = "collected image" /\ \E w \in StagingWorkers : Staging!Claim(w, t))
    /\ WF_stagingVars(scene = "collected image" /\ (Staging!SweepFind(i1) \/ Staging!SweepDelete))

FairSchedule ==
    /\ WF_scheduleVars(scene = "schedule" /\ Commands!Tick)
    /\ \A g \in Commands!Groups : WF_scheduleVars(scene \in {"schedule", "alerts"} /\ Commands!QuarterPasses(g))
    /\ \A j \in ScheduleJobs : WF_scheduleVars(scene \in {"schedule", "alerts"} /\ Commands!JobWork(j))

FairCommand ==
    /\ WF_commandVars(scene = "updating" /\ \E s \in {s1, s2} : Commands!Retry(e1, s))
    /\ WF_commandVars(scene = "updating" /\ Commands!GivesUpLost(e1))
    /\ WF_commandVars(scene = "updating" /\ Commands!ReadDetail(e1))
    /\ \A k \in CommandKeys, s \in {s1, s2} : WF_commandVars(scene = "updating" /\ Commands!Handle(k, s))

\* The cleanup job waits for the lock of the candidate and gets it in its turn.
FairCandidate ==
    /\ WF_candidateVars(scene = "legacy" /\ Legacy!LeaseExpires)
    /\ WF_candidateVars(scene = "legacy" /\ Legacy!DayPasses)
    /\ WF_candidateVars(scene = "legacy" /\ Legacy!PreviewExpires)
    /\ WF_candidateVars(scene = "legacy" /\ (Legacy!Upload \/ Legacy!Promote \/ Legacy!HandLost))
    /\ SF_candidateVars(scene = "legacy" /\ Legacy!CleanupExpires)
    /\ SF_candidateVars(scene = "legacy" /\ Legacy!CleanupClears)
    /\ WF_candidateVars(scene = "legacy" /\ Legacy!DeleteObject(1))
    /\ WF_candidateVars(scene = "legacy" /\ Legacy!Sweep(1))
    /\ WF_candidateVars(scene = "legacy" /\ Legacy!ObjectAges(1))

FairRetention ==
    /\ WF_retentionVars(scene \in {"dropped", "purge"} /\ Retention!WaitEnds)
    /\ WF_retentionVars(/\ scene \in {"dropped", "purge"}
                        /\ Retention!LeaseEnds /\ \A r \in RetentionWorkers : ~Retention!Owns(r))
    /\ \A k \in Retention!Keys :
        WF_retentionVars(scene \in {"dropped", "purge"} /\ (Retention!PutLands(k) \/ Retention!PutLost(k)))
    /\ \A r \in RetentionWorkers : WF_retentionVars(scene \in {"dropped", "purge"} /\ Retention!WorkerStep(r))

FairSpec ==
    /\ SceneSpec
    /\ FairStaging /\ FairSchedule /\ FairCommand /\ FairCandidate /\ FairRetention
    /\ <>[][~Staging!Faults]_stagingVars /\ <>[][~Commands!ScheduleFaults]_scheduleVars
    /\ <>[][~Commands!Faults]_commandVars /\ <>[][~Retention!Faults]_retentionVars

----------------------------------------------------------------------------
\* What comes in the end is stated in the parts.
CollectedGoes   == Staging!CollectedGoes
ScheduleEnds    == Commands!ScheduleEnds
OutcomeIsLearnt == Commands!OutcomeIsLearnt
CandidateEnds   == Candidate!CandidateEnds
InTheEndGone    == Retention!InTheEndGone

\* The parts that rest do not tell two states apart.
Moving ==
    CASE scene \in {"collected image", "edited images"} -> <<scene, stagingVars>>
      [] scene \in {"schedule", "alerts"} -> <<scene, scheduleVars>>
      [] scene \in {"updating", "two pages", "creating"} -> <<scene, commandVars>>
      [] scene \in {"spring", "legacy"} -> <<scene, candidateVars>>
      [] scene \in {"runs", "dropped", "purge"} -> <<scene, retentionVars>>
=============================================================================
