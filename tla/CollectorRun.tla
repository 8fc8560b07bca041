---------------------------- MODULE CollectorRun ----------------------------
(***************************************************************************)
(* One job of the Spring collector, apps/collector: the collector.run row, *)
(* its six Spring Batch steps (execution/CollectionPipeline), the          *)
(* dispatcher that starts and restarts them, the encrypted state the steps *)
(* leave for a restart, the operator's commands and the cleanup, against   *)
(* the candidate it works on in the API.                                   *)
(*                                                                         *)
(* The dispatcher holds the advisory lock 72189403 while it runs the job,  *)
(* so one process at a time is at work.  Crash is its end at any point;    *)
(* what survives is the rows, the spool and what the API did.  A call of   *)
(* the API is lost on its way, refused, or carried out, and then its       *)
(* answer may be lost.                                                     *)
(*                                                                         *)
(* The candidate has one image, and a fetch takes one request: a redirect  *)
(* repeats the same steps under an attempt name of its own.  Writing the   *)
(* state and its reference is one step: a crash between the two leaves a   *)
(* file that nothing refers to.                                            *)
(***************************************************************************)
EXTENDS Integers

CONSTANTS
  Mode,         \* "COLLECT" or "PREVIEW_REFRESH"
  MaxVersion    \* bound on the candidate's lock_version

RunAssumption ==
  Mode \in {"COLLECT", "PREVIEW_REFRESH"} /\ MaxVersion \in Nat \ {0}

VARIABLES
  run,       \* the collector.run row
  done,      \* how many steps of the job Spring Batch has recorded as COMPLETED
  saved,     \* the state the spool keeps for the run
  readable,  \* whether the file of that state is there
  file,      \* the spooled image: "none", "kept", or "old" after 24 hours
  work,      \* where the worker is, and how its job ends
  mem,       \* the state the worker's step read
  stopping,  \* the process is shutting down
  core,      \* the candidate in the API, as this execution meets it
  permit,    \* the reservation of each request, in the API
  sent       \* how often each request was sent to the source

runVars == <<run, done, saved, readable, file, work, mem, stopping, core, permit, sent>>
spool == <<saved, readable, file>>
api == <<core, permit>>

Kinds == {"detail", "image"}
Results == {"none", "page", "failed", "unsafe"}   \* unsafe: fetchErrorCode COLLECTOR_CLOCK_UNSAFE
Versions == 0..MaxVersion
Active == {"RUNNING", "STOP_REQUESTED"}
Completed == {"COMPLETED", "COMPLETED_WITH_WARNINGS"}
Refreshing == Mode = "PREVIEW_REFRESH"

\* The encrypted state: a body that was sent once is kept with the version it names.
States ==
  [claimed : BOOLEAN, version : Versions, quota : [Kinds -> Versions], body : Versions,
   network : SUBSET Kinds, result : Results, submitted : BOOLEAN, image : BOOLEAN,
   shown : BOOLEAN, warned : BOOLEAN, terminal : BOOLEAN]
Empty ==
  [claimed |-> FALSE, version |-> 0, quota |-> [k \in Kinds |-> 0], body |-> 0,
   network |-> {}, result |-> "none", submitted |-> FALSE, image |-> FALSE,
   shown |-> FALSE, warned |-> FALSE, terminal |-> FALSE]

Outcomes ==
  {"none", "DONE", "JOB_FAILED", "STOP_REQUESTED", "RECONCILE_REQUIRED", "CORE_UNAVAILABLE",
   "CORE_CANDIDATE_EXECUTION_CONFLICT", "CORE_CANDIDATE_NOT_FOUND",
   "CORE_CANDIDATE_LEASE_CONFLICT", "CORE_CANDIDATE_VERSION_CONFLICT",
   "CORE_CANDIDATE_STATE_CONFLICT", "CORE_SOURCE_RATE_LIMITED", "COLLECTOR_CLOCK_UNSAFE",
   "SOURCE_NOT_ALLOWED"}
RunPlaces ==
  {"idle", "start", "enter", "check", "drop", "do", "fetch", "beat", "quota", "post", "permit",
   "send", "got", "upload", "made", "finish", "clear", "reconcile"}
Idle == [at |-> "idle", outcome |-> "none"]

Runs ==
  [state : Active \cup Completed \cup {"QUEUED", "STOPPED", "FAILED", "RECONCILE_REQUIRED"},
   restartable : BOOLEAN, expired : BOOLEAN, digest : Results, candidate : BOOLEAN]
Candidates ==
  [status : {"PENDING", "RUNNING", "NEW", "FETCH_FAILED", "DECIDED", "GONE"},
   mine : BOOLEAN, version : Versions, live : BOOLEAN, took : Results,
   claim : {"none", "items", "nothing"}, beat : Versions, preview : BOOLEAN]

RunTypeOK ==
  /\ run \in Runs /\ core \in Candidates
  /\ done \in 0..6
  /\ saved \in States /\ mem \in States
  /\ readable \in BOOLEAN /\ stopping \in BOOLEAN
  /\ file \in {"none", "kept", "old"}
  /\ work \in [at : RunPlaces, outcome : Outcomes]
  /\ permit \in [Kinds -> {"none", "valid", "elapsed"}]
  /\ sent \in [Kinds -> 0..2]

RunInit ==
  /\ run \in [state : {"QUEUED"}, restartable : {TRUE}, expired : {FALSE}, digest : {"none"},
              candidate : IF Refreshing THEN {TRUE} ELSE BOOLEAN]
  /\ done = 0
  /\ saved = Empty /\ mem = Empty /\ readable = TRUE /\ file = "none"
  /\ work = Idle /\ stopping = FALSE
  /\ core = [status |-> IF Refreshing THEN "NEW" ELSE "PENDING", mine |-> FALSE, version |-> 1,
             live |-> FALSE, took |-> "none", claim |-> "none", beat |-> 0, preview |-> FALSE]
  /\ permit = [k \in Kinds |-> "none"]
  /\ sent = [k \in Kinds |-> 0]

----------------------------------------------------------------------------
(* The worker's moves *)

Kind == IF done = 4 THEN "image" ELSE "detail"
WorkerAt(place) == work.at = place
GoTo(place) == work' = [at |-> place, outcome |-> "none"]
End(outcome) == work' = [at |-> "finish", outcome |-> outcome]

\* StateStore.save
Save(state) == mem' = state /\ saved' = state /\ readable' = TRUE

\* RunRepository.checkStop
StopWanted == stopping \/ run.state # "RUNNING"
Halted == StopWanted \/ run.expired
EndHalted == End(IF StopWanted THEN "STOP_REQUESTED" ELSE "RECONCILE_REQUIRED")

\* A failure of the source within the step fetchAndExtract becomes its result; of an
\* image, a warning.  Every image is dealt with once.
SourceFails ==
  /\ IF done = 2 THEN Save([mem EXCEPT !.result = "failed"])
     ELSE Save([mem EXCEPT !.warned = TRUE, !.shown = TRUE])
  /\ GoTo("made")

----------------------------------------------------------------------------
(* What the API answers this execution *)

CanChange == core.version < MaxVersion   \* a bound, not a guard of the code

\* The refusals that come first: find, assertExecution.
Missing ==
  IF ~mem.claimed \/ core.status = "GONE" THEN "CORE_CANDIDATE_NOT_FOUND"
  ELSE IF ~core.mine THEN "CORE_CANDIDATE_EXECUTION_CONFLICT"
  ELSE "none"

\* A request with a receipt is answered from it while its execution has the candidate.
Stale ==
  IF Missing # "none" THEN Missing
  ELSE IF core.status \in {"PENDING", "DECIDED"} THEN "CORE_CANDIDATE_EXECUTION_CONFLICT"
  ELSE "none"

HoldsLease(version) == core.status = "RUNNING" /\ core.live /\ core.version = version

Unreached == End("CORE_UNAVAILABLE") /\ UNCHANGED <<core, permit>>
Refused(code) == code # "none" /\ End(code) /\ UNCHANGED <<core, permit>>

\* The worker goes on with the answer, or does not get it.
Answered(state, place) ==
  \/ Save(state) /\ GoTo(place)
  \/ End("CORE_UNAVAILABLE") /\ UNCHANGED <<mem, saved, readable>>

----------------------------------------------------------------------------
(* The dispatcher *)

\* Bug: only what is queued is taken up.
DispatchQueued ==
  /\ WorkerAt("idle") /\ ~stopping /\ run.state = "QUEUED"
  /\ run' = [run EXCEPT !.state = "RUNNING"] /\ GoTo("start")
  /\ UNCHANGED <<done, spool, mem, stopping, api, sent>>

\* Holding the lock, it may take a RUNNING row for one a dead process left behind.
Dispatch ==
  /\ WorkerAt("idle") /\ ~stopping
  /\ run.state \in Active \cup {"QUEUED"}
  /\ IF run.state = "STOP_REQUESTED"
     THEN run' = [run EXCEPT !.state = "STOPPED"] /\ UNCHANGED work
     ELSE run' = [run EXCEPT !.state = "RUNNING"] /\ GoTo("start")
  /\ UNCHANGED <<done, spool, mem, stopping, api, sent>>

\* ExpiredRecovery.settle comes first; a job whose steps are all done is not run again.
Launch ==
  /\ WorkerAt("start")
  /\ CASE run.expired -> GoTo("reconcile")
       [] done = 6 /\ ~run.expired -> End("DONE")
       [] OTHER -> GoTo("enter")
  /\ UNCHANGED <<run, done, spool, mem, stopping, api, sent>>

Enter ==
  /\ WorkerAt("enter")
  /\ CASE Halted -> EndHalted /\ UNCHANGED mem
       [] ~Halted /\ ~readable -> End("JOB_FAILED") /\ UNCHANGED mem
       [] OTHER -> /\ mem' = saved
                   /\ GoTo(IF saved.terminal THEN "made"
                           ELSE IF done > 1 /\ saved.claimed THEN "check" ELSE "do")
  /\ UNCHANGED <<run, done, spool, stopping, api, sent>>

\* Core is asked again before every step that follows the claim.
Check ==
  /\ WorkerAt("check")
  /\ \/ Unreached
     \/ Refused(Missing)
     \/ /\ Missing = "none"
        /\ GoTo(IF core.status = "DECIDED" THEN "drop" ELSE "do")
        /\ UNCHANGED api
  /\ UNCHANGED <<run, done, spool, mem, stopping, sent>>

\* StateStore.clear: the files first, then what the rows say of them.
Clear ==
  IF readable /\ saved # Empty
  THEN readable' = FALSE /\ file' = "none" /\ UNCHANGED saved
  ELSE saved' = Empty /\ readable' = TRUE /\ file' = "none"
Cleared == saved = Empty /\ file = "none"

Drop ==
  /\ WorkerAt("drop")
  /\ IF ~Cleared THEN Clear /\ UNCHANGED <<work, mem>>
     ELSE Save([Empty EXCEPT !.terminal = TRUE]) /\ GoTo("made") /\ UNCHANGED file
  /\ UNCHANGED <<run, done, stopping, api, sent>>

\* Spring Batch records the step.
StepEnds ==
  /\ WorkerAt("made")
  /\ done' = done + 1
  /\ IF done = 5 THEN End("DONE") ELSE GoTo("enter")
  /\ mem' = Empty
  /\ UNCHANGED <<run, spool, stopping, api, sent>>

\* An exception that is no CollectorFailure: the database, a missing node.
Breaks ==
  /\ work.at \in RunPlaces \ {"idle", "finish", "clear", "reconcile"}
  /\ End("JOB_FAILED")
  /\ UNCHANGED <<run, done, spool, mem, stopping, api, sent>>

Crash ==
  /\ ~WorkerAt("idle")
  /\ work' = Idle /\ mem' = Empty /\ stopping' = FALSE
  /\ UNCHANGED <<run, done, spool, api, sent>>

Shutdown ==
  /\ ~stopping /\ stopping' = TRUE
  /\ UNCHANGED <<run, done, spool, work, mem, api, sent>>
Starts ==
  /\ stopping /\ WorkerAt("idle") /\ stopping' = FALSE
  /\ UNCHANGED <<run, done, spool, work, mem, api, sent>>

----------------------------------------------------------------------------
(* The steps *)

\* Bug: the digest is not kept before the result is sent.
NoDigest == run
\* What a reconciliation will know the result by is written before it is sent.
Digest == [run EXCEPT !.digest = mem.result]

Do ==
  /\ WorkerAt("do")
  /\ CASE done \in {0, 5} -> Save(mem) /\ GoTo("made")
       [] done = 1 -> /\ GoTo(IF mem.claimed THEN "made" ELSE "post")
                      /\ UNCHANGED <<mem, saved, readable>>
       [] done = 2 -> IF Refreshing \/ mem.result # "none"
                      THEN GoTo("made") /\ UNCHANGED <<mem, saved, readable>>
                      ELSE SourceFails \/ (mem.claimed /\ GoTo("fetch")
                                           /\ UNCHANGED <<mem, saved, readable>>)
       [] done = 3 -> IF Refreshing \/ mem.submitted
                      THEN GoTo("made") /\ UNCHANGED <<mem, saved, readable>>
                      ELSE IF mem.result = "none"
                      THEN End("JOB_FAILED") /\ UNCHANGED <<mem, saved, readable>>
                      ELSE GoTo("post") /\ Save([mem EXCEPT !.body = IF @ = 0 THEN mem.version ELSE @])
       [] done = 4 -> /\ \/ ~mem.shown /\ mem.result \notin {"failed", "unsafe"}
                            /\ End("SOURCE_NOT_ALLOWED")
                         \/ mem.claimed /\ GoTo(IF mem.result \in {"failed", "unsafe"} \/ mem.shown
                                                THEN "made"
                                                ELSE IF mem.image THEN "upload" ELSE "fetch")
                      /\ UNCHANGED <<mem, saved, readable>>
  /\ run' = IF done = 3 /\ work'.at = "post"
            THEN Digest ELSE run
  /\ UNCHANGED <<done, file, stopping, api, sent>>

\* fetchOne: a request that may have been sent is not sent again; the lease is
\* prolonged before a first reservation, which then keeps the version it names.
Fetch ==
  /\ WorkerAt("fetch")
  /\ CASE Halted -> EndHalted /\ UNCHANGED <<mem, saved, readable>>
       [] ~Halted /\ Kind \in mem.network ->
            End("RECONCILE_REQUIRED") /\ UNCHANGED <<mem, saved, readable>>
       [] OTHER -> /\ GoTo(IF mem.quota[Kind] = 0 /\ ~Refreshing /\ ~mem.submitted
                           THEN "beat" ELSE "quota")
                   /\ UNCHANGED <<mem, saved, readable>>
  /\ UNCHANGED <<run, done, file, stopping, api, sent>>

Quota ==
  /\ WorkerAt("quota")
  /\ Save([mem EXCEPT !.quota[Kind] = IF @ = 0 THEN mem.version ELSE @])
  /\ GoTo("post")
  /\ UNCHANGED <<run, done, file, stopping, api, sent>>

Beat ==
  /\ WorkerAt("beat")
  /\ \/ Unreached /\ UNCHANGED <<mem, saved, readable>>
     \/ Refused(Stale) /\ UNCHANGED <<mem, saved, readable>>
     \/ /\ Stale = "none" /\ core.beat # mem.version /\ ~HoldsLease(mem.version)
        /\ Refused("CORE_CANDIDATE_LEASE_CONFLICT") /\ UNCHANGED <<mem, saved, readable>>
     \/ /\ Stale = "none" /\ core.beat = mem.version    \* the receipt of heartbeat-<version>
        /\ IF core.status = "RUNNING" /\ core.live
           THEN Answered([mem EXCEPT !.version = core.version], "quota") /\ UNCHANGED api
           ELSE Refused("CORE_CANDIDATE_LEASE_CONFLICT") /\ UNCHANGED <<mem, saved, readable>>
     \/ /\ Stale = "none" /\ HoldsLease(mem.version) /\ CanChange
        /\ core' = [core EXCEPT !.version = @ + 1, !.beat = mem.version]
        /\ Answered([mem EXCEPT !.version = core'.version], "quota")
        /\ UNCHANGED permit
  /\ UNCHANGED <<run, done, file, stopping, sent>>

\* A reservation is given once for a request key; asked again, the same one is shown.
Reserve ==
  /\ WorkerAt("post") /\ done \in {2, 4}
  /\ \/ Unreached
     \/ Refused(Missing)
     \/ Missing = "none" /\ core.version # mem.quota[Kind]
        /\ Refused("CORE_CANDIDATE_VERSION_CONFLICT")
     \/ Missing = "none" /\ core.version = mem.quota[Kind]
        /\ ~HoldsLease(core.version) /\ ~(core.status = "NEW" /\ Kind = "image")
        /\ Refused("CORE_CANDIDATE_LEASE_CONFLICT")
     \/ /\ Missing = "none" /\ core.version = mem.quota[Kind]
        /\ HoldsLease(core.version) \/ (core.status = "NEW" /\ Kind = "image")
        /\ \/ permit[Kind] = "none" /\ Refused("CORE_SOURCE_RATE_LIMITED")
           \/ /\ permit' = [permit EXCEPT ![Kind] = IF @ = "none" THEN "valid" ELSE @]
              /\ GoTo("permit") \/ End("CORE_UNAVAILABLE")
              /\ UNCHANGED core
  /\ UNCHANGED <<run, done, spool, mem, stopping, sent>>

\* Bug: the request is not marked.
NoMark == Save(mem)
\* A request that begins is marked in the state first.
Mark == Save([mem EXCEPT !.network = @ \cup {Kind}])

\* Less than 500 ms of the permit left: of the page this is a result like another.
Permitted ==
  /\ WorkerAt("permit")
  /\ CASE permit[Kind] = "elapsed" ->
            IF done = 2 THEN Save([mem EXCEPT !.result = "unsafe"]) /\ GoTo("made")
            ELSE End("COLLECTOR_CLOCK_UNSAFE") /\ UNCHANGED <<mem, saved, readable>>
       [] permit[Kind] # "elapsed" /\ Halted -> EndHalted /\ UNCHANGED <<mem, saved, readable>>
       [] OTHER -> Mark /\ GoTo("send")
  /\ UNCHANGED <<run, done, file, stopping, api, sent>>

Fetched == [mem EXCEPT !.image = TRUE]

Send ==
  /\ WorkerAt("send") /\ GoTo("got")
  /\ sent' = [sent EXCEPT ![Kind] = IF @ = 2 THEN 2 ELSE @ + 1]
  /\ UNCHANGED <<run, done, spool, mem, stopping, api>>

\* What came back, or did not, is in the state before the worker goes on.
Response ==
  /\ WorkerAt("got")
  /\ \/ SourceFails /\ UNCHANGED file
     \/ /\ done = 2 /\ Save([mem EXCEPT !.result = "page"]) /\ GoTo("made")
        /\ UNCHANGED file
     \/ /\ done = 4 /\ Save(Fetched) /\ GoTo("upload")
        /\ file' = "kept"
  /\ UNCHANGED <<run, done, stopping, api, sent>>

ClaimAnswer == [mem EXCEPT !.claimed = TRUE, !.version = core'.version]
NoItems == [mem EXCEPT !.terminal = TRUE]
Claim ==
  /\ WorkerAt("post") /\ done = 1
  /\ \/ Unreached /\ UNCHANGED <<run, mem, saved, readable>>
     \/ /\ core.claim = "none"
        /\ \/ /\ ~Refreshing /\ CanChange
              /\ core.status = "PENDING" \/ (core.status = "RUNNING" /\ ~core.live)
              /\ core' = [core EXCEPT !.status = "RUNNING", !.mine = TRUE, !.live = TRUE,
                                      !.version = @ + 1, !.claim = "items"]
              /\ Answered(ClaimAnswer, "made")
           \/ /\ Refreshing /\ CanChange /\ core.status = "NEW" /\ core.version = 1
              /\ core' = [core EXCEPT !.mine = TRUE, !.version = @ + 1, !.claim = "items"]
              /\ Answered(ClaimAnswer, "made")
           \/ /\ ~Refreshing
              /\ core.status \notin {"PENDING", "RUNNING"} \/ core.live
              /\ core' = [core EXCEPT !.claim = "nothing"]
              /\ Answered(NoItems, "made")
           \/ /\ Refreshing /\ (core.status # "NEW" \/ core.version # 1)
              /\ Refused(IF core.status = "GONE" THEN "CORE_CANDIDATE_NOT_FOUND"
                         ELSE "CORE_CANDIDATE_VERSION_CONFLICT")
              /\ UNCHANGED <<mem, saved, readable>>
        /\ UNCHANGED permit
     \/ /\ core.claim = "nothing"
        /\ Answered(NoItems, "made") /\ UNCHANGED api
     \/ /\ core.claim = "items"      \* replayClaim
        /\ IF /\ core.mine
              /\ IF Refreshing THEN core.status = "NEW" /\ core.version = 2
                 ELSE core.status = "RUNNING" /\ core.live
           THEN UNCHANGED api /\ Answered(ClaimAnswer, "made")
           ELSE Refused("CORE_CANDIDATE_EXECUTION_CONFLICT") /\ UNCHANGED <<mem, saved, readable>>
  /\ run' = IF ~mem.claimed /\ mem'.claimed THEN [run EXCEPT !.candidate = TRUE] ELSE run
  /\ UNCHANGED <<done, file, stopping, sent>>

ResultAnswer == [mem EXCEPT !.submitted = TRUE, !.version = core'.version]
Submit ==
  /\ WorkerAt("post") /\ done = 3
  /\ \/ Unreached /\ UNCHANGED <<mem, saved, readable>>
     \/ Refused(Stale) /\ UNCHANGED <<mem, saved, readable>>
     \/ /\ Stale = "none" /\ core.took # "none"
        /\ UNCHANGED api /\ Answered(ResultAnswer, "made")
     \/ /\ Stale = "none" /\ core.took = "none" /\ ~HoldsLease(mem.body)
        /\ Refused("CORE_CANDIDATE_LEASE_CONFLICT") /\ UNCHANGED <<mem, saved, readable>>
     \/ /\ Stale = "none" /\ core.took = "none" /\ HoldsLease(mem.body) /\ CanChange
        /\ core' = [core EXCEPT !.status = IF mem.result = "page" THEN "NEW" ELSE "FETCH_FAILED",
                                !.live = FALSE, !.version = @ + 1, !.took = mem.result]
        /\ Answered(ResultAnswer, "made")
        /\ UNCHANGED permit
  /\ UNCHANGED <<run, done, file, stopping, sent>>

\* The spooled image goes once the state says that it was uploaded.
PreviewAnswer == [mem EXCEPT !.shown = TRUE, !.version = core'.version]
Upload ==
  /\ WorkerAt("upload")
  /\ IF Halted THEN EndHalted /\ UNCHANGED <<mem, spool, api>>
     ELSE IF file # "kept" THEN End("RECONCILE_REQUIRED") /\ UNCHANGED <<mem, spool, api>>
     ELSE
       \/ Unreached /\ UNCHANGED <<mem, spool>>
       \/ Refused(Stale) /\ UNCHANGED <<mem, spool>>
       \/ SourceFails /\ UNCHANGED <<file, api>>      \* too large, or of another type
       \/ /\ Stale = "none" /\ ~core.preview /\ core.version # mem.version
          /\ Refused("CORE_CANDIDATE_VERSION_CONFLICT") /\ UNCHANGED <<mem, spool>>
       \/ /\ Stale = "none" /\ ~core.preview /\ core.version = mem.version /\ core.status # "NEW"
          /\ Refused("CORE_CANDIDATE_STATE_CONFLICT") /\ UNCHANGED <<mem, spool>>
       \/ /\ Stale = "none" /\ core.preview
          /\ UNCHANGED api
          /\ Answered(PreviewAnswer, "made")
          /\ file' = IF work'.at = "made" THEN "none" ELSE file
       \/ /\ Stale = "none" /\ ~core.preview /\ CanChange
          /\ core.version = mem.version /\ core.status = "NEW"
          /\ core' = [core EXCEPT !.version = @ + 1, !.preview = TRUE]
          /\ Answered(PreviewAnswer, "made")
          /\ file' = IF work'.at = "made" THEN "none" ELSE file
          /\ UNCHANGED permit
  /\ UNCHANGED <<run, done, stopping, sent>>

----------------------------------------------------------------------------
(* The end of a run *)

FailureState(outcome) ==
  IF outcome \in {"STOP_REQUESTED", "CORE_CANDIDATE_EXECUTION_CONFLICT",
                  "CORE_CANDIDATE_NOT_FOUND", "CORE_CANDIDATE_LEASE_CONFLICT"} THEN "STOPPED"
  ELSE IF outcome \in {"RECONCILE_REQUIRED", "CORE_CANDIDATE_VERSION_CONFLICT"}
  THEN "RECONCILE_REQUIRED"
  ELSE "FAILED"

\* RunRepository.finish
FinishAs(state, restartable, place) ==
  /\ run' = [run EXCEPT !.state = state, !.restartable = restartable]
  /\ IF place = "idle" THEN work' = Idle ELSE GoTo(place)

DoneState ==
  IF saved.terminal THEN "STOPPED"
  ELSE IF saved.warned THEN "COMPLETED_WITH_WARNINGS" ELSE "COMPLETED"

Finish ==
  /\ WorkerAt("finish")
  /\ IF work.outcome = "DONE"
     THEN IF readable THEN FinishAs(DoneState, FALSE, "clear")
          ELSE FinishAs("FAILED", FALSE, "idle")
     ELSE LET state == FailureState(work.outcome)
              restartable == state = "FAILED" \/ work.outcome = "STOP_REQUESTED"
          IN FinishAs(state, restartable, IF state = "STOPPED" /\ ~restartable THEN "clear" ELSE "idle")
  /\ mem' = Empty
  /\ UNCHANGED <<done, spool, stopping, api, sent>>

FinalClear ==
  /\ WorkerAt("clear")
  /\ IF Cleared THEN work' = Idle /\ UNCHANGED spool ELSE Clear /\ UNCHANGED work
  /\ UNCHANGED <<run, done, mem, stopping, api, sent>>

\* Only what Core says now decides; nothing is sent again.
Verdict ==
  IF ~run.candidate THEN "RECONCILE_REQUIRED"
  ELSE IF core.status = "GONE" \/ ~core.mine \/ core.status = "DECIDED" THEN "STOPPED"
  ELSE IF run.digest # "none" /\ core.took = run.digest /\ core.status \in {"NEW", "FETCH_FAILED"}
  THEN IF core.status = "NEW" THEN "COMPLETED_WITH_WARNINGS" ELSE "COMPLETED"
  ELSE IF core.status = "FETCH_FAILED" THEN "STOPPED"
  ELSE "RECONCILE_REQUIRED"

Reconcile ==
  /\ WorkerAt("reconcile")
  /\ FinishAs(Verdict, FALSE, "clear") \/ FinishAs("RECONCILE_REQUIRED", FALSE, "clear")
  /\ UNCHANGED <<done, spool, mem, stopping, api, sent>>

----------------------------------------------------------------------------
(* The operator, the cleanup, and time *)

Stop ==
  /\ run.state \in {"QUEUED", "RUNNING"}
  /\ run' = [run EXCEPT !.state = IF @ = "QUEUED" THEN "STOPPED" ELSE "STOP_REQUESTED"]
  /\ UNCHANGED <<done, spool, work, mem, stopping, api, sent>>

\* JobControlMain works under the dispatcher's lock.
Resume ==
  /\ WorkerAt("idle")
  /\ run.state \in {"FAILED", "STOPPED"} /\ run.restartable /\ ~run.expired /\ readable
  /\ saved.claimed /\ run.candidate => core.mine /\ core.status \in {"RUNNING", "NEW"}
  /\ run' = [run EXCEPT !.state = "QUEUED"]
  /\ UNCHANGED <<done, spool, work, mem, stopping, api, sent>>

AskReconcile ==
  /\ WorkerAt("idle")
  /\ run.state \in {"QUEUED", "STOPPED", "FAILED", "RECONCILE_REQUIRED"}
  /\ GoTo("reconcile")
  /\ UNCHANGED <<run, done, spool, mem, stopping, api, sent>>

\* SpoolCleanup: of an expired reference, whatever the run is doing.
Cleanup ==
  /\ (run.expired /\ saved # Empty) \/ file = "old"
  /\ run' = IF run.state \in Active \cup Completed THEN run
            ELSE [run EXCEPT !.state = "RECONCILE_REQUIRED", !.restartable = FALSE]
  /\ IF run.expired /\ saved # Empty THEN saved' = Empty /\ readable' = TRUE
     ELSE UNCHANGED <<saved, readable>>
  /\ file' = IF file = "old" THEN "none" ELSE file
  /\ UNCHANGED <<done, work, mem, stopping, api, sent>>

RunExpires ==
  /\ ~run.expired /\ run' = [run EXCEPT !.expired = TRUE]
  /\ UNCHANGED <<done, spool, work, mem, stopping, api, sent>>
ImageAges ==
  /\ file = "kept" /\ file' = "old"
  /\ UNCHANGED <<run, done, saved, readable, work, mem, stopping, api, sent>>
PermitElapses ==
  /\ \E k \in Kinds : permit[k] = "valid" /\ permit' = [permit EXCEPT ![k] = "elapsed"]
  /\ UNCHANGED <<run, done, spool, work, mem, stopping, core, sent>>
CandidateLapses ==
  /\ core.live /\ core' = [core EXCEPT !.live = FALSE]
  /\ UNCHANGED <<run, done, spool, work, mem, stopping, permit, sent>>

\* What others do to the candidate: another collector claims, submits or refreshes it,
\* a lease that lapsed is expired, the administrator decides or retries it, it is removed.
Others ==
  /\ \/ /\ core.status = "PENDING" \/ (core.status = "RUNNING" /\ ~core.live)
        /\ CanChange
        /\ core' = [core EXCEPT !.status = "RUNNING", !.mine = FALSE, !.live = TRUE, !.version = @ + 1]
     \/ /\ core.status = "RUNNING" /\ ~core.mine /\ core.live /\ CanChange
        /\ \E s \in {"NEW", "FETCH_FAILED"} :
             core' = [core EXCEPT !.status = s, !.live = FALSE, !.version = @ + 1]
     \/ /\ core.status = "RUNNING" /\ ~core.live /\ CanChange
        /\ core' = [core EXCEPT !.status = "FETCH_FAILED", !.version = @ + 1]
     \/ /\ core.status = "NEW" /\ CanChange
        /\ core' = [core EXCEPT !.mine = FALSE, !.version = @ + 1]
     \/ /\ core.status \in {"NEW", "FETCH_FAILED"} /\ CanChange
        /\ core' = [core EXCEPT !.status = "DECIDED", !.version = @ + 1]
     \/ /\ core.status = "FETCH_FAILED" /\ CanChange
        /\ core' = [core EXCEPT !.status = "PENDING", !.mine = FALSE, !.version = @ + 1]
     \/ /\ core.status \in {"NEW", "FETCH_FAILED", "DECIDED"}
        /\ core' = [core EXCEPT !.status = "GONE"]
  /\ UNCHANGED <<run, done, spool, work, mem, stopping, permit, sent>>

Step == Enter \/ Check \/ Drop \/ Do \/ Fetch \/ Beat \/ Quota \/ Reserve \/ Permitted \/ Send \/ Response
        \/ Claim \/ Submit \/ Upload \/ StepEnds
Dispatcher == Dispatch \/ Launch \/ Step \/ Finish \/ FinalClear \/ Reconcile
Operator == Stop \/ Resume \/ AskReconcile
Time == RunExpires \/ ImageAges \/ PermitElapses \/ CandidateLapses
RunFaults == Breaks \/ Crash \/ Shutdown
RunNext == Dispatcher \/ Starts \/ Operator \/ Cleanup \/ Time \/ Others \/ RunFaults

RunSpec == RunInit /\ [][RunNext]_runVars

\* What does not go on for ever.  (The end of a clearing is a return to idle, like a crash.)
Disturbed == (Crash /\ ~FinalClear) \/ Shutdown

----------------------------------------------------------------------------
(* Properties *)

\* A request is sent to the source at most once, whatever crashes, stops and resumptions
\* the job goes through: one that may have been sent is left to a reconciliation.
SentOnce == \A k \in Kinds : sent[k] <= 1

\* A run recorded as completed has had a result accepted by the API, also when it was
\* restarted with its state lost, or settled by a reconciliation.  Beyond the seven days
\* it does not hold: the cleanup may take the state between the last step and its reading.
CompletedHasResult ==
  run.state \in Completed /\ ~run.expired /\ ~Refreshing => core.took # "none"

\* A run completed without a warning has its image uploaded, or reported why it has none.
\* (A job that dies between clearing its state, of a candidate decided in the meantime, and
\* saving that it ended is completed by its restart.)
ImageShown ==
  run.state = "COMPLETED" /\ ~run.expired /\ core.status \notin {"DECIDED", "GONE"} =>
    core.preview \/ core.took \in {"failed", "unsafe"}

\* Whatever result of the run the API took, the run's row has its digest, so that a
\* reconciliation can tell the result from another's after any crash or lost answer.
DigestKnown == core.took # "none" => run.digest = core.took

\* A request goes out only for a run that is still on record as active.
OnlyActiveSends == [][sent' # sent => run.state \in Active]_runVars

\* However the run is stopped, resumed, cleaned up or left by a process that dies, its requests
\* go out once and for an active run, and its row does not claim more than the API has.
RunSound ==
  [](RunTypeOK /\ SentOnce /\ CompletedHasResult /\ ImageShown /\ DigestKnown) /\ OnlyActiveSends

\* Where a run comes again and again: to an end, a reconciliation at the latest, and to an
\* empty spool.
Ended == run.state \notin Active \cup {"QUEUED"}
Spooled == (saved # Empty /\ readable) \/ file # "none"
=============================================================================
