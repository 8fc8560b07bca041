---------------------------- MODULE BatchRetention ----------------------------
(***************************************************************************)
(* The life of one collected item: its row (collect.batch_item), the       *)
(* objects its runs stored, and their removal once its time is over        *)
(* (collect.batch_retention and the purge manifest), after its image       *)
(* failed for good (batch_image_retry) or an operator deleted it.          *)
(*                                                                         *)
(* A run is one execution under the lock of the source.  A PUT that was    *)
(* under way when its run died may still reach the store.                  *)
(***************************************************************************)
EXTENDS Naturals, FiniteSets

CONSTANTS
  MaxRuns,     \* bounds: runs that come to the item,
  MaxDeaths,   \*   times that a process dies or is too slow
  Workers,     \* the retention workers
  NoOne        \* no worker

RetentionAssumption == MaxRuns \in Nat /\ MaxDeaths \in Nat /\ NoOne \notin Workers

VARIABLES
  row,       \* the item
  life,      \* its row in batch_retention
  manifest,  \* batch_purge_object: what became of each object of the manifest
  dedup,     \* its identity is in batch_dedup_key
  retried,   \* it has a row in batch_image_retry
  failures,  \* the runs with a row in batch_failure
  cleanup,   \* batch_image_cleanup and batch_manual_cleanup, for each run
  running,   \* the run in state RUNNING, or 0
  proc,      \* the collector: its run and where it is
  store,     \* the objects
  inflight,  \* PUTs under way
  worker,    \* the retention workers
  deaths,    \* how often a process died or was too slow
  late       \* history: objects that reached the store since the latest claim of the purge

vars == <<row, life, manifest, dedup, retried, failures, cleanup, running, proc, store, inflight,
          worker, deaths, late>>
item == <<row, dedup, retried, failures, cleanup>>

Runs == 1..MaxRuns
Kinds == {"raw", "media"}
\* Keys hold the run and the item: collect/raw/<run>/<item>.html, collect/media/<run>/<item>/<position>.
Keys == Runs \X Kinds
Of(r) == {r} \X Kinds
NoKey == <<0, "raw">>

TypeOK ==
  /\ row.state \in {"none", "FETCHING", "FETCHED", "FAILED", "SKIPPED_POLICY", "gone"}
  /\ row.run \in 0..MaxRuns /\ {row.raw, row.media, row.image} \subseteq BOOLEAN
  /\ life.state \in {"none", "LIVE", "PURGE_PENDING", "PURGE_FAILED", "PURGED", "removed"}
  /\ life.run \in 0..MaxRuns /\ {life.expired, life.leased, life.waiting, life.old} \subseteq BOOLEAN
  /\ life.owner \in Workers \cup {NoOne} /\ (life.owner # NoOne) = (life.state = "PURGE_PENDING")
  /\ life.leased => life.owner # NoOne
  /\ manifest \in [Keys -> {"none", "PENDING", "FAILED", "DELETED"}]
  /\ dedup \in BOOLEAN /\ retried \in BOOLEAN /\ failures \subseteq Runs
  /\ cleanup \in [Runs -> {"none", "noted", "open", "done"}]
  /\ running \in 0..MaxRuns /\ proc.run \in 0..MaxRuns
  /\ proc.at \in {"none", "claim", "fetch", "raw", "parse", "media", "store", "complete"}
  /\ proc.at # "none" => running \in {0, proc.run}
  /\ store \subseteq Keys /\ inflight \subseteq Keys /\ late \subseteq Keys /\ deaths \in 0..MaxDeaths
  /\ worker \in [Workers -> [at : {"idle", "images", "cleaning", "inventory", "claim", "list", "purge",
                                   "delete", "record"},
                             jobs : SUBSET Runs, job : 0..MaxRuns, todo : SUBSET Keys, key : Keys \cup {NoKey}]]

Init ==
  /\ row = [state |-> "none", run |-> 0, raw |-> FALSE, media |-> FALSE, image |-> FALSE]
  /\ life = [state |-> "none", run |-> 0, expired |-> FALSE, owner |-> NoOne, leased |-> FALSE,
             waiting |-> FALSE, old |-> FALSE]
  /\ manifest = [k \in Keys |-> "none"] /\ dedup = FALSE /\ retried = FALSE /\ failures = {}
  /\ cleanup = [r \in Runs |-> "none"] /\ running = 0 /\ proc = [run |-> 0, at |-> "none"]
  /\ store = {} /\ inflight = {} /\ deaths = 0 /\ late = {}
  /\ worker = [w \in Workers |-> [at |-> "idle", jobs |-> {}, job |-> 0, todo |-> {}, key |-> NoKey]]

-----------------------------------------------------------------------------
(* The collector.                                                            *)

\* assert_item_live; guard_batch_item and the fences on commit ask it again with every write.
Live == life.state = "LIVE" /\ ~life.expired
\* The objects the rows name: a new claim empties them.
Recorded == (IF row.raw THEN {<<row.run, "raw">>} ELSE {}) \cup (IF row.media THEN {<<row.run, "media">>} ELSE {})
Ends == proc' = [proc EXCEPT !.at = "none"]
Goes(at) == proc' = [proc EXCEPT !.at = at]
Kept == UNCHANGED <<life, manifest, store, inflight, worker, deaths, late>>

\* A new execution takes the lock of the source: a RUNNING run has lost its owner.
Begin ==
  /\ proc.at = "none" /\ proc.run < MaxRuns
  /\ proc' = [run |-> proc.run + 1, at |-> "claim"] /\ running' = proc.run + 1
  /\ Kept /\ UNCHANGED item

\* The earlier attempt's prefix is noted before the claim replaces it, once the image was retried:
\* a failed image counts its next claim as the retry.
Noted ==
  \/ row.state \in {"FETCHING", "FAILED"} /\ retried
  \/ row.state = "FAILED" /\ row.image
PrepareRetry ==
  /\ retried' = (retried \/ Noted)
  /\ cleanup' = IF Noted /\ cleanup[row.run] = "none" THEN [cleanup EXCEPT ![row.run] = "noted"] ELSE cleanup

\* The row is inserted, or claimed again unless it is whole: its run, its objects are those of this run.
ClaimItem ==
  /\ proc.at = "claim" /\ row.state # "FETCHED" /\ ~dedup
  /\ row.state # "gone"
  /\ \/ row.state = "none" /\ UNCHANGED <<retried, cleanup>>
        /\ life' = [life EXCEPT !.state = "LIVE", !.run = proc.run]
     \/ row.state # "none" /\ Live /\ PrepareRetry /\ UNCHANGED life
  /\ row' = [state |-> "FETCHING", run |-> proc.run, raw |-> FALSE, media |-> FALSE, image |-> FALSE]
  /\ Goes("fetch")
  /\ UNCHANGED <<manifest, dedup, failures, running, store, inflight, worker, deaths, late>>

\* A duplicate, or an item whose time is over: the run ends without it.  (A post whose item is gone
\* without a trace in batch_dedup_key is collected again as an item of its own.)
ClaimNothing ==
  /\ proc.at = "claim" /\ (dedup \/ row.state \in {"FETCHED", "gone"} \/ (row.state # "none" /\ ~Live))
  /\ Ends /\ running' = 0 /\ Kept /\ UNCHANGED item

\* assertLive, then the PUT of the page or of an image.
Put(at, kind, then) ==
  /\ proc.at = at /\ Live
  /\ inflight' = inflight \cup {<<proc.run, kind>>} /\ Goes(then)
  /\ UNCHANGED <<item, life, manifest, running, store, worker, deaths, late>>
PutRaw == Put("fetch", "raw", "raw")
PutMedia == Put("media", "media", "store")

\* The store has answered: assertLive, then the row.
Answered(kind) == <<proc.run, kind>> \in store /\ <<proc.run, kind>> \notin inflight
RawStored ==
  /\ proc.at = "raw" /\ Answered("raw") /\ Live
  /\ row' = [row EXCEPT !.raw = TRUE] /\ Goes("parse")
  /\ Kept /\ UNCHANGED <<dedup, retried, failures, cleanup, running>>
MediaStored ==
  /\ proc.at = "store" /\ Answered("media") /\ Live
  /\ row' = [row EXCEPT !.media = TRUE] /\ Goes("complete")
  /\ Kept /\ UNCHANGED <<dedup, retried, failures, cleanup, running>>

Parsed == proc.at = "parse" /\ Goes("media") /\ Kept /\ UNCHANGED <<item, running>>

\* A post outside of the window, by its list entry or by its page.
SkipItem ==
  /\ proc.at \in {"fetch", "parse"} /\ Live
  /\ row' = [row EXCEPT !.state = "SKIPPED_POLICY"] /\ Ends /\ running' = 0
  /\ Kept /\ UNCHANGED <<dedup, retried, failures, cleanup>>

\* One more attempt of the image, once in the life of the item.
RetryImage ==
  /\ proc.at \in {"media", "store"} /\ Live /\ ~retried
  /\ retried' = TRUE /\ Goes("media")
  /\ Kept /\ UNCHANGED <<row, dedup, failures, cleanup, running>>

\* Its last rows go; what its runs stored is left to the cleanup.
Drops(runs) ==
  /\ row' = [row EXCEPT !.state = "gone", !.raw = FALSE, !.media = FALSE]
  /\ dedup' = TRUE
  /\ cleanup' = [r \in Runs |-> IF r \in runs \/ cleanup[r] = "noted" THEN "open" ELSE cleanup[r]]

\* failItem and discard_image_failure: an image that fails after its retry takes the item with it.
Fail(image) ==
  /\ proc.at \in {"fetch", "raw", "parse", "media", "store", "complete"} /\ Live
  /\ image => proc.at \in {"media", "store"}
  /\ failures' = failures \cup {proc.run}
  /\ IF image /\ retried THEN Drops(failures') /\ UNCHANGED retried
     ELSE row' = [row EXCEPT !.state = "FAILED", !.image = image] /\ UNCHANGED <<dedup, retried, cleanup>>
  /\ Ends /\ running' = 0 /\ Kept

Complete ==
  /\ proc.at = "complete" /\ Live
  /\ row' = [row EXCEPT !.state = "FETCHED"] /\ dedup' = TRUE
  /\ Ends /\ running' = 0 /\ Kept /\ UNCHANGED <<retried, failures, cleanup>>

\* The time of the item ended under the run: each further write throws, that of the failure included.
Expires == /\ proc.at \notin {"none", "claim"} /\ ~Live
           /\ Ends /\ Kept /\ UNCHANGED <<item, running>>

\* The process, or the session that holds its lock, ends.
CollectorDies ==
  /\ proc.at # "none" /\ deaths < MaxDeaths /\ deaths' = deaths + 1
  /\ Ends /\ UNCHANGED <<item, life, manifest, running, store, inflight, worker, late>>

PutLands(k) ==
  /\ k \in inflight /\ inflight' = inflight \ {k} /\ store' = store \cup {k} /\ late' = late \cup {k}
  /\ UNCHANGED <<item, life, manifest, running, proc, worker, deaths>>
PutLost(k) ==
  /\ k \in inflight /\ inflight' = inflight \ {k}
  /\ UNCHANGED <<item, life, manifest, running, proc, store, worker, deaths, late>>

\* delete_failed_item: an operator deletes a failed item no run works on.
DeleteFailedItem ==
  /\ proc.at = "none" /\ row.state = "FAILED" /\ running # row.run /\ Live
  /\ Drops(failures \cup {row.run})
  /\ Kept /\ UNCHANGED <<retried, failures, running, proc>>

-----------------------------------------------------------------------------
(* Time: 28 days, or 7 from the first decision; the lease, the delay after   *)
(* a failure, the 7 days of the ledger.                                      *)

Expire ==
  /\ life.state = "LIVE" /\ ~life.expired /\ life' = [life EXCEPT !.expired = TRUE]
  /\ UNCHANGED <<item, manifest, running, proc, store, inflight, worker, deaths, late>>
WaitEnds ==
  /\ life.waiting /\ life' = [life EXCEPT !.waiting = FALSE]
  /\ UNCHANGED <<item, manifest, running, proc, store, inflight, worker, deaths, late>>
\* The owner keeps its lease while it lives and is not too slow.
Owns(w) == life.owner = w /\ worker[w].at \in {"list", "purge", "delete", "record"}
LeaseEnds ==
  /\ life.leased /\ life' = [life EXCEPT !.leased = FALSE]
  /\ IF \E w \in Workers : Owns(w) THEN deaths < MaxDeaths /\ deaths' = deaths + 1 ELSE UNCHANGED deaths
  /\ UNCHANGED <<item, manifest, running, proc, store, inflight, worker, late>>
\* Neither a pass of the worker nor a PUT takes 7 days.
LedgerAges ==
  /\ life.state = "PURGED" /\ ~life.old /\ inflight = {} /\ \A w \in Workers : worker[w].at = "idle"
  /\ life' = [life EXCEPT !.old = TRUE]
  /\ UNCHANGED <<item, manifest, running, proc, store, inflight, worker, deaths, late>>

-----------------------------------------------------------------------------
(* The retention worker.                                                     *)

At(w, at) == worker[w].at = at
\* It turns to a part of its pass with nothing in hand, or goes on with its list.
Fresh(at) == [at |-> at, jobs |-> {}, job |-> 0, todo |-> {}, key |-> NoKey]
Turns(w, at) == worker' = [worker EXCEPT ![w] = Fresh(at)]
GoesOn(w, at) == worker' = [worker EXCEPT ![w].at = at]
OwnStep == UNCHANGED <<running, proc, inflight, deaths>>
Calm == UNCHANGED <<item, life, manifest, late>> /\ OwnStep

Pass(w) ==
  /\ At(w, "idle")
  /\ worker' = [worker EXCEPT ![w].at = "images", ![w].jobs = {r \in Runs : cleanup[r] = "open"}]
  /\ Calm /\ UNCHANGED store

\* ImageFailureCleanup: the keys of the job are listed, then deleted one by one, and it is done.
CleanupLists(w) ==
  /\ At(w, "images")
  /\ \E r \in worker[w].jobs :
       worker' = [worker EXCEPT ![w].at = "cleaning", ![w].job = r, ![w].jobs = @ \ {r},
                                ![w].todo = (store \cap Of(r)) \cup {<<r, "raw">>}]
  /\ Calm /\ UNCHANGED store
BackToJobs(w) == worker' = [worker EXCEPT ![w].at = "images", ![w].job = 0, ![w].todo = {}]
\* image_cleanup_allowed.
Allowed(r) == row.state = "gone" /\ cleanup[r] \in {"open", "done"}
CleanupDeletes(w, k) ==
  /\ At(w, "cleaning") /\ Allowed(worker[w].job) /\ k \in worker[w].todo
  /\ store' = store \ {k} /\ worker' = [worker EXCEPT ![w].todo = @ \ {k}]
  /\ Calm
CleanupFails(w) ==
  /\ At(w, "cleaning") /\ worker[w].todo # {} /\ BackToJobs(w) /\ Calm /\ UNCHANGED store
CleanupDone(w) ==
  /\ At(w, "cleaning") /\ worker[w].todo = {}
  /\ cleanup' = [cleanup EXCEPT ![worker[w].job] = "done"] /\ BackToJobs(w)
  /\ OwnStep /\ UNCHANGED <<row, life, manifest, dedup, retried, failures, store, late>>

\* The inventory: each object of the store is looked up.
Inventory(w) ==
  /\ At(w, "images") /\ worker[w].jobs = {}
  /\ worker' = [worker EXCEPT ![w].at = "inventory", ![w].todo = store]
  /\ Calm /\ UNCHANGED store

\* observe_retention_object: an object of a dropped item opens its cleanup again; one whose item has
\* expired comes into the manifest, which opens again; one that belongs to no row ends the pass.
OfDropped(k) == cleanup[k[1]] \in {"open", "done"}
OfItem(k) ==
  /\ life.state \notin {"none", "removed"}
  /\ k \in Recorded \/ manifest[k] # "none" \/ k[1] = life.run

\* Bug: an item that is purged stays purged.
ReopensNothing(w, k) ==
  /\ ~OfDropped(k) /\ OfItem(k) /\ life.expired /\ life.state # "PURGED"
  /\ manifest' = [manifest EXCEPT ![k] = "PENDING"]
  /\ worker' = [worker EXCEPT ![w].todo = @ \ {k}]
  /\ OwnStep /\ UNCHANGED <<item, life, store, late>>

ReopensCleanup(w, k) ==
  /\ OfDropped(k) /\ cleanup' = [cleanup EXCEPT ![k[1]] = "open"]
  /\ worker' = [worker EXCEPT ![w].todo = @ \ {k}]
  /\ OwnStep /\ UNCHANGED <<row, life, manifest, dedup, retried, failures, store, late>>
ReopensManifest(w, k) ==
  /\ ~OfDropped(k) /\ OfItem(k) /\ life.expired
  /\ manifest' = [manifest EXCEPT ![k] = "PENDING"]
  /\ life' = IF life.state = "PURGED" THEN [life EXCEPT !.state = "PURGE_FAILED", !.old = FALSE] ELSE life
  /\ worker' = [worker EXCEPT ![w].todo = @ \ {k}]
  /\ OwnStep /\ UNCHANGED <<item, store, late>>
LeavesAlone(w, k) ==
  /\ ~OfDropped(k) /\ OfItem(k) /\ ~life.expired
  /\ worker' = [worker EXCEPT ![w].todo = @ \ {k}] /\ Calm /\ UNCHANGED store
Unknown(w, k) ==
  /\ ~OfDropped(k) /\ ~OfItem(k) /\ Turns(w, "idle")
  /\ Calm /\ UNCHANGED store

Observe(w) ==
  /\ At(w, "inventory")
  /\ \E k \in worker[w].todo : ReopensCleanup(w, k) \/ ReopensManifest(w, k) \/ LeavesAlone(w, k) \/ Unknown(w, k)
Observed(w) == At(w, "inventory") /\ worker[w].todo = {} /\ Turns(w, "claim") /\ Calm /\ UNCHANGED store

\* claim_retention: an expired item no one works on, with a manifest of what its rows name.
Claimable == life.state \in {"LIVE", "PURGE_PENDING", "PURGE_FAILED"} /\ life.expired /\ ~life.leased /\ ~life.waiting
Claim(w) ==
  /\ At(w, "claim") /\ Claimable
  /\ life' = [life EXCEPT !.state = "PURGE_PENDING", !.owner = w, !.leased = TRUE]
  /\ manifest' = [k \in Keys |-> IF k \in Recorded /\ manifest[k] = "none" THEN "PENDING" ELSE manifest[k]]
  /\ late' = {} /\ Turns(w, "list")
  /\ OwnStep /\ UNCHANGED <<item, store>>

\* The pass ends with the ledger: rows that are purged for 7 days go.
PassEnds(w) ==
  /\ At(w, "claim") /\ ~Claimable
  /\ IF life.state = "PURGED" /\ life.old
     THEN life' = [life EXCEPT !.state = "removed"] /\ manifest' = [k \in Keys |-> "none"]
     ELSE UNCHANGED <<life, manifest>>
  /\ Turns(w, "idle") /\ OwnStep /\ UNCHANGED <<item, store, late>>

\* Bug: any worker's lease will do.
HasAnyLease(w) == life.leased /\ life.state = "PURGE_PENDING"

\* assert_purge_lease.
HasLease(w) == life.owner = w /\ life.leased /\ life.state = "PURGE_PENDING"

\* Its prefixes are listed into the manifest; what is not yet deleted is to be.
Lists(w) ==
  /\ At(w, "list") /\ HasLease(w)
  /\ manifest' = [k \in Keys |-> IF k \in store \cap Of(life.run) THEN "PENDING" ELSE manifest[k]]
  /\ worker' = [worker EXCEPT ![w].at = "purge", ![w].todo = {k \in Keys : manifest'[k] \in {"PENDING", "FAILED"}}]
  /\ OwnStep /\ UNCHANGED <<item, life, store, late>>

\* A heartbeat, the deletion with its check, the result.
Beats(w) ==
  /\ At(w, "purge") /\ HasLease(w)
  /\ \E k \in worker[w].todo : worker' = [worker EXCEPT ![w].at = "delete", ![w].key = k, ![w].todo = @ \ {k}]
  /\ Calm /\ UNCHANGED store
Deletes(w) ==
  /\ At(w, "delete") /\ store' = store \ {worker[w].key} /\ GoesOn(w, "record") /\ Calm
Records(w) ==
  /\ At(w, "record") /\ HasLease(w)
  /\ manifest' = [manifest EXCEPT ![worker[w].key] = "DELETED"]
  /\ worker' = [worker EXCEPT ![w].at = "purge", ![w].key = NoKey]
  /\ OwnStep /\ UNCHANGED <<item, life, store, late>>

\* Bug: the result is DELETED whatever the store said.
DeleteFailsUnseen(w) ==
  /\ At(w, "delete") /\ HasLease(w)
  /\ manifest' = [manifest EXCEPT ![worker[w].key] = "DELETED"]
  /\ worker' = [worker EXCEPT ![w].at = "purge", ![w].key = NoKey]
  /\ OwnStep /\ UNCHANGED <<item, life, store, late>>

\* fail_retention: the delay is 1, 5, 30 minutes, then an hour.
Released == life' = [life EXCEPT !.state = "PURGE_FAILED", !.owner = NoOne, !.leased = FALSE, !.waiting = TRUE]
DeleteFails(w) ==
  /\ At(w, "delete") /\ HasLease(w)
  /\ manifest' = [manifest EXCEPT ![worker[w].key] = "FAILED"] /\ Released /\ Turns(w, "claim")
  /\ OwnStep /\ UNCHANGED <<item, store, late>>

\* finish_retention: the rows go when the whole manifest is deleted; a RUNNING run of the item fails.
Remain == \E k \in Keys : manifest[k] \in {"PENDING", "FAILED"}
Finish(w) ==
  /\ At(w, "purge") /\ worker[w].todo = {} /\ HasLease(w) /\ ~Remain
  /\ row' = [row EXCEPT !.state = "gone", !.raw = FALSE, !.media = FALSE]
  /\ life' = [life EXCEPT !.state = "PURGED", !.owner = NoOne, !.leased = FALSE]
  /\ running' = IF running = life.run THEN 0 ELSE running
  /\ Turns(w, "claim")
  /\ UNCHANGED <<manifest, dedup, retried, failures, cleanup, proc, store, inflight, deaths, late>>
FinishFails(w) ==
  /\ At(w, "purge") /\ worker[w].todo = {} /\ HasLease(w) /\ Remain
  /\ Released /\ Turns(w, "claim") /\ OwnStep /\ UNCHANGED <<item, manifest, store, late>>

\* The lease is gone: neither a result nor a failure is written.
LateOwner(w) ==
  /\ worker[w].at \in {"list", "purge", "record"} /\ ~HasLease(w)
  /\ Turns(w, "claim") /\ Calm /\ UNCHANGED store

WorkerDies(w) ==
  /\ ~At(w, "idle") /\ deaths < MaxDeaths /\ deaths' = deaths + 1
  /\ Turns(w, "idle")
  /\ UNCHANGED <<item, life, manifest, running, proc, store, inflight, late>>

WorkerStep(w) ==
  \/ Pass(w) \/ CleanupLists(w) \/ (\E k \in Keys : CleanupDeletes(w, k)) \/ CleanupDone(w) \/ Inventory(w)
  \/ Observe(w) \/ Observed(w) \/ Claim(w) \/ PassEnds(w) \/ Lists(w) \/ Beats(w) \/ Deletes(w) \/ Records(w)
  \/ Finish(w) \/ FinishFails(w) \/ LateOwner(w)

Collector ==
  \/ Begin \/ ClaimItem \/ ClaimNothing \/ PutRaw \/ PutMedia \/ RawStored \/ MediaStored \/ Parsed
  \/ SkipItem \/ RetryImage \/ (\E image \in BOOLEAN : Fail(image)) \/ Complete \/ Expires \/ CollectorDies

Next ==
  \/ Collector \/ DeleteFailedItem
  \/ \E k \in Keys : PutLands(k) \/ PutLost(k)
  \/ Expire \/ WaitEnds \/ LeaseEnds \/ LedgerAges
  \/ \E w \in Workers : WorkerStep(w) \/ CleanupFails(w) \/ DeleteFails(w) \/ WorkerDies(w)

Spec == Init /\ [][Next]_vars

\* The store fails.
Faults == \E w \in Workers : CleanupFails(w) \/ DeleteFails(w)

----------------------------------------------------------------------------
(* Properties *)

\* Objects that the inventory of the worker finds no row for.
Orphans == {k \in store : ~OfDropped(k) /\ ~OfItem(k)}

\* An item whose time is not over keeps the objects its rows name, whatever
\* the cleanup of its earlier runs, a late worker or a late PUT does (claim_retention, ImageFailureCleanup).
LiveKeepsObjects == ~life.expired => Recorded \subseteq store

\* An item counts as purged only when nothing is left of what the worker was to delete, except for an
\* object that came into the store after the worker had claimed the item (finish_retention, purge of
\* BatchRetentionWorker).
PurgedIsGone ==
  life.state \in {"PURGED", "removed"} =>
    \A k \in store : (k[1] = life.run \/ manifest[k] # "none") => k \in late

\* The lease of a purge that is not over ends with a step of its owner: a worker that lost its own lease
\* can not end it (assert_purge_lease).
LeaseIsOwners ==
  [][life.leased /\ life'.owner # life.owner => worker'[life.owner] # worker[life.owner]]_vars

\* In the end no object is left of an item whose time is over or which was dropped: not one that a dead
\* run's PUT brought after the purge either (inventory and observe_retention_object). This is unless the
\* inventory meets an object it finds no row for, which ends each pass.
InTheEndGone == <>[](Orphans = {} => \A k \in store : ~life.expired /\ ~OfDropped(k))

\* Together: what the workers delete is what they may delete, and all of it.
RetentionSafe == TypeOK /\ LiveKeepsObjects /\ PurgedIsGone

=============================================================================
