# Formal models of blariyo

TLA+ specifications of the parts of blariyo whose correctness depends on the
order of steps of several actors: requests, outbox workers, scheduled jobs and
collectors that share a PostgreSQL database, two object stores, an edge cache
and Discord.  TLC checks them on small instances; TLAPS proves the invariants
that matter most for instances of any size.

Paths below are relative to `src/`.

## 1. Inventory

| Component | State | Operations | Interacts with |
|---|---|---|---|
| Post commands, `apps/api/src/features/posts` | `content.board_post` (status, lock_version), links to images | create draft, update, publish, schedule, unschedule, hide, republish, remove, due publication | images (rows and public objects), outbox, receipts, advisory lock `post-storage:<id>` |
| Post images, `features/images` | `content.board_post_image` (status, post, public key), private bucket | upload, discard, preview | outbox, cleanup, posts |
| Outbox, `operations/outbox.service.ts` | `ops.outbox_task` (status, attempts, claim time) | claim, execute, finish, fail, recover expired claims | public and private bucket, edge cache, image rows |
| Cleanup job, `operations/cleanup.service.ts` | none; reads both buckets' inventories | expire staged images, remove orphans | image rows, outbox, buckets |
| Transactions and locks, `persistence/database.ts` | database sessions, advisory locks | transaction, transactionLock, lock | every service |
| Idempotency receipts | `ops.idempotency_request` | find, save, expire | post commands |
| Schedule failure alerts | counted failures per post and error | record, deliver | due publication, web hook |
| Review commands, `features/collection/review-command.service.ts` | one control row per batch item (authority, decision epoch, active command); commands (stage, lease, post) | accept, claim, advance, progress, retry | batch review, posts, Discord cleanup |
| Batch review | review row per item (status, version, post) | snapshot, prepare, promote, discard | images, posts, collector's objects |
| Discord review, API and `DiscordReviewWorker.java` | deliveries, parts, scans, notices with leases and send states | export, acknowledge, scan, decide, cancel, clean up | Discord, review commands |
| Source auto-publish | policy per source, classification per item | run, preview | review commands |
| Collector leases, results, quota | candidates with lease and lock_version, receipts, counters | claim, heartbeat, result | the pull collector |
| Batch queue and runs, `apps/collector` | confirmations, queue rows, runs | confirm, cancel, claim, attach, settle | Discord gateway, run engine |
| Batch items, discard and retention | items, retention rows, purge manifest, cleanups of dropped items, objects | claim, store, fail, drop, purge, observe | object store, batch runs |
| Notification outbox | event rows | claim, send, retry | web hooks |
| Parsers, HTTP, public reads, web, guards, scripts | none of their own | | |

What is hard here, and what makes each part correct:

* **Posts, images, outbox and cleanup.**  The public objects of a post are
  copied *before* the transaction that publishes it, and deleted *after* the
  one that hides it, by other processes, minutes later, any number of times.
  The database cannot see the buckets.  Correct means: a published post has
  all its objects; a withdrawn image really is gone; originals survive while
  they can be needed; nothing is left behind.  Hard: crashes between the copy
  and the commit, commits whose acknowledgement is lost, workers slower than
  their claim, deletions that race with republication, attempts that run out.
* **Review commands.**  An administrator may overrule a decision that a worker
  is carrying out.  Correct means: a superseded decision publishes nothing
  after the new one is accepted; a command publishes at most one post; a lost
  acknowledgement discards nothing that is linked.  Hard: 180-second leases
  that expire in the middle of the work, crashes between two transactions.
* **Discord delivery.**  A message may have been sent although its answer was
  lost.  Correct means: at most one message for each part, nothing left after
  a cancellation, votes counted only on complete observations.
* **Leases and queues of the collectors.**  Correct means: results count only
  for the current lease; a dead owner's run is settled once; a request to a
  source is sent once; a request that was shown as expired stays so.
* **Retention.**  Rows and objects go at different times by different hands.
  Correct means: the objects of an item whose time is not over stay, those of
  a purged one are gone.  Hard: PUTs that arrive after the purge, a worker that
  lost its lease, runs that died between a PUT and its row.
* **Receipts and schedules.**  Correct means: a repeated request has one
  effect; a due publication does not override a later decision.

## 2. Structure and plan

| Module | Models | Checked by | Proved in |
|---|---|---|---|
| `PostPublication` | posts, images, outbox and the public bucket | `MCPostPublication` | `PostPublicationProofs` |
| `ReviewCommand` | decisions about collected items, their commands and drafts | `MCReviewCommand` | `ReviewCommandProofs` |
| `ReviewDecision` | what `ReviewCommand` promises, without workers, leases, epochs and messages | `MCReviewCommand` (`ImplementsDecision`) | `ReviewCommandProofs` |
| `ImageStaging` | uploads, private objects, their expiry and sweep | `MCServer` | `StagingProofs` |
| `PostSchedule` | due publication, failure alerts | `MCServer` | `PostCommandProofs` |
| `IdempotentCommand` | a save of the page of a post, retried, with its receipt | `MCServer` | `PostCommandProofs` |
| `CandidateCollection` | a candidate from its request to its post | `MCServer` | `CandidateProofs` |
| `BatchRetention` | a collected item, its objects, their removal | `MCServer` | `RetentionProofs` |
| `Server` | the five parts above, side by side | `MCServer` extends it | `Server` |
| `CollectorRun` | one job of the collector with its restarts | `MCCollector` extends it | `CollectorProofs` |
| `BatchQueue` | requests, confirmations and the queue | `MCCollector` | - |
| `ReviewVote` | what the reactions on a message decide | `MCCollector` | `CollectorProofs` |
| `ReviewScan` | the scans of the messages | `MCCollector` | - |
| `DiscordDelivery` | one message in Discord | `MCCollector` extends it | `CollectorProofs` |

The components have no variable in common: what one does to another is an action of
the model of the other (`Attach` of an image, `ChangePost` of a draft, `DECIDED` of a
candidate).  `PostPublication` and `ReviewCommand` are the core and have MC modules of
their own; the others are instantiated side by side.

**Scenes.**  An MC module adds a variable `scene`, chosen in the initial state and never
changed.  In `MCServer` and `MCCollector` it names the part that moves, in all of them it
names a restriction of `Next` (two workers but one image; two requests but no
readers).  A scene removes behaviours so that the rest can be explored with larger
bounds; each kind of interference has a scene in which all its interleavings are
there.  `VIEW Moving` makes states equal that differ in a part that rests: it
rests in its initial state, so nothing is lost by it.

What is left of the plan:

1. Proofs of the safety of the scans and of the batch queue (`ScanSound`, `QueueSound`).
2. The notification outbox and the remaining pages of the administration.

Modules are written to be proved about: parameters are constants with named
assumptions, one action per operation, invariants as conjunctions of named
parts, no RECURSIVE operator.

## 3. PostPublication

### State

| Variable | Code |
|---|---|
| `post` | `board_post.status` and `lock_version` |
| `image` | `board_post_image.status`, `post_id`, and the public storage key; a key is `posts/<post>/<image>-<hash>`, so the model keeps the post it names |
| `publicObjs`, `privateObjs` | the objects in the two buckets |
| `cached`, `pages` | what the edge cache holds: images by key, pages by post |
| `task` | open rows of `ops.outbox_task`, with status, attempts and the claim (`updated_at` of the claim identifies its owner; the model names the worker) |
| `lock` | the session advisory locks `post-storage:<id>` |
| `cmd` | where a request is inside `PostsService.command` |
| `worker` | where a worker is inside `OutboxService.run` |
| `cleaner` | the object `CleanupService.run` is looking at |

### Actions

A request is `Request` (the client, or `publishDue`, has read the post),
`AcquireLock`, `Precheck`, one `Promote` or `PromoteFails` per image, one of the
commits, or `Rollback`; then, on an error, `Compensate` once per copied image
and `Rethrow`.  A transaction is one step, and its acknowledgement may be lost:
the `Commit` operator either ends the request or sends it to the catch block
with the transaction committed.  `CommandDies` is the death of the process, a
broken connection, the 5-second `lock_timeout` or a compensation that cannot be
saved; the session lock goes and nothing else is undone.

A worker is `Claim`, `ReadImage` (which post's lock?), `WorkerLocks`, `Execute`
(is the claim still ours? is the object to be deleted?), `DeleteObject`,
`PurgeCache`, `FinishTask`; any of them may throw (`TaskThrows`, `FailTask`) or
the process may die (`WorkerDies`).  `RecoverExpired` may take the claim of any
running task: five minutes is not a bound on a worker, so a slow worker and the
one that claimed the task again run side by side.

`CleanPick`, `CleanLock`, `CleanCheck`, `CleanDelete` are the public sweep;
`Discard` is the editor's discard of a staged image or its expiry.  `FetchImage`
and `FetchPage` are readers behind the edge cache.  The cache is external; it
stores only what origin serves at that moment.

Not modelled here: titles, bodies and pins (a pin conflict is a `Rollback`),
idempotency receipts, the schedule time, uploads, and the loss of a lock
session while its holder goes on working.

### Properties

* `TypeOK`, with the fact that an open outbox row always has attempts left.
* `PublishedServable`: a published post's images are PUBLIC, under the post's
  own key, and their objects are in the bucket.
* `OriginalKept`: an original is not deleted while its image can still be
  published.
* `WithdrawalNotForgotten`: an image waiting for its withdrawal has an outbox
  row for it, DEAD at worst.
* `WithdrawnIsGone`: the row says *withdrawn* only when neither bucket nor edge
  cache has the object.
* `StalePagePurged`: a cached page of an unpublished post has a purge under way
  (or DEAD).
* `WithdrawalEnds`, `OrphanRemoved`: liveness, below.
* `StorageDiscipline`: the inductive invariant of the proofs.

### Runs

Both runs are of `MCPostPublication`.  Deadlock is not checked: a removed post is
a final state, and the bounds stop the instance.

| Run | Shows | Distinct states |
|---|---|---|
| `posts` | all the safety properties, in five scenes | 0.5 M |
| `posts_ends` | `WithdrawalEnds`, `OrphanRemoved`: 1 image, 1 request, 1 worker, fairness | 45 k |
| `compensation_wrong_lock` | 2 posts, 1 image that may be in either: violates `PublishedServable`, section 7 | - |

The scenes of `posts`:

* *withdrawals*: 1 image, 1 request, 2 workers and the readers of the image; versions to
  5.  Hide, slow worker, second worker, republish, failed purge, DEAD rows.
* *requests*: 1 image, 2 requests, 1 worker; two compensations of a key at once.
* *orphans*: the same with the sweep.
* *two images*: 1 request and a post with two images: the second copy or the second
  compensation fails.
* *pages*: a post without images, its page and 2 workers.

Bounds.  `MaxVersion` bounds the changes of a post: 4 are publish, hide,
republish (or edit) and one more, so every order of two publications with a
hide between them occurs, and so does every race of two requests.  `Slots` bounds the
copies of one message that are open at once: a second compensation of a key
needs a second failed publication while the first one is pending.
`MaxAttempts` is 8 in the code; 2 gives a retry and a DEAD row, 1 only the
latter.  `Viewed` and `Paged` are the posts whose image or page is read.
Requests, workers and images are interchangeable, hence the symmetry sets; the
run with liveness uses none.

Fairness.  `Fairness` is what the code's scheduling gives.  A request that has
its lock and a task that has been claimed go on (weak fairness).  A waiter for
an advisory lock is queued by PostgreSQL and gets it although others come and
go (strong fairness).  `claim` takes the oldest due row, so a row that stays due
is claimed (strong, because failures and recoveries interrupt it); every run
begins with `recoverExpired`.  Nothing forces a new request to be made.  `WithdrawalEnds` needs no more:
every failure counts an attempt, so the row succeeds or is DEAD in the end.
Cleanup runs over the whole inventory every day; what is assumed of it is that it
does not meet a held lock, or die at the same step, of the same object every day
(strong fairness of its steps on each key).  Deaths are never assumed to stop:
they are in `Next` and fairness says only that they do not win every time.

## 4. ReviewCommand

### State

| Variable | Code |
|---|---|
| `control` | `batch_review_control`: authority, decision epoch, active command |
| `command` | `batch_review_command`: stage, epoch, review version, post and its version, lease owner, whether the lease has time left; a lease token is unique, so the model keeps the caller of `advance` that holds it |
| `review` | `batch_review`: status, version, post |
| `post` | `board_post` of a draft: status, `lock_version`, the item whose source it names |
| `images` | the images uploaded for a draft, as one: staged, linked, gone |
| `delivery` | the Discord message of an item: not made, open, cancelled |
| `receipts` | publications whose idempotency receipt is kept |
| `expired`, `revoked` | originals past retention; requests whose operator, reviewer or policy is withdrawn |
| `request` | what the author of a request has read before `accept` |
| `worker` | where a caller is inside `ReviewCommandService.advance` |

### Actions

A decision is `Select` (scan or automatic publication), `Look` (the administrator's
page, or the scan's detail query), `ReadEpoch` (the scan's second query) and
`Accept`, one transaction under the item's control row: precedence, review
version, linked draft, cancellation of what is under way, the new row with its
internal `claim` and `progress` steps, the review, the message.  Everything read
before `Accept` may be stale by then.

A worker is `Claim`, `Authorize`, then for an APPROVED command `Prepare` (upload,
for as long as the lease or longer) and `CommitDraft`; for a DRAFTED one
`CheckPost`, `StartPublish` (request key, receipt, status, copies) and
`CommitPublish` (authority, fence, version), then `RecordPublished`.  `Acked`
lets every commit lose its acknowledgement.  `Refuse` is each check that fails with
a client error, `Outage` a dependency that fails anywhere; both lead to the
catch block: `Recover`, `DiscardPrepared`, `Settle`.  `WorkerDies` and
`LeaseExpires` may come at any moment, so two workers may be anywhere in one
command.  `ChangePost` is the ordinary post commands, fenced as in the code when
they publish or schedule.

Not modelled here: which units are selected, the minute before a retry, item
versions (a FETCHED item is not written again), edits of a post's source, and a
second request with a request key already accepted.  The storage lock and the
copies of the images are `PostPublication`'s subject; here they are the time
between `StartPublish` and `CommitPublish`.

### Properties

* `TypeOK`, with the CHECK constraints of V008 and V014, and what a worker knows
  at its place.
* `RejectedStaysDraft`: the draft of a rejected item is not published or scheduled.
* `UnfinishedInForce`: an unfinished command is the active one of its item.
* `FinishedIsFinal`: a late worker does not rewrite an outcome.
* `DraftKeepsImages`: a post's images are never discarded.
* `OneDraftPerSource`: no two posts of one source.
* `OpenMessageIsUndecided`: a message is open for votes only while they count.
* `DecisionLinks`: rows and workers refer to each other in agreement; with
  `TypeOK`, the inductive invariant.
* `CommandEnds`: liveness.
* `ImplementsDecision`: the service refines `ReviewDecision`, which has a verdict
  and an article for each item, and neither workers, leases, epochs nor messages.
  An article is drafted and published only while the verdict is approval, and a
  published article is beyond `Decide`.

### Runs

Both runs are of `MCReviewCommand`.  Deadlock is not checked: when every request
is decided and every original expired, nothing is left to do.

| Run | Shows | Distinct states |
|---|---|---|
| `review` | all the safety properties and `ImplementsDecision`, in four scenes | 1.0 M |
| `review_ends` | `CommandEnds`: 1 item, an administrator, a scan, 1 worker, fairness | 6 k |
| `legacy_draft_published` | 1 item with a legacy draft, an administrator: violates `RejectedStaysDraft`, section 7 | - |

The scenes of `review`:

* *alone*: one approval by a scan, 2 workers, whatever happens around it: authority
  withdrawn, originals and receipts expired, editors at work.
* *preemption*: 2 administrators and a scan overrule each other.
* *same source*: 2 items of one source, a scan and an automatic publication, 2 drafts.
* *automatic*: an automatic publication, an administrator and a scan that finds an
  expired message; authority withdrawn and given back.

Bounds.  Three commands on an item are a decision, one that overrules it and one
that overrules that; a fourth finds the same situation.  Two workers
are one that lost its lease and the one that took the command over.
`MaxPostVersion` bounds `ChangePost` only.  A draft has version 1: 3 lets editors change it,
or hide what a worker has just published, between any two steps of a worker (*alone*); in
*preemption* they change or release a draft once, in the other two nobody does.  One draft suffices where
the second could only be refused; *same source* has two.
Workers, drafts, and requests of one origin are interchangeable; the liveness
run uses no symmetry.

Fairness.  The maintenance job of every minute lists the unfinished commands without
a live lease and advances them: a command that can be claimed again and
again is claimed (strong fairness of `Claim`).  Between the claim and its
release a worker may be stopped by an outage, a death, or a lease shorter than
its work; what is assumed is that this does not happen at the same place every
time (strong fairness for each place, of the holder of the lease).  Workers
in code that needs nothing from outside go on, leases run out, staged images
expire (weak fairness).  Nothing is assumed of who makes requests.

## 5. The other parts of the server: `Server`, `MCServer`

`Server` takes `ImageStaging`, `PostSchedule`, `IdempotentCommand`,
`CandidateCollection` and `BatchRetention` as instances side by side and carries their
theorems over to the product; `MCServer` adds the scenes, the fairness, and the
candidates under the older contract.

### ImageStaging

| Variable | Code |
|---|---|
| `row`, `objects` | `board_post_image` (status, is `source_expires_at` set), the private bucket |
| `task` | rows of `ops.outbox_task` about an object: the intent saved before a collected object is stored, the rollback of a failed upload, the deletion of an image |
| `upload` | where `ImagesService.store` is; `answered` are the images its caller was told of |
| `expired`, `aged` | uploads whose source has expired; uploads older than 24 hours |
| `worker`, `sweeping` | where `OutboxService.execute` is; the object `CleanupService` is about to delete |

`store` saves an intent (`SaveIntent`), puts one object after another (`Put`), creates all
rows in one transaction, and rolls back on an error; it may die anywhere, and a commit
may lose its acknowledgement.  A worker claims, looks at the row, deletes, and
finishes, each step fenced as in the code, beside `RecoverExpired`.  `Attach` and
`Detach` stand for the posts.

`StagingSound` is `AnsweredHasOriginal` (an image its caller knows keeps its original
while it is staged or attached), `DeletedIsGone` (DELETED is the truth),
`PendingNotForgotten` (a deletion a row waits for has an open or DEAD task) and
`IntentBeforeObject` (the intent is there before the object, and stays).
`PendingNotForgotten` names one exception: a collected image that was attached and
detached again, marked by a worker that had lost its claim.  `CollectedGoes`: a
collected original that no post used goes away.

### PostSchedule

`post` is the schedule and `lock_version` of a post, `alert` and `recent` the counted
failures of `schedule_failure_alert`, `job` where a run of `posts:publish-due` is, `lock`
the advisory lock of the delivery, `sent` what the receiver was told.  A job reads the
list of due posts once (`ListDue`), then takes one after the other (`TakeDue`,
`CommitDue`, `DueFails`, `CancelConflicted`, `RecordFailure`) while administrators
change them; it then delivers the alerts.  Jobs overlap and die.  A pin conflict is a
possible outcome of the commit; that 15 minutes have passed is a choice.

`ScheduleSound`: `NewScheduleStands` (a job touches only a schedule whose moment has
come, whatever it read before), `NotifiedWasSent` (notified counts were received).
`ScheduleEnds`: a due post leaves the schedule, every failure is reported.

### IdempotentCommand

The page (`execute` of `admin.vue`), a network that delays and loses, and
`PostsService.command` with its receipt.  `editor` is the page's pending and recovering
state, `try` a request on its way or in its handler, `lock` the advisory lock of a
key, `receipt` the row of `ops.idempotency_request`, `effects` how often the command of a
key was carried out.  `taken` stands for what refuses creations and updates alike and may
pass again: a closed board, an image or a pinned position that is another post's.
`doubtful` is history: the keys last rejected while another try of theirs was on its way.

`CommandSound`: `OnceForEachSave` (one draft for a page, one update for a version),
`SavedIsCarriedOut` (a page that says *saved* is right), `RejectedHasNoEffect` (a rejected
command did not and will not happen).  The first and the last name two exceptions: a
receipt deleted after its 24 hours, for drafts and rejections, and a key in `doubtful`: the
page releases it although the earlier try may still be carried out (section 7); without
that exception TLC finds both violated.  `OutcomeIsLearnt`: an administrator who keeps trying learns the outcome
within the life of the receipt.

### CandidateCollection

`cand`, `image` are the rows of one candidate and its one image; `objects`, `tasks`
the previews and their deletion tasks; `receipts` the stored answers; `hand` the upload
or promotion that holds the candidate's lock over several steps; `seen` what the
administrator looks at; `posts` the drafts.  A collector is present only by `known`, all
it was ever told: each request may be built from any of it, be repeated, or come
late.  `SpringMode` is the contract (`collector.guard.ts`); one deployment accepts one.

`CandidateSound`: `PreviewStands`, `PromotedAsSeen` (one post, of the result and preview
the administrator saw), `ResultOfLastClaim`, `ToldOfLiveClaim` (no stored answer of a
lapsed lease is given out).  `CandidateEnds`: a candidate leaves RUNNING, a preview that
nothing shows disappears.  Left out: the seven days of a receipt; the sweep's check and
deletion are one step, as is the deletion task of a preview.

### BatchRetention

The life of one item: `row` (`collect.batch_item`), `life` (`batch_retention` with its
lease), `manifest` (`batch_purge_object`), `cleanup` (the removal of dropped runs), `store`
and `inflight` (objects, and PUTs that a dead run left under way), `proc` the collector
and `worker` the retention workers.  `late` is history: what reached the store after the
latest claim of the purge.

A run claims the item, stores the raw page and the image, completes, fails or drops it;
a worker lists, beats, deletes, records and finishes under its lease, or comes late
(`LateOwner`); between purges it cleans up what was dropped and takes the inventory
(`Observe`: reopen a cleanup, reopen the manifest, leave alone, or stop at an orphan).

`RetentionSafe` is `LiveKeepsObjects` (an item whose time is not over keeps the
objects its row names) and `PurgedIsGone` (nothing the worker was to delete is left of a
purged item, but for late PUTs); `LeaseIsOwners`: the lease of a purge that is not over
ends with a step of its owner.  `InTheEndGone`: in the end nothing is left of an expired
or dropped item, late PUTs included, unless the inventory meets an orphan, which ends
each pass.  Left out: reports, checkpoints, the move of `expires_at`, the restore
inventory; an image is one object; the check that an object exists and its deletion are
one step, as are `prepareImageRetry` and the claim.

### Runs

Deadlock is not checked: each instance ends at its bounds, a removed item or a decided
candidate rests.

| Run | Shows | Distinct states |
|---|---|---|
| `server` | `StagingSound`, `ScheduleSound`, `CommandSound`, `CandidateSound`, `RetentionSafe`, `LeaseIsOwners`, in twelve scenes | 1.6 M |
| `server_ends` | `CollectedGoes`, `ScheduleEnds`, `OutcomeIsLearnt`, `CandidateEnds`, `InTheEndGone`, in seven scenes, under fairness | 85 k |

Scenes: *collected image* (one upload with a source, two workers: lost claims, late puts)
and *edited images* (two images in one upload: a partial failure); *schedule* (two jobs,
four versions) and *alerts* (the same with failures); *updating*, *two pages* (two pages
save one version), *creating*; *spring* and *legacy* (two executions of a collector, two
claims: every late or repeated request of a lapsed lease); *runs* (two runs come to the
item), *dropped* (the same, one may die), *purge* (one run, and a second worker once the
first was too slow).  Two workers, jobs, tries, pages, runs or claims are the late one and
its successor; a third meets what the second met.

Fairness.  Time passes; jobs and workers are started again and again by their
schedulers, and what runs goes on or dies; the cleanup job gets the lock of the
candidate in its turn (strong fairness).  Calls stop failing in the end
(`<>[][~Faults]`): tasks about collected objects, retention rows and alerts are retried
without limit, so nothing less would do.  Nothing obliges an administrator or a
collector to act, except that a page whose save failed is used to try it again.

## 6. The collector's side: `MCCollector`

### CollectorRun

One job of the Spring collector: `run` is the `collector.run` row, `done` the steps that
Spring Batch recorded, `saved`, `readable`, `file` the encrypted spool, `work` and `mem`
the worker, `core` and `permit` the candidate and the reservations in the API, `sent` the
requests to the source.  Every call of the API is lost on its way, refused, carried out,
or carried out with its answer lost; `Crash` comes at any step.  The dispatcher's
advisory lock keeps one worker.  Left out: redirects, waiting times, parsing.  The
cleanup of the spool may take the expired state of a run that is RUNNING, as in the code.

`RunSound`: `SentOnce` (a request goes to the source once, whatever crashes),
`CompletedHasResult`, `ImageShown`, `DigestKnown` (a reconciliation can tell whose
result the API has) and `OnlyActiveSends`.  `RunEnds`: a run ends, its files go.

### BatchQueue

`web` and `receipt` are the mailbox and its receipts, `conf` and `checked` the
confirmations of Discord and their handlers, `queue` the rows, `process` the workers of
`QueueMain`.  A worker pulls the mailbox, reads the sources that are ready, looks for a row,
claims, attaches, runs and settles it, and may be killed.  Requests lapse after `Day`.
Left out: the 60-second lease (a delay only), the twenty requests of one pull, rate limits,
the later deletion of receipts.  `Early` bounds the creation of rows so that their day ends
within the instance.

`QueueSound`: `OpenUntilTheEnd` (a request is open exactly until its row ended, and told of
success only when the URL is collected), `ExpiredStays`, `ExpiredIsNotRun`,
`ConfirmedOrNot`.  `ExpiredStays` names one exception: a run its owner left behind may
still be settled.  `QueueMoves`: rows are taken and requests pulled.  It names one
exception, `Stuck`: when the processes are down and the row of a URL is younger than the
waiting request for it, no process can start until the day of one of them is over, for
each start begins with a pull, and one request that is refused rolls all of it back
(section 7).  `Refused` is that guard of `Pull`.

### ReviewVote and ReviewScan

`ReviewVote` is `decideReview` as a function of an observation.  `VoteSound` lets one
observation change mark by mark: only reviewers count, what is published was approved
and not opposed, an item emptied of all its units is left to an administrator, and no
single mark turns an approval into a rejection.

`ReviewScan` is the run of each slot over the READY messages: `run` (cutoff, cursor,
claim), `row` (delivery, control row, command), `worker`, `fin` (calls of `finish`, which
go on when their worker has died), `marks` (Discord).  `ScanSound`: `AllExamined`
(no message is skipped by a run that is over), `DecidedOnce`, `DecidedAsSeen` (a decision
rests on marks that were there since its observation began, and sees all that stayed).
`DecidedOnce` names one exception: a call of a dead worker that went on beside the
next one.  `ScanEnds`: a run that was begun ends.  Each message is one chunk, deaths
and votes are bounded, the limit on the length of a run is left out.

### DiscordDelivery

One message: `row` (delivery and part: what is known to be sent, the lease, the cleanup),
`worker` (head, thread, part, seeds, READY), `clean` (the removal by the API after its
commit and by the worker), `chan` (what is in Discord and what is under way).  A request
may be carried out after its sender gave up.  `DeliverySound`: `PostedOnce`,
`DoneMeansGone`, `ReadyIsWhole`, `ThreadOutlivesHead`.  `Removed`: what a cancelled
delivery is known to have sent is removed.  Only the program deletes messages here;
`run.lock` keeps one worker; the generation is left out, as it changes exactly with the
cancellation.

### Runs

Deadlock is not checked: instances end at their bounds.

| Run | Shows | Distinct states |
|---|---|---|
| `collector` | `RunSound` of a collection run, and `QueueSound`, in three scenes | 0.8 M |
| `preview` | `RunSound` of a run that refreshes a preview | 0.2 M |
| `discord` | `ScanSound`, `VoteSound`, `DeliverySound`, in four scenes | 1.0 M |
| `collector_ends` | `RunEnds`, `QueueMoves`, `ScanEnds`, `Removed`, under fairness | 0.4 M |

Scenes: *run* (one job, in the mode of the cfg), *settings* (one process while
the settings change), *processes* (two that may be killed), *inputs* (web and Discord
want URLs); *one message* (two slots, reactions come and go), *two messages* (one slot,
an administrator decides); *votes*; *delivery* (with deaths of both removers).
`MaxVersion` 5 lets the others change the candidate between any two calls of a run;
`QueueTime` 3 with `Day` 2 lets a row expire in every state, and rows and requests of two
moments meet.  The URLs are alike, so the request of *inputs* is for a certain one; the
process may be killed there once, unless Discord wants the other URL.

Fairness.  Timers start the dispatcher, the cleanups and the workers again and again, a
process that ended is started again, the API answers, time passes.  Crashes of the run
and failures of Discord stop in the end.  Nothing obliges the day of a request to end:
`QueueMoves` must come from the workers.

## 7. What the models found

**`compensation_wrong_lock`.**  `OutboxService.run` (`outbox.service.ts:36-43`)
computes the lock of a deletion from the image row, before it holds a lock.
A failed publication of post 1 leaves a compensation for the key (1, i).  The
image is dropped from post 1, which makes it STAGED, and used in post 2; the
worker reads the row now and waits for the lock of post 2.  The image goes back
to post 1 and post 1 is published, under the lock of post 1, while the worker
holds the lock of post 2, finds that the image is not yet PUBLIC, and deletes
the object after the commit.  Post 1 is published without its image.  The
comment in `posts.service.ts:316` expects the ownership to be rechecked under
the post's lock; the key names the post that should be locked.

**`legacy_draft_published`.**  The fence (`review-publication.guard.ts:17-22`) finds the
decision about a post through the commands that name it.  A draft made by
`BatchReviewService.promote` before Discord review was switched on has no
command.  When an administrator rejects it, the command's `post_id` stays NULL
(`review-command.service.ts:62-65, 77-78`), the guard finds nothing and the
ordinary publication goes through.  `docs/system-design/10-discord-review.md:10`
says that the ordinary path refuses rejected collected drafts.

While modelling, the code was seen to depart from its documents in these places too.
They have no run of their own; the properties checked are stated so that they hold of
the code, with the exception named.

| Code | Document | Difference |
|---|---|---|
| `outbox.service.ts:67` | `02-data-model.md:1315` | an attached and detached image of a batch item is deleted at the deadline of its source although it is staged content by then |
| `admin.vue:301` | `admin.vue:258-259` | a rejected retry releases the key of a command whose first try may still be carried out, once what refused the retry is over; a draft that is then saved again exists twice |
| `CollectionPipeline.java:242` | `07-spring-collector-design.md:407-409` | an elapsed permit fails the run; no new request key is used |
| `CollectionPipeline.java:75` | `07-spring-collector-design.md:494` | the state is cleared before the end is saved; a death in between is recorded as COMPLETED |
| `DiscordReviewWorker.java:183` | `10-discord-review.md:33` | early reactions are removed once, not confirmed before READY |
| `DiscordReviewWorker.java:309` | `10-discord-review.md:46` | a head whose answer was lost is not looked for once the delivery is cancelled |
| `BatchStore.java:281` | `02-data-model.md:1258` | an unrecorded object of an earlier run matches no row; each retention pass ends there |
| `BatchQueueStore.java:124` | `02-data-model.md:1261` | an expired row of Discord stops the queue until the retention pass takes it away |
| `BatchMailbox.java:65`, `QueueMain.java:41` | `collection-assist.dev.md:1240` | a request older than the row it finds rolls back the whole pull; a restart ends there (the exception of `QueueMoves`) |
| `BatchQueueStore.java:119` | `apps/collector/ops/README.md:408` | `next` does not look at the 15-minute pause that `readySources` checked |

## 8. Proofs

### PostPublication

`PostPublicationProofs` proves, for all constants that satisfy
`ConstantsAssumption` (any number of posts, images, requests, workers, versions
and attempts):

* `TypeCorrect`: `Spec => []TypeOK`.
* `DisciplineHolds`: `NoSharing => (Spec => []StorageDiscipline)`.
* `PublishedAlwaysServable`: `NoSharing => (Spec => []PublishedServable)`.

`NoSharing` says that an image is used in the editor of one post only, which is
what the editor does and the API does not enforce; without it the theorem is
false, as section 7 shows.

`PublishedServable` is not inductive: whether the next step deletes an object
depends on what a worker has decided and which locks are held.
`StorageDiscipline` adds

* `ImageRows`: an image is PUBLIC only on a published post, under its key, with
  its object there; pending withdrawal only on a hidden post; and has a key in
  no other status (the CHECK constraints of `V001__core.sql`);
* `CommandHolds`: from the lock to the end a request holds the post's lock, and
  between `Precheck` and the commit its list of images is still the post's,
  none of them is public, and the copied objects are there;
* `TasksAtHome`, `WorkerHolds`: a task on key (p, i) is executed under the lock
  of p, and a worker about to delete has no PUBLIC row against it;
* `CleanerHolds`: the same for the sweep.

The argument: a step that deletes (p, i) is taken under the lock of p, by
somebody who saw, under that lock, that no PUBLIC row owns the key; only a
request that holds the lock of p can make one.  Steps that touch neither rows
nor objects preserve the invariant by the frame lemmas; the proof has one lemma
for each actor (`RequestSteps`, `CommitSteps`, `WorkerSteps`, `CleanerSteps`,
`OtherSteps`) and one step for each action.

The promises about withdrawals rest on three more invariants: `OriginalsGuarded`
(a deletion of an original is asked for only of an image that can never be used again),
`PagesGuarded` (a stale page has a purge that is yet to be carried out) and
`WithdrawalClean` (a worker that has deleted the object of a withdrawn image finds it
still gone, and after its purge uncached); `WithdrawalNotForgotten` is inductive itself.

* `OriginalsKept`: `Spec => []OriginalKept`.
* `WithdrawalsNotForgotten`: `Spec => []WithdrawalNotForgotten`.
* `StalePagesPurged`: `Spec => []StalePagePurged`.
* `WithdrawnImagesAreGone`: `NoSharing => (Spec => WithdrawnIsGone)`.

Only model-checked: the two liveness properties.

### ReviewCommand

`ReviewCommandProofs` proves, for all constants that satisfy `ConstantsAssumption`:

* `DecisionsLinked`: `Spec => [](TypeOK /\ DecisionLinks)`, the inductive invariant.
* `FinishedStays`: `Spec => FinishedIsFinal`.
* `UnfinishedStaysInForce`: `Spec => []UnfinishedInForce`.
* `DraftsKeepImages`: `Spec => []DraftKeepsImages`.
* `SourcesHaveOneDraft`: `Spec => []OneDraftPerSource`.
* `OpenMessagesUndecided`: `Spec => []OpenMessageIsUndecided`.
* `RejectionsHold`: `LegacyItems = {} => (Spec => []RejectedStaysDraft)`; with legacy
  items it is false, as section 7 shows.
* `DecisionImplemented`: `LegacyItems = {} => (Spec => ImplementsDecision)`.

`DecisionLinks` says, of each command, draft, item and worker, what the others hold
about it: an absent command is blank and holds no lease, a command's post is a post of
its item, a post is the one its item's review names, the active command is one of the
item and agrees with a rejection, a worker's DRAFTED command names the post it works
on, and no two workers prepare one draft.  The properties do not imply it, and their
proofs rest on parts of it.  `RejectedStaysDraft` needs `DraftsHaveCommands` besides:
every draft of an item has the command that made it, which is how the fence finds the item's
control row.  The argument for it: what publishes a post must pass `Allowed`, whose
command is active on the post's item and an approval, and `ItemLinks` says that the active
command of a rejected item is a rejection; `Accept` rejects only items whose post is
a draft.  The argument for `FinishedIsFinal`: every write of a command is by `Accept`
(unfinished ones) or under `Holds` or `Claimable`.

The refinement maps an item to the verdict of its active command and to the status of
its post.  `LinkedArticlesShown`: by `DecisionLinks` an item has one post at most, so its
article is what that post shows.  `WhoMoves`: a step other than `Accept`, `CommitDraft`,
`CommitPublish`, `ChangePost` and a final `Settle` changes neither.  `Accept` is
`Decide`, `Settle` with a client error `GiveUp`, `CommitDraft` `Draft`; a post that
becomes public from a draft is `Publish`, for which `FenceApproves` shows that the fence
lets only an approval through; hiding and showing again are `Withdraw` and `Restore`.

Only model-checked: `CommandEnds`.

### ImageStaging

`StagingIsSound`: `StagingAssumption` implies `Spec => []StagingSound`, for any number
of images, uploads, workers and attempts.  `StagingSound` is not inductive: whether a
deletion takes an original depends on how far the upload, the row and the worker
are.  `StagingInv` adds `RowSound` (which tasks may be open beside each status of a row),
`UploadSound` (what an upload knows to have stored is still there until its source
expires), `WorkerSound` (an image a worker is about to delete will be told to nobody any
more, or its row is marked) and `SweepSound` (an object about to be swept has
no row, or a DELETED one, and its upload is long over).

### PostSchedule

`ScheduleIsSound`: `ScheduleAssumption` implies `Spec => ScheduleSound`.
`NewScheduleStands` is an action property; its proof needs `ScheduleInv`: what a job has
read of a post is true as long as the post has the version it read (`DueSound`), and
the count a job has sent was received (`JobSound`).  Versions only grow, so both
outlive every step of the others (`DueStays`, `RowStays`).

### IdempotentCommand

`CommandIsSound`: `CommandAssumption` implies `Spec => []CommandSound`.  `CommandInv`
relates the three parties: `KeySound` (the effects of a key are the receipts it had),
`TrySound` (a try that has an answer of success has its effect, only the holder of
the key's lock can have one, and beside a rejection that is still to be heard, of a key
that is not doubtful, no try is left that could carry the command out), `PageSound` and
`Released` (nor is there one of a key its page has released), `OneSave` and `OneUpdate` (all
tries of a page together; all updates of a version).

### CandidateCollection

`CandidateIsSound`: `CollectorsAssumption` implies `Spec => CandidateSound`, under either
contract and for any number of executions, claims, versions and previews.
`CollectionInv` says of the row, the store and the page what the properties do not:

* `AnswersSound`: no answer, whenever it arrives, names a version that is still to come, and
  one that names the present version of a running candidate names its claim.  Versions
  only grow, so an answer can get stale and never wrong; hence a late result is refused.
* `ReceiptsSound`: an execution has one claim or takeover, on which its other receipts
  follow; so what the receipts of the execution at work say is of the present claim.
* `ImageSound`, `HandSound`: the preview in force is stored and no task is about to delete
  it; who holds the candidate's lock found what is still there, the object of an
  upload is its own, and a promotion makes what was shown.
* `SeenSound`: the page shows the candidate of the version it shows, but for a preview
  that was let go since (`CleanupClears` does not move the version).
* `PostsSound`: a post exists only of an APPROVED candidate, and it is one.

`ResultStep` and `ToldStep` are the two action properties, for one step from the invariant.

### BatchRetention

`RetentionIsSafe`: `RetentionAssumption` implies `Spec => []RetentionSafe`;
`LeasesAreOwners`: it implies `Spec => LeaseIsOwners`.  `RetentionInv` adds `RowSound`
(which objects the row of an item may name), `PutsSound` (an object that a row or a
manifest names is not put again: it is `Settled`, neither under way nor `Upcoming`),
`DeletedSound` (a DELETED entry whose object is there again is of the item's own run) and
`PurgeSound` (the worker with the lease has every object that remains, and
is not late, PENDING or FAILED in its list).  The argument for `PurgedIsGone`: `Finish`
needs the lease and no open entry, so nothing remains but what is late; afterwards only a
late PUT can bring an object.  One lemma for each action, over the frame lemmas `Moves`,
`WorkerMoves`, `LifeMoves` and `Wanders`.

### DiscordDelivery

`DeliveryIsSound`: `DeliveryAssumption` implies `Spec => DeliverySound`.  `DeliveryInv`
relates the row, the worker, those who remove, and the channel in Discord:

* `RowSound`: the row never counts as unsent what may have been sent, nor as sent what
  was not: PENDING means that nothing was posted and nothing is in flight.
* `WorkerSound`: a worker about to post has a row that says so, and one that has a
  receipt to report has it of a message that was posted.
* `OpenSound`: nothing is removed before the delivery is cancelled, so until then what
  was posted is there.
* `CleanSound`: what is said to be gone is gone for good.  The head cannot come back,
  for it was posted and is posted once; nor the thread, for it needs the head and the
  head goes first.  A receipt that comes late, after a cancellation, takes the lease from
  whoever removes; so the one who still has it has seen all that was sent.
* `DoneSound`: hence DONE, which needs the lease and no uncertain request, is said only
  when nothing is left and nothing can still arrive.

`BeginKeeps`, `ReceiptKeeps`, `ReadyKeeps`, `ErrorKeeps` and `ResolvedKeeps` are the
acknowledgements, whatever becomes of their answers (`AckKeeps`); the other lemmas are
one for each action or for a few that look alike.

### CollectorRun

`RunIsSound`: `RunAssumption` implies `RunSpec => RunSound`, in either mode and for any
bound on versions.  `SentOnce` and `DigestKnown` are not inductive: what keeps them is
what the worker remembers, in the spool and in memory, at each place of each step.

* `PlaceSound`: where the worker may be in which step and state of the row, and what it
  passed to get there; between jobs the row is closed or waits.
* `RestartSound`: what may be restarted, which no completed run may.
* `StateSound`: a step works on the state the spool keeps, unless the cleanup of an expired
  run took it away, or the step itself before it ends.
* `OnceSound`: a request that was sent is marked in every state with a claim, on disk
  or in memory; one that is about to be marked is not yet, one about to be sent is and
  was not sent.  A state that was lost starts without a claim, so it cannot fetch.
* `ResultSound`: the result that the API took is the one of the row, and of every state that
  has one; a step that submits is not passed without.
* `ImageSound`: a state that says the image is dealt with, without a warning, is of an image
  that is shown.

There is a lemma for each of these (`PlaceKept` to `ImageKept`) with a step for each action
that can disturb it; `RestKeeps` is about those that cannot.  The operators that
many actions go through (`Saves`, `Settles`, `Verdict`) have lemmas of their own.

### ReviewVote

`VoteIsSound`: for any reviewers, users and parts, and any observation of any marks, what
`Decide` answers has the parts of `VoteSound`.  This is no induction: `DecideCases` says
what an approval and a rejection rest on, and `OneMarkNoSwing` follows because a mark is for
one side and leaves the other as it was.

### Server

The parts share no variable, so a step of `Server` is a step of one part and leaves
the others alone: each part's `Spec` follows from `Server!Spec`.  `ImagesSound`,
`SchedulesSound`, `CommandsSound`, `CandidatesSound`, `ItemsSafe` and `LeasesSafe` state
the properties of run `server` for the product, from the theorems of the parts.

### Only model-checked

Liveness under fairness and ENABLED are beyond the provers used here: `WithdrawalEnds`,
`OrphanRemoved`, `CommandEnds` and every property of `server_ends` and
`collector_ends`.  Of the safety properties, `QueueSound` and `ScanSound`
have no proof yet.  `VoteSound` speaks of the observations a run comes across; the
theorem is about all of them.  Nothing is proved about more than the constants say: the bounds (`MaxVersion`, `MaxRuns`, ...) are
constants, so the theorems hold for bounds of any size.

## 9. Not modelled, and why

The components that `PROJECT.json` lists as `not_modelled` are the notification outbox
(planned) and parts with no state of their own: parsers and HTTP clients, codes and
policies, guards and validation, migrations and scripts.  The web application is there
only as the page that saves a post (`IdempotentCommand`).  Each module's opening
comment, and its section above, names what it leaves out.

Some windows have no property, because the code has no step that closes them:

* a cache that stores a page or image rendered before a hide, after the purge
  (`posts.service.ts:278`);
* an orphan that stays in the edge cache after the sweep, which deletes without purging
  (`cleanup.service.ts:54`);
* a lock session that breaks while its holder goes on deleting (`database.ts:112`);
* a publication whose acknowledgement was lost and whose author loses authority before the
  retry (`review-command.service.ts:98`);
* a 409 of a request that is still being handled, counted as a client error
  (`review-command.service.ts:145`);
* a dispatcher of the collector whose lock session ends while its job runs, so that a
  second one recovers a run that is not dead (`BatchRuntime.java:142`).

## 10. Running

    tlc -workers 2 -config Posts.cfg MCPostPublication
    tlc -workers 2 -config PostsEnds.cfg MCPostPublication
    tlc -workers 2 -config PostPublicationMovedImage.cfg MCPostPublication   (a violation)
    tlc -workers 2 -config Review.cfg MCReviewCommand
    tlc -workers 2 -config ReviewEnds.cfg MCReviewCommand
    tlc -workers 2 -config ReviewLegacyDraft.cfg MCReviewCommand             (a violation)
    tlc -workers 2 -config Server.cfg MCServer
    tlc -workers 2 -config ServerEnds.cfg MCServer
    tlc -workers 2 -config Collector.cfg MCCollector
    tlc -workers 2 -config Preview.cfg MCCollector
    tlc -workers 2 -config Discord.cfg MCCollector
    tlc -workers 2 -config CollectorEnds.cfg MCCollector

    for m in PostPublication ReviewCommand Staging PostCommand Candidate Retention Collector; do
        tlapm ${m}Proofs.tla; done
    tlapm Server.tla

`PROJECT.json` maps every definition to the lines it models, and names for every
property a change of a definition (a plausible bug) under which it fails.
