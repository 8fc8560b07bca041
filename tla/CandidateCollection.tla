------------------------ MODULE CandidateCollection ------------------------
(***************************************************************************)
(* One collection candidate, from its request to its post: the API side of *)
(* src/apps/api/src/features/collection.  Collectors lease the candidate,  *)
(* prolong the lease, submit what they fetched and upload previews of its  *)
(* image; an administrator retries, rejects or promotes it; the cleanup    *)
(* job expires it.                                                         *)
(*                                                                         *)
(* A collector is present only by what it has been told: known[e] grows    *)
(* with every answer that arrives and is never forgotten, so a request may *)
(* be built from any of them, be sent twice, or arrive long after it was   *)
(* given up.  An answer that is lost is a step that leaves known alone.    *)
(*                                                                         *)
(* Steps under the advisory lock collect:candidate:<id> need LockFree.     *)
(* Claims and heartbeats take the row lock only.  An upload and a          *)
(* promotion hold the lock over several steps (hand); HandLost is the end  *)
(* of the process or of its database session, which releases the lock and  *)
(* makes the holder's transaction impossible.                              *)
(***************************************************************************)
EXTENDS Integers, FiniteSets

CONSTANTS
  Executions,   \* the collector executions that work on the candidate
  Collectors,   \* the collector ids
  Owner,        \* the collector of each execution
  SpringMode,   \* TRUE: contract SPRING_V2, with execution ids and receipts;
                \* FALSE: LEGACY_V1.  One deployment accepts writes of one only
  None,         \* a column that is NULL
  MaxVersion,   \* bound on lock_version
  MaxClaims,    \* bound on the claims granted
  MaxKeys       \* bound on the preview objects ever stored

CollectorsAssumption ==
  /\ Owner \in [Executions -> Collectors]
  /\ SpringMode \in BOOLEAN
  /\ None \notin Executions \cup Collectors
  /\ MaxVersion \in Nat /\ MaxClaims \in Nat /\ MaxKeys \in Nat

VARIABLES
  cand,      \* the collect.candidate row; status "GONE" once it is removed
  image,     \* the preview columns of its one collect.candidate_image row
  objects,   \* the stored preview objects
  old,       \* those stored more than 24 hours ago
  tasks,     \* keys with an OBJECT_DELETE_PRIVATE task in the outbox
  receipts,  \* collect.collector_receipt
  known,     \* what each execution has been told
  seen,      \* what the administrator's page shows of the candidate
  hand,      \* the upload or promotion that holds the candidate's lock
  posts      \* the drafts created from the candidate

vars == <<cand, image, objects, old, tasks, receipts, known, seen, hand, posts>>
storage == <<objects, old>>
answers == <<receipts, known>>

Keys == 1..MaxKeys
Claims == 0..MaxClaims
Versions == 0..MaxVersion + 1   \* an expiry is not held back by the bound

\* What an answer told: the operation, the version it returned, the claim the
\* execution works under (a number the model gives to each claim granted).
Answers == [op : {"claim", "refresh", "heartbeat", "result", "preview"},
            version : Versions, claim : Claims]
NoItems == [op |-> "claim", version |-> 0, claim |-> 0]
\* at tells two requests of an execution apart: heartbeat-<version>, preview-<image id>.
Receipts == [exec : Executions, at : Nat, answer : Answers]
Candidates ==
  [status : {"PENDING", "RUNNING", "NEW", "FETCH_FAILED", "APPROVED", "REJECTED", "GONE"},
   version : Versions, owner : Collectors \cup {None}, exec : Executions \cup {None},
   lease : {"none", "live", "expired"}, attempts : 0..3,
   stale : BOOLEAN,    \* requested at least 24 hours ago
   aged : BOOLEAN,     \* fetched or reviewed more than 30 days ago
   claim : Claims,     \* the last claim granted
   content : Claims]   \* the claim whose result, and image row, it shows; 0 for none
Images == [key : {0} \cup Keys, expired : BOOLEAN]
Views == [version : Versions, content : Claims, key : {0} \cup Keys]

NoImage == [key |-> 0, expired |-> FALSE]
NoView == [version |-> 0, content |-> 0, key |-> 0]
Idle == [task |-> "idle", exec |-> None, stage |-> "put", view |-> NoView,
         shown |-> NoView, key |-> 0]

TypeOK ==
  /\ cand \in Candidates
  /\ image \in Images
  /\ objects \subseteq Keys /\ old \subseteq objects /\ tasks \subseteq Keys
  /\ receipts \subseteq Receipts
  /\ known \in [Executions -> SUBSET Answers]
  /\ seen \in Views
  /\ hand \in [task : {"idle", "upload", "promote"}, exec : Executions \cup {None},
               stage : {"put", "commit", "check"}, view : Views, shown : Views,
               key : {0} \cup Keys]
  /\ posts \subseteq [made : Views, shown : Views]

Init ==
  /\ cand = [status |-> "PENDING", version |-> 1, owner |-> None, exec |-> None,
             lease |-> "none", attempts |-> 0, stale |-> FALSE, aged |-> FALSE,
             claim |-> 0, content |-> 0]
  /\ image = NoImage
  /\ objects = {} /\ old = {} /\ tasks = {} /\ receipts = {} /\ posts = {}
  /\ known = [e \in Executions |-> {}]
  /\ seen = NoView
  /\ hand = Idle

----------------------------------------------------------------------------
(* The row and its answers *)

LockFree == hand.task = "idle"
Exists == cand.status # "GONE"
CanChange == cand.version < MaxVersion    \* a bound, not a guard of the code
View == [version |-> cand.version, content |-> cand.content, key |-> image.key]

\* An answer leaves for e: it arrives, or it is lost.
Tell(e, a) == known' = known \/ known' = [known EXCEPT ![e] = @ \cup {a}]

\* The receipt of a SPRING_V2 request is written in the transaction of its effect.
Save(e, at, a) ==
  receipts' = IF SpringMode THEN receipts \cup {[exec |-> e, at |-> at, answer |-> a]}
              ELSE receipts
Answer(e, at, a) == Save(e, at, a) /\ Tell(e, a)

HasReceipt(e, ops, at) ==
  \E r \in receipts : r.exec = e /\ r.answer.op \in ops /\ r.at = at

\* assertExecution, and the ownership half of the lease check.
Owns(e) == cand.owner = Owner[e] /\ (SpringMode => cand.exec = e)

\* Bug: the lease is not compared with the clock.
HoldsLeaseUntimed(e, version) ==
  Owns(e) /\ cand.status = "RUNNING" /\ cand.version = version

HoldsLease(e, version) ==
  /\ Owns(e)
  /\ cand.status = "RUNNING" /\ cand.lease = "live"
  /\ cand.version = version

\* discardPreviewsInTransaction: the referenced preview gets its deletion task.
Discard == tasks' = IF image.key = 0 THEN tasks ELSE tasks \cup {image.key}

----------------------------------------------------------------------------
(* Collector requests *)

LeaseLapsed == cand.status = "RUNNING" /\ cand.lease = "expired"

Unclaimable == LeaseLapsed /\ (cand.attempts >= 3 \/ cand.stale)
Claimable == cand.status = "PENDING" \/ (LeaseLapsed /\ cand.attempts < 3 /\ ~cand.stale)

Expire == cand' = [cand EXCEPT !.status = "FETCH_FAILED", !.lease = "none",
                               !.aged = FALSE, !.version = @ + 1]

Claim(e) ==
  /\ Claimable /\ CanChange /\ cand.claim < MaxClaims
  /\ ~HasReceipt(e, {"claim", "refresh"}, 0)
  /\ cand' = [cand EXCEPT !.status = "RUNNING", !.owner = Owner[e], !.lease = "live",
                          !.attempts = @ + 1, !.version = @ + 1, !.claim = @ + 1,
                          !.exec = IF SpringMode THEN e ELSE @]
  /\ Answer(e, 0, [op |-> "claim", version |-> cand.version + 1, claim |-> cand.claim + 1])
  /\ UNCHANGED <<image, storage, tasks, seen, hand, posts>>

\* A claim that finds nothing to claim expires what cannot be claimed any more, and
\* its receipt, without items, ends the execution.
ClaimNothing(e) ==
  /\ Exists /\ ~Claimable
  /\ ~HasReceipt(e, {"claim", "refresh"}, 0)
  /\ IF Unclaimable THEN Expire ELSE UNCHANGED cand
  /\ Save(e, 0, NoItems)
  /\ UNCHANGED <<known, image, storage, tasks, seen, hand, posts>>

Heartbeat(e, k) ==
  /\ HoldsLease(e, k.version) /\ CanChange
  /\ ~HasReceipt(e, {"heartbeat"}, k.version)
  /\ cand' = [cand EXCEPT !.version = @ + 1]
  /\ Answer(e, k.version, [op |-> "heartbeat", version |-> cand.version + 1, claim |-> k.claim])
  /\ UNCHANGED <<image, storage, tasks, seen, hand, posts>>

\* A successful fetch replaces the image rows, so it discards their previews first.
ResultNew(e, k) ==
  /\ cand' = [cand EXCEPT !.status = "NEW", !.lease = "none", !.aged = FALSE,
                          !.version = @ + 1, !.content = k.claim]
  /\ Discard
  /\ image' = NoImage

ResultFailed ==
  /\ cand' = [cand EXCEPT !.status = "FETCH_FAILED", !.lease = "none", !.aged = FALSE,
                          !.version = @ + 1]
  /\ UNCHANGED <<image, tasks>>

Result(e, k) ==
  /\ LockFree /\ HoldsLease(e, k.version) /\ CanChange
  /\ ~HasReceipt(e, {"result"}, 0)
  /\ ResultNew(e, k) \/ ResultFailed
  /\ Answer(e, 0, [op |-> "result", version |-> cand.version + 1, claim |-> k.claim])
  /\ UNCHANGED <<storage, seen, hand, posts>>

\* PREVIEW_REFRESH: a new execution takes over a reviewed candidate, at the version
\* the administrator gave it.
Refresh(e) ==
  /\ SpringMode /\ LockFree /\ CanChange
  /\ ~HasReceipt(e, {"claim", "refresh"}, 0)
  /\ cand.status = "NEW" /\ cand.version = seen.version
  /\ cand' = [cand EXCEPT !.owner = Owner[e], !.exec = e, !.version = @ + 1]
  /\ Answer(e, 0, [op |-> "refresh", version |-> cand.version + 1, claim |-> cand.content])
  /\ UNCHANGED <<image, storage, tasks, seen, hand, posts>>

\* A request whose receipt exists is answered from it, if the execution still owns the
\* candidate and, for a claim or a heartbeat, still holds the lease.
Replayable(r) ==
  /\ Exists /\ Owns(r.exec) /\ r.answer # NoItems
  /\ cand.status \notin {"APPROVED", "REJECTED", "PENDING"} \/ r.answer.op \in {"claim", "refresh"}
  /\ r.answer.op \in {"claim", "heartbeat"} => cand.status = "RUNNING" /\ cand.lease = "live"
  /\ r.answer.op = "refresh" => cand.status = "NEW" /\ cand.version = r.answer.version

Replay ==
  /\ \E r \in receipts :
       /\ Replayable(r)
       /\ known' = [known EXCEPT ![r.exec] = @ \cup {r.answer}]
  /\ UNCHANGED <<cand, image, storage, tasks, receipts, seen, hand, posts>>

----------------------------------------------------------------------------
(* The upload of a preview, under the candidate's lock *)

Previewable(version) == cand.status = "NEW" /\ cand.version = version

\* Object keys are random: a key no column, task or object has.
Fresh == Keys \ (objects \cup tasks \cup {image.key, seen.key})

UploadStarts(e, k) ==
  /\ LockFree /\ Previewable(k.version) /\ Owns(e)
  /\ ~HasReceipt(e, {"preview"}, cand.content)
  /\ \E key \in Fresh :
       /\ \A other \in Fresh : key <= other
       /\ hand' = [task |-> "upload", exec |-> e, stage |-> "put", view |-> View,
                   shown |-> NoView, key |-> key]
  /\ UNCHANGED <<cand, image, storage, tasks, answers, seen, posts>>

\* storage.put: a failure may come after the object was stored.
UploadPut ==
  /\ hand.task = "upload" /\ hand.stage = "put"
  /\ \E stored \in BOOLEAN, next \in {"commit", "check"} :
       /\ next = "commit" => stored
       /\ objects' = IF stored THEN objects \cup {hand.key} ELSE objects
       /\ hand' = [hand EXCEPT !.stage = next]
  /\ UNCHANGED <<cand, image, old, tasks, answers, seen, posts>>

\* The preview that was there when the upload began gets its deletion task; the
\* new one is referenced; the version moves.
StorePreview ==
  /\ tasks' = IF hand.view.key = 0 THEN tasks ELSE tasks \cup {hand.view.key}
  /\ image' = [key |-> hand.key, expired |-> FALSE]
  /\ cand' = [cand EXCEPT !.version = @ + 1]

UploadCommit ==
  /\ hand.task = "upload" /\ hand.stage = "commit" /\ CanChange
  /\ Previewable(hand.view.version)
  /\ StorePreview
  /\ Answer(hand.exec, hand.view.content,
            [op |-> "preview", version |-> hand.view.version + 1, claim |-> hand.view.content])
  /\ hand' = Idle \/ hand' = [hand EXCEPT !.stage = "check"]  \* or the acknowledgement is lost
  /\ UNCHANGED <<storage, seen, posts>>

UploadRefused ==
  /\ hand.task = "upload" /\ hand.stage = "commit"
  /\ hand' = [hand EXCEPT !.stage = "check"]
  /\ UNCHANGED <<cand, image, storage, tasks, answers, seen, posts>>

\* Bug: an error is taken for a rollback.
CheckUploadRollsBack ==
  objects' = objects \ {hand.key} /\ old' = old \ {hand.key} /\ UNCHANGED tasks

\* The catch block.  The object stays when the database shows a reference to it and
\* when the database cannot be asked; the deletion that fails leaves a task, or, when
\* that cannot be saved either, an object for the sweep.
CheckUpload ==
  /\ \/ UNCHANGED <<storage, tasks>>      \* previewReferenced failed, or both ways of deleting
     \/ /\ image.key # hand.key
        /\ \/ objects' = objects \ {hand.key} /\ old' = old \ {hand.key} /\ UNCHANGED tasks
           \/ tasks' = tasks \cup {hand.key} /\ UNCHANGED storage

UploadCheck ==
  /\ hand.task = "upload" /\ hand.stage = "check"
  /\ CheckUpload
  /\ hand' = Idle
  /\ UNCHANGED <<cand, image, answers, seen, posts>>

HandLost ==
  /\ ~LockFree
  /\ hand' = Idle
  /\ \/ UNCHANGED objects
     \/ /\ hand.task = "upload" /\ hand.stage = "put"   \* its put may still be carried out
        /\ objects' = objects \cup {hand.key}
  /\ UNCHANGED <<cand, image, old, tasks, answers, seen, posts>>

----------------------------------------------------------------------------
(* The administrator *)

Looks ==
  /\ Exists /\ seen # View
  /\ seen' = View
  /\ UNCHANGED <<cand, image, storage, tasks, answers, hand, posts>>

Retry ==
  /\ LockFree /\ CanChange
  /\ cand.version = seen.version /\ cand.status = "FETCH_FAILED"
  /\ Discard
  /\ image' = NoImage
  /\ cand' = [cand EXCEPT !.status = "PENDING", !.owner = None, !.exec = None, !.lease = "none",
                          !.attempts = 0, !.stale = FALSE, !.aged = FALSE,
                          !.content = 0, !.version = @ + 1]
  /\ UNCHANGED <<storage, answers, seen, hand, posts>>

Reject ==
  /\ LockFree /\ CanChange
  /\ cand.version = seen.version /\ cand.status \in {"NEW", "FETCH_FAILED"}
  /\ Discard
  /\ image' = NoImage
  /\ cand' = [cand EXCEPT !.status = "REJECTED", !.aged = FALSE, !.version = @ + 1]
  /\ UNCHANGED <<storage, answers, seen, hand, posts>>

\* Promotion reads the candidate and its preview, stores the image again as a STAGED
\* post image, and only then opens the transaction that checks the version again.
PromoteStarts ==
  /\ LockFree /\ Previewable(seen.version)
  /\ image.key \in objects /\ ~image.expired
  /\ hand' = [task |-> "promote", exec |-> None, stage |-> "put", view |-> View,
              shown |-> seen, key |-> 0]
  /\ UNCHANGED <<cand, image, storage, tasks, answers, seen, posts>>

Promote ==
  /\ hand.task = "promote" /\ CanChange
  /\ Previewable(hand.view.version)
  /\ posts' = posts \cup {[made |-> hand.view, shown |-> hand.shown]}
  /\ Discard
  /\ image' = NoImage
  /\ cand' = [cand EXCEPT !.status = "APPROVED", !.version = @ + 1]
  /\ hand' = Idle
  /\ UNCHANGED <<storage, answers, seen>>

----------------------------------------------------------------------------
(* Cleanup, the outbox worker and the sweep *)

CleanupExpires ==
  /\ LockFree /\ Unclaimable
  /\ Expire
  /\ UNCHANGED <<image, storage, tasks, answers, seen, hand, posts>>

\* Retention is over: the previews are discarded and the rows deleted.
CleanupRemoves ==
  /\ LockFree
  /\ cand.status \in {"NEW", "FETCH_FAILED", "REJECTED"} /\ cand.aged
  /\ Discard
  /\ image' = NoImage
  /\ cand' = [cand EXCEPT !.status = "GONE"]
  /\ UNCHANGED <<storage, answers, seen, hand, posts>>

\* An expired preview is let go without a new version of the candidate.
CleanupClears ==
  /\ LockFree /\ Exists
  /\ image.key # 0 /\ image.expired
  /\ ~(cand.status \in {"NEW", "FETCH_FAILED", "REJECTED"} /\ cand.aged)
  /\ Discard
  /\ image' = NoImage
  /\ UNCHANGED <<cand, storage, answers, seen, hand, posts>>

Cleanup == CleanupExpires \/ CleanupRemoves \/ CleanupClears

\* The worker deletes the object and then completes the task.
DeleteObject(key) ==
  /\ key \in tasks
  /\ objects' = objects \ {key} /\ old' = old \ {key}
  /\ tasks' = tasks \ {key}
  /\ UNCHANGED <<cand, image, answers, seen, hand, posts>>

\* Bug: the sweep passes over previews.
SweepNothing(key) == FALSE /\ key \in old /\ UNCHANGED vars

\* The sweep deletes what was stored 24 hours ago and neither a row nor a task names.
Sweep(key) ==
  /\ key \in old /\ key # image.key /\ key \notin tasks
  /\ objects' = objects \ {key} /\ old' = old \ {key}
  /\ UNCHANGED <<cand, image, tasks, answers, seen, hand, posts>>

----------------------------------------------------------------------------
(* Time *)

LeaseExpires ==
  /\ cand.lease = "live"
  /\ cand' = [cand EXCEPT !.lease = "expired"]
  /\ UNCHANGED <<image, storage, tasks, answers, seen, hand, posts>>

DayPasses ==
  /\ cand.status \in {"PENDING", "RUNNING"} /\ ~cand.stale
  /\ cand' = [cand EXCEPT !.stale = TRUE]
  /\ UNCHANGED <<image, storage, tasks, answers, seen, hand, posts>>

MonthPasses ==
  /\ cand.status \in {"NEW", "FETCH_FAILED", "REJECTED"} /\ ~cand.aged
  /\ cand' = [cand EXCEPT !.aged = TRUE]
  /\ UNCHANGED <<image, storage, tasks, answers, seen, hand, posts>>

PreviewExpires ==
  /\ image.key # 0 /\ ~image.expired
  /\ image' = [image EXCEPT !.expired = TRUE]
  /\ UNCHANGED <<cand, storage, tasks, answers, seen, hand, posts>>

\* No upload takes 24 hours: the object of one in hand is not old.
ObjectAges(key) ==
  /\ key \in objects \ old /\ hand.key # key
  /\ old' = old \cup {key}
  /\ UNCHANGED <<cand, image, objects, tasks, answers, seen, hand, posts>>

Ages == LeaseExpires \/ DayPasses \/ MonthPasses \/ PreviewExpires

----------------------------------------------------------------------------

Ask(e) ==
  \/ Claim(e) \/ ClaimNothing(e) \/ Refresh(e)
  \/ \E k \in known[e] : Heartbeat(e, k) \/ Result(e, k) \/ UploadStarts(e, k)

Upload == UploadPut \/ UploadCommit \/ UploadRefused \/ UploadCheck
Review == Looks \/ Retry \/ Reject \/ PromoteStarts \/ Promote

Next ==
  \/ \E e \in Executions : Ask(e)
  \/ Replay \/ Upload \/ Review \/ HandLost
  \/ Cleanup \/ Ages
  \/ \E key \in Keys : DeleteObject(key) \/ Sweep(key) \/ ObjectAges(key)

Spec == Init /\ [][Next]_vars

----------------------------------------------------------------------------
(* Properties *)

\* A preview that the review page may fetch, or a promotion use, is in storage: no
\* deletion task, catch block or sweep takes the object of the preview in force.
PreviewStands ==
  cand.status = "NEW" /\ image.key # 0 /\ ~image.expired => image.key \in objects

\* A candidate becomes one post at most, and the draft is made of the result and the
\* preview the administrator was looking at, whatever collectors did meanwhile.
PromotedAsSeen ==
  /\ Cardinality(posts) <= 1
  /\ \A p \in posts : p.made = p.shown

\* The result that a candidate shows was fetched under its last claim, while the lease
\* of that claim lasted: no late result of an earlier claim is taken for it.
ResultOfLastClaim ==
  [][cand'.content # cand.content =>
       \/ cand'.content = 0
       \/ cand'.content = cand.claim /\ cand.lease = "live"]_vars

\* An execution is told of a claim only while that claim is the live one: the stored
\* answer of a claim or a heartbeat is not given out once the lease has passed on.
ToldOfLiveClaim ==
  [][\A e \in Executions : \A k \in known'[e] \ known[e] :
       k.op \in {"claim", "heartbeat"} =>
         cand'.status = "RUNNING" /\ cand'.lease = "live" /\ cand'.claim = k.claim]_vars

\* A claimed candidate leaves RUNNING even when no collector is heard of again: its
\* result comes, or the lease lapses for good and the cleanup job says so.
CollectionEnds == []<>(cand.status # "RUNNING")

\* A stored preview that nothing shows any more disappears from storage, however the
\* upload that stored it ended.
PreviewGoes == \A key \in Keys : []<>(key \notin objects \/ key = image.key)

\* Together: the review page, promotion and claims agree with what was collected.
CandidateSound ==
  []TypeOK /\ []PreviewStands /\ []PromotedAsSeen /\ ResultOfLastClaim /\ ToldOfLiveClaim

\* Together: neither a collection nor a preview that nothing shows stays for ever.
CandidateEnds == CollectionEnds /\ PreviewGoes

=============================================================================
