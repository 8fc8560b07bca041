--------------------------- MODULE PostPublication ---------------------------
(***************************************************************************)
(* Posts, their images and the public objects behind them, as the API      *)
(* changes them: PostsService.command (apps/api/src/features/posts),       *)
(* OutboxService (apps/api/src/operations) and the public half of          *)
(* CleanupService.                                                         *)
(*                                                                         *)
(* A command copies every image of a post to the public bucket BEFORE its  *)
(* transaction, and enqueues a compensating deletion when that transaction *)
(* does not return.  Hiding a post enqueues the deletion of its objects.   *)
(* The outbox workers and the orphan cleaner delete objects later.  The    *)
(* only mutual exclusion is a session advisory lock per post,              *)
(* 'post-storage:<id>'.                                                    *)
(*                                                                         *)
(* Titles, bodies, sources and pins are not modelled here; a pin conflict  *)
(* is one of the reasons for which a transaction may fail (Rollback).      *)
(***************************************************************************)
EXTENDS Naturals, FiniteSets

CONSTANTS
    Posts, Images,      \* rows of content.board_post and board_post_image
    Cmds, Workers,      \* API requests in flight; outbox worker processes
    Cleaner,            \* the cleanup job
    None,               \* SQL NULL, and the holder of a free lock
    Home,               \* Home[i]: the posts in whose editor image i is used
    Paged, Viewed,      \* the posts whose page, whose images readers ask for
    Slots,              \* Slots[k]: copies of one message of kind k at once
    MaxVersion,         \* bound on board_post.lock_version
    MaxAttempts         \* failures after which a task is DEAD (8 in the code)

Kinds == {"DELETE_PUBLIC", "COMPENSATE", "DELETE_PRIVATE", "CACHE_PURGE"}

ASSUME ConstantsAssumption ==
    /\ None \notin Posts \cup Images \cup Cmds \cup Workers \cup {Cleaner}
    /\ Cmds \cap Workers = {} /\ Cleaner \notin Cmds \cup Workers
    /\ Home \in [Images -> SUBSET Posts]
    /\ Paged \subseteq Posts /\ Viewed \subseteq Posts
    /\ DOMAIN Slots = Kinds
    /\ MaxVersion \in Nat /\ MaxAttempts \in Nat \ {0}

VARIABLES
    post,          \* [Posts -> [status, version]]; ABSENT before its creation
    image,         \* [Images -> [status, post, publicKey]]; the key names a post
    publicObjs,    \* keys <<p, i>> present in the public bucket
    privateObjs,   \* images whose original is in the private bucket
    cached,        \* keys <<p, i>> held by the edge cache
    pages,         \* posts whose public page is held by the edge cache
    task,          \* [Messages -> [status, owner, attempts]]; NONE: no such row
    lock,          \* [Posts -> holder of post-storage:<p>]
    cmd,           \* [Cmds -> local state of a request in PostsService.command]
    worker,        \* [Workers -> local state of OutboxService.run]
    cleaner        \* the key CleanupService.run is looking at

dbVars    == <<post, image, task>>
storeVars == <<publicObjs, privateObjs, cached, pages>>
vars == <<post, image, publicObjs, privateObjs, cached, pages, task, lock,
          cmd, worker, cleaner>>

----------------------------------------------------------------------------
(* Data *)

PostStatus  == {"ABSENT", "DRAFT", "SCHEDULED", "PUBLISHED", "HIDDEN_REVIEW", "REMOVED"}
ImageStatus == {"STAGED", "PUBLIC", "PUBLIC_DELETE_PENDING", "PRIVATE_REVIEW",
                "PRIVATE_DELETE_PENDING", "DELETED"}
TaskStatus  == {"NONE", "PENDING", "RUNNING", "FAILED", "DEAD"}
Actions     == {"update", "publish", "schedule", "unschedule", "hide", "republish",
                "remove", "due"}
Publishing  == {"publish", "republish", "due"}    \* the actions that promote images

Keys == Posts \X Images

\* What an outbox row asks for.  DELETE_PUBLIC is the deletion a hide asks for,
\* COMPENSATE the same task type with payload.compensation set.
Messages ==
    [kind: {"DELETE_PUBLIC"}, post: Posts, image: Images, slot: Slots["DELETE_PUBLIC"]]
        \cup [kind: {"COMPENSATE"}, post: Posts, image: Images, slot: Slots["COMPENSATE"]]
        \cup [kind: {"DELETE_PRIVATE"}, post: {None}, image: Images,
              slot: Slots["DELETE_PRIVATE"]]
        \cup [kind: {"CACHE_PURGE"}, post: Paged, image: {None},
              slot: Slots["CACHE_PURGE"]]

Class(m) == <<m.kind, m.post, m.image>>

NoTask  == [status |-> "NONE", owner |-> None, attempts |-> 0]
Pending == [status |-> "PENDING", owner |-> None, attempts |-> 0]

IdleCmd    == [pc |-> "idle", action |-> "update", post |-> None, version |-> 0,
               images |-> {}, promoted |-> {}]
IdleWorker == [pc |-> "idle", msg |-> None, lock |-> None]
IdleClean  == [pc |-> "idle", key |-> None]

Allowed == [update     |-> {"DRAFT", "SCHEDULED", "HIDDEN_REVIEW"},
            publish    |-> {"DRAFT", "SCHEDULED"},
            schedule   |-> {"DRAFT"},
            unschedule |-> {"SCHEDULED"},
            hide       |-> {"PUBLISHED"},
            republish  |-> {"HIDDEN_REVIEW"},
            remove     |-> {"HIDDEN_REVIEW"},
            due        |-> {"SCHEDULED"}]

Attached(p) == {i \in Images : image[i].post = p}
Attachable  == {"STAGED", "PRIVATE_REVIEW"}

\* The row of image i says that its public object is the one of post p.
Owns(p, i) == image[i].publicKey = p

Live(k, p, i) == {m \in Messages : Class(m) = <<k, p, i>> /\ task[m].status # "NONE"}

----------------------------------------------------------------------------
(* Initially the images have been uploaded and no post exists. *)

Init ==
    /\ post = [p \in Posts |-> [status |-> "ABSENT", version |-> 0]]
    /\ image = [i \in Images |-> [status |-> "STAGED", post |-> None, publicKey |-> None]]
    /\ publicObjs = {} /\ privateObjs = Images /\ cached = {} /\ pages = {}
    /\ task = [m \in Messages |-> NoTask]
    /\ lock = [p \in Posts |-> None]
    /\ cmd = [c \in Cmds |-> IdleCmd]
    /\ worker = [w \in Workers |-> IdleWorker]
    /\ cleaner = IdleClean

\* The lock table after h gives up what it holds.
Released(h) == [p \in Posts |-> IF lock[p] = h THEN None ELSE lock[p]]

\* A row is inserted for every class <<kind, post, image>>, in a free slot.
Free(k) == {m \in Messages : Class(m) = k /\ task[m].status = "NONE"}
Enqueue(classes) ==
    /\ \A k \in classes : Free(k) # {}
    /\ task' = [m \in Messages |->
                  IF Class(m) \in classes /\ m = (CHOOSE f \in Free(Class(m)) : TRUE)
                  THEN Pending ELSE task[m]]

----------------------------------------------------------------------------
(* Images and drafts: one transaction each, no storage lock. *)

\* create: a draft on images nobody else uses.
CreateDraft(p, S) ==
    /\ post[p].status = "ABSENT"
    /\ \A i \in S : p \in Home[i] /\ image[i].post = None /\ image[i].status \in Attachable
    /\ post' = [post EXCEPT ![p] = [status |-> "DRAFT", version |-> 1]]
    /\ image' = [i \in Images |-> IF i \in S THEN [image[i] EXCEPT !.post = p] ELSE image[i]]
    /\ UNCHANGED <<storeVars, task, lock, cmd, worker, cleaner>>

\* The editor discards a staged image, or cleanup finds it a day old.
Discard(i) ==
    /\ image[i].status = "STAGED" /\ image[i].post = None
    /\ image' = [image EXCEPT ![i].status = "PRIVATE_DELETE_PENDING"]
    /\ Enqueue({<<"DELETE_PRIVATE", None, i>>})
    /\ UNCHANGED <<post, storeVars, lock, cmd, worker, cleaner>>

----------------------------------------------------------------------------
(* A command on an existing post.  pc: waiting for the lock, locked,        *)
(* working (promoting, then in its transaction), compensating.              *)

\* The client, or due(), has read the version the command will present.  The second and
\* third line hold the bounds: versions, and a slot for each compensation it may need.
Request(c, p, a) ==
    /\ cmd[c].pc = "idle" /\ post[p].status \in Allowed[a]
    /\ post[p].version < MaxVersion
    /\ a \in Publishing => \A i \in Attached(p) : Free(<<"COMPENSATE", p, i>>) # {}
    /\ cmd' = [cmd EXCEPT ![c] = [IdleCmd EXCEPT !.pc = "waiting", !.action = a, !.post = p,
                                                 !.version = post[p].version]]
    /\ UNCHANGED <<dbVars, storeVars, lock, worker, cleaner>>

\* (Bug: the advisory lock is not waited for.)
AcquireLockHeld(c) ==
    /\ cmd[c].pc = "waiting" /\ lock' = [lock EXCEPT ![cmd[c].post] = c]
    /\ cmd' = [cmd EXCEPT ![c].pc = IF cmd[c].action \in Publishing THEN "locked" ELSE "working"]
    /\ UNCHANGED <<dbVars, storeVars, worker, cleaner>>

AcquireLock(c) ==
    /\ cmd[c].pc = "waiting" /\ lock[cmd[c].post] = None
    /\ lock' = [lock EXCEPT ![cmd[c].post] = c]
    /\ cmd' = [cmd EXCEPT ![c].pc = IF cmd[c].action \in Publishing THEN "locked" ELSE "working"]
    /\ UNCHANGED <<dbVars, storeVars, worker, cleaner>>

Current(c) ==
    /\ post[cmd[c].post].version = cmd[c].version
    /\ post[cmd[c].post].status \in Allowed[cmd[c].action]

\* The lock is released and the request is over.
Leave(c) == cmd' = [cmd EXCEPT ![c] = IdleCmd] /\ lock' = Released(c)

Precheck(c) ==
    /\ cmd[c].pc = "locked"
    /\ IF Current(c) /\ \A i \in Attached(cmd[c].post) : image[i].status \in Attachable
       THEN /\ cmd' = [cmd EXCEPT ![c].pc = "working", ![c].images = Attached(cmd[c].post)]
            /\ UNCHANGED lock
       ELSE Leave(c)
    /\ UNCHANGED <<dbVars, storeVars, worker, cleaner>>

\* The image is noted for compensation before it is copied.
Promote(c, i) ==
    /\ cmd[c].pc = "working" /\ i \in cmd[c].images \ cmd[c].promoted
    /\ i \in privateObjs
    /\ publicObjs' = publicObjs \cup {<<cmd[c].post, i>>}
    /\ cmd' = [cmd EXCEPT ![c].promoted = @ \cup {i}]
    /\ UNCHANGED <<dbVars, privateObjs, cached, pages, lock, worker, cleaner>>

\* A failed copy may have created the object all the same.
PromoteFails(c, i) ==
    /\ cmd[c].pc = "working" /\ i \in cmd[c].images \ cmd[c].promoted
    /\ \/ i \in privateObjs /\ publicObjs' = publicObjs \cup {<<cmd[c].post, i>>}
       \/ UNCHANGED publicObjs
    /\ cmd' = [cmd EXCEPT ![c].promoted = @ \cup {i}, ![c].pc = "compensating"]
    /\ UNCHANGED <<dbVars, privateObjs, cached, pages, lock, worker, cleaner>>

\* The transaction's checks on the post, under its row lock.
InTransaction(c) ==
    /\ cmd[c].pc = "working" /\ cmd[c].promoted = cmd[c].images
    /\ Current(c)

\* The update of the post, and the answer: success, or a lost acknowledgement,
\* which the caller sees as an error although the transaction has committed.
Commit(c, status) ==
    /\ post' = [post EXCEPT ![cmd[c].post] = [status |-> status, version |-> @.version + 1]]
    /\ \/ Leave(c)
       \/ cmd' = [cmd EXCEPT ![c].pc = "compensating"] /\ UNCHANGED lock
    /\ UNCHANGED <<storeVars, worker, cleaner>>

\* The purge of the post's page.  (Bug: forgotten by hide and remove.)
PurgesOfPublish(c) == {<<"CACHE_PURGE", p, None>> :
                          p \in {q \in {cmd[c].post} \cap Paged : cmd[c].action \in Publishing}}
Purges(c) == {<<"CACHE_PURGE", p, None>> : p \in {cmd[c].post} \cap Paged}

\* An update whose body leaves the blocks alone, a schedule or an unschedule.
CommitPlain(c) ==
    /\ InTransaction(c) /\ cmd[c].action \in {"update", "schedule", "unschedule"}
    /\ Commit(c, CASE cmd[c].action = "update"     -> post[cmd[c].post].status
                   [] cmd[c].action = "schedule"   -> "SCHEDULED"
                   [] cmd[c].action = "unschedule" -> "DRAFT")
    /\ UNCHANGED <<image, task>>

\* What becomes of an image that an update drops from the post: one that was public once
\* is deleted, the others can be used again.  (Bug: kept as if it were never public.)
DetachedKept(i) == [image[i] EXCEPT !.post = None, !.status = "STAGED"]
Detached(i) ==
    [image[i] EXCEPT !.post = None,
                     !.status = IF @ = "PRIVATE_REVIEW" THEN "PRIVATE_DELETE_PENDING" ELSE "STAGED"]

\* An update that leaves the images S in the post: blocks().
CommitBlocks(c, S) ==
    LET p == cmd[c].post
        discarded == {i \in Attached(p) \ S : image[i].status = "PRIVATE_REVIEW"}
    IN  /\ InTransaction(c) /\ cmd[c].action = "update"
        /\ post[p].status = "HIDDEN_REVIEW" =>
               \A i \in Attached(p) : image[i].status # "PUBLIC_DELETE_PENDING"
        /\ \A i \in S : p \in Home[i] /\ image[i].post \in {None, p}
                            /\ image[i].status \in Attachable
        /\ Commit(c, post[p].status)
        /\ image' = [i \in Images |->
               IF i \in S THEN [image[i] EXCEPT !.post = p]
               ELSE IF i \in Attached(p) THEN Detached(i) ELSE image[i]]
        /\ Enqueue({<<"DELETE_PRIVATE", None, i>> : i \in discarded})

CommitPublish(c) ==
    LET p == cmd[c].post
    IN  /\ InTransaction(c) /\ cmd[c].action \in Publishing
        /\ Commit(c, "PUBLISHED")
        /\ image' = [i \in Images |->
               IF i \in cmd[c].promoted /\ image[i].post = p
               THEN [image[i] EXCEPT !.status = "PUBLIC", !.publicKey = p] ELSE image[i]]
        /\ Enqueue(Purges(c))

CommitHide(c) ==
    LET p == cmd[c].post
    IN  /\ InTransaction(c) /\ cmd[c].action = "hide"
        /\ \A i \in Attached(p) : image[i].status = "PUBLIC"
        /\ Commit(c, "HIDDEN_REVIEW")
        /\ image' = [i \in Images |->
               IF i \in Attached(p) THEN [image[i] EXCEPT !.status = "PUBLIC_DELETE_PENDING"]
               ELSE image[i]]
        /\ Enqueue(Purges(c) \cup {<<"DELETE_PUBLIC", image[i].publicKey, i>> : i \in Attached(p)})

\* The originals go too, after 30 days.
CommitRemove(c) ==
    LET p == cmd[c].post
    IN  /\ InTransaction(c) /\ cmd[c].action = "remove"
        /\ \A i \in Attached(p) : image[i].status # "PUBLIC_DELETE_PENDING"
        /\ Commit(c, "REMOVED")
        /\ image' = [i \in Images |->
               IF i \in Attached(p) THEN [image[i] EXCEPT !.status = "PRIVATE_DELETE_PENDING"]
               ELSE image[i]]
        /\ Enqueue(Purges(c) \cup {<<"DELETE_PRIVATE", None, i>> : i \in Attached(p)})

\* The transaction rolls back: a check fails (version, status, an image, the review
\* guard, a pin conflict) or the database does.
Rollback(c) ==
    /\ cmd[c].pc = "working" /\ cmd[c].promoted = cmd[c].images
    /\ cmd' = [cmd EXCEPT ![c].pc = "compensating"]
    /\ UNCHANGED <<dbVars, storeVars, lock, worker, cleaner>>

\* The catch block enqueues one deletion for each image it had begun to copy.
Compensate(c, i) ==
    /\ cmd[c].pc = "compensating" /\ i \in cmd[c].promoted
    /\ Enqueue({<<"COMPENSATE", cmd[c].post, i>>})
    /\ cmd' = [cmd EXCEPT ![c].promoted = @ \ {i}]
    /\ UNCHANGED <<post, image, storeVars, lock, worker, cleaner>>

Rethrow(c) ==
    /\ cmd[c].pc = "compensating" /\ cmd[c].promoted = {}
    /\ Leave(c)
    /\ UNCHANGED <<dbVars, storeVars, worker, cleaner>>

\* The process dies, the connection drops, lock_timeout strikes a waiting request or
\* a compensation cannot be saved: the session lock goes and nothing else is undone.
CommandDies(c) ==
    /\ cmd[c].pc # "idle"
    /\ Leave(c)
    /\ UNCHANGED <<dbVars, storeVars, worker, cleaner>>

----------------------------------------------------------------------------
(* Outbox workers *)

\* The row t after a failure.  (Bugs: never DEAD; removed with the last attempt; the
\* attempt not counted.)
FailedForever(t)   == [status |-> "FAILED", owner |-> None, attempts |-> t.attempts + 1]
FailedForgotten(t) == IF t.attempts + 1 >= MaxAttempts THEN NoTask ELSE FailedForever(t)
FailedUncounted(t) == [status |-> "FAILED", owner |-> None, attempts |-> t.attempts]
Failed(t) ==
    [status   |-> IF t.attempts + 1 >= MaxAttempts THEN "DEAD" ELSE "FAILED",
     owner    |-> None,
     attempts |-> t.attempts + 1]

\* A RUNNING row whose claim is five minutes old: its worker is dead, or slow.
RecoverExpired(m) ==
    /\ task[m].status = "RUNNING"
    /\ task' = [task EXCEPT ![m] = Failed(@)]
    /\ UNCHANGED <<post, image, storeVars, lock, cmd, worker, cleaner>>

Claim(w, m) ==
    /\ worker[w].pc = "idle" /\ task[m].status \in {"PENDING", "FAILED"}
    /\ task' = [task EXCEPT ![m].status = "RUNNING", ![m].owner = w]
    /\ worker' = [worker EXCEPT ![w] = [pc |-> "claimed", msg |-> m, lock |-> None]]
    /\ UNCHANGED <<post, image, storeVars, lock, cmd, cleaner>>

\* The post whose lock protects the deletion: the one the image is attached to,
\* else the one its public key names.  (Bug: none when the image is not attached.)
StoragePostOfRow(m) == IF m.kind = "CACHE_PURGE" THEN None ELSE image[m.image].post
StoragePost(m) ==
    IF m.kind = "CACHE_PURGE" THEN None
    ELSE IF image[m.image].post # None THEN image[m.image].post ELSE m.post

ReadImage(w) ==
    LET p == StoragePost(worker[w].msg)
    IN  /\ worker[w].pc = "claimed"
        /\ worker' = [worker EXCEPT ![w].lock = p,
                                    ![w].pc = IF p = None THEN "execute" ELSE "waiting"]
        /\ UNCHANGED <<dbVars, storeVars, lock, cmd, cleaner>>

WorkerLocks(w) ==
    /\ worker[w].pc = "waiting" /\ lock[worker[w].lock] = None
    /\ lock' = [lock EXCEPT ![worker[w].lock] = w]
    /\ worker' = [worker EXCEPT ![w].pc = "execute"]
    /\ UNCHANGED <<dbVars, storeVars, cmd, cleaner>>

Owned(w) == task[worker[w].msg].status = "RUNNING" /\ task[worker[w].msg].owner = w

WorkerLeaves(w) == worker' = [worker EXCEPT ![w] = IdleWorker] /\ lock' = Released(w)

\* Is the object to be deleted?  A hide's deletion only while the image waits for it,
\* a compensation unless the image is public under that key.  (Bug: always.)
DeletesAlways(m) == m.kind # "CACHE_PURGE"
Deletes(m) ==
    \/ m.kind = "DELETE_PRIVATE"
    \/ /\ m.kind = "DELETE_PUBLIC"
       /\ Owns(m.post, m.image) /\ image[m.image].status = "PUBLIC_DELETE_PENDING"
    \/ /\ m.kind = "COMPENSATE"
       /\ ~(Owns(m.post, m.image) /\ image[m.image].status = "PUBLIC")

Execute(w) ==
    LET m == worker[w].msg
    IN  /\ worker[w].pc = "execute"
        /\ IF Owned(w)
           THEN /\ worker' = [worker EXCEPT ![w].pc = IF m.kind = "CACHE_PURGE" THEN "purge"
                                                      ELSE IF Deletes(m) THEN "delete" ELSE "finish"]
                /\ UNCHANGED lock
           ELSE WorkerLeaves(w)
        /\ UNCHANGED <<dbVars, storeVars, cmd, cleaner>>

DeleteObject(w) ==
    LET m == worker[w].msg
    IN  /\ worker[w].pc = "delete"
        /\ IF m.kind = "DELETE_PRIVATE"
           THEN /\ privateObjs' = privateObjs \ {m.image} /\ UNCHANGED publicObjs
                /\ worker' = [worker EXCEPT ![w].pc = "finish"]
           ELSE /\ publicObjs' = publicObjs \ {<<m.post, m.image>>} /\ UNCHANGED privateObjs
                /\ worker' = [worker EXCEPT ![w].pc = "purge"]
        /\ UNCHANGED <<dbVars, cached, pages, lock, cmd, cleaner>>

\* (Bug: a failed purge is ignored.)
PurgeIgnored(w) ==
    /\ worker[w].pc = "purge" /\ worker' = [worker EXCEPT ![w].pc = "finish"]
    /\ UNCHANGED <<dbVars, storeVars, lock, cmd, cleaner>>

PurgeCache(w) ==
    LET m == worker[w].msg
    IN  /\ worker[w].pc = "purge"
        /\ IF m.kind = "CACHE_PURGE"
           THEN pages' = pages \ {m.post} /\ UNCHANGED cached
           ELSE cached' = cached \ {<<m.post, m.image>>} /\ UNCHANGED pages
        /\ worker' = [worker EXCEPT ![w].pc = "finish"]
        /\ UNCHANGED <<dbVars, publicObjs, privateObjs, lock, cmd, cleaner>>

\* The last transaction: the row is still ours, the image moves on, the task succeeds.
FinishTask(w) ==
    LET m == worker[w].msg
        i == m.image
    IN  /\ worker[w].pc = "finish"
        /\ IF Owned(w)
           THEN /\ task' = [task EXCEPT ![m] = NoTask]
                /\ image' =
                     IF m.kind = "DELETE_PUBLIC" /\ image[i].status = "PUBLIC_DELETE_PENDING"
                     THEN [image EXCEPT ![i].status = "PRIVATE_REVIEW", ![i].publicKey = None]
                     ELSE IF m.kind = "DELETE_PRIVATE" /\ image[i].status = "PRIVATE_DELETE_PENDING"
                     THEN [image EXCEPT ![i].status = "DELETED"]
                     ELSE image
           ELSE UNCHANGED <<task, image>>
        /\ WorkerLeaves(w)
        /\ UNCHANGED <<post, storeVars, cmd, cleaner>>

\* Any step may throw, the wait for the lock too: the lock is released and then fail().
TaskThrows(w) ==
    /\ worker[w].pc \in {"claimed", "waiting", "execute", "delete", "purge", "finish"}
    /\ worker' = [worker EXCEPT ![w].pc = "failing", ![w].lock = None]
    /\ lock' = Released(w)
    /\ UNCHANGED <<dbVars, storeVars, cmd, cleaner>>

FailTask(w) ==
    LET m == worker[w].msg
    IN  /\ worker[w].pc = "failing"
        /\ task' = IF Owned(w) THEN [task EXCEPT ![m] = Failed(@)] ELSE task
        /\ worker' = [worker EXCEPT ![w] = IdleWorker]
        /\ UNCHANGED <<post, image, storeVars, lock, cmd, cleaner>>

WorkerDies(w) ==
    /\ worker[w].pc # "idle"
    /\ WorkerLeaves(w)
    /\ UNCHANGED <<dbVars, storeVars, cmd, cleaner>>

----------------------------------------------------------------------------
(* The cleanup job, for a public object its inventory says is a day old *)

CleanPick(k) ==
    /\ cleaner.pc = "idle" /\ k \in publicObjs
    /\ cleaner' = [pc |-> "waiting", key |-> k]
    /\ UNCHANGED <<dbVars, storeVars, lock, cmd, worker>>

CleanLock ==
    /\ cleaner.pc = "waiting" /\ lock[cleaner.key[1]] = None
    /\ lock' = [lock EXCEPT ![cleaner.key[1]] = Cleaner]
    /\ cleaner' = [cleaner EXCEPT !.pc = "locked"]
    /\ UNCHANGED <<dbVars, storeVars, cmd, worker>>

CleanerLeaves == cleaner' = IdleClean /\ lock' = Released(Cleaner)

Referenced(p, i) ==
    Owns(p, i) \/ Live("DELETE_PUBLIC", p, i) # {} \/ Live("COMPENSATE", p, i) # {}

\* (Bug: an object of an attached image is taken for a referenced one.)
CleanCheckAttached ==
    /\ cleaner.pc = "locked"
    /\ IF image[cleaner.key[2]].post = cleaner.key[1] \/ Referenced(cleaner.key[1], cleaner.key[2])
       THEN CleanerLeaves
       ELSE cleaner' = [cleaner EXCEPT !.pc = "delete"] /\ UNCHANGED lock
    /\ UNCHANGED <<dbVars, storeVars, cmd, worker>>

CleanCheck ==
    /\ cleaner.pc = "locked"
    /\ IF Referenced(cleaner.key[1], cleaner.key[2])
       THEN CleanerLeaves
       ELSE cleaner' = [cleaner EXCEPT !.pc = "delete"] /\ UNCHANGED lock
    /\ UNCHANGED <<dbVars, storeVars, cmd, worker>>

CleanDelete ==
    /\ cleaner.pc = "delete"
    /\ publicObjs' = publicObjs \ {cleaner.key}
    /\ CleanerLeaves
    /\ UNCHANGED <<dbVars, privateObjs, cached, pages, cmd, worker>>

CleanerDies ==
    /\ cleaner.pc # "idle" /\ CleanerLeaves
    /\ UNCHANGED <<dbVars, storeVars, cmd, worker>>

----------------------------------------------------------------------------
(* Readers, through the edge cache *)

FetchImage(k) ==
    /\ k[1] \in Viewed /\ k \in publicObjs \ cached /\ cached' = cached \cup {k}
    /\ UNCHANGED <<dbVars, publicObjs, privateObjs, pages, lock, cmd, worker, cleaner>>

FetchPage(p) ==
    /\ p \in Paged /\ post[p].status = "PUBLISHED" /\ p \notin pages /\ pages' = pages \cup {p}
    /\ UNCHANGED <<dbVars, publicObjs, privateObjs, cached, lock, cmd, worker, cleaner>>

----------------------------------------------------------------------------

CommandStep(c) ==
    \/ \E p \in Posts, a \in Actions : Request(c, p, a)
    \/ AcquireLock(c) \/ Precheck(c)
    \/ \E i \in Images : Promote(c, i) \/ PromoteFails(c, i) \/ Compensate(c, i)
    \/ CommitPlain(c) \/ CommitPublish(c) \/ CommitHide(c) \/ CommitRemove(c)
    \/ \E S \in SUBSET Images : CommitBlocks(c, S)
    \/ Rollback(c) \/ Rethrow(c) \/ CommandDies(c)

WorkerStep(w) ==
    \/ \E m \in Messages : Claim(w, m)
    \/ ReadImage(w) \/ WorkerLocks(w) \/ Execute(w) \/ DeleteObject(w) \/ PurgeCache(w)
    \/ FinishTask(w) \/ TaskThrows(w) \/ FailTask(w) \/ WorkerDies(w)

CleanerStep ==
    \/ \E k \in Keys : CleanPick(k)
    \/ CleanLock \/ CleanCheck \/ CleanDelete \/ CleanerDies

Next ==
    \/ \E p \in Posts, S \in SUBSET Images : CreateDraft(p, S)
    \/ \E i \in Images : Discard(i)
    \/ \E c \in Cmds : CommandStep(c)
    \/ \E m \in Messages : RecoverExpired(m)
    \/ \E w \in Workers : WorkerStep(w)
    \/ CleanerStep
    \/ \E k \in Keys : FetchImage(k)
    \/ \E p \in Posts : FetchPage(p)

Spec == Init /\ [][Next]_vars

\* The scheduling the code gives: requests and claimed tasks run on, a waiter for an
\* advisory lock is queued and gets it in the end, a claim takes the oldest due row,
\* every run recovers expired claims, and cleanup runs daily over the whole inventory: it
\* does not meet a held lock, or die at the same step, of the same object every day.
CommandRuns(c) ==
    \/ Precheck(c) \/ Rollback(c) \/ Rethrow(c) \/ CommitPlain(c) \/ CommitPublish(c)
    \/ CommitHide(c) \/ CommitRemove(c)
    \/ \E i \in Images : Promote(c, i) \/ PromoteFails(c, i) \/ Compensate(c, i)

WorkerRuns(w) ==
    \/ ReadImage(w) \/ Execute(w) \/ DeleteObject(w) \/ PurgeCache(w) \/ FinishTask(w)
    \/ FailTask(w)

Fairness ==
    /\ \A c \in Cmds : WF_vars(CommandRuns(c))
    /\ \A w \in Workers : WF_vars(WorkerRuns(w)) /\ SF_vars(WorkerLocks(w))
    /\ \A m \in Messages : SF_vars(\E w \in Workers : Claim(w, m)) /\ WF_vars(RecoverExpired(m))
    /\ \A k \in Keys :
          /\ SF_vars(CleanPick(k) /\ lock[k[1]] = None) /\ SF_vars(cleaner.key = k /\ CleanLock)
          /\ SF_vars(cleaner.key = k /\ CleanCheck) /\ SF_vars(cleaner.key = k /\ CleanDelete)

FairSpec == Spec /\ Fairness

----------------------------------------------------------------------------
(* Properties *)

PostsOK  == post \in [Posts -> [status: PostStatus, version: Nat]]
ImagesOK == image \in [Images -> [status: ImageStatus, post: Posts \cup {None},
                                  publicKey: Posts \cup {None}]]
StoresOK == /\ publicObjs \subseteq Keys /\ privateObjs \subseteq Images
            /\ cached \subseteq Keys /\ pages \subseteq Posts
TaskRow  == [status: TaskStatus, owner: Workers \cup {None}, attempts: 0 .. MaxAttempts]
TasksOK  == /\ task \in [Messages -> TaskRow]
            /\ \A m \in Messages : task[m].status # "DEAD" => task[m].attempts < MaxAttempts
LocksOK  == lock \in [Posts -> Cmds \cup Workers \cup {Cleaner, None}]
CmdState == [pc: {"idle", "waiting", "locked", "working", "compensating"}, action: Actions,
             post: Posts \cup {None}, version: Nat,
             images: SUBSET Images, promoted: SUBSET Images]
CmdsOK   == /\ cmd \in [Cmds -> CmdState]
            /\ \A c \in Cmds : cmd[c].pc # "idle" => cmd[c].post \in Posts
WorkerState == [pc: {"idle", "claimed", "waiting", "execute", "delete", "purge", "finish",
                     "failing"},
                msg: Messages \cup {None}, lock: Posts \cup {None}]
WorkersOK == /\ worker \in [Workers -> WorkerState]
             /\ \A w \in Workers : worker[w].pc # "idle" => worker[w].msg \in Messages
             /\ \A w \in Workers : worker[w].pc = "waiting" => worker[w].lock \in Posts
CleanerOK == /\ cleaner \in [pc: {"idle", "waiting", "locked", "delete"}, key: Keys \cup {None}]
             /\ cleaner.pc # "idle" => cleaner.key \in Keys

\* Rows, objects and local states have their types; an open outbox row has attempts left.
TypeOK == PostsOK /\ ImagesOK /\ StoresOK /\ TasksOK /\ LocksOK /\ CmdsOK /\ WorkersOK /\ CleanerOK

\* A reader of a published post gets its images: every image attached to it is PUBLIC
\* under the post's own key, and that object is in the public bucket.  Compensations,
\* hide deletions, expired claims and the orphan cleaner all delete such keys.
PublishedServable ==
    \A p \in Posts : post[p].status = "PUBLISHED" =>
        \A i \in Attached(p) :
            image[i].status = "PUBLIC" /\ Owns(p, i) /\ <<p, i>> \in publicObjs

\* The row of an image reports the end of a withdrawal only when neither the bucket
\* nor the edge cache still serves the image (execute() deletes, purges, then commits).
WithdrawnIsGone ==
    [][\A p \in Posts, i \in Images :
          (Owns(p, i) /\ image'[i].publicKey = None) =>
              <<p, i>> \notin publicObjs /\ <<p, i>> \notin cached]_vars

\* An image that waits for its withdrawal has a deletion row, DEAD at worst: the hidden
\* post can be republished or removed only after that row has done its work.
WithdrawalNotForgotten ==
    \A i \in Images : image[i].status = "PUBLIC_DELETE_PENDING" =>
        Live("DELETE_PUBLIC", image[i].publicKey, i) # {}

\* A page of a post that is no longer published stays in the edge cache only while a
\* purge of it is still queued, running or DEAD.
StalePagePurged ==
    \A p \in pages : post[p].status # "PUBLISHED" => Live("CACHE_PURGE", p, None) # {}

\* The original of an image that may still be published again is never deleted.
OriginalKept ==
    \A i \in Images :
        image[i].status \in {"STAGED", "PUBLIC", "PUBLIC_DELETE_PENDING", "PRIVATE_REVIEW"}
            => i \in privateObjs

\* A public object that nobody's row, open deletion or compensation refers to is the
\* residue of a request that died after copying it: the orphan cleaner removes it in the
\* end, unless a later publication takes it over.
OrphanRemoved ==
    \A p \in Posts, i \in Images :
        (<<p, i>> \in publicObjs /\ ~Referenced(p, i)) ~> (<<p, i>> \notin publicObjs \/ Referenced(p, i))

\* Every withdrawal ends: the image leaves the public bucket or its row is DEAD.
WithdrawalEnds ==
    \A i \in Images : image[i].status = "PUBLIC_DELETE_PENDING" ~>
        \/ image[i].status # "PUBLIC_DELETE_PENDING"
        \/ \E m \in Messages : m.kind = "DELETE_PUBLIC" /\ m.image = i /\ task[m].status = "DEAD"

----------------------------------------------------------------------------
(* Why a published post keeps its objects.  Whoever is about to delete an   *)
(* object, or is between copying it and committing, holds the lock of the   *)
(* post its key names - provided that no image moves between two posts.     *)

NoSharing == \A i \in Images : \A p, q \in Home[i] : p = q

\* The state an image row may be in, given its post; the CHECKs of V001__core.sql
\* (a public key exactly while PUBLIC or PUBLIC_DELETE_PENDING) are part of it.
ImageRow(i) ==
    /\ image[i].post # None => image[i].post \in Home[i]
    /\ image[i].status \in {"PUBLIC", "PUBLIC_DELETE_PENDING"} =>
           image[i].post # None /\ image[i].publicKey = image[i].post
    /\ image[i].status \notin {"PUBLIC", "PUBLIC_DELETE_PENDING"} =>
           image[i].publicKey = None
    /\ image[i].status = "PUBLIC" =>
           post[image[i].post].status = "PUBLISHED" /\ <<image[i].post, i>> \in publicObjs
    /\ image[i].status = "PUBLIC_DELETE_PENDING" =>
           post[image[i].post].status = "HIDDEN_REVIEW"
    /\ image[i].post # None /\ post[image[i].post].status = "PUBLISHED" =>
           image[i].status = "PUBLIC"

ImageRows == \A i \in Images : ImageRow(i)

\* A running request holds its post's lock; between Precheck and the commit its list of
\* images is still the post's, none of them is public, and what it copied is there.
CommandHolds(c) ==
    LET p == cmd[c].post
    IN  /\ cmd[c].pc # "idle" => post[p].status # "ABSENT"
        /\ cmd[c].pc \in {"locked", "working", "compensating"} => lock[p] = c
        /\ cmd[c].pc \in {"idle", "waiting", "locked"} => cmd[c].promoted = {}
        /\ \A i \in cmd[c].images \cup cmd[c].promoted : p \in Home[i]
        /\ cmd[c].pc = "working" /\ cmd[c].action \in Publishing =>
               /\ cmd[c].images = Attached(p)
               /\ \A i \in cmd[c].images : image[i].status \in Attachable
               /\ \A i \in cmd[c].promoted : <<p, i>> \in publicObjs

PublicKinds == {"DELETE_PUBLIC", "COMPENSATE"}

TasksAtHome ==
    \A m \in Messages : task[m].status # "NONE" /\ m.kind \in PublicKinds =>
        m.post \in Home[m.image]

\* A worker on a public key waits for, then holds, the lock of the post in that key;
\* when it is about to delete the object, no PUBLIC row owns it.
WorkerHolds(w) ==
    LET m == worker[w].msg
        pc == worker[w].pc
    IN  /\ pc # "idle" /\ m.kind \in PublicKinds => m.post \in Home[m.image]
        /\ pc \in {"waiting", "execute", "delete", "purge", "finish"} /\ m.kind \in PublicKinds =>
               worker[w].lock = m.post
        /\ pc \in {"execute", "delete", "purge", "finish"} /\ worker[w].lock # None =>
               lock[worker[w].lock] = w
        /\ pc = "delete" /\ m.kind \in PublicKinds =>
               ~(Owns(m.post, m.image) /\ image[m.image].status = "PUBLIC")

CleanerHolds ==
    /\ cleaner.pc \in {"locked", "delete"} => lock[cleaner.key[1]] = Cleaner
    /\ cleaner.pc = "delete" => ~Owns(cleaner.key[1], cleaner.key[2])

StorageDiscipline ==
    /\ ImageRows /\ TasksAtHome /\ CleanerHolds
    /\ \A c \in Cmds : CommandHolds(c)
    /\ \A w \in Workers : WorkerHolds(w)

=============================================================================
