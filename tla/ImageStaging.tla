---------------------------- MODULE ImageStaging ----------------------------
(***************************************************************************)
(* Uploads: ImagesService.store, the outbox tasks that delete private      *)
(* objects, the expiry of staged images and the sweep of the private       *)
(* bucket.  An upload stores its objects one by one and then creates all   *)
(* the rows in one transaction, so until the transaction commits nothing   *)
(* in the database refers to an object.  A collected upload (the images of *)
(* a batch item) has a deadline, and saves a deletion task for each object *)
(* before it stores it.                                                    *)
(*                                                                         *)
(* The posts that images are attached to are abstracted to Attach and      *)
(* Detach; PostPublication has the rest of an image's life.                *)
(*                                                                         *)
(* Not modelled: validation, the waiting time between attempts, previews   *)
(* of candidates (CandidateCollection), and an upload that runs for more   *)
(* than 24 hours.                                                          *)
(***************************************************************************)
EXTENDS Naturals

CONSTANTS
    Uploads,        \* calls of store
    Images,         \* images, by their private key
    Upload,         \* Upload[i]: the call that stores image i
    Collected,      \* the calls with a source: an expiry and a deadline
    Workers,        \* runs of OutboxService
    MaxAttempts,    \* 8 in the code
    None

StagingAssumption ==
    /\ Upload \in [Images -> Uploads]
    /\ Collected \subseteq Uploads
    /\ MaxAttempts \in Nat \ {0}
    /\ None \notin Workers \cup Images

VARIABLES
    row,        \* [Images -> row of board_post_image: status, source_expires_at set?]
    objects,    \* private objects
    task,       \* [Images \X Kinds -> row of outbox_task about an object]
    upload,     \* [Uploads -> local state of store]
    answered,   \* images whose identifiers reached the caller
    expired,    \* uploads whose source_expires_at has passed
    aged,       \* uploads that began more than 24 hours ago
    worker,     \* [Workers -> local state of OutboxService.execute]
    sweeping    \* the object CleanupService is about to delete, or None

vars == <<row, objects, task, upload, answered, expired, aged, worker, sweeping>>

----------------------------------------------------------------------------
(* Data *)

Kinds    == {"INTENT", "ROLLBACK", "IMAGE"}
Open     == {"PENDING", "RUNNING", "FAILED"}
Statuses == {"STAGED", "ATTACHED", "PRIVATE_DELETE_PENDING", "DELETED"}
NoRow    == [status |-> "NONE", source |-> FALSE]
NoTask   == [status |-> "NONE", attempts |-> 0, owner |-> None]
Idle     == [pc |-> "idle", image |-> None, kind |-> "IMAGE", remove |-> FALSE, staged |-> FALSE]

ImagesOf(u)  == {i \in Images : Upload[i] = u}
IsCollected(i) == Upload[i] \in Collected

\* The payload holds sourceExpiresAt.
HasSource(t) == t[2] # "IMAGE" /\ IsCollected(t[1])

Task(w)    == <<worker[w].image, worker[w].kind>>
Owns(w)    == task[Task(w)].status = "RUNNING" /\ task[Task(w)].owner = w
Enqueued   == [NoTask EXCEPT !.status = "PENDING"]

\* next_attempt_at of a new task: the intent waits for 24 hours or the expiry.
Due(t) == t[2] = "INTENT" => Upload[t[1]] \in aged \cup expired

\* recoverExpired, fail: a task with a source never dies.
FailedAlike(t) ==                          \* Bug: all tasks alike
    LET n == task[t].attempts + 1 IN
    [status |-> IF n >= MaxAttempts THEN "DEAD" ELSE "FAILED",
     attempts |-> IF n > MaxAttempts THEN MaxAttempts ELSE n, owner |-> None]

Failed(t) ==
    LET n == task[t].attempts + 1 IN
    [status |-> IF ~HasSource(t) /\ n >= MaxAttempts THEN "DEAD" ELSE "FAILED",
     attempts |-> IF n > MaxAttempts THEN MaxAttempts ELSE n, owner |-> None]

Init ==
    /\ row = [i \in Images |-> NoRow]
    /\ objects = {}
    /\ task = [t \in Images \X Kinds |-> NoTask]
    /\ upload = [u \in Uploads |-> [pc |-> "idle", todo |-> {}, current |-> None, stored |-> {}]]
    /\ answered = {} /\ expired = {} /\ aged = {}
    /\ worker = [w \in Workers |-> Idle]
    /\ sweeping = None

----------------------------------------------------------------------------
(* ImagesService.store *)

Begin(u) ==
    /\ upload[u].pc = "idle"
    /\ upload' = [upload EXCEPT ![u].pc = "next", ![u].todo = ImagesOf(u)]
    /\ UNCHANGED <<row, objects, task, answered, expired, aged, worker, sweeping>>

\* The deletion task is saved before the object exists.

SaveIntent(u, i) ==
    /\ upload[u].pc = "next" /\ i \in upload[u].todo
    /\ u \in Collected => u \notin expired
    /\ upload' = [upload EXCEPT ![u].pc = "put", ![u].current = i]
    /\ task' = IF u \in Collected THEN [task EXCEPT ![<<i, "INTENT">>] = Enqueued] ELSE task
    /\ UNCHANGED <<row, objects, answered, expired, aged, worker, sweeping>>

\* The deadline has passed, or the transaction fails or its commit goes unheard.
IntentFails(u, i) ==
    /\ upload[u].pc = "next" /\ i \in upload[u].todo /\ u \in Collected
    /\ upload' = [upload EXCEPT ![u].pc = "rollback"]
    /\ \/ UNCHANGED task
       \/ /\ u \notin expired
          /\ task' = [task EXCEPT ![<<i, "INTENT">>] = Enqueued]
    /\ UNCHANGED <<row, objects, answered, expired, aged, worker, sweeping>>

Put(u) ==
    LET i == upload[u].current IN
    /\ upload[u].pc = "put"
    /\ objects' = objects \cup {i}
    /\ upload' = [upload EXCEPT ![u].pc = IF u \in Collected \cap expired THEN "rollback" ELSE "next",
                                ![u].todo = @ \ {i}, ![u].stored = @ \cup {i}]
    /\ UNCHANGED <<row, task, answered, expired, aged, worker, sweeping>>

\* The answer of the store is an error; the object may be there all the same.
PutFails(u) ==
    LET i == upload[u].current IN
    /\ upload[u].pc = "put"
    /\ objects' \in {objects, objects \cup {i}}
    /\ upload' = [upload EXCEPT ![u].pc = "rollback", ![u].stored = @ \cup {i}]
    /\ UNCHANGED <<row, task, answered, expired, aged, worker, sweeping>>

\* The rows of all the images, refused by the triggers of V009 after the expiry.
\* The answer may be lost on the way to the caller, or to store itself.
CreateRows(u) ==
    /\ upload[u].pc = "next" /\ upload[u].todo = {}
    /\ u \in Collected => u \notin expired
    /\ row' = [i \in Images |-> IF Upload[i] = u
                                THEN [status |-> "STAGED", source |-> u \in Collected]
                                ELSE row[i]]
    /\ \/ /\ upload' = [upload EXCEPT ![u].pc = "done"]
          /\ answered' \in {answered, answered \cup ImagesOf(u)}
       \/ /\ upload' = [upload EXCEPT ![u].pc = "rollback"]
          /\ UNCHANGED answered
    /\ UNCHANGED <<objects, task, expired, aged, worker, sweeping>>

CreateFails(u) ==
    /\ upload[u].pc = "next" /\ upload[u].todo = {}
    /\ upload' = [upload EXCEPT ![u].pc = "rollback"]
    /\ UNCHANGED <<row, objects, task, answered, expired, aged, worker, sweeping>>

\* The catch block deletes what it may have stored, or leaves a task behind.
RollbackObject(u, i) ==
    /\ upload[u].pc = "rollback" /\ i \in upload[u].stored
    /\ upload' = [upload EXCEPT ![u].stored = @ \ {i}]
    /\ \/ objects' = objects \ {i} /\ UNCHANGED task
       \/ /\ objects' \in {objects, objects \ {i}}
          /\ \/ task' = [task EXCEPT ![<<i, "ROLLBACK">>] = Enqueued]
             \/ UNCHANGED task
    /\ UNCHANGED <<row, answered, expired, aged, worker, sweeping>>

RolledBack(u) ==
    /\ upload[u].pc = "rollback" /\ upload[u].stored = {}
    /\ upload' = [upload EXCEPT ![u].pc = "failed"]
    /\ UNCHANGED <<row, objects, task, answered, expired, aged, worker, sweeping>>

UploadDies(u) ==
    /\ upload[u].pc \in {"next", "put", "rollback"}
    /\ upload' = [upload EXCEPT ![u].pc = "failed"]
    /\ UNCHANGED <<row, objects, task, answered, expired, aged, worker, sweeping>>

----------------------------------------------------------------------------
(* Callers, and time *)

\* PostsService.blocks with the triggers of V009, for an identifier the caller has.
Attach(i) ==
    /\ i \in answered /\ row[i].status = "STAGED"
    /\ row[i].source => Upload[i] \notin expired
    /\ row' = [row EXCEPT ![i] = [status |-> "ATTACHED", source |-> FALSE]]
    /\ UNCHANGED <<objects, task, upload, answered, expired, aged, worker, sweeping>>

\* The draft is saved again without the image.
Detach(i) ==
    /\ row[i].status = "ATTACHED"
    /\ row' = [row EXCEPT ![i].status = "STAGED"]
    /\ UNCHANGED <<objects, task, upload, answered, expired, aged, worker, sweeping>>

\* markPrivateDelete and the task, for a set of staged images.
DeleteStaged(S) ==
    /\ row' = [i \in Images |-> IF i \in S THEN [row[i] EXCEPT !.status = "PRIVATE_DELETE_PENDING"]
                                           ELSE row[i]]
    /\ task' = [t \in Images \X Kinds |-> IF t[1] \in S /\ t[2] = "IMAGE" THEN Enqueued ELSE task[t]]
    /\ UNCHANGED <<objects, upload, answered, expired, aged, worker, sweeping>>

Discard(i) ==
    /\ i \in answered /\ row[i].status = "STAGED"
    /\ DeleteStaged({i})

\* CleanupService: the staged images that are due, but for the rows others have locked.
Stale(i) == /\ row[i].status = "STAGED"
            /\ \/ Upload[i] \in aged
               \/ row[i].source /\ Upload[i] \in expired

ExpireStaged ==
    \E S \in SUBSET {i \in Images : Stale(i)} : S # {} /\ DeleteStaged(S)

Expire(u) ==
    /\ u \in Collected \ expired
    /\ expired' = expired \cup {u}
    /\ UNCHANGED <<row, objects, task, upload, answered, aged, worker, sweeping>>

Age(u) ==
    /\ u \notin aged /\ upload[u].pc \in {"done", "failed"}
    /\ aged' = aged \cup {u}
    /\ UNCHANGED <<row, objects, task, upload, answered, expired, worker, sweeping>>

----------------------------------------------------------------------------
(* OutboxService *)

Claim(w, t) ==
    /\ worker[w].pc = "idle"
    /\ task[t].status \in {"PENDING", "FAILED"} /\ Due(t)
    /\ task' = [task EXCEPT ![t].status = "RUNNING", ![t].owner = w]
    /\ worker' = [worker EXCEPT ![w] = [Idle EXCEPT !.pc = "claimed", !.image = t[1], !.kind = t[2]]]
    /\ UNCHANGED <<row, objects, upload, answered, expired, aged, sweeping>>

\* Is the claim still ours?  A task with a source has a row to look at first.
CheckClaim(w) ==
    /\ worker[w].pc = "claimed"
    /\ worker' = [worker EXCEPT ![w] =
                    IF ~Owns(w) THEN Idle
                    ELSE [@ EXCEPT !.pc = IF HasSource(Task(w)) THEN "lookup" ELSE "delete",
                                   !.remove = TRUE]]
    /\ UNCHANGED <<row, objects, task, upload, answered, expired, aged, sweeping>>

\* The row, if there is one, is locked; an attached image is left alone.

Lookup(w) ==
    LET i == worker[w].image IN
    /\ worker[w].pc = "lookup"
    /\ \/ /\ row[i].status = "ATTACHED"
          /\ worker' = [worker EXCEPT ![w].pc = "delete", ![w].remove = FALSE]
          /\ UNCHANGED row
       \/ /\ row[i].status # "ATTACHED"
          /\ worker' = [worker EXCEPT ![w].pc = "delete", ![w].staged = row[i].status # "NONE"]
          /\ row' = IF row[i].status = "STAGED"
                    THEN [row EXCEPT ![i].status = "PRIVATE_DELETE_PENDING"] ELSE row
    /\ UNCHANGED <<objects, task, upload, answered, expired, aged, sweeping>>

DeleteObject(w) ==
    /\ worker[w].pc = "delete"
    /\ objects' = IF worker[w].remove THEN objects \ {worker[w].image} ELSE objects
    /\ worker' = [worker EXCEPT ![w].pc = "finish"]
    /\ UNCHANGED <<row, task, upload, answered, expired, aged, sweeping>>

\* The last transaction, only for the owner of the claim.
FinishForgetful(w) ==                      \* Bug: only tasks about an image move its row
    LET i == worker[w].image IN
    /\ worker[w].pc = "finish"
    /\ task' = IF Owns(w) THEN [task EXCEPT ![Task(w)] = [NoTask EXCEPT !.status = "SUCCEEDED"]]
                          ELSE task
    /\ row' = IF /\ Owns(w) /\ worker[w].kind = "IMAGE"
                 /\ row[i].status = "PRIVATE_DELETE_PENDING"
              THEN [row EXCEPT ![i].status = "DELETED"] ELSE row
    /\ worker' = [worker EXCEPT ![w] = Idle]
    /\ UNCHANGED <<objects, upload, answered, expired, aged, sweeping>>

Finish(w) ==
    LET i == worker[w].image IN
    /\ worker[w].pc = "finish"
    /\ task' = IF Owns(w) THEN [task EXCEPT ![Task(w)] = [NoTask EXCEPT !.status = "SUCCEEDED"]]
                          ELSE task
    /\ row' = IF /\ Owns(w) /\ (worker[w].staged \/ worker[w].kind = "IMAGE")
                 /\ row[i].status = "PRIVATE_DELETE_PENDING"
              THEN [row EXCEPT ![i].status = "DELETED"] ELSE row
    /\ worker' = [worker EXCEPT ![w] = Idle]
    /\ UNCHANGED <<objects, upload, answered, expired, aged, sweeping>>

\* Any call of execute throws; a deletion that throws may have been carried out.
TaskFails(w) ==
    /\ worker[w].pc # "idle"
    /\ objects' \in IF worker[w].pc = "delete" /\ worker[w].remove
                    THEN {objects, objects \ {worker[w].image}} ELSE {objects}
    /\ task' = IF Owns(w) THEN [task EXCEPT ![Task(w)] = Failed(Task(w))] ELSE task
    /\ worker' = [worker EXCEPT ![w] = Idle]
    /\ UNCHANGED <<row, upload, answered, expired, aged, sweeping>>

WorkerDies(w) ==
    /\ worker[w].pc # "idle"
    /\ worker' = [worker EXCEPT ![w] = Idle]
    /\ UNCHANGED <<row, objects, task, upload, answered, expired, aged, sweeping>>

\* A claim older than five minutes, whether its worker lives or not.
RecoverExpired(t) ==
    /\ task[t].status = "RUNNING"
    /\ task' = [task EXCEPT ![t] = Failed(t)]
    /\ UNCHANGED <<row, objects, upload, answered, expired, aged, worker, sweeping>>

----------------------------------------------------------------------------
(* The sweep of the private bucket *)

ReferencedByTask(i) ==                     \* Bug: the rows are not asked
    \E k \in Kinds : task[<<i, k>>].status \in Open \cup {"DEAD"}

Referenced(i) == \/ row[i].status \notin {"NONE", "DELETED"}
                 \/ \E k \in Kinds : task[<<i, k>>].status \in Open \cup {"DEAD"}

SweepFind(i) ==
    /\ sweeping = None /\ i \in objects /\ Upload[i] \in aged /\ ~Referenced(i)
    /\ sweeping' = i
    /\ UNCHANGED <<row, objects, task, upload, answered, expired, aged, worker>>

SweepDelete ==
    /\ sweeping # None
    /\ objects' = objects \ {sweeping}
    /\ sweeping' = None
    /\ UNCHANGED <<row, task, upload, answered, expired, aged, worker>>

SweepFails ==
    /\ sweeping # None
    /\ sweeping' = None
    /\ UNCHANGED <<row, objects, task, upload, answered, expired, aged, worker>>

----------------------------------------------------------------------------
Store(u) ==
    \/ Begin(u) \/ Put(u) \/ PutFails(u) \/ CreateRows(u) \/ CreateFails(u)
    \/ RolledBack(u) \/ UploadDies(u)
    \/ \E i \in Images : SaveIntent(u, i) \/ IntentFails(u, i) \/ RollbackObject(u, i)

Work(w) ==
    \/ CheckClaim(w) \/ Lookup(w) \/ DeleteObject(w) \/ Finish(w)

Next ==
    \/ \E u \in Uploads : Store(u) \/ Expire(u) \/ Age(u)
    \/ \E i \in Images : Attach(i) \/ Detach(i) \/ Discard(i) \/ SweepFind(i)
    \/ \E w \in Workers : Work(w) \/ TaskFails(w) \/ WorkerDies(w)
    \/ \E w \in Workers, t \in Images \X Kinds : Claim(w, t)
    \/ \E t \in Images \X Kinds : RecoverExpired(t)
    \/ ExpireStaged \/ SweepDelete \/ SweepFails

Spec == Init /\ [][Next]_vars

Held(t) == \E w \in Workers : worker[w].pc # "idle" /\ Owns(w) /\ Task(w) = t

\* Calls that fail, processes that die, a claim that outlasts its five minutes.
Faults ==
    \/ \E w \in Workers : (TaskFails(w) \/ WorkerDies(w)) /\ ~Work(w)
    \/ \E t \in Images \X Kinds : Held(t) /\ RecoverExpired(t)
    \/ SweepFails /\ ~SweepDelete

----------------------------------------------------------------------------
(* Properties *)

TypeOK ==
    /\ row \in [Images -> [status : Statuses \cup {"NONE"}, source : BOOLEAN]]
    /\ objects \subseteq Images
    /\ task \in [Images \X Kinds -> [status : Open \cup {"NONE", "SUCCEEDED", "DEAD"},
                                     attempts : 0 .. MaxAttempts, owner : Workers \cup {None}]]
    /\ upload \in [Uploads -> [pc : {"idle", "next", "put", "rollback", "done", "failed"},
                               todo : SUBSET Images, current : Images \cup {None},
                               stored : SUBSET Images]]
    /\ answered \subseteq Images /\ expired \subseteq Uploads /\ aged \subseteq Uploads
    /\ worker \in [Workers -> [pc : {"idle", "claimed", "lookup", "delete", "finish"},
                               image : Images \cup {None}, kind : Kinds,
                               remove : BOOLEAN, staged : BOOLEAN]]
    /\ sweeping \in Images \cup {None}

(***************************************************************************)
(* An image the caller was told of, and that is staged or attached, has    *)
(* its original: no deletion task, no rollback and no sweep that was under *)
(* way when it was attached takes the object from under it.                *)
(***************************************************************************)
AnsweredHasOriginal ==
    \A i \in answered : row[i].status \in {"STAGED", "ATTACHED"} => i \in objects

(***************************************************************************)
(* DELETED is the truth: once the row says so the object is gone, whatever *)
(* tasks about the same object ran side by side or lost their claims.      *)
(***************************************************************************)
DeletedIsGone ==
    \A i \in Images : row[i].status = "DELETED" => i \notin objects

(***************************************************************************)
(* A deletion that a row waits for is not forgotten: some task about the   *)
(* object is open, or DEAD and reported.  The exception is a collected     *)
(* image that was attached once and detached again: the worker that looked *)
(* while it was attached completes the intent, and one that lost its claim *)
(* and looks later still marks the row.                                    *)
(***************************************************************************)
PendingNotForgotten ==
    \A i \in Images :
        row[i].status = "PRIVATE_DELETE_PENDING" /\ (IsCollected(i) => row[i].source) =>
        \E k \in Kinds : task[<<i, k>>].status \in Open \cup {"DEAD"}

(***************************************************************************)
(* The intent to delete a collected original is there before the object,   *)
(* and is not used up before the object is attached or due.                *)
(***************************************************************************)
IntentBeforeObject ==
    \A i \in objects : IsCollected(i) /\ Upload[i] \notin expired \cup aged =>
        task[<<i, "INTENT">>].status = "PENDING"

(***************************************************************************)
(* A collected original that no post ever used goes away after the expiry  *)
(* of its source, whatever fails: store may die anywhere, deletions may    *)
(* fail more often than a task has attempts, a put may arrive after the    *)
(* task has run.                                                           *)
(***************************************************************************)
CollectedGoes ==
    \A i \in Images :
        []<>~(/\ IsCollected(i) /\ Upload[i] \in expired /\ i \in objects
              /\ row[i].source \/ row[i] = NoRow)

\* Together: the safety of staged images (OutboxService, CleanupService, ImagesService.store).
StagingSound ==
    TypeOK /\ AnsweredHasOriginal /\ DeletedIsGone /\ PendingNotForgotten /\ IntentBeforeObject

=============================================================================
