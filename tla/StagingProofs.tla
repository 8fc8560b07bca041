---------------------------- MODULE StagingProofs ----------------------------
(* Proofs about ImageStaging: its rows and local states keep their types, an  *)
(* image the caller was told of keeps its original, DELETED is the truth, no  *)
(* deletion is forgotten and every collected object has its intent.           *)
EXTENDS ImageStaging, TLAPS

\* What is known of the row, the object and the tasks of image i.
RowSound(i) ==
    LET u == Upload[i] IN
    /\ row[i].status # "NONE" => upload[u].pc \in {"rollback", "done", "failed"}
    /\ row[i].status = "NONE" => ~row[i].source
    /\ row[i].source => IsCollected(i) /\ row[i].status # "ATTACHED"
    /\ i \in answered => upload[u].pc = "done"
    /\ i \in answered /\ row[i].status \in {"STAGED", "ATTACHED"} => i \in objects
    /\ row[i].status = "DELETED" => i \notin objects
    /\ row[i].status = "PRIVATE_DELETE_PENDING" /\ ~IsCollected(i) =>
           task[<<i, "IMAGE">>].status \in Open \cup {"DEAD"}
    /\ row[i].source /\ row[i].status \in {"STAGED", "PRIVATE_DELETE_PENDING"} =>
           task[<<i, "INTENT">>].status \in Open
    /\ i \in objects /\ IsCollected(i) /\ u \notin expired \cup aged =>
           task[<<i, "INTENT">>].status = "PENDING"
    /\ task[<<i, "INTENT">>].status # "NONE" => IsCollected(i)
    /\ task[<<i, "IMAGE">>].status # "NONE" =>
           row[i].status \in {"PRIVATE_DELETE_PENDING", "DELETED"}
    /\ task[<<i, "ROLLBACK">>].status # "NONE" => upload[u].pc \in {"rollback", "failed"}

\* What store knows: which objects it has stored, and that nobody has deleted them yet.
UploadSound(u) ==
    /\ upload[u].stored \subseteq ImagesOf(u)
    /\ upload[u].pc = "idle" => upload[u].stored = {}
    /\ upload[u].pc \in {"next", "put"} => ImagesOf(u) = upload[u].todo \cup upload[u].stored
    /\ upload[u].pc = "put" => upload[u].current \in upload[u].todo
    /\ upload[u].pc \in {"next", "put"} /\ u \notin expired => upload[u].stored \subseteq objects
    /\ upload[u].pc = "put" /\ u \in Collected \ expired =>
           task[<<upload[u].current, "INTENT">>].status = "PENDING"
    /\ u \in aged => upload[u].pc \in {"done", "failed"}
    /\ u \in expired => u \in Collected

\* What a worker knows of the object of its task: nobody will be told of the image any
\* more, or the row has been marked; once it has deleted the object, it stays away.
WorkerSound(w) ==
    LET i == worker[w].image
        k == worker[w].kind
        looked == worker[w].pc \in {"delete", "finish"}
    IN  worker[w].pc # "idle" =>
        /\ i \in Images
        /\ k = "IMAGE" => row[i].status \in {"PRIVATE_DELETE_PENDING", "DELETED"}
        /\ k = "ROLLBACK" => upload[Upload[i]].pc \in {"rollback", "failed"}
        /\ k = "INTENT" => Upload[i] \in aged \cup expired /\ IsCollected(i)
        /\ worker[w].pc = "lookup" => HasSource(Task(w)) /\ worker[w].remove
        /\ worker[w].staged => looked /\ worker[w].remove
                                      /\ row[i].status \in {"PRIVATE_DELETE_PENDING", "DELETED"}
        /\ looked /\ k = "IMAGE" => worker[w].remove
        /\ looked /\ HasSource(Task(w)) /\ worker[w].remove =>
               row[i].status \in {"NONE", "PRIVATE_DELETE_PENDING", "DELETED"}
        /\ looked /\ HasSource(Task(w)) => worker[w].staged \/ ~row[i].source
        /\ worker[w].pc = "finish" /\ (worker[w].staged \/ k = "IMAGE") => i \notin objects

SweepSound ==
    sweeping # None => Upload[sweeping] \in aged /\ row[sweeping].status \in {"NONE", "DELETED"}

\* The inductive invariant: a task about an object says how far the row and the upload have gone.
StagingInv ==
    /\ TypeOK
    /\ \A i \in Images : RowSound(i)
    /\ \A u \in Uploads : UploadSound(u)
    /\ \A w \in Workers : WorkerSound(w)
    /\ SweepSound

----------------------------------------------------------------------------
\* Tasks.
LEMMA EnqueuedIsPending == Enqueued.status = "PENDING"
  BY DEF Enqueued, NoTask

\* One task is enqueued.
LEMMA TaskEnqueued ==
  ASSUME TypeOK, NEW i \in Images, NEW m \in Kinds, task' = [task EXCEPT ![<<i, m>>] = Enqueued]
  PROVE  \A j \in Images, k \in Kinds :
            task'[<<j, k>>] = IF j = i /\ k = m THEN Enqueued ELSE task[<<j, k>>]
  BY DEF TypeOK

\* Nobody will be told of an image any more whose object a worker is about to delete,
\* unless its rows are there.
LEMMA ClaimedIsOver ==
  ASSUME StagingAssumption, StagingInv, NEW w \in Workers, worker[w].pc # "idle"
  PROVE  /\ worker[w].image \in Images
         /\ \/ Upload[worker[w].image] \in aged \cup expired
            \/ upload[Upload[worker[w].image]].pc \in {"rollback", "done", "failed"}
<1>1. WorkerSound(w) /\ worker[w].kind \in Kinds
  BY DEF StagingInv, TypeOK
<1>2. worker[w].image \in Images
  BY <1>1 DEF WorkerSound
<1>3. RowSound(worker[w].image)
  BY <1>2 DEF StagingInv
<1>4. CASE worker[w].kind = "IMAGE"
  BY <1>1, <1>2, <1>3, <1>4 DEF WorkerSound, RowSound
<1>5. CASE worker[w].kind # "IMAGE"
  BY <1>1, <1>2, <1>5 DEF WorkerSound, Kinds
<1> QED BY <1>2, <1>4, <1>5
----------------------------------------------------------------------------
(* Types *)

\* The types of one call of store, one task, one worker and one row.
UploadType == [pc : {"idle", "next", "put", "rollback", "done", "failed"},
               todo : SUBSET Images, current : Images \cup {None}, stored : SUBSET Images]
TaskType   == [status : Open \cup {"NONE", "SUCCEEDED", "DEAD"}, attempts : 0 .. MaxAttempts,
               owner : Workers \cup {None}]
WorkerType == [pc : {"idle", "claimed", "lookup", "delete", "finish"}, image : Images \cup {None},
               kind : Kinds, remove : BOOLEAN, staged : BOOLEAN]
RowType    == [status : Statuses \cup {"NONE"}, source : BOOLEAN]

LEMMA Types ==
  TypeOK <=>
    /\ row \in [Images -> RowType]
    /\ objects \subseteq Images
    /\ task \in [Images \X Kinds -> TaskType]
    /\ upload \in [Uploads -> UploadType]
    /\ answered \subseteq Images /\ expired \subseteq Uploads /\ aged \subseteq Uploads
    /\ worker \in [Workers -> WorkerType]
    /\ sweeping \in Images \cup {None}
BY DEF TypeOK, RowType, TaskType, UploadType, WorkerType

\* The tasks that actions write.
LEMMA TasksTyped ==
  ASSUME StagingAssumption
  PROVE  /\ NoTask \in TaskType /\ Enqueued \in TaskType
         /\ [NoTask EXCEPT !.status = "SUCCEEDED"] \in TaskType
  BY DEF StagingAssumption, Enqueued, NoTask, TaskType, Open

LEMMA FailedTyped ==
  ASSUME StagingAssumption, TypeOK, NEW t \in Images \X Kinds
  PROVE  Failed(t) \in TaskType
<1>1. task[t].attempts \in 0 .. MaxAttempts
  BY DEF TypeOK
<1>2. MaxAttempts \in Nat
  BY DEF StagingAssumption
<1> QED BY <1>1, <1>2 DEF Failed, TaskType, Open

\* One call of store takes a step.
LEMMA StoreTyped ==
  ASSUME StagingAssumption, StagingInv, NEW u \in Uploads, Store(u)
  PROVE  upload' \in [Uploads -> UploadType]
<1> DEFINE r == upload[u]
           i == upload[u].current
<1>1. upload \in [Uploads -> UploadType] /\ r \in UploadType
  BY Types DEF StagingInv
<1>2. UploadSound(u)
  BY DEF StagingInv
<1>3. SUFFICES \E l \in UploadType : upload' = [upload EXCEPT ![u] = l]
  BY <1>1, <1>3
<1>4. CASE Begin(u)
  <2> DEFINE l == [r EXCEPT !.pc = "next", !.todo = ImagesOf(u)]
  <2>1. l \in UploadType
    BY <1>1 DEF UploadType, ImagesOf
  <2>2. upload' = [upload EXCEPT ![u] = l]
    BY <1>1, <1>4 DEF Begin
  <2> QED BY <2>1, <2>2
<1>5. CASE Put(u)
  <2> DEFINE l == [r EXCEPT !.pc = IF u \in Collected \cap expired THEN "rollback" ELSE "next",
                            !.todo = r.todo \ {i}, !.stored = r.stored \cup {i}]
  <2>1. i \in Images
    BY <1>1, <1>2, <1>5 DEF Put, UploadSound, UploadType
  <2>2. l \in UploadType
    BY <1>1, <2>1 DEF UploadType
  <2>3. upload' = [upload EXCEPT ![u] = l]
    BY <1>1, <1>5 DEF Put
  <2> QED BY <2>2, <2>3
<1>6. CASE PutFails(u)
  <2> DEFINE l == [r EXCEPT !.pc = "rollback", !.stored = r.stored \cup {i}]
  <2>1. i \in Images
    BY <1>1, <1>2, <1>6 DEF PutFails, UploadSound, UploadType
  <2>2. l \in UploadType
    BY <1>1, <2>1 DEF UploadType
  <2>3. upload' = [upload EXCEPT ![u] = l]
    BY <1>1, <1>6 DEF PutFails
  <2> QED BY <2>2, <2>3
<1>7. CASE \/ CreateRows(u) \/ CreateFails(u) \/ RolledBack(u) \/ UploadDies(u)
           \/ \E j \in Images : IntentFails(u, j)
  <2>1. \E p \in {"done", "rollback", "failed"} : upload' = [upload EXCEPT ![u] = [r EXCEPT !.pc = p]]
    BY <1>1, <1>7 DEF CreateRows, CreateFails, RolledBack, UploadDies, IntentFails
  <2>2. \A p \in {"done", "rollback", "failed"} : [r EXCEPT !.pc = p] \in UploadType
    BY <1>1 DEF UploadType
  <2> QED BY <2>1, <2>2
<1>8. ASSUME NEW j \in Images, SaveIntent(u, j) PROVE \E l \in UploadType : upload' = [upload EXCEPT ![u] = l]
  <2> DEFINE l == [r EXCEPT !.pc = "put", !.current = j]
  <2>1. l \in UploadType
    BY <1>1 DEF UploadType
  <2>2. upload' = [upload EXCEPT ![u] = l]
    BY <1>1, <1>8 DEF SaveIntent
  <2> QED BY <2>1, <2>2
<1>9. ASSUME NEW j \in Images, RollbackObject(u, j) PROVE \E l \in UploadType : upload' = [upload EXCEPT ![u] = l]
  <2> DEFINE l == [r EXCEPT !.stored = r.stored \ {j}]
  <2>1. l \in UploadType
    BY <1>1 DEF UploadType
  <2>2. upload' = [upload EXCEPT ![u] = l]
    BY <1>1, <1>9 DEF RollbackObject
  <2> QED BY <2>1, <2>2
<1> QED BY <1>4, <1>5, <1>6, <1>7, <1>8, <1>9 DEF Store

LEMMA StoreKeepsTypes ==
  ASSUME StagingAssumption, StagingInv, NEW u \in Uploads, Store(u)
  PROVE  TypeOK'
<1>1. UploadSound(u) /\ upload \in [Uploads -> UploadType]
  BY Types DEF StagingInv
<1>2. objects \subseteq Images /\ answered \subseteq Images /\ task \in [Images \X Kinds -> TaskType]
      /\ row \in [Images -> RowType]
  BY Types DEF StagingInv
<1>3. objects' \subseteq Images
  <2>1. upload[u].pc = "put" => upload[u].current \in Images
    BY <1>1 DEF UploadSound, UploadType
  <2> QED BY <1>2, <2>1 DEF Store, Begin, Put, PutFails, CreateRows, CreateFails, RolledBack, UploadDies,
                            SaveIntent, IntentFails, RollbackObject
<1>4. task' \in [Images \X Kinds -> TaskType]
  <2>1. task' = task \/ \E t \in Images \X Kinds : task' = [task EXCEPT ![t] = Enqueued]
    <3> \A j \in Images : <<j, "INTENT">> \in Images \X Kinds /\ <<j, "ROLLBACK">> \in Images \X Kinds
      BY DEF Kinds
    <3> QED BY DEF Store, Begin, Put, PutFails, CreateRows, CreateFails, RolledBack, UploadDies,
                   SaveIntent, IntentFails, RollbackObject
  <2>2. Enqueued \in TaskType
    BY TasksTyped
  <2> QED BY <1>2, <2>1, <2>2
<1>5. row' \in [Images -> RowType] /\ answered' \subseteq Images
  <2>1. CASE CreateRows(u)
    <3>1. [status |-> "STAGED", source |-> u \in Collected] \in RowType
      BY DEF RowType, Statuses
    <3>2. answered' \subseteq Images
      BY <1>2, <2>1 DEF CreateRows, ImagesOf
    <3> QED BY <1>2, <2>1, <3>1, <3>2 DEF CreateRows
  <2>2. CASE UNCHANGED <<row, answered>>
    BY <1>2, <2>2
  <2> QED BY <2>1, <2>2 DEF Store, Begin, Put, PutFails, CreateFails, RolledBack, UploadDies, SaveIntent,
                            IntentFails, RollbackObject
<1>6. upload' \in [Uploads -> UploadType]
  BY StoreTyped
<1>7. UNCHANGED <<expired, aged, worker, sweeping>>
  BY DEF Store, Begin, Put, PutFails, CreateRows, CreateFails, RolledBack, UploadDies,
         SaveIntent, IntentFails, RollbackObject
<1> QED BY <1>3, <1>4, <1>5, <1>6, <1>7 DEF StagingInv, TypeOK, UploadType, TaskType, RowType

\* A worker that claims or works on a task.
LEMMA WorkerKeepsTypes ==
  ASSUME StagingAssumption, StagingInv, NEW w \in Workers,
         Work(w) \/ TaskFails(w) \/ WorkerDies(w) \/ \E t \in Images \X Kinds : Claim(w, t)
  PROVE  TypeOK'
<1> DEFINE i == worker[w].image
<1>1. /\ worker \in [Workers -> WorkerType] /\ worker[w] \in WorkerType
      /\ task \in [Images \X Kinds -> TaskType] /\ row \in [Images -> RowType]
      /\ objects \subseteq Images
  BY Types DEF StagingInv
<1>2. Idle \in WorkerType
  BY DEF Idle, WorkerType, Kinds
<1>3. worker' \in [Workers -> WorkerType]
  <2>1. SUFFICES \E l \in WorkerType : worker' = [worker EXCEPT ![w] = l]
    BY <1>1, <2>1
  <2>2. ASSUME NEW t \in Images \X Kinds, Claim(w, t)
        PROVE  \E l \in WorkerType : worker' = [worker EXCEPT ![w] = l]
    <3>1. [Idle EXCEPT !.pc = "claimed", !.image = t[1], !.kind = t[2]] \in WorkerType
      BY DEF Idle, WorkerType
    <3> QED BY <2>2, <3>1 DEF Claim
  <2>3. CASE CheckClaim(w)
    <3>1. [worker[w] EXCEPT !.pc = "lookup", !.remove = TRUE] \in WorkerType
          /\ [worker[w] EXCEPT !.pc = "delete", !.remove = TRUE] \in WorkerType
      BY <1>1 DEF WorkerType
    <3>2. \/ worker' = [worker EXCEPT ![w] = Idle]
          \/ worker' = [worker EXCEPT ![w] = [worker[w] EXCEPT !.pc = "lookup", !.remove = TRUE]]
          \/ worker' = [worker EXCEPT ![w] = [worker[w] EXCEPT !.pc = "delete", !.remove = TRUE]]
      BY <1>1, <2>3 DEF CheckClaim
    <3> QED BY <1>2, <3>1, <3>2
  <2>4. CASE Lookup(w)
    <3>1. \A b \in BOOLEAN : [worker[w] EXCEPT !.pc = "delete", !.staged = b] \in WorkerType
      BY <1>1 DEF WorkerType
    <3>2. [worker[w] EXCEPT !.pc = "delete", !.remove = FALSE] \in WorkerType
      BY <1>1 DEF WorkerType
    <3>3. \/ worker' = [worker EXCEPT ![w] = [worker[w] EXCEPT !.pc = "delete", !.remove = FALSE]]
          \/ worker' = [worker EXCEPT ![w] = [worker[w] EXCEPT !.pc = "delete", !.staged = row[i].status # "NONE"]]
      BY <1>1, <2>4 DEF Lookup
    <3> QED BY <3>1, <3>2, <3>3
  <2>5. CASE DeleteObject(w)
    <3>1. [worker[w] EXCEPT !.pc = "finish"] \in WorkerType
      BY <1>1 DEF WorkerType
    <3> QED BY <1>1, <2>5, <3>1 DEF DeleteObject
  <2>6. CASE Finish(w) \/ TaskFails(w) \/ WorkerDies(w)
    BY <1>2, <2>6 DEF Finish, TaskFails, WorkerDies
  <2> QED BY <2>2, <2>3, <2>4, <2>5, <2>6 DEF Work
<1>4. task' \in [Images \X Kinds -> TaskType]
  <2>1. ASSUME NEW t \in Images \X Kinds, Claim(w, t) PROVE task' \in [Images \X Kinds -> TaskType]
    <3>1. [task[t] EXCEPT !.status = "RUNNING", !.owner = w] \in TaskType
      <4>1. task[t] \in TaskType
        BY <1>1
      <4> QED BY <4>1 DEF TaskType, Open
    <3>2. task' = [task EXCEPT ![t] = [task[t] EXCEPT !.status = "RUNNING", !.owner = w]]
      BY <1>1, <2>1 DEF Claim
    <3> QED BY <1>1, <3>1, <3>2
  <2>2. CASE Finish(w)
    BY <1>1, <2>2, TasksTyped DEF Finish
  <2>3. CASE TaskFails(w)
    <3>1. Task(w) \in Images \X Kinds
      BY <1>1, <2>3, ClaimedIsOver DEF TaskFails, Task, WorkerType
    <3>2. Failed(Task(w)) \in TaskType
      BY <3>1, FailedTyped DEF StagingInv
    <3> QED BY <1>1, <2>3, <3>2 DEF TaskFails
  <2>4. CASE CheckClaim(w) \/ Lookup(w) \/ DeleteObject(w) \/ WorkerDies(w)
    BY <1>1, <2>4 DEF CheckClaim, Lookup, DeleteObject, WorkerDies
  <2> QED BY <2>1, <2>2, <2>3, <2>4 DEF Work
<1>5. row' \in [Images -> RowType]
  <2>1. \/ row' = row
        \/ \E s \in {"PRIVATE_DELETE_PENDING", "DELETED"} : row' = [row EXCEPT ![i] = [row[i] EXCEPT !.status = s]]
    BY <1>1 DEF Work, Claim, CheckClaim, Lookup, DeleteObject, Finish, TaskFails, WorkerDies
  <2>2. i \in Images => \A s \in {"PRIVATE_DELETE_PENDING", "DELETED"} : [row[i] EXCEPT !.status = s] \in RowType
    BY <1>1 DEF RowType, Statuses
  <2>3. i \notin Images => \A e : [row EXCEPT ![i] = e] = row
    BY <1>1
  <2> QED BY <1>1, <2>1, <2>2, <2>3
<1>6. objects' \subseteq objects /\ UNCHANGED <<upload, answered, expired, aged, sweeping>>
  BY DEF Work, Claim, CheckClaim, Lookup, DeleteObject, Finish, TaskFails, WorkerDies
<1> QED BY <1>1, <1>3, <1>4, <1>5, <1>6 DEF StagingInv, TypeOK, WorkerType, TaskType, RowType

\* Callers, time, the recovery of claims and the sweep.
LEMMA OthersKeepTypes ==
  ASSUME StagingAssumption, StagingInv,
         \/ \E u \in Uploads : Expire(u) \/ Age(u)
         \/ \E i \in Images : Attach(i) \/ Detach(i) \/ Discard(i) \/ SweepFind(i)
         \/ \E t \in Images \X Kinds : RecoverExpired(t)
         \/ ExpireStaged \/ SweepDelete \/ SweepFails
  PROVE  TypeOK'
<1>1. /\ task \in [Images \X Kinds -> TaskType] /\ row \in [Images -> RowType]
      /\ objects \subseteq Images /\ sweeping \in Images \cup {None}
      /\ expired \subseteq Uploads /\ aged \subseteq Uploads
  BY Types DEF StagingInv
<1>2. ASSUME NEW S \in SUBSET Images, DeleteStaged(S) PROVE TypeOK'
  <2>1. \A j \in Images : [row[j] EXCEPT !.status = "PRIVATE_DELETE_PENDING"] \in RowType
    BY <1>1 DEF RowType, Statuses
  <2>2. row' \in [Images -> RowType]
    BY <1>1, <1>2, <2>1 DEF DeleteStaged
  <2>3. task' \in [Images \X Kinds -> TaskType]
    BY <1>1, <1>2, TasksTyped DEF DeleteStaged
  <2> QED BY <1>2, <2>2, <2>3 DEF DeleteStaged, StagingInv, TypeOK, TaskType, RowType
<1>3. ASSUME NEW i \in Images, Attach(i) \/ Detach(i) PROVE TypeOK'
  <2>1. [status |-> "ATTACHED", source |-> FALSE] \in RowType /\ [row[i] EXCEPT !.status = "STAGED"] \in RowType
    BY <1>1 DEF RowType, Statuses
  <2>2. row' \in [Images -> RowType]
    BY <1>1, <1>3, <2>1 DEF Attach, Detach
  <2> QED BY <1>3, <2>2 DEF Attach, Detach, StagingInv, TypeOK, RowType
<1>4. ASSUME NEW t \in Images \X Kinds, RecoverExpired(t) PROVE TypeOK'
  <2>1. task' \in [Images \X Kinds -> TaskType]
    BY <1>1, <1>4, FailedTyped DEF RecoverExpired, StagingInv
  <2> QED BY <1>4, <2>1 DEF RecoverExpired, StagingInv, TypeOK, TaskType
<1>5. ASSUME \/ \E u \in Uploads : Expire(u) \/ Age(u)
             \/ \E i \in Images : SweepFind(i)
             \/ SweepDelete \/ SweepFails
      PROVE  TypeOK'
  <2>1. expired' \subseteq Uploads /\ aged' \subseteq Uploads /\ objects' \subseteq Images
        /\ sweeping' \in Images \cup {None}
    BY <1>1, <1>5 DEF Expire, Age, SweepFind, SweepDelete, SweepFails
  <2>2. UNCHANGED <<row, task, upload, answered, worker>>
    BY <1>5 DEF Expire, Age, SweepFind, SweepDelete, SweepFails
  <2> QED BY <2>1, <2>2 DEF StagingInv, TypeOK
<1> QED BY <1>2, <1>3, <1>4, <1>5 DEF Discard, ExpireStaged

----------------------------------------------------------------------------
(* The steps: each keeps the types (t), and what is known of rows (r), uploads (u), workers (w) and *)
(* the sweep (s).                                                                               *)

LEMMA BeginSound ==
  ASSUME StagingAssumption, StagingInv, NEW u \in Uploads, Begin(u)
  PROVE  StagingInv'
<1> USE DEF StagingAssumption, StagingInv
<1>t. TypeOK'
  BY StoreKeepsTypes DEF Store
<1>r. ASSUME NEW j \in Images PROVE RowSound(j)'
  BY <1>r DEF RowSound, Begin, IsCollected, TypeOK
<1>u. ASSUME NEW v \in Uploads PROVE UploadSound(v)'
  BY <1>u DEF UploadSound, Begin, TypeOK, ImagesOf, Kinds
<1>w. ASSUME NEW x \in Workers PROVE WorkerSound(x)'
  BY <1>w DEF WorkerSound, Begin, HasSource, Task, IsCollected, TypeOK
<1>s. SweepSound'
  BY DEF SweepSound, Begin
<1> QED BY <1>t, <1>r, <1>u, <1>w, <1>s

LEMMA SaveIntentSound ==
  ASSUME StagingAssumption, StagingInv, NEW u \in Uploads, NEW i \in Images, SaveIntent(u, i)
  PROVE  StagingInv'
<1> USE DEF StagingAssumption, StagingInv
<1>t. TypeOK'
  BY StoreKeepsTypes DEF Store
<1>r. ASSUME NEW j \in Images PROVE RowSound(j)'
  BY <1>r DEF RowSound, UploadSound, WorkerSound, SaveIntent, IsCollected, TypeOK, Open, Kinds,
       ImagesOf, Enqueued, NoTask
<1>u. ASSUME NEW v \in Uploads PROVE UploadSound(v)'
  BY <1>u DEF UploadSound, SaveIntent, TypeOK, ImagesOf, Kinds, Enqueued, NoTask
<1>w. ASSUME NEW x \in Workers PROVE WorkerSound(x)'
  BY <1>w DEF WorkerSound, SaveIntent, HasSource, Task, IsCollected, TypeOK
<1>s. SweepSound'
  BY DEF SweepSound, SaveIntent
<1> QED BY <1>t, <1>r, <1>u, <1>w, <1>s

LEMMA IntentFailsSound ==
  ASSUME StagingAssumption, StagingInv, NEW u \in Uploads, NEW i \in Images, IntentFails(u, i)
  PROVE  StagingInv'
<1> USE DEF StagingAssumption, StagingInv
<1>t. TypeOK'
  BY StoreKeepsTypes DEF Store
<1>0. UploadSound(u)
  OBVIOUS
<1>1. upload[u].pc = "next" /\ Upload[i] = u /\ IsCollected(i)
  BY <1>0 DEF IntentFails, UploadSound, ImagesOf, IsCollected
<1>2. \A v \in Uploads : upload'[v] = IF v = u THEN [upload[u] EXCEPT !.pc = "rollback"] ELSE upload[v]
  BY DEF IntentFails, TypeOK
<1>3. \A j \in Images, k \in Kinds :
         \/ task'[<<j, k>>] = task[<<j, k>>]
         \/ j = i /\ k = "INTENT" /\ task'[<<j, k>>].status = "PENDING"
  <2>1. CASE UNCHANGED task
    BY <2>1
  <2>2. CASE task' = [task EXCEPT ![<<i, "INTENT">>] = Enqueued]
    BY <2>2, TaskEnqueued, EnqueuedIsPending DEF Kinds
  <2> QED BY <2>1, <2>2 DEF IntentFails
<1>4. UNCHANGED <<row, objects, answered, expired, aged, worker, sweeping>>
  BY DEF IntentFails
<1>r. ASSUME NEW j \in Images PROVE RowSound(j)'
  BY <1>1, <1>2, <1>3, <1>4 DEF RowSound, TypeOK, Kinds, Open, IsCollected
<1>u. ASSUME NEW v \in Uploads PROVE UploadSound(v)'
  <2>1. UploadSound(v)
    OBVIOUS
  <2>2. CASE v = u
    BY <1>1, <1>2, <1>4, <2>1, <2>2 DEF UploadSound, ImagesOf, TypeOK
  <2>3. CASE v # u
    <3>1. upload'[v] = upload[v]
      BY <1>2, <2>3
    <3>2. upload[v].pc = "put" => upload[v].current \in Images
      BY <2>1 DEF UploadSound, TypeOK
    <3> QED BY <1>3, <1>4, <2>1, <3>1, <3>2 DEF UploadSound, Kinds
  <2> QED BY <2>2, <2>3
<1>w. ASSUME NEW x \in Workers PROVE WorkerSound(x)'
  BY <1>w DEF WorkerSound, IntentFails, HasSource, Task, IsCollected
<1>s. SweepSound'
  BY DEF SweepSound, IntentFails
<1> QED BY <1>t, <1>r, <1>u, <1>w, <1>s

LEMMA PutSound ==
  ASSUME StagingAssumption, StagingInv, NEW u \in Uploads, Put(u)
  PROVE  StagingInv'
<1> USE DEF StagingAssumption, StagingInv
<1>t. TypeOK'
  BY StoreKeepsTypes DEF Store
<1>0. UploadSound(u)
  OBVIOUS
<1>1. /\ upload[u].current \in Images /\ Upload[upload[u].current] = u
      /\ upload[u].pc = "put"
      /\ row[upload[u].current].status = "NONE"
  <2>1. upload[u].pc = "put" /\ upload[u].current \in Images /\ Upload[upload[u].current] = u
    BY <1>0 DEF Put, UploadSound, ImagesOf, TypeOK
  <2>2. RowSound(upload[u].current)
    BY <2>1
  <2> QED BY <2>1, <2>2 DEF RowSound
<1>2. /\ \A v \in Uploads \ {u} : upload'[v] = upload[v]
      /\ upload'[u].pc \in {"rollback", "next"}
  BY DEF Put, TypeOK
<1>4. UNCHANGED <<row, task, answered, expired, aged, worker, sweeping>>
  BY DEF Put
<1>5. \A j \in Images : j \in objects' => j \in objects \/ j = upload[u].current
  BY DEF Put
<1>w. ASSUME NEW x \in Workers PROVE WorkerSound(x)'
  <2> WorkerSound(x)
    OBVIOUS
  <2> QED BY <1>1, <1>2, <1>4, <1>5 DEF WorkerSound, TypeOK, HasSource, IsCollected, Task
<1>r. ASSUME NEW j \in Images PROVE RowSound(j)'
  BY <1>r DEF RowSound, UploadSound, WorkerSound, Put, IsCollected, TypeOK, Open, Kinds, ImagesOf
<1>u. ASSUME NEW v \in Uploads PROVE UploadSound(v)'
  BY <1>u DEF UploadSound, Put, TypeOK, ImagesOf, Kinds
<1>s. SweepSound'
  BY DEF SweepSound, Put
<1> QED BY <1>t, <1>r, <1>u, <1>w, <1>s

LEMMA PutFailsSound ==
  ASSUME StagingAssumption, StagingInv, NEW u \in Uploads, PutFails(u)
  PROVE  StagingInv'
<1> USE DEF StagingAssumption, StagingInv
<1>t. TypeOK'
  BY StoreKeepsTypes DEF Store
<1>0. UploadSound(u)
  OBVIOUS
<1>1. /\ upload[u].current \in Images /\ Upload[upload[u].current] = u
      /\ upload[u].pc = "put"
      /\ row[upload[u].current].status = "NONE"
  <2>1. upload[u].pc = "put" /\ upload[u].current \in Images /\ Upload[upload[u].current] = u
    BY <1>0 DEF PutFails, UploadSound, ImagesOf, TypeOK
  <2>2. RowSound(upload[u].current)
    BY <2>1
  <2> QED BY <2>1, <2>2 DEF RowSound
<1>2. /\ \A v \in Uploads \ {u} : upload'[v] = upload[v]
      /\ upload'[u].pc \in {"rollback", "next"}
  BY DEF PutFails, TypeOK
<1>4. UNCHANGED <<row, task, answered, expired, aged, worker, sweeping>>
  BY DEF PutFails
<1>5. \A j \in Images : j \in objects' => j \in objects \/ j = upload[u].current
  BY DEF PutFails
<1>w. ASSUME NEW x \in Workers PROVE WorkerSound(x)'
  <2> WorkerSound(x)
    OBVIOUS
  <2> QED BY <1>1, <1>2, <1>4, <1>5 DEF WorkerSound, TypeOK, HasSource, IsCollected, Task
<1>r. ASSUME NEW j \in Images PROVE RowSound(j)'
  BY <1>r DEF RowSound, UploadSound, WorkerSound, PutFails, IsCollected, TypeOK, Open, Kinds,
       ImagesOf
<1>u. ASSUME NEW v \in Uploads PROVE UploadSound(v)'
  BY <1>u DEF UploadSound, PutFails, TypeOK, ImagesOf, Kinds
<1>s. SweepSound'
  BY DEF SweepSound, PutFails
<1> QED BY <1>t, <1>r, <1>u, <1>w, <1>s

LEMMA CreateRowsSound ==
  ASSUME StagingAssumption, StagingInv, NEW u \in Uploads, CreateRows(u)
  PROVE  StagingInv'
<1> USE DEF StagingAssumption, StagingInv
<1>t. TypeOK'
  BY StoreKeepsTypes DEF Store
<1>0. UploadSound(u)
  OBVIOUS
<1>1. /\ upload[u].pc = "next" /\ u \notin expired /\ u \notin aged /\ upload[u].stored = ImagesOf(u)
      /\ ImagesOf(u) \subseteq objects
  BY <1>0 DEF CreateRows, UploadSound
<1>2. /\ \A v \in Uploads \ {u} : upload'[v] = upload[v]
      /\ upload'[u].pc \in {"done", "rollback"}
      /\ upload'[u].stored = upload[u].stored
  BY DEF CreateRows, TypeOK
<1>3. \A j \in Images : row'[j] = IF Upload[j] = u THEN [status |-> "STAGED", source |-> u \in Collected] ELSE row[j]
  BY DEF CreateRows, TypeOK
<1>4. UNCHANGED <<objects, task, expired, aged, worker, sweeping>>
  BY DEF CreateRows
<1>5. \A j \in Images : j \in answered' => j \in answered \/ (Upload[j] = u /\ upload'[u].pc = "done")
  <2>1. CASE upload' = [upload EXCEPT ![u].pc = "done"] /\ answered' \in {answered, answered \cup ImagesOf(u)}
    BY <2>1 DEF TypeOK, ImagesOf
  <2>2. CASE UNCHANGED answered
    BY <2>2
  <2> QED BY <2>1, <2>2 DEF CreateRows
<1>r. ASSUME NEW j \in Images PROVE RowSound(j)'
  <2>0. RowSound(j)
    OBVIOUS
  <2>1. CASE Upload[j] = u
    <3>1. j \in objects /\ row[j].status = "NONE"
      BY <1>1, <2>0, <2>1 DEF ImagesOf, RowSound
    <3>2. u \in Collected => task[<<j, "INTENT">>].status = "PENDING"
      BY <1>1, <2>0, <2>1, <3>1 DEF RowSound, IsCollected
    <3>3. row'[j].status = "STAGED" /\ (row'[j].source => u \in Collected)
      <4>1. CASE u \in Collected
        BY <1>3, <2>1, <4>1
      <4>2. CASE u \notin Collected
        <5>1. (u \in Collected) = FALSE
          BY <4>2
        <5>2. row'[j] = [status |-> "STAGED", source |-> u \in Collected]
          BY <1>3, <2>1
        <5>3. row'[j] = [status |-> "STAGED", source |-> FALSE]
          BY <5>1, <5>2, Zenon
        <5> QED BY <5>3
      <4> QED BY <4>1, <4>2
    <3>4. /\ task[<<j, "IMAGE">>].status = "NONE" /\ task[<<j, "ROLLBACK">>].status = "NONE"
          /\ task[<<j, "INTENT">>].status # "NONE" => u \in Collected
          /\ j \in answered' => upload'[u].pc = "done"
      BY <1>1, <1>5, <2>0, <2>1, <3>1 DEF RowSound, IsCollected
    <3> QED BY <1>1, <1>2, <1>4, <2>1, <3>1, <3>2, <3>3, <3>4 DEF RowSound, IsCollected, Open
  <2>2. CASE Upload[j] # u
    <3>1. upload'[Upload[j]] = upload[Upload[j]]
      BY <1>2, <2>2
    <3>2. row'[j] = row[j] /\ (j \in answered' => j \in answered)
      BY <1>3, <1>5, <2>2
    <3> QED BY <1>4, <2>0, <3>1, <3>2 DEF RowSound, IsCollected, Open
  <2> QED BY <2>1, <2>2
<1>u. ASSUME NEW v \in Uploads PROVE UploadSound(v)'
  <2> UploadSound(v)
    OBVIOUS
  <2> QED BY <1>1, <1>2, <1>4 DEF UploadSound, ImagesOf
<1>w. ASSUME NEW x \in Workers PROVE WorkerSound(x)'
  <2>1. WorkerSound(x)
    OBVIOUS
  <2>2. worker[x].pc # "idle" => worker[x].image \in Images /\ Upload[worker[x].image] \in Uploads \ {u}
    BY <1>1, ClaimedIsOver
  <2>3. worker[x].pc # "idle" => /\ row'[worker[x].image] = row[worker[x].image]
                               /\ upload'[Upload[worker[x].image]] = upload[Upload[worker[x].image]]
    BY <2>2, <1>2, <1>3
  <2> QED BY <1>4, <2>1, <2>3 DEF WorkerSound, HasSource, Task, IsCollected
<1>s. SweepSound'
  <2>1. sweeping # None => row'[sweeping] = row[sweeping]
    BY <1>1, <1>3 DEF SweepSound, TypeOK
  <2> QED BY <2>1, <1>4 DEF SweepSound
<1> QED BY <1>t, <1>r, <1>u, <1>w, <1>s

LEMMA CreateFailsSound ==
  ASSUME StagingAssumption, StagingInv, NEW u \in Uploads, CreateFails(u)
  PROVE  StagingInv'
<1> USE DEF StagingAssumption, StagingInv
<1>t. TypeOK'
  BY StoreKeepsTypes DEF Store
<1>r. ASSUME NEW j \in Images PROVE RowSound(j)'
  BY <1>r DEF RowSound, CreateFails
<1>u. ASSUME NEW v \in Uploads PROVE UploadSound(v)'
  BY <1>u DEF UploadSound, CreateFails
<1>w. ASSUME NEW x \in Workers PROVE WorkerSound(x)'
  BY <1>w DEF WorkerSound, CreateFails, HasSource, Task, IsCollected
<1>s. SweepSound'
  BY DEF SweepSound, CreateFails
<1> QED BY <1>t, <1>r, <1>u, <1>w, <1>s

LEMMA RollbackObjectSound ==
  ASSUME StagingAssumption, StagingInv, NEW u \in Uploads, NEW i \in Images, RollbackObject(u, i)
  PROVE  StagingInv'
<1> USE DEF StagingAssumption, StagingInv
<1>t. TypeOK'
  BY StoreKeepsTypes DEF Store
<1>0. UploadSound(u)
  OBVIOUS
<1>1. upload[u].pc = "rollback" /\ Upload[i] = u /\ i \notin answered
  <2>1. upload[u].pc = "rollback" /\ Upload[i] = u
    BY <1>0 DEF RollbackObject, UploadSound, ImagesOf
  <2> QED BY <2>1 DEF RowSound
<1>2. /\ \A v \in Uploads : upload'[v].pc = upload[v].pc
      /\ \A v \in Uploads : upload'[v].stored \subseteq upload[v].stored
      /\ \A v \in Uploads \ {u} : upload'[v] = upload[v]
  BY DEF RollbackObject, TypeOK
<1>3. \A j \in Images, k \in Kinds :
         \/ task'[<<j, k>>] = task[<<j, k>>]
         \/ j = i /\ k = "ROLLBACK" /\ task'[<<j, k>>].status = "PENDING"
  <2>1. CASE UNCHANGED task
    BY <2>1
  <2>2. CASE task' = [task EXCEPT ![<<i, "ROLLBACK">>] = Enqueued]
    BY <2>2, TaskEnqueued, EnqueuedIsPending DEF Kinds
  <2> QED BY <2>1, <2>2 DEF RollbackObject
<1>4. UNCHANGED <<row, answered, expired, aged, worker, sweeping>>
  BY DEF RollbackObject
<1>5. objects' \subseteq objects /\ \A j \in Images \ {i} : j \in objects => j \in objects'
  BY DEF RollbackObject
<1>r. ASSUME NEW j \in Images PROVE RowSound(j)'
  <2>0. RowSound(j)
    OBVIOUS
  <2>1. task'[<<j, "INTENT">>] = task[<<j, "INTENT">>] /\ task'[<<j, "IMAGE">>] = task[<<j, "IMAGE">>]
    BY <1>3 DEF Kinds
  <2>2. task'[<<j, "ROLLBACK">>].status # "NONE" => upload[Upload[j]].pc \in {"rollback", "failed"}
    BY <1>1, <1>3, <2>0 DEF RowSound, Kinds
  <2>3. upload'[Upload[j]].pc = upload[Upload[j]].pc
    BY <1>2
  <2>4. j \in objects' => j \in objects
    BY <1>5
  <2>5. j \in answered => (j \in objects => j \in objects')
    BY <1>1, <1>5
  <2> QED BY <1>4, <2>0, <2>1, <2>2, <2>3, <2>4, <2>5 DEF RowSound, IsCollected, Open
<1>u. ASSUME NEW v \in Uploads PROVE UploadSound(v)'
  <2>0. UploadSound(v)
    OBVIOUS
  <2>1. CASE v = u
    BY <1>1, <1>2, <1>4, <2>0, <2>1 DEF UploadSound, ImagesOf
  <2>2. CASE v # u
    <3>1. upload'[v] = upload[v]
      BY <1>2, <2>2
    <3>2. \A j \in Images : Upload[j] = v => (j \in objects => j \in objects') /\ task'[<<j, "INTENT">>] = task[<<j, "INTENT">>]
      BY <1>1, <1>3, <1>5, <2>2 DEF Kinds
    <3>3. upload[v].pc = "put" => upload[v].current \in Images /\ Upload[upload[v].current] = v
      BY <2>0 DEF UploadSound, ImagesOf, TypeOK
    <3>4. upload[v].stored \subseteq objects => upload[v].stored \subseteq objects'
      BY <2>0, <3>2 DEF UploadSound, ImagesOf
    <3> QED BY <1>4, <2>0, <3>1, <3>2, <3>3, <3>4 DEF UploadSound
  <2> QED BY <2>1, <2>2
<1>w. ASSUME NEW x \in Workers PROVE WorkerSound(x)'
  BY <1>w DEF WorkerSound, RollbackObject, HasSource, Task, IsCollected
<1>s. SweepSound'
  BY DEF SweepSound, RollbackObject
<1> QED BY <1>t, <1>r, <1>u, <1>w, <1>s

LEMMA RolledBackSound ==
  ASSUME StagingAssumption, StagingInv, NEW u \in Uploads, RolledBack(u)
  PROVE  StagingInv'
<1> USE DEF StagingAssumption, StagingInv
<1>t. TypeOK'
  BY StoreKeepsTypes DEF Store
<1>r. ASSUME NEW j \in Images PROVE RowSound(j)'
  BY <1>r DEF RowSound, RolledBack
<1>u. ASSUME NEW v \in Uploads PROVE UploadSound(v)'
  BY <1>u DEF UploadSound, RolledBack
<1>w. ASSUME NEW x \in Workers PROVE WorkerSound(x)'
  BY <1>w DEF WorkerSound, RolledBack, HasSource, Task, IsCollected
<1>s. SweepSound'
  BY DEF SweepSound, RolledBack
<1> QED BY <1>t, <1>r, <1>u, <1>w, <1>s

LEMMA UploadDiesSound ==
  ASSUME StagingAssumption, StagingInv, NEW u \in Uploads, UploadDies(u)
  PROVE  StagingInv'
<1> USE DEF StagingAssumption, StagingInv
<1>t. TypeOK'
  BY StoreKeepsTypes DEF Store
<1>r. ASSUME NEW j \in Images PROVE RowSound(j)'
  BY <1>r DEF RowSound, UploadDies
<1>u. ASSUME NEW v \in Uploads PROVE UploadSound(v)'
  BY <1>u DEF UploadSound, UploadDies
<1>w. ASSUME NEW x \in Workers PROVE WorkerSound(x)'
  BY <1>w DEF WorkerSound, UploadDies, HasSource, Task, IsCollected
<1>s. SweepSound'
  BY DEF SweepSound, UploadDies
<1> QED BY <1>t, <1>r, <1>u, <1>w, <1>s

LEMMA AttachSound ==
  ASSUME StagingAssumption, StagingInv, NEW i \in Images, Attach(i)
  PROVE  StagingInv'
<1> USE DEF StagingAssumption, StagingInv
<1>t. TypeOK'
  BY OthersKeepTypes
<1>r. ASSUME NEW j \in Images PROVE RowSound(j)'
  BY <1>r DEF RowSound, Attach
<1>u. ASSUME NEW v \in Uploads PROVE UploadSound(v)'
  BY <1>u DEF UploadSound, Attach
<1>w. ASSUME NEW x \in Workers PROVE WorkerSound(x)'
  BY <1>w DEF WorkerSound, Attach, HasSource, Task, IsCollected
<1>s. SweepSound'
  BY DEF SweepSound, Attach
<1> QED BY <1>t, <1>r, <1>u, <1>w, <1>s

LEMMA DetachSound ==
  ASSUME StagingAssumption, StagingInv, NEW i \in Images, Detach(i)
  PROVE  StagingInv'
<1> USE DEF StagingAssumption, StagingInv
<1>t. TypeOK'
  BY OthersKeepTypes
<1>r. ASSUME NEW j \in Images PROVE RowSound(j)'
  BY <1>r DEF RowSound, Detach
<1>u. ASSUME NEW v \in Uploads PROVE UploadSound(v)'
  BY <1>u DEF UploadSound, Detach
<1>w. ASSUME NEW x \in Workers PROVE WorkerSound(x)'
  BY <1>w DEF WorkerSound, Detach, HasSource, Task, IsCollected
<1>s. SweepSound'
  BY DEF SweepSound, Detach
<1> QED BY <1>t, <1>r, <1>u, <1>w, <1>s

LEMMA ExpireSound ==
  ASSUME StagingAssumption, StagingInv, NEW u \in Uploads, Expire(u)
  PROVE  StagingInv'
<1> USE DEF StagingAssumption, StagingInv
<1>t. TypeOK'
  BY OthersKeepTypes
<1>r. ASSUME NEW j \in Images PROVE RowSound(j)'
  BY <1>r DEF RowSound, Expire
<1>u. ASSUME NEW v \in Uploads PROVE UploadSound(v)'
  BY <1>u DEF UploadSound, Expire
<1>w. ASSUME NEW x \in Workers PROVE WorkerSound(x)'
  BY <1>w DEF WorkerSound, Expire, HasSource, Task, IsCollected
<1>s. SweepSound'
  BY DEF SweepSound, Expire
<1> QED BY <1>t, <1>r, <1>u, <1>w, <1>s

LEMMA AgeSound ==
  ASSUME StagingAssumption, StagingInv, NEW u \in Uploads, Age(u)
  PROVE  StagingInv'
<1> USE DEF StagingAssumption, StagingInv
<1>t. TypeOK'
  BY OthersKeepTypes
<1>r. ASSUME NEW j \in Images PROVE RowSound(j)'
  BY <1>r DEF RowSound, Age
<1>u. ASSUME NEW v \in Uploads PROVE UploadSound(v)'
  BY <1>u DEF UploadSound, Age
<1>w. ASSUME NEW x \in Workers PROVE WorkerSound(x)'
  BY <1>w DEF WorkerSound, Age, HasSource, Task, IsCollected
<1>s. SweepSound'
  BY DEF SweepSound, Age
<1> QED BY <1>t, <1>r, <1>u, <1>w, <1>s

LEMMA ClaimSound ==
  ASSUME StagingAssumption, StagingInv, NEW w \in Workers, NEW t \in Images \X Kinds, Claim(w, t)
  PROVE  StagingInv'
<1> USE DEF StagingAssumption, StagingInv
<1>t. TypeOK'
  BY WorkerKeepsTypes DEF Work
<1>1. PICK i \in Images, k \in Kinds : t = <<i, k>>
  OBVIOUS
<1>2. /\ task[<<i, k>>].status \in {"PENDING", "FAILED"}
      /\ k = "INTENT" => Upload[i] \in aged \cup expired
  BY <1>1 DEF Claim, Due
<1>3. \A j \in Images, m \in Kinds :
         task'[<<j, m>>].status = IF j = i /\ m = k THEN "RUNNING" ELSE task[<<j, m>>].status
  BY <1>1 DEF Claim, TypeOK
<1>4. UNCHANGED <<row, objects, upload, answered, expired, aged, sweeping>>
  BY DEF Claim
<1>5. /\ \A x \in Workers \ {w} : worker'[x] = worker[x]
      /\ worker'[w].pc = "claimed" /\ worker'[w].image = i /\ worker'[w].kind = k
      /\ worker'[w].staged = FALSE
  BY <1>1 DEF Claim, TypeOK, Idle
<1>6. RowSound(i)
  OBVIOUS
<1>r. ASSUME NEW j \in Images PROVE RowSound(j)'
  <2>0. RowSound(j)
    OBVIOUS
  <2>1. \A m \in Kinds : \/ task'[<<j, m>>].status = task[<<j, m>>].status
                         \/ /\ task'[<<j, m>>].status = "RUNNING" /\ task[<<j, m>>].status \in {"PENDING", "FAILED"}
                            /\ m = "INTENT" => Upload[j] \in aged \cup expired
    BY <1>2, <1>3
  <2> QED BY <1>4, <2>0, <2>1 DEF RowSound, IsCollected, Open, Kinds
<1>u. ASSUME NEW v \in Uploads PROVE UploadSound(v)'
  <2>0. UploadSound(v)
    OBVIOUS
  <2>1. upload[v].pc = "put" => upload[v].current \in Images /\ Upload[upload[v].current] = v
    BY <2>0 DEF UploadSound, ImagesOf, TypeOK
  <2>2. upload[v].pc = "put" /\ v \in Collected \ expired => ~(upload[v].current = i /\ k = "INTENT")
    BY <1>2, <2>0, <2>1 DEF UploadSound
  <2> QED BY <1>3, <1>4, <2>0, <2>1, <2>2 DEF UploadSound, ImagesOf, Kinds
<1>w. ASSUME NEW x \in Workers PROVE WorkerSound(x)'
  <2>0. WorkerSound(x)
    OBVIOUS
  <2>1. CASE x = w
    BY <1>2, <1>4, <1>5, <1>6, <2>1 DEF WorkerSound, RowSound, Kinds
  <2>2. CASE x # w
    BY <1>4, <1>5, <2>0, <2>2 DEF WorkerSound, HasSource, Task, IsCollected
  <2> QED BY <2>1, <2>2
<1>s. SweepSound'
  BY DEF SweepSound, Claim
<1> QED BY <1>t, <1>r, <1>u, <1>w, <1>s

LEMMA CheckClaimSound ==
  ASSUME StagingAssumption, StagingInv, NEW w \in Workers, CheckClaim(w)
  PROVE  StagingInv'
<1> USE DEF StagingAssumption, StagingInv
<1>t. TypeOK'
  BY WorkerKeepsTypes DEF Work
<1>1. UNCHANGED <<row, objects, task, upload, answered, expired, aged, sweeping>>
  BY DEF CheckClaim
<1>2. /\ \A x \in Workers \ {w} : worker'[x] = worker[x]
      /\ worker[w].pc = "claimed"
      /\ \/ worker'[w] = Idle
         \/ /\ worker'[w].image = worker[w].image /\ worker'[w].kind = worker[w].kind
            /\ worker'[w].staged = worker[w].staged /\ worker'[w].remove = TRUE
            /\ worker'[w].pc = IF HasSource(Task(w)) THEN "lookup" ELSE "delete"
  <2>1. CASE Owns(w)
    BY <2>1 DEF CheckClaim, TypeOK
  <2>2. CASE ~Owns(w)
    BY <2>2 DEF CheckClaim, TypeOK
  <2> QED BY <2>1, <2>2
<1>w. ASSUME NEW x \in Workers PROVE WorkerSound(x)'
  <2>0. WorkerSound(x)
    OBVIOUS
  <2>1. CASE x = w /\ worker'[w] = Idle
    BY <2>1 DEF WorkerSound, Idle
  <2>2. CASE x = w /\ worker'[w] # Idle
    BY <1>1, <1>2, <2>0, <2>2 DEF WorkerSound, HasSource, Task, IsCollected
  <2>3. CASE x # w
    BY <1>1, <1>2, <2>0, <2>3 DEF WorkerSound, HasSource, Task, IsCollected
  <2> QED BY <2>1, <2>2, <2>3
<1>r. ASSUME NEW j \in Images PROVE RowSound(j)'
  BY <1>r DEF RowSound, CheckClaim
<1>u. ASSUME NEW v \in Uploads PROVE UploadSound(v)'
  BY <1>u DEF UploadSound, CheckClaim
<1>s. SweepSound'
  BY DEF SweepSound, CheckClaim
<1> QED BY <1>t, <1>r, <1>u, <1>w, <1>s

LEMMA LookupSound ==
  ASSUME StagingAssumption, StagingInv, NEW w \in Workers, Lookup(w)
  PROVE  StagingInv'
<1> USE DEF StagingAssumption, StagingInv
<1>t. TypeOK'
  BY WorkerKeepsTypes DEF Work
<1> DEFINE i == worker[w].image
<1>0. /\ WorkerSound(w) /\ i \in Images /\ RowSound(i) /\ worker[w].pc = "lookup"
      /\ Upload[i] \in aged \cup expired \/ upload[Upload[i]].pc \in {"rollback", "failed"}
  BY DEF Lookup, WorkerSound, HasSource, Task, TypeOK, Kinds
<1>1. UNCHANGED <<objects, task, upload, answered, expired, aged, sweeping>>
  BY DEF Lookup
<1>2. \A j \in Images : \/ row'[j] = row[j]
                        \/ /\ j = i /\ row[i].status = "STAGED"
                           /\ row'[j] = [row[i] EXCEPT !.status = "PRIVATE_DELETE_PENDING"]
  BY DEF Lookup, TypeOK
<1>3. /\ \A x \in Workers \ {w} : worker'[x] = worker[x]
      /\ worker'[w].pc = "delete" /\ worker'[w].image = i /\ worker'[w].kind = worker[w].kind
      /\ \/ row[i].status = "ATTACHED" /\ worker'[w].remove = FALSE /\ worker'[w].staged = worker[w].staged
            /\ row' = row
         \/ row[i].status = "NONE" /\ worker'[w].remove = worker[w].remove /\ worker'[w].staged = FALSE
            /\ row' = row
         \/ row'[i].status \in {"PRIVATE_DELETE_PENDING", "DELETED"} /\ worker'[w].remove = worker[w].remove
            /\ worker'[w].staged = TRUE
  <2>1. CASE row[i].status = "ATTACHED"
    BY <2>1 DEF Lookup, TypeOK
  <2>2. CASE row[i].status = "NONE"
    BY <2>2 DEF Lookup, TypeOK
  <2>3. CASE row[i].status \notin {"ATTACHED", "NONE"}
    BY <1>0, <2>3 DEF Lookup, TypeOK, Statuses
  <2> QED BY <2>1, <2>2, <2>3
<1>r. ASSUME NEW j \in Images PROVE RowSound(j)'
  <2>0. RowSound(j)
    OBVIOUS
  <2>1. CASE row'[j] = row[j]
    BY <1>1, <2>0, <2>1 DEF RowSound, IsCollected
  <2>2. CASE row'[j] = [row[i] EXCEPT !.status = "PRIVATE_DELETE_PENDING"] /\ j = i /\ row[i].status = "STAGED"
    BY <1>0, <1>1, <2>0, <2>2 DEF RowSound, IsCollected, WorkerSound, HasSource, Task, TypeOK
  <2> QED BY <1>2, <2>1, <2>2
<1>w. ASSUME NEW x \in Workers PROVE WorkerSound(x)'
  <2>0. WorkerSound(x)
    OBVIOUS
  <2>1. CASE x = w
    BY <1>0, <1>1, <1>3, <2>0, <2>1 DEF WorkerSound, HasSource, Task, IsCollected, RowSound
  <2>2. CASE x # w
    <3>1. worker'[x] = worker[x]
      BY <1>3, <2>2
    <3>2. worker[x].pc # "idle" =>
             LET j == worker[x].image IN
             \/ row'[j] = row[j]
             \/ /\ row[j].status = "STAGED" /\ row'[j].status = "PRIVATE_DELETE_PENDING"
                /\ row'[j].source = row[j].source
      BY <1>2, <2>0 DEF WorkerSound, TypeOK
    <3> QED BY <1>1, <2>0, <3>1, <3>2 DEF WorkerSound, HasSource, Task, IsCollected
  <2> QED BY <2>1, <2>2
<1>u. ASSUME NEW v \in Uploads PROVE UploadSound(v)'
  BY <1>u DEF UploadSound, Lookup
<1>s. SweepSound'
  BY DEF SweepSound, Lookup, TypeOK
<1> QED BY <1>t, <1>r, <1>u, <1>w, <1>s

LEMMA DeleteObjectSound ==
  ASSUME StagingAssumption, StagingInv, NEW w \in Workers, DeleteObject(w)
  PROVE  StagingInv'
<1> USE DEF StagingAssumption, StagingInv
<1>t. TypeOK'
  BY WorkerKeepsTypes DEF Work
<1>u. ASSUME NEW v \in Uploads PROVE UploadSound(v)'
  <2>0. UploadSound(v)
    OBVIOUS
  <2>1. worker[w].image \in Images /\ (\/ Upload[worker[w].image] \in aged \cup expired
            \/ upload[Upload[worker[w].image]].pc \in {"rollback", "done", "failed"})
    BY ClaimedIsOver DEF DeleteObject
  <2>2. objects \ {worker[w].image} \subseteq objects'
    BY DEF DeleteObject
  <2>3. UNCHANGED <<task, upload, expired, aged>>
    BY DEF DeleteObject
  <2>4. upload[v].pc \in {"next", "put"} /\ v \notin expired => Upload[worker[w].image] # v
    BY <2>0, <2>1 DEF UploadSound
  <2>5. upload[v].pc \in {"next", "put"} /\ v \notin expired => upload[v].stored \subseteq objects'
    BY <2>0, <2>2, <2>4 DEF UploadSound, ImagesOf
  <2> QED BY <2>0, <2>3, <2>5 DEF UploadSound
<1>r. ASSUME NEW j \in Images PROVE RowSound(j)'
  BY <1>r DEF RowSound, UploadSound, WorkerSound, SweepSound, TypeOK, DeleteObject, Kinds, Open,
       Statuses, ImagesOf, IsCollected, HasSource, Task
<1>w. ASSUME NEW x \in Workers PROVE WorkerSound(x)'
  BY <1>w DEF WorkerSound, DeleteObject, HasSource, Task, IsCollected
<1>s. SweepSound'
  BY DEF SweepSound, DeleteObject
<1> QED BY <1>t, <1>r, <1>u, <1>w, <1>s

LEMMA FinishSound ==
  ASSUME StagingAssumption, StagingInv, NEW w \in Workers, Finish(w)
  PROVE  StagingInv'
<1> USE DEF StagingAssumption, StagingInv
<1>t. TypeOK'
  BY WorkerKeepsTypes DEF Work
<1>r. ASSUME NEW j \in Images PROVE RowSound(j)'
  BY <1>r DEF RowSound, UploadSound, WorkerSound, SweepSound, TypeOK, Finish, Kinds, Open,
       Statuses, ImagesOf, IsCollected, HasSource, Task, Idle, Owns, NoTask
<1>u. ASSUME NEW v \in Uploads PROVE UploadSound(v)'
  BY <1>u DEF UploadSound, Finish, TypeOK, ImagesOf, Kinds, Idle, Owns, NoTask
<1>w. ASSUME NEW x \in Workers PROVE WorkerSound(x)'
  BY <1>w DEF WorkerSound, Finish, HasSource, Task, IsCollected, TypeOK, Kinds, Idle, Owns,
       NoTask
<1>s. SweepSound'
  BY DEF SweepSound, Finish
<1> QED BY <1>t, <1>r, <1>u, <1>w, <1>s

LEMMA TaskFailsSound ==
  ASSUME StagingAssumption, StagingInv, NEW w \in Workers, TaskFails(w)
  PROVE  StagingInv'
<1> USE DEF StagingAssumption, StagingInv
<1>t. TypeOK'
  BY WorkerKeepsTypes DEF Work
<1>1. worker[w].pc # "idle" /\ UNCHANGED <<row, upload, answered, expired, aged, sweeping>>
  BY DEF TaskFails
<1>3. \A j \in Images, k \in Kinds :
         \/ task'[<<j, k>>] = task[<<j, k>>]
         \/ /\ task[<<j, k>>].status = "RUNNING" /\ task'[<<j, k>>].status \in {"FAILED", "DEAD"}
            /\ IsCollected(j) /\ k # "IMAGE" => task'[<<j, k>>].status = "FAILED"
  <2>1. CASE Owns(w)
    <3>1. task' = [task EXCEPT ![Task(w)] = Failed(Task(w))] /\ Task(w) \in Images \X Kinds
      BY <1>1, <2>1, ClaimedIsOver DEF TaskFails, Task, TypeOK
    <3>2. Failed(Task(w)).status \in {"FAILED", "DEAD"}
      BY DEF Failed
    <3>3. HasSource(Task(w)) => Failed(Task(w)).status = "FAILED"
      BY DEF Failed
    <3> HIDE DEF Failed
    <3> QED BY <2>1, <3>1, <3>2, <3>3 DEF Owns, Task, HasSource, TypeOK
  <2>2. CASE ~Owns(w)
    BY <2>2 DEF TaskFails
  <2> QED BY <2>1, <2>2
<1>u. ASSUME NEW v \in Uploads PROVE UploadSound(v)'
  <2>0. UploadSound(v)
    OBVIOUS
  <2>1. worker[w].image \in Images /\ (\/ Upload[worker[w].image] \in aged \cup expired
            \/ upload[Upload[worker[w].image]].pc \in {"rollback", "done", "failed"})
    BY <1>1, ClaimedIsOver
  <2>2. objects \ {worker[w].image} \subseteq objects'
    BY DEF TaskFails
  <2>4. upload[v].pc \in {"next", "put"} /\ v \notin expired => Upload[worker[w].image] # v
    BY <2>0, <2>1 DEF UploadSound
  <2>5. upload[v].pc \in {"next", "put"} /\ v \notin expired => upload[v].stored \subseteq objects'
    BY <2>0, <2>2, <2>4 DEF UploadSound, ImagesOf
  <2>6. upload[v].pc = "put" /\ v \in Collected \ expired =>
           task'[<<upload[v].current, "INTENT">>].status = "PENDING"
    <3>1. upload[v].pc = "put" => upload[v].current \in Images
      BY <2>0 DEF UploadSound, TypeOK
    <3> QED BY <1>3, <2>0, <3>1 DEF UploadSound, Kinds
  <2> QED BY <1>1, <2>0, <2>5, <2>6 DEF UploadSound
<1>r. ASSUME NEW j \in Images PROVE RowSound(j)'
  BY <1>r DEF RowSound, UploadSound, WorkerSound, SweepSound, TypeOK, TaskFails, Kinds, Open,
       Statuses, ImagesOf, IsCollected, HasSource, Task, Idle, Owns, Failed
<1>w. ASSUME NEW x \in Workers PROVE WorkerSound(x)'
  BY <1>w DEF WorkerSound, TaskFails, HasSource, Task, IsCollected, TypeOK, Kinds, Idle, Owns,
       Failed
<1>s. SweepSound'
  BY DEF SweepSound, TaskFails
<1> QED BY <1>t, <1>r, <1>u, <1>w, <1>s

LEMMA WorkerDiesSound ==
  ASSUME StagingAssumption, StagingInv, NEW w \in Workers, WorkerDies(w)
  PROVE  StagingInv'
<1> USE DEF StagingAssumption, StagingInv
<1>t. TypeOK'
  BY WorkerKeepsTypes DEF Work
<1>r. ASSUME NEW j \in Images PROVE RowSound(j)'
  BY <1>r DEF RowSound, WorkerDies
<1>u. ASSUME NEW v \in Uploads PROVE UploadSound(v)'
  BY <1>u DEF UploadSound, WorkerDies
<1>w. ASSUME NEW x \in Workers PROVE WorkerSound(x)'
  BY <1>w DEF WorkerSound, WorkerDies, HasSource, Task, IsCollected, TypeOK, Kinds, Idle
<1>s. SweepSound'
  BY DEF SweepSound, WorkerDies
<1> QED BY <1>t, <1>r, <1>u, <1>w, <1>s

LEMMA RecoverExpiredSound ==
  ASSUME StagingAssumption, StagingInv, NEW t \in Images \X Kinds, RecoverExpired(t)
  PROVE  StagingInv'
<1> USE DEF StagingAssumption, StagingInv
<1>t. TypeOK'
  BY OthersKeepTypes
<1>r. ASSUME NEW j \in Images PROVE RowSound(j)'
  BY <1>r DEF RowSound, UploadSound, WorkerSound, SweepSound, TypeOK, RecoverExpired, Kinds,
       Open, Statuses, ImagesOf, IsCollected, HasSource, Task, Failed
<1>u. ASSUME NEW v \in Uploads PROVE UploadSound(v)'
  BY <1>u DEF UploadSound, RecoverExpired
<1>w. ASSUME NEW x \in Workers PROVE WorkerSound(x)'
  BY <1>w DEF WorkerSound, RecoverExpired, HasSource, Task, IsCollected
<1>s. SweepSound'
  BY DEF SweepSound, RecoverExpired
<1> QED BY <1>t, <1>r, <1>u, <1>w, <1>s

LEMMA SweepFindSound ==
  ASSUME StagingAssumption, StagingInv, NEW i \in Images, SweepFind(i)
  PROVE  StagingInv'
<1> USE DEF StagingAssumption, StagingInv
<1>t. TypeOK'
  BY OthersKeepTypes
<1>r. ASSUME NEW j \in Images PROVE RowSound(j)'
  BY <1>r DEF RowSound, SweepFind
<1>u. ASSUME NEW v \in Uploads PROVE UploadSound(v)'
  BY <1>u DEF UploadSound, SweepFind
<1>w. ASSUME NEW x \in Workers PROVE WorkerSound(x)'
  BY <1>w DEF WorkerSound, SweepFind, HasSource, Task, IsCollected
<1>s. SweepSound'
  BY DEF SweepSound, RowSound, SweepFind, TypeOK, Referenced
<1> QED BY <1>t, <1>r, <1>u, <1>w, <1>s

LEMMA SweepDeleteSound ==
  ASSUME StagingAssumption, StagingInv, SweepDelete
  PROVE  StagingInv'
<1> USE DEF StagingAssumption, StagingInv
<1>t. TypeOK'
  BY OthersKeepTypes
<1>r. ASSUME NEW j \in Images PROVE RowSound(j)'
  BY <1>r DEF RowSound, UploadSound, WorkerSound, SweepSound, TypeOK, SweepDelete, Kinds, Open,
       Statuses, ImagesOf, IsCollected, HasSource, Task
<1>u. ASSUME NEW v \in Uploads PROVE UploadSound(v)'
  BY <1>u, SMTT(40) DEF UploadSound, RowSound, WorkerSound, SweepSound, SweepDelete, TypeOK,
       ImagesOf, Kinds, Open
<1>w. ASSUME NEW x \in Workers PROVE WorkerSound(x)'
  BY <1>w DEF WorkerSound, SweepDelete, HasSource, Task, IsCollected
<1>s. SweepSound'
  BY DEF SweepSound, SweepDelete
<1> QED BY <1>t, <1>r, <1>u, <1>w, <1>s

LEMMA SweepFailsSound ==
  ASSUME StagingAssumption, StagingInv, SweepFails
  PROVE  StagingInv'
<1> USE DEF StagingAssumption, StagingInv
<1>t. TypeOK'
  BY OthersKeepTypes
<1>r. ASSUME NEW j \in Images PROVE RowSound(j)'
  BY <1>r DEF RowSound, SweepFails
<1>u. ASSUME NEW v \in Uploads PROVE UploadSound(v)'
  BY <1>u DEF UploadSound, SweepFails
<1>w. ASSUME NEW x \in Workers PROVE WorkerSound(x)'
  BY <1>w DEF WorkerSound, SweepFails, HasSource, Task, IsCollected
<1>s. SweepSound'
  BY DEF SweepSound, SweepFails
<1> QED BY <1>t, <1>r, <1>u, <1>w, <1>s

----------------------------------------------------------------------------
\* Discard and expiry.
LEMMA DeleteStagedSound ==
  ASSUME StagingAssumption, StagingInv, NEW S \in SUBSET {i \in Images : row[i].status = "STAGED"}, DeleteStaged(S)
  PROVE  /\ \A j \in Images : RowSound(j)'
         /\ \A v \in Uploads : UploadSound(v)'
         /\ \A x \in Workers : WorkerSound(x)'
         /\ SweepSound'
<1> USE DEF StagingAssumption, StagingInv
<1>1. \A j \in Images : \/ j \notin S /\ row'[j] = row[j]
                        \/ j \in S /\ row[j].status = "STAGED"
                           /\ row'[j].status = "PRIVATE_DELETE_PENDING" /\ row'[j].source = row[j].source
  BY DEF DeleteStaged, TypeOK
<1>2. \A j \in Images, k \in Kinds :
         task'[<<j, k>>] = IF j \in S /\ k = "IMAGE" THEN Enqueued ELSE task[<<j, k>>]
  BY DEF DeleteStaged
<1>3. UNCHANGED <<objects, upload, answered, expired, aged, worker, sweeping>>
  BY DEF DeleteStaged
<1>r. ASSUME NEW j \in Images PROVE RowSound(j)'
  <2>0. RowSound(j)
    OBVIOUS
  <2>1. CASE j \notin S
    BY <1>1, <1>2, <1>3, <2>0, <2>1 DEF RowSound, IsCollected, Kinds
  <2>2. CASE j \in S
    BY <1>1, <1>2, <1>3, <2>0, <2>2, EnqueuedIsPending DEF RowSound, IsCollected, Kinds, Open
  <2> QED BY <2>1, <2>2
<1>u. ASSUME NEW v \in Uploads PROVE UploadSound(v)'
  <2>0. UploadSound(v)
    OBVIOUS
  <2>1. upload[v].pc = "put" => upload[v].current \in Images
    BY <2>0 DEF UploadSound, TypeOK
  <2> QED BY <1>2, <1>3, <2>0, <2>1 DEF UploadSound, Kinds, ImagesOf
<1>w. ASSUME NEW x \in Workers PROVE WorkerSound(x)'
  <2>0. WorkerSound(x)
    OBVIOUS
  <2> QED BY <1>1, <1>3, <2>0 DEF WorkerSound, HasSource, Task, IsCollected
<1>s. SweepSound'
  BY <1>1, <1>3 DEF SweepSound, TypeOK
<1> QED BY <1>r, <1>u, <1>w, <1>s

LEMMA StagingInit == ASSUME StagingAssumption, Init PROVE StagingInv
<1>1. TypeOK
  BY DEF StagingAssumption, Init, TypeOK, NoRow, NoTask, Idle, Kinds, Open, Statuses
<1>2. ASSUME NEW i \in Images PROVE RowSound(i)
  BY DEF StagingAssumption, Init, RowSound, NoRow, NoTask, Kinds
<1>3. ASSUME NEW u \in Uploads PROVE UploadSound(u)
  BY DEF Init, UploadSound
<1>4. ASSUME NEW w \in Workers PROVE WorkerSound(w)
  BY DEF Init, WorkerSound, Idle
<1>5. SweepSound
  BY DEF Init, SweepSound
<1> QED BY <1>1, <1>2, <1>3, <1>4, <1>5 DEF StagingInv

LEMMA StagingUnchanged == ASSUME StagingInv, UNCHANGED vars PROVE StagingInv'
  BY DEF StagingInv, vars, TypeOK, RowSound, UploadSound, WorkerSound, SweepSound, IsCollected, HasSource, Task, ImagesOf

LEMMA StagingNext == ASSUME StagingAssumption, StagingInv, [Next]_vars PROVE StagingInv'
<1>1. ASSUME NEW u \in Uploads, Store(u) PROVE StagingInv'
  BY <1>1, BeginSound, SaveIntentSound, IntentFailsSound, PutSound, PutFailsSound, CreateRowsSound,
     CreateFailsSound, RollbackObjectSound, RolledBackSound, UploadDiesSound DEF Store
<1>2. ASSUME NEW u \in Uploads, Expire(u) \/ Age(u) PROVE StagingInv'
  BY <1>2, ExpireSound, AgeSound
<1>3. ASSUME NEW i \in Images, Attach(i) \/ Detach(i) \/ SweepFind(i) PROVE StagingInv'
  BY <1>3, AttachSound, DetachSound, SweepFindSound
<1>4. ASSUME NEW i \in Images, Discard(i) PROVE StagingInv'
  <2>1. {i} \in SUBSET {j \in Images : row[j].status = "STAGED"} /\ DeleteStaged({i})
    BY <1>4 DEF Discard
  <2>2. TypeOK'
    BY <1>4, OthersKeepTypes
  <2> QED BY <2>1, <2>2, DeleteStagedSound DEF StagingInv
<1>5. CASE ExpireStaged
  <2>1. PICK S \in SUBSET {j \in Images : row[j].status = "STAGED"} : DeleteStaged(S)
    BY <1>5 DEF ExpireStaged, Stale
  <2>2. TypeOK'
    BY <1>5, OthersKeepTypes
  <2> QED BY <2>1, <2>2, DeleteStagedSound DEF StagingInv
<1>6. ASSUME NEW w \in Workers, Work(w) \/ TaskFails(w) \/ WorkerDies(w) PROVE StagingInv'
  BY <1>6, CheckClaimSound, LookupSound, DeleteObjectSound, FinishSound, TaskFailsSound, WorkerDiesSound DEF Work
<1>7. ASSUME NEW w \in Workers, NEW t \in Images \X Kinds, Claim(w, t) PROVE StagingInv'
  BY <1>7, ClaimSound
<1>8. ASSUME NEW t \in Images \X Kinds, RecoverExpired(t) PROVE StagingInv'
  BY <1>8, RecoverExpiredSound
<1>9. CASE SweepDelete \/ SweepFails
  BY <1>9, SweepDeleteSound, SweepFailsSound
<1> QED BY <1>1, <1>2, <1>3, <1>4, <1>5, <1>6, <1>7, <1>8, <1>9, StagingUnchanged DEF Next

\* What the invariant says of the rows is what callers rely on.
LEMMA StagingInvSound == ASSUME StagingAssumption, StagingInv PROVE StagingSound
<1> USE DEF StagingInv
<1>1. AnsweredHasOriginal /\ DeletedIsGone
  BY DEF TypeOK, AnsweredHasOriginal, DeletedIsGone, RowSound
<1>2. PendingNotForgotten
  BY DEF PendingNotForgotten, RowSound, Kinds
<1>3. IntentBeforeObject
  BY DEF TypeOK, IntentBeforeObject, RowSound
<1> QED BY <1>1, <1>2, <1>3 DEF StagingSound

\* Images keep their originals, deletions are the truth and are not forgotten, and an intent precedes
\* each collected object, for any number of uploads, images, workers and attempts (ImagesService.store,
\* OutboxService.execute, CleanupService).
THEOREM StagingIsSound == ASSUME StagingAssumption PROVE Spec => []StagingSound
<1>1. Init => StagingInv
  BY StagingInit
<1>2. StagingInv /\ [Next]_vars => StagingInv'
  BY StagingNext
<1>3. StagingInv => StagingSound
  BY StagingInvSound
<1> QED BY <1>1, <1>2, <1>3, PTL DEF Spec
=============================================================================
