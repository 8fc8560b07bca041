------------------------ MODULE PostPublicationProofs ------------------------
(* Proofs about PostPublication: its rows and local states keep their types, *)
(* and, where no image moves between two posts, a published post keeps the   *)
(* public objects of its images; and what a withdrawal promises.             *)
EXTENDS PostPublication, TLAPS

LEMMA ReleasedType ==
    ASSUME LocksOK, NEW h
    PROVE  Released(h) \in [Posts -> Cmds \cup Workers \cup {Cleaner, None}]
  BY DEF LocksOK, Released

LEMMA EnqueueType ==
    ASSUME TasksOK, NEW classes, Enqueue(classes)
    PROVE  TasksOK'
<1>1. Pending \in TaskRow /\ Pending.attempts < MaxAttempts
  BY ConstantsAssumption DEF Pending, TaskRow, TaskStatus
<1>2. \A m \in Messages : task'[m] \in {Pending, task[m]}
  BY DEF Enqueue
<1>3. task' = [m \in Messages |-> task'[m]]
  BY DEF Enqueue
<1>. QED
  BY <1>1, <1>2, <1>3 DEF TasksOK

THEOREM TypeInit == Init => TypeOK
<1>. SUFFICES ASSUME Init PROVE TypeOK
  OBVIOUS
<1>1. NoTask \in TaskRow
  BY ConstantsAssumption DEF NoTask, TaskRow, TaskStatus
<1>. QED
  BY <1>1, ConstantsAssumption
  DEF Init, TypeOK, PostsOK, ImagesOK, StoresOK, TasksOK, LocksOK, CmdsOK, WorkersOK, CleanerOK,
      PostStatus, ImageStatus, NoTask, Keys, IdleCmd, IdleWorker, IdleClean, Actions,
      CmdState, WorkerState

LEMMA MessageType ==
    ASSUME NEW m \in Messages
    PROVE  /\ m.kind \in {"DELETE_PUBLIC", "COMPENSATE"} => m.post \in Posts /\ m.image \in Images
           /\ m.kind = "DELETE_PRIVATE" => m.post = None /\ m.image \in Images
           /\ m.kind = "CACHE_PURGE" => m.post \in Posts
           /\ m.kind \in Kinds
  BY ConstantsAssumption DEF Messages, Kinds

LEMMA StoragePostType ==
    ASSUME ImagesOK, NEW m \in Messages
    PROVE  StoragePost(m) \in Posts \cup {None}
  BY MessageType DEF StoragePost, ImagesOK, Kinds

LEMMA CommitType ==
    ASSUME TypeOK, NEW c \in Cmds, NEW status \in PostStatus, cmd[c].pc # "idle",
           Commit(c, status)
    PROVE  PostsOK' /\ StoresOK' /\ LocksOK' /\ CmdsOK' /\ WorkersOK' /\ CleanerOK'
<1>. USE DEF TypeOK, Commit, storeVars
<1>1. cmd[c].post \in Posts
  BY DEF CmdsOK
<1>2. PostsOK'
  BY <1>1 DEF PostsOK
<1>3. CASE Leave(c)
  <2>1. LocksOK'
    BY <1>3, ReleasedType DEF Leave, LocksOK
  <2>2. CmdsOK'
    BY <1>3 DEF Leave, CmdsOK, CmdState, IdleCmd, Actions
  <2>. QED
    BY <1>2, <2>1, <2>2 DEF StoresOK, WorkersOK, CleanerOK
<1>4. CASE cmd' = [cmd EXCEPT ![c].pc = "compensating"] /\ UNCHANGED lock
  <2>1. CmdsOK'
    BY <1>4, <1>1 DEF CmdsOK, CmdState
  <2>. QED
    BY <1>2, <1>4, <2>1 DEF StoresOK, LocksOK, WorkersOK, CleanerOK
<1>. QED
  BY <1>3, <1>4

THEOREM TypeNext == TypeOK /\ [Next]_vars => TypeOK'
<1>. SUFFICES ASSUME TypeOK, [Next]_vars PROVE TypeOK'
  OBVIOUS
<1>. USE DEF TypeOK, dbVars, storeVars
<1>1. ASSUME NEW p \in Posts, NEW S \in SUBSET Images, CreateDraft(p, S) PROVE TypeOK'
  <2>1. PostsOK'
    BY <1>1, ConstantsAssumption DEF CreateDraft, PostStatus, PostsOK
  <2>2. ImagesOK'
    BY <1>1 DEF CreateDraft, ImagesOK
  <2>3. StoresOK' /\ TasksOK' /\ LocksOK' /\ CmdsOK' /\ WorkersOK' /\ CleanerOK'
    BY <1>1 DEF CreateDraft, StoresOK, TasksOK, LocksOK, CmdsOK, WorkersOK, CleanerOK
  <2>. QED
    BY <2>1, <2>2, <2>3
<1>2. ASSUME NEW i \in Images, Discard(i) PROVE TypeOK'
  <2>1. ImagesOK'
    BY <1>2 DEF Discard, ImageStatus, ImagesOK
  <2>2. TasksOK'
    BY <1>2, EnqueueType DEF Discard, TasksOK
  <2>3. PostsOK' /\ StoresOK' /\ LocksOK' /\ CmdsOK' /\ WorkersOK' /\ CleanerOK'
    BY <1>2 DEF Discard, PostsOK, StoresOK, LocksOK, CmdsOK, WorkersOK, CleanerOK
  <2>. QED
    BY <2>1, <2>2, <2>3
<1>3. ASSUME NEW c \in Cmds, NEW p \in Posts, NEW a \in Actions, Request(c, p, a) PROVE TypeOK'
  <2>1. CmdsOK'
    BY <1>3 DEF Request, PostsOK, CmdState, IdleCmd, Actions, CmdsOK
  <2>2. PostsOK' /\ ImagesOK' /\ StoresOK' /\ TasksOK' /\ LocksOK' /\ WorkersOK' /\ CleanerOK'
    BY <1>3 DEF Request, PostsOK, ImagesOK, StoresOK, TasksOK, LocksOK, WorkersOK, CleanerOK
  <2>. QED
    BY <2>1, <2>2
<1>4. ASSUME NEW c \in Cmds, AcquireLock(c) PROVE TypeOK'
  <2>1. LocksOK'
    BY <1>4 DEF AcquireLock, LocksOK
  <2>2. CmdsOK'
    BY <1>4 DEF AcquireLock, CmdState, CmdsOK
  <2>3. PostsOK' /\ ImagesOK' /\ StoresOK' /\ TasksOK' /\ WorkersOK' /\ CleanerOK'
    BY <1>4 DEF AcquireLock, PostsOK, ImagesOK, StoresOK, TasksOK, WorkersOK, CleanerOK
  <2>. QED
    BY <2>1, <2>2, <2>3
<1>5. ASSUME NEW c \in Cmds, Precheck(c) PROVE TypeOK'
  <2>1. LocksOK'
    BY <1>5, ReleasedType DEF Precheck, Leave, LocksOK
  <2>2. CmdsOK'
    BY <1>5 DEF Precheck, Leave, IdleCmd, CmdState, Actions, Attached, CmdsOK
  <2>3. PostsOK' /\ ImagesOK' /\ StoresOK' /\ TasksOK' /\ WorkersOK' /\ CleanerOK'
    BY <1>5 DEF Precheck, PostsOK, ImagesOK, StoresOK, TasksOK, WorkersOK, CleanerOK
  <2>. QED
    BY <2>1, <2>2, <2>3
<1>6. ASSUME NEW c \in Cmds, NEW i \in Images, Promote(c, i) PROVE TypeOK'
  <2>1. StoresOK'
    BY <1>6 DEF Promote, Keys, CmdsOK, CmdState, StoresOK
  <2>2. CmdsOK'
    BY <1>6 DEF Promote, CmdState, CmdsOK
  <2>3. PostsOK' /\ ImagesOK' /\ TasksOK' /\ LocksOK' /\ WorkersOK' /\ CleanerOK'
    BY <1>6 DEF Promote, PostsOK, ImagesOK, TasksOK, LocksOK, WorkersOK, CleanerOK
  <2>. QED
    BY <2>1, <2>2, <2>3
<1>7. ASSUME NEW c \in Cmds, NEW i \in Images, PromoteFails(c, i) PROVE TypeOK'
  <2>1. StoresOK'
    BY <1>7 DEF PromoteFails, Keys, CmdsOK, CmdState, StoresOK
  <2>2. CmdsOK'
    BY <1>7 DEF PromoteFails, CmdState, CmdsOK
  <2>3. PostsOK' /\ ImagesOK' /\ TasksOK' /\ LocksOK' /\ WorkersOK' /\ CleanerOK'
    BY <1>7 DEF PromoteFails, PostsOK, ImagesOK, TasksOK, LocksOK, WorkersOK, CleanerOK
  <2>. QED
    BY <2>1, <2>2, <2>3
<1>8. ASSUME NEW c \in Cmds, NEW i \in Images, Compensate(c, i) PROVE TypeOK'
  <2>1. TasksOK'
    BY <1>8, EnqueueType DEF Compensate, TasksOK
  <2>2. CmdsOK'
    BY <1>8 DEF Compensate, CmdState, CmdsOK
  <2>3. PostsOK' /\ ImagesOK' /\ StoresOK' /\ LocksOK' /\ WorkersOK' /\ CleanerOK'
    BY <1>8 DEF Compensate, PostsOK, ImagesOK, StoresOK, LocksOK, WorkersOK, CleanerOK
  <2>. QED
    BY <2>1, <2>2, <2>3
<1>9. ASSUME NEW c \in Cmds, CommitPlain(c) PROVE TypeOK'
  <2>1. PostsOK' /\ StoresOK' /\ LocksOK' /\ CmdsOK' /\ WorkersOK' /\ CleanerOK'
    BY <1>9, CommitType DEF CommitPlain, InTransaction, Current, PostsOK, CmdsOK, CmdState, PostStatus
  <2>2. ImagesOK' /\ TasksOK'
    BY <1>9 DEF CommitPlain, ImagesOK, TasksOK
  <2>. QED
    BY <2>1, <2>2
<1>10. ASSUME NEW c \in Cmds, CommitPublish(c) PROVE TypeOK'
  <2>1. PostsOK' /\ StoresOK' /\ LocksOK' /\ CmdsOK' /\ WorkersOK' /\ CleanerOK'
    BY <1>10, CommitType DEF CommitPublish, InTransaction, Current, PostsOK, CmdsOK, CmdState, PostStatus
  <2>2. ImagesOK'
    <3>. DEFINE Row == [status: ImageStatus, post: Posts \cup {None},
                        publicKey: Posts \cup {None}]
    <3>1. cmd[c].post \in Posts
      BY <1>10 DEF CommitPublish, InTransaction, CmdsOK
    <3>2. \A i \in Images : image[i] \in Row
      BY DEF ImagesOK
    <3>3. \A i \in Images : image'[i] \in
              {[image[i] EXCEPT !.status = "PUBLIC", !.publicKey = cmd[c].post], image[i]}
      BY <1>10 DEF CommitPublish
    <3>4. \A i \in Images : image'[i] \in Row
      BY <3>1, <3>2, <3>3 DEF ImageStatus
    <3>5. image' = [i \in Images |-> image'[i]]
      BY <1>10 DEF CommitPublish
    <3>. QED
      BY <3>4, <3>5 DEF ImagesOK
  <2>3. TasksOK'
    BY <1>10, EnqueueType DEF CommitPublish, TasksOK
  <2>. QED
    BY <2>1, <2>2, <2>3
<1>11. ASSUME NEW c \in Cmds, CommitHide(c) PROVE TypeOK'
  <2>1. PostsOK' /\ StoresOK' /\ LocksOK' /\ CmdsOK' /\ WorkersOK' /\ CleanerOK'
    BY <1>11, CommitType DEF CommitHide, InTransaction, Current, PostsOK, CmdsOK, CmdState, PostStatus
  <2>2. ImagesOK'
    BY <1>11 DEF CommitHide, ImageStatus, ImagesOK
  <2>3. TasksOK'
    BY <1>11, EnqueueType DEF CommitHide, TasksOK
  <2>. QED
    BY <2>1, <2>2, <2>3
<1>12. ASSUME NEW c \in Cmds, CommitRemove(c) PROVE TypeOK'
  <2>1. PostsOK' /\ StoresOK' /\ LocksOK' /\ CmdsOK' /\ WorkersOK' /\ CleanerOK'
    BY <1>12, CommitType DEF CommitRemove, InTransaction, Current, PostsOK, CmdsOK, CmdState, PostStatus
  <2>2. ImagesOK'
    BY <1>12 DEF CommitRemove, ImageStatus, ImagesOK
  <2>3. TasksOK'
    BY <1>12, EnqueueType DEF CommitRemove, TasksOK
  <2>. QED
    BY <2>1, <2>2, <2>3
<1>13. ASSUME NEW c \in Cmds, NEW S \in SUBSET Images, CommitBlocks(c, S) PROVE TypeOK'
  <2>1. PostsOK' /\ StoresOK' /\ LocksOK' /\ CmdsOK' /\ WorkersOK' /\ CleanerOK'
    BY <1>13, CommitType DEF CommitBlocks, InTransaction, Current, PostsOK, CmdsOK, CmdState, PostStatus
  <2>2. ImagesOK'
    <3>. DEFINE Row == [status: ImageStatus, post: Posts \cup {None},
                        publicKey: Posts \cup {None}]
    <3>1. cmd[c].post \in Posts
      BY <1>13 DEF CommitBlocks, InTransaction, CmdsOK
    <3>2. \A i \in Images : image[i] \in Row
      BY DEF ImagesOK
    <3>3. \A i \in Images : image'[i] \in
              {[image[i] EXCEPT !.post = cmd[c].post],
               [image[i] EXCEPT !.post = None, !.status = "PRIVATE_DELETE_PENDING"],
               [image[i] EXCEPT !.post = None, !.status = "STAGED"], image[i]}
      BY <1>13 DEF CommitBlocks, Detached
    <3>4. \A i \in Images : image'[i] \in Row
      <4>1. \A r \in Row : [r EXCEPT !.post = cmd[c].post] \in Row
        BY <3>1
      <4>2. \A r \in Row : [r EXCEPT !.post = None, !.status = "PRIVATE_DELETE_PENDING"] \in Row
        BY DEF ImageStatus
      <4>3. \A r \in Row : [r EXCEPT !.post = None, !.status = "STAGED"] \in Row
        BY DEF ImageStatus
      <4>. QED
        BY <3>2, <3>3, <4>1, <4>2, <4>3
    <3>5. image' = [i \in Images |-> image'[i]]
      BY <1>13 DEF CommitBlocks
    <3>. QED
      BY <3>4, <3>5 DEF ImagesOK
  <2>3. TasksOK'
    BY <1>13, EnqueueType DEF CommitBlocks, TasksOK
  <2>. QED
    BY <2>1, <2>2, <2>3
<1>14. ASSUME NEW c \in Cmds, Rollback(c) PROVE TypeOK'
  <2>1. CmdsOK'
    BY <1>14 DEF Rollback, CmdState, CmdsOK
  <2>2. PostsOK' /\ ImagesOK' /\ StoresOK' /\ TasksOK' /\ LocksOK' /\ WorkersOK' /\ CleanerOK'
    BY <1>14 DEF Rollback, PostsOK, ImagesOK, StoresOK, TasksOK, LocksOK, WorkersOK, CleanerOK
  <2>. QED
    BY <2>1, <2>2
<1>15. ASSUME NEW c \in Cmds, Rethrow(c) PROVE TypeOK'
  <2>1. LocksOK'
    BY <1>15, ReleasedType DEF Rethrow, Leave, LocksOK
  <2>2. CmdsOK'
    BY <1>15 DEF Rethrow, Leave, IdleCmd, CmdState, Actions, CmdsOK
  <2>3. PostsOK' /\ ImagesOK' /\ StoresOK' /\ TasksOK' /\ WorkersOK' /\ CleanerOK'
    BY <1>15 DEF Rethrow, PostsOK, ImagesOK, StoresOK, TasksOK, WorkersOK, CleanerOK
  <2>. QED
    BY <2>1, <2>2, <2>3
<1>16. ASSUME NEW c \in Cmds, CommandDies(c) PROVE TypeOK'
  <2>1. LocksOK'
    BY <1>16, ReleasedType DEF CommandDies, Leave, LocksOK
  <2>2. CmdsOK'
    BY <1>16 DEF CommandDies, Leave, IdleCmd, CmdState, Actions, CmdsOK
  <2>3. PostsOK' /\ ImagesOK' /\ StoresOK' /\ TasksOK' /\ WorkersOK' /\ CleanerOK'
    BY <1>16 DEF CommandDies, PostsOK, ImagesOK, StoresOK, TasksOK, WorkersOK, CleanerOK
  <2>. QED
    BY <2>1, <2>2, <2>3
<1>17. ASSUME NEW m \in Messages, RecoverExpired(m) PROVE TypeOK'
  <2>1. TasksOK'
    BY <1>17, ConstantsAssumption DEF RecoverExpired, Failed, TaskRow, TaskStatus, TasksOK
  <2>2. PostsOK' /\ ImagesOK' /\ StoresOK' /\ LocksOK' /\ CmdsOK' /\ WorkersOK' /\ CleanerOK'
    BY <1>17 DEF RecoverExpired, PostsOK, ImagesOK, StoresOK, LocksOK, CmdsOK, WorkersOK, CleanerOK
  <2>. QED
    BY <2>1, <2>2
<1>18. ASSUME NEW w \in Workers, NEW m \in Messages, Claim(w, m) PROVE TypeOK'
  <2>1. TasksOK'
    BY <1>18, ConstantsAssumption DEF Claim, TaskRow, TaskStatus, TasksOK
  <2>2. WorkersOK'
    BY <1>18 DEF Claim, WorkerState, WorkersOK
  <2>3. PostsOK' /\ ImagesOK' /\ StoresOK' /\ LocksOK' /\ CmdsOK' /\ CleanerOK'
    BY <1>18 DEF Claim, PostsOK, ImagesOK, StoresOK, LocksOK, CmdsOK, CleanerOK
  <2>. QED
    BY <2>1, <2>2, <2>3
<1>19. ASSUME NEW w \in Workers, ReadImage(w) PROVE TypeOK'
  <2>1. WorkersOK'
    <3>1. StoragePost(worker[w].msg) \in Posts \cup {None}
      BY <1>19, StoragePostType DEF ReadImage, WorkersOK
    <3>. QED
      BY <1>19, <3>1 DEF ReadImage, WorkerState, WorkersOK
  <2>2. PostsOK' /\ ImagesOK' /\ StoresOK' /\ TasksOK' /\ LocksOK' /\ CmdsOK' /\ CleanerOK'
    BY <1>19 DEF ReadImage, PostsOK, ImagesOK, StoresOK, TasksOK, LocksOK, CmdsOK, CleanerOK
  <2>. QED
    BY <2>1, <2>2
<1>20. ASSUME NEW w \in Workers, WorkerLocks(w) PROVE TypeOK'
  <2>1. LocksOK'
    BY <1>20 DEF WorkerLocks, LocksOK
  <2>2. WorkersOK'
    BY <1>20 DEF WorkerLocks, WorkerState, WorkersOK
  <2>3. PostsOK' /\ ImagesOK' /\ StoresOK' /\ TasksOK' /\ CmdsOK' /\ CleanerOK'
    BY <1>20 DEF WorkerLocks, PostsOK, ImagesOK, StoresOK, TasksOK, CmdsOK, CleanerOK
  <2>. QED
    BY <2>1, <2>2, <2>3
<1>21. ASSUME NEW w \in Workers, Execute(w) PROVE TypeOK'
  <2>1. LocksOK'
    BY <1>21, ReleasedType DEF Execute, WorkerLeaves, LocksOK
  <2>2. WorkersOK'
    BY <1>21 DEF Execute, WorkerLeaves, IdleWorker, WorkerState, WorkersOK
  <2>3. PostsOK' /\ ImagesOK' /\ StoresOK' /\ TasksOK' /\ CmdsOK' /\ CleanerOK'
    BY <1>21 DEF Execute, PostsOK, ImagesOK, StoresOK, TasksOK, CmdsOK, CleanerOK
  <2>. QED
    BY <2>1, <2>2, <2>3
<1>22. ASSUME NEW w \in Workers, DeleteObject(w) PROVE TypeOK'
  <2>1. StoresOK'
    BY <1>22 DEF DeleteObject, StoresOK
  <2>2. WorkersOK'
    BY <1>22 DEF DeleteObject, WorkerState, WorkersOK
  <2>3. PostsOK' /\ ImagesOK' /\ TasksOK' /\ LocksOK' /\ CmdsOK' /\ CleanerOK'
    BY <1>22 DEF DeleteObject, PostsOK, ImagesOK, TasksOK, LocksOK, CmdsOK, CleanerOK
  <2>. QED
    BY <2>1, <2>2, <2>3
<1>23. ASSUME NEW w \in Workers, PurgeCache(w) PROVE TypeOK'
  <2>1. StoresOK'
    BY <1>23 DEF PurgeCache, StoresOK
  <2>2. WorkersOK'
    BY <1>23 DEF PurgeCache, WorkerState, WorkersOK
  <2>3. PostsOK' /\ ImagesOK' /\ TasksOK' /\ LocksOK' /\ CmdsOK' /\ CleanerOK'
    BY <1>23 DEF PurgeCache, PostsOK, ImagesOK, TasksOK, LocksOK, CmdsOK, CleanerOK
  <2>. QED
    BY <2>1, <2>2, <2>3
<1>24. ASSUME NEW w \in Workers, FinishTask(w) PROVE TypeOK'
  <2>1. ImagesOK'
    BY <1>24 DEF FinishTask, ImageStatus, ImagesOK
  <2>2. TasksOK'
    BY <1>24, ConstantsAssumption DEF FinishTask, TaskRow, TaskStatus, NoTask, TasksOK
  <2>3. LocksOK'
    BY <1>24, ReleasedType DEF FinishTask, WorkerLeaves, LocksOK
  <2>4. WorkersOK'
    BY <1>24 DEF FinishTask, WorkerLeaves, IdleWorker, WorkerState, WorkersOK
  <2>5. PostsOK' /\ StoresOK' /\ CmdsOK' /\ CleanerOK'
    BY <1>24 DEF FinishTask, PostsOK, StoresOK, CmdsOK, CleanerOK
  <2>. QED
    BY <2>1, <2>2, <2>3, <2>4, <2>5
<1>25. ASSUME NEW w \in Workers, TaskThrows(w) PROVE TypeOK'
  <2>1. LocksOK'
    BY <1>25, ReleasedType DEF TaskThrows, LocksOK
  <2>2. WorkersOK'
    BY <1>25 DEF TaskThrows, WorkerState, WorkersOK
  <2>3. PostsOK' /\ ImagesOK' /\ StoresOK' /\ TasksOK' /\ CmdsOK' /\ CleanerOK'
    BY <1>25 DEF TaskThrows, PostsOK, ImagesOK, StoresOK, TasksOK, CmdsOK, CleanerOK
  <2>. QED
    BY <2>1, <2>2, <2>3
<1>26. ASSUME NEW w \in Workers, FailTask(w) PROVE TypeOK'
  <2>1. TasksOK'
    BY <1>26, ConstantsAssumption DEF FailTask, Failed, TaskRow, TaskStatus, Owned, TasksOK, WorkersOK
  <2>2. WorkersOK'
    BY <1>26 DEF FailTask, IdleWorker, WorkerState, WorkersOK
  <2>3. PostsOK' /\ ImagesOK' /\ StoresOK' /\ LocksOK' /\ CmdsOK' /\ CleanerOK'
    BY <1>26 DEF FailTask, PostsOK, ImagesOK, StoresOK, LocksOK, CmdsOK, CleanerOK
  <2>. QED
    BY <2>1, <2>2, <2>3
<1>27. ASSUME NEW w \in Workers, WorkerDies(w) PROVE TypeOK'
  <2>1. LocksOK'
    BY <1>27, ReleasedType DEF WorkerDies, WorkerLeaves, LocksOK
  <2>2. WorkersOK'
    BY <1>27 DEF WorkerDies, WorkerLeaves, IdleWorker, WorkerState, WorkersOK
  <2>3. PostsOK' /\ ImagesOK' /\ StoresOK' /\ TasksOK' /\ CmdsOK' /\ CleanerOK'
    BY <1>27 DEF WorkerDies, PostsOK, ImagesOK, StoresOK, TasksOK, CmdsOK, CleanerOK
  <2>. QED
    BY <2>1, <2>2, <2>3
<1>28. ASSUME NEW k \in Keys, CleanPick(k) PROVE TypeOK'
  <2>1. CleanerOK'
    BY <1>28 DEF CleanPick, CleanerOK
  <2>2. PostsOK' /\ ImagesOK' /\ StoresOK' /\ TasksOK' /\ LocksOK' /\ CmdsOK' /\ WorkersOK'
    BY <1>28 DEF CleanPick, PostsOK, ImagesOK, StoresOK, TasksOK, LocksOK, CmdsOK, WorkersOK
  <2>. QED
    BY <2>1, <2>2
<1>29. ASSUME CleanLock PROVE TypeOK'
  <2>1. LocksOK'
    BY <1>29 DEF CleanLock, LocksOK
  <2>2. CleanerOK'
    BY <1>29 DEF CleanLock, CleanerOK
  <2>3. PostsOK' /\ ImagesOK' /\ StoresOK' /\ TasksOK' /\ CmdsOK' /\ WorkersOK'
    BY <1>29 DEF CleanLock, PostsOK, ImagesOK, StoresOK, TasksOK, CmdsOK, WorkersOK
  <2>. QED
    BY <2>1, <2>2, <2>3
<1>30. ASSUME CleanCheck PROVE TypeOK'
  <2>1. LocksOK'
    BY <1>30, ReleasedType DEF CleanCheck, CleanerLeaves, LocksOK
  <2>2. CleanerOK'
    BY <1>30 DEF CleanCheck, CleanerLeaves, IdleClean, CleanerOK
  <2>3. PostsOK' /\ ImagesOK' /\ StoresOK' /\ TasksOK' /\ CmdsOK' /\ WorkersOK'
    BY <1>30 DEF CleanCheck, PostsOK, ImagesOK, StoresOK, TasksOK, CmdsOK, WorkersOK
  <2>. QED
    BY <2>1, <2>2, <2>3
<1>31. ASSUME CleanDelete PROVE TypeOK'
  <2>1. StoresOK'
    BY <1>31 DEF CleanDelete, StoresOK
  <2>2. LocksOK'
    BY <1>31, ReleasedType DEF CleanDelete, CleanerLeaves, LocksOK
  <2>3. CleanerOK'
    BY <1>31 DEF CleanDelete, CleanerLeaves, IdleClean, CleanerOK
  <2>4. PostsOK' /\ ImagesOK' /\ TasksOK' /\ CmdsOK' /\ WorkersOK'
    BY <1>31 DEF CleanDelete, PostsOK, ImagesOK, TasksOK, CmdsOK, WorkersOK
  <2>. QED
    BY <2>1, <2>2, <2>3, <2>4
<1>32. ASSUME CleanerDies PROVE TypeOK'
  <2>1. LocksOK'
    BY <1>32, ReleasedType DEF CleanerDies, CleanerLeaves, LocksOK
  <2>2. CleanerOK'
    BY <1>32 DEF CleanerDies, CleanerLeaves, IdleClean, CleanerOK
  <2>3. PostsOK' /\ ImagesOK' /\ StoresOK' /\ TasksOK' /\ CmdsOK' /\ WorkersOK'
    BY <1>32 DEF CleanerDies, PostsOK, ImagesOK, StoresOK, TasksOK, CmdsOK, WorkersOK
  <2>. QED
    BY <2>1, <2>2, <2>3
<1>33. ASSUME NEW k \in Keys, FetchImage(k) PROVE TypeOK'
  <2>1. StoresOK'
    BY <1>33 DEF FetchImage, StoresOK
  <2>2. PostsOK' /\ ImagesOK' /\ TasksOK' /\ LocksOK' /\ CmdsOK' /\ WorkersOK' /\ CleanerOK'
    BY <1>33 DEF FetchImage, PostsOK, ImagesOK, TasksOK, LocksOK, CmdsOK, WorkersOK, CleanerOK
  <2>. QED
    BY <2>1, <2>2
<1>34. ASSUME NEW p \in Posts, FetchPage(p) PROVE TypeOK'
  <2>1. StoresOK'
    BY <1>34 DEF FetchPage, StoresOK
  <2>2. PostsOK' /\ ImagesOK' /\ TasksOK' /\ LocksOK' /\ CmdsOK' /\ WorkersOK' /\ CleanerOK'
    BY <1>34 DEF FetchPage, PostsOK, ImagesOK, TasksOK, LocksOK, CmdsOK, WorkersOK, CleanerOK
  <2>. QED
    BY <2>1, <2>2
<1>35. CASE UNCHANGED vars
  BY <1>35 DEF vars, PostsOK, ImagesOK, StoresOK, TasksOK, LocksOK, CmdsOK, WorkersOK, CleanerOK
<1>. QED
  BY <1>1, <1>2, <1>3, <1>4, <1>5, <1>6, <1>7, <1>8, <1>9, <1>10, <1>11, <1>12, <1>13, <1>14, <1>15, <1>16, <1>17, <1>18, <1>19, <1>20, <1>21, <1>22, <1>23, <1>24, <1>25, <1>26, <1>27, <1>28, <1>29, <1>30, <1>31, <1>32, <1>33, <1>34, <1>35 DEF Next, CommandStep, WorkerStep, CleanerStep

\* Rows, stored objects, locks and local states always have their types; in particular
\* an outbox row that is not DEAD has attempts left (attempt_count < 8).
THEOREM TypeCorrect == Spec => []TypeOK
  BY TypeInit, TypeNext, PTL DEF Spec

----------------------------------------------------------------------------
(* What one actor's step leaves to the others.  Holder h's view of the posts *)
(* it has locked: its locks, the owners of their keys, their images, objects. *)

Holders == Cmds \cup Workers \cup {Cleaner}

KeepsLocks(h) == \A p \in Posts : lock[p] = h => lock'[p] = h

KeepsKeys(h) ==
    \A p \in Posts, i \in Images : lock[p] = h =>
        /\ image'[i].publicKey = p => image[i].publicKey = p
        /\ image'[i].publicKey = p /\ image'[i].status = "PUBLIC" => image[i].status = "PUBLIC"

KeepsImages(h) ==
    \A p \in Posts, i \in Images : lock[p] = h /\ post[p].status # "ABSENT" =>
        /\ image'[i].post = p <=> image[i].post = p
        /\ image[i].post = p /\ image[i].status \in Attachable => image'[i].status \in Attachable

KeepsObjects(h) ==
    \A p \in Posts, i \in Images : lock[p] = h /\ <<p, i>> \in publicObjs => <<p, i>> \in publicObjs'

PostsStay == \A p \in Posts : post[p].status # "ABSENT" => post'[p].status # "ABSENT"

OthersUndisturbed(actor) ==
    /\ PostsStay
    /\ \A c \in Cmds : c # actor => cmd'[c] = cmd[c]
    /\ \A w \in Workers : w # actor => worker'[w] = worker[w]
    /\ Cleaner # actor => cleaner' = cleaner
    /\ \A h \in Holders : h # actor =>
           KeepsLocks(h) /\ KeepsKeys(h) /\ KeepsImages(h) /\ KeepsObjects(h)

LEMMA FrameCommand ==
    ASSUME TypeOK, NEW c \in Cmds, CommandHolds(c), cmd'[c] = cmd[c], PostsStay,
           KeepsLocks(c), KeepsImages(c), KeepsObjects(c)
    PROVE  CommandHolds(c)'
<1>. DEFINE p == cmd[c].post
<1>. USE DEF TypeOK
<1>0. cmd[c].pc # "idle" => p \in Posts
  BY DEF CmdsOK
<1>1. cmd[c].pc # "idle" => post'[p].status # "ABSENT"
  BY <1>0 DEF CommandHolds, PostsStay
<1>2. cmd[c].pc \in {"locked", "working", "compensating"} => lock'[p] = c
  BY <1>0 DEF CommandHolds, KeepsLocks
<1>3. ASSUME cmd[c].pc = "working", cmd[c].action \in Publishing
      PROVE  /\ cmd[c].images = Attached(p)'
             /\ \A i \in cmd[c].images : image'[i].status \in Attachable
             /\ \A i \in cmd[c].promoted : <<p, i>> \in publicObjs'
  <2>1. lock[p] = c /\ p \in Posts /\ post[p].status # "ABSENT"
    BY <1>0, <1>3 DEF CommandHolds
  <2>2. cmd[c].images \subseteq Images /\ cmd[c].promoted \subseteq Images
    BY DEF CmdsOK, CmdState
  <2>3. cmd[c].images = Attached(p) /\ \A i \in cmd[c].images : image[i].status \in Attachable
    BY <1>3 DEF CommandHolds
  <2>4. cmd[c].images = Attached(p)'
    BY <2>1, <2>3 DEF KeepsImages, Attached
  <2>5. \A i \in cmd[c].images : image'[i].status \in Attachable
    BY <2>1, <2>2, <2>3 DEF KeepsImages, Attached
  <2>6. \A i \in cmd[c].promoted : <<p, i>> \in publicObjs'
    BY <1>3, <2>1, <2>2 DEF KeepsObjects, CommandHolds
  <2>. QED
    BY <2>4, <2>5, <2>6
<1>. QED
  BY <1>1, <1>2, <1>3 DEF CommandHolds, Attached

LEMMA FrameWorker ==
    ASSUME TypeOK, NEW w \in Workers, WorkerHolds(w), worker'[w] = worker[w],
           KeepsLocks(w), KeepsKeys(w)
    PROVE  WorkerHolds(w)'
<1>. DEFINE m == worker[w].msg
<1>1. worker[w].lock \in Posts \cup {None} /\ worker[w].pc # "idle" => m \in Messages
  BY DEF TypeOK, WorkersOK, WorkerState
<1>2. worker[w].pc \in {"execute", "delete", "purge", "finish"} /\ worker[w].lock # None =>
          lock'[worker[w].lock] = w
  BY <1>1 DEF TypeOK, WorkersOK, WorkerState, WorkerHolds, KeepsLocks
<1>3. ASSUME worker[w].pc = "delete", m.kind \in PublicKinds
      PROVE  ~(image'[m.image].publicKey = m.post /\ image'[m.image].status = "PUBLIC")
  <2>1. m \in Messages
    BY <1>3 DEF TypeOK, WorkersOK
  <2>2. m.post \in Posts /\ m.image \in Images
    BY <1>3, <2>1, MessageType DEF PublicKinds
  <2>3. lock[m.post] = w
    BY <1>3, <2>2, ConstantsAssumption DEF WorkerHolds
  <2>. QED
    BY <1>3, <2>2, <2>3 DEF WorkerHolds, KeepsKeys, Owns
<1>. QED
  BY <1>2, <1>3 DEF WorkerHolds, Owns

LEMMA FrameCleaner ==
    ASSUME TypeOK, CleanerHolds, cleaner' = cleaner, KeepsLocks(Cleaner), KeepsKeys(Cleaner)
    PROVE  CleanerHolds'
<1>1. cleaner.pc # "idle" => cleaner.key[1] \in Posts /\ cleaner.key[2] \in Images
  BY DEF TypeOK, CleanerOK, Keys
<1>. QED
  BY <1>1 DEF CleanerHolds, KeepsLocks, KeepsKeys, Owns

LEMMA Frame ==
    ASSUME TypeOK, StorageDiscipline, NEW actor, OthersUndisturbed(actor)
    PROVE  /\ \A c \in Cmds : c # actor => CommandHolds(c)'
           /\ \A w \in Workers : w # actor => WorkerHolds(w)'
           /\ Cleaner # actor => CleanerHolds'
  BY FrameCommand, FrameWorker, FrameCleaner DEF OthersUndisturbed, StorageDiscipline, Holders

LEMMA ReleaseKeeps ==
    ASSUME TypeOK, NEW h, NEW g \in Holders, g # h, lock' = Released(h)
    PROVE  KeepsLocks(g)
  BY DEF Released, KeepsLocks

LEMMA TakeKeeps ==
    ASSUME TypeOK, NEW p \in Posts, lock[p] = None, NEW h, lock' = [lock EXCEPT ![p] = h]
    PROVE  \A g \in Holders : KeepsLocks(g)
  BY ConstantsAssumption DEF KeepsLocks, Holders, TypeOK, LocksOK

\* A new row asks for what its class says; the others were there.
LEMMA EnqueueAtHome ==
    ASSUME TasksAtHome, NEW classes, Enqueue(classes),
           \A k \in classes : k[1] \in PublicKinds => k[2] \in Home[k[3]]
    PROVE  TasksAtHome'
<1>. SUFFICES ASSUME NEW m \in Messages, task'[m].status # "NONE", m.kind \in PublicKinds
              PROVE  m.post \in Home[m.image]
  BY DEF TasksAtHome
<1>1. CASE Class(m) \in classes
  BY <1>1 DEF Class
<1>2. CASE Class(m) \notin classes
  BY <1>2 DEF Enqueue, TasksAtHome
<1>. QED
  BY <1>1, <1>2

LEMMA AllowedStatuses ==
    /\ \A a \in Actions : "ABSENT" \notin Allowed[a]
    /\ \A a \in {"update", "schedule", "unschedule", "republish", "remove"} : "PUBLISHED" \notin Allowed[a]
    /\ Allowed["hide"] = {"PUBLISHED"} /\ Allowed["remove"] = {"HIDDEN_REVIEW"}
    /\ "HIDDEN_REVIEW" \notin Allowed["schedule"] \cup Allowed["unschedule"]
  BY DEF Allowed, Actions

\* A transaction touches the images of its own post and images without a post.
LEMMA CommitFrame ==
    ASSUME TypeOK, StorageDiscipline, NEW c \in Cmds, NEW status \in PostStatus,
           InTransaction(c), Commit(c, status), status # "ABSENT", ImagesOK',
           \A i \in Images :
               \/ image'[i] = image[i]
               \/ /\ image[i].post \in {None, cmd[c].post}
                  /\ image'[i].post \in {None, cmd[c].post}
                  /\ image'[i].publicKey \in {image[i].publicKey, cmd[c].post}
    PROVE  OthersUndisturbed(c) /\ CommandHolds(c)'
<1>. DEFINE p == cmd[c].post
<1>. USE DEF TypeOK
<1>1. p \in Posts /\ lock[p] = c
  BY DEF CmdsOK, InTransaction, StorageDiscipline, CommandHolds
<1>2. post' = [post EXCEPT ![p] = [status |-> status, version |-> @.version + 1]]
  BY DEF Commit
<1>3. PostsStay
  BY <1>1, <1>2 DEF PostsStay, PostsOK
<1>4. ASSUME NEW h \in Holders, h # c
      PROVE  KeepsLocks(h) /\ KeepsKeys(h) /\ KeepsImages(h) /\ KeepsObjects(h)
  <2>1. KeepsLocks(h)
    BY <1>4, ReleaseKeeps DEF Commit, Leave, KeepsLocks
  <2>2. KeepsObjects(h)
    BY DEF Commit, storeVars, KeepsObjects
  <2>3. ASSUME NEW q \in Posts, NEW i \in Images, lock[q] = h,
               image[i].post = q \/ image'[i].post = q \/ image'[i].publicKey = q
        PROVE  image'[i] = image[i]
    <3>1. q # p /\ q # None
      BY <1>1, <1>4, <2>3, ConstantsAssumption
    <3>2. image[i].publicKey = q => image[i].post = q
      BY <3>1 DEF StorageDiscipline, ImageRows, ImageRow
    <3>. QED
      BY <2>3, <3>1, <3>2
  <2>4. KeepsKeys(h) /\ KeepsImages(h)
    BY <2>3 DEF KeepsKeys, KeepsImages
  <2>. QED
    BY <2>1, <2>2, <2>4
<1>5. CommandHolds(c)'
  <2>1. CASE Leave(c)
    BY <2>1 DEF Leave, IdleCmd, CommandHolds, CmdsOK
  <2>2. CASE cmd' = [cmd EXCEPT ![c].pc = "compensating"] /\ UNCHANGED lock
    <3>1. /\ cmd'[c].pc = "compensating" /\ cmd'[c].post = p
          /\ cmd'[c].images = cmd[c].images /\ cmd'[c].promoted = cmd[c].promoted
      BY <2>2 DEF CmdsOK, CmdState
    <3>2. post'[p].status # "ABSENT"
      BY <1>1, <1>2 DEF PostsOK
    <3>3. \A i \in cmd[c].images \cup cmd[c].promoted : p \in Home[i]
      BY DEF StorageDiscipline, CommandHolds
    <3>. QED
      BY <1>1, <2>2, <3>1, <3>2, <3>3 DEF CommandHolds
  <2>. QED
    BY <2>1, <2>2 DEF Commit
<1>6. /\ \A d \in Cmds : d # c => cmd'[d] = cmd[d]
      /\ worker' = worker /\ cleaner' = cleaner
  BY DEF Commit, Leave, CmdsOK
<1>. QED
  BY <1>3, <1>4, <1>5, <1>6 DEF OthersUndisturbed

LEMMA Disturbs ==
    ASSUME TypeOK, NEW actor, PostsStay,
           \A c \in Cmds : c # actor => cmd'[c] = cmd[c],
           \A w \in Workers : w # actor => worker'[w] = worker[w],
           Cleaner # actor => cleaner' = cleaner,
           \A h \in Holders : h # actor => KeepsLocks(h),
           \A h \in Holders : h # actor => KeepsKeys(h) /\ KeepsImages(h),
           \A h \in Holders : h # actor => KeepsObjects(h)
    PROVE  OthersUndisturbed(actor)
  BY DEF OthersUndisturbed

\* A step that leaves posts and images alone and deletes no public object.
LEMMA Quiet ==
    ASSUME TypeOK, StorageDiscipline, NEW actor, post' = post, image' = image,
           publicObjs \subseteq publicObjs',
           \A c \in Cmds : c # actor => cmd'[c] = cmd[c],
           \A w \in Workers : w # actor => worker'[w] = worker[w],
           Cleaner # actor => cleaner' = cleaner,
           \A h \in Holders : h # actor => KeepsLocks(h)
    PROVE  OthersUndisturbed(actor) /\ ImageRows'
<1>1. PostsStay
  BY DEF PostsStay
<1>2. \A h \in Holders : KeepsKeys(h) /\ KeepsImages(h) /\ KeepsObjects(h)
  BY DEF KeepsKeys, KeepsImages, KeepsObjects
<1>3. OthersUndisturbed(actor)
  BY <1>1, <1>2 DEF OthersUndisturbed
<1>4. ImageRows'
  BY DEF StorageDiscipline, ImageRows, ImageRow
<1>. QED
  BY <1>3, <1>4

\* It remains to look at the rows and at the actor's own part.
LEMMA Discipline ==
    ASSUME TypeOK, StorageDiscipline, NEW actor, OthersUndisturbed(actor),
           ImageRows', TasksAtHome',
           \A c \in Cmds : c = actor => CommandHolds(c)',
           \A w \in Workers : w = actor => WorkerHolds(w)',
           Cleaner = actor => CleanerHolds'
    PROVE  StorageDiscipline'
<1>1. /\ \A c \in Cmds : c # actor => CommandHolds(c)'
      /\ \A w \in Workers : w # actor => WorkerHolds(w)'
      /\ Cleaner # actor => CleanerHolds'
  BY Frame
<1>2. (\A c \in Cmds : CommandHolds(c))'
  BY <1>1
<1>3. (\A w \in Workers : WorkerHolds(w))'
  BY <1>1
<1>. QED
  BY <1>1, <1>2, <1>3 DEF StorageDiscipline

LEMMA SameTasks ==
    ASSUME TasksAtHome, \A m \in Messages : task'[m].status # "NONE" => task[m].status # "NONE"
    PROVE  TasksAtHome'
  BY DEF TasksAtHome

THEOREM DisciplineInit == Init => StorageDiscipline
  BY ConstantsAssumption
  DEF Init, StorageDiscipline, ImageRows, ImageRow, TasksAtHome, CleanerHolds, CommandHolds,
      WorkerHolds, IdleCmd, IdleWorker, IdleClean, NoTask, Publishing

LEMMA QuietStep ==
    ASSUME TypeOK, StorageDiscipline, NEW actor, post' = post, image' = image,
           publicObjs \subseteq publicObjs', TasksAtHome',
           \A c \in Cmds : IF c = actor THEN CommandHolds(c)' ELSE cmd'[c] = cmd[c],
           \A w \in Workers : IF w = actor THEN WorkerHolds(w)' ELSE worker'[w] = worker[w],
           IF Cleaner = actor THEN CleanerHolds' ELSE cleaner' = cleaner,
           \A h \in Holders : h # actor => KeepsLocks(h)
    PROVE  StorageDiscipline'
<1>1. OthersUndisturbed(actor) /\ ImageRows'
  BY Quiet
<1>. QED
  BY <1>1, Discipline

\* What an actor needs to know to give everything up, or to keep the lock table.
LEMMA SameLocks ==
    ASSUME lock' = lock
    PROVE  \A h : KeepsLocks(h)
  BY DEF KeepsLocks

LEMMA CommandLeaves ==
    ASSUME TypeOK, NEW c \in Cmds, Leave(c)
    PROVE  /\ CommandHolds(c)' /\ \A d \in Cmds : d # c => cmd'[d] = cmd[d]
           /\ \A h \in Holders : h # c => KeepsLocks(h)
  BY ReleaseKeeps DEF Leave, IdleCmd, CommandHolds, CmdsOK, TypeOK

LEMMA WorkerGoes ==
    ASSUME TypeOK, NEW w \in Workers, WorkerLeaves(w)
    PROVE  /\ WorkerHolds(w)' /\ \A v \in Workers : v # w => worker'[v] = worker[v]
           /\ \A h \in Holders : h # w => KeepsLocks(h)
  BY ReleaseKeeps DEF WorkerLeaves, IdleWorker, WorkerHolds, WorkersOK, TypeOK

LEMMA CleanerGoes ==
    ASSUME TypeOK, CleanerLeaves
    PROVE  CleanerHolds' /\ \A h \in Holders : h # Cleaner => KeepsLocks(h)
  BY ReleaseKeeps DEF CleanerLeaves, IdleClean, CleanerHolds

----------------------------------------------------------------------------
(* The steps of a request *)

LEMMA RequestSteps ==
    ASSUME TypeOK, StorageDiscipline, NEW c \in Cmds,
           \/ \E p \in Posts, a \in Actions : Request(c, p, a)
           \/ AcquireLock(c) \/ Precheck(c) \/ Rollback(c) \/ Rethrow(c) \/ CommandDies(c)
           \/ \E i \in Images : Promote(c, i) \/ PromoteFails(c, i) \/ Compensate(c, i)
    PROVE  StorageDiscipline'
<1>. DEFINE q == cmd[c].post
<1>. USE DEF TypeOK, dbVars, storeVars
<1>1. /\ c \notin Workers /\ c # Cleaner
      /\ CommandHolds(c) /\ TasksAtHome /\ ImageRows
      /\ cmd[c].pc # "idle" => q \in Posts
      /\ cmd[c] \in CmdState
  BY ConstantsAssumption DEF StorageDiscipline, CmdsOK
<1>2. UNCHANGED task => TasksAtHome'
  BY <1>1 DEF TasksAtHome
<1>3. ASSUME NEW p \in Posts, NEW a \in Actions, Request(c, p, a) PROVE StorageDiscipline'
  <2>1. post[p].status # "ABSENT"
    BY <1>3, AllowedStatuses DEF Request
  <2>2. CommandHolds(c)'
    BY <1>3, <2>1 DEF Request, IdleCmd, CommandHolds, CmdsOK
  <2>3. /\ post' = post /\ image' = image /\ publicObjs' = publicObjs /\ task' = task
        /\ worker' = worker /\ cleaner' = cleaner /\ lock' = lock
        /\ \A d \in Cmds : d # c => cmd'[d] = cmd[d]
    BY <1>3 DEF Request, CmdsOK
  <2>. QED
    BY <1>1, <1>2, <2>2, <2>3, SameLocks, QuietStep
<1>4. ASSUME AcquireLock(c) PROVE StorageDiscipline'
  <2>1. /\ post' = post /\ image' = image /\ publicObjs' = publicObjs /\ task' = task
        /\ worker' = worker /\ cleaner' = cleaner
        /\ \A d \in Cmds : d # c => cmd'[d] = cmd[d]
    BY <1>4 DEF AcquireLock, CmdsOK
  <2>2. q \in Posts /\ lock[q] = None /\ lock' = [lock EXCEPT ![q] = c]
    BY <1>1, <1>4 DEF AcquireLock
  <2>3. \A h \in Holders : KeepsLocks(h)
    BY <2>2, TakeKeeps
  <2>4. /\ cmd'[c].pc \in {"locked", "working"} /\ cmd'[c].post = q
        /\ cmd'[c].pc = "working" => cmd'[c].action \notin Publishing
        /\ cmd'[c].images = cmd[c].images /\ cmd'[c].promoted = cmd[c].promoted
        /\ cmd[c].promoted = {} /\ post[q].status # "ABSENT"
    BY <1>1, <1>4 DEF AcquireLock, CmdsOK, CmdState, CommandHolds
  <2>5. lock'[q] = c
    BY <2>2 DEF LocksOK
  <2>6. CommandHolds(c)'
    BY <1>1, <2>1, <2>4, <2>5 DEF CommandHolds
  <2>. QED
    BY <1>1, <1>2, <2>1, <2>3, <2>6, QuietStep
<1>5. ASSUME Precheck(c) PROVE StorageDiscipline'
  <2>1. /\ post' = post /\ image' = image /\ publicObjs' = publicObjs /\ task' = task
        /\ worker' = worker /\ cleaner' = cleaner
    BY <1>5 DEF Precheck
  <2>2. CASE Leave(c)
    BY <1>1, <1>2, <2>1, <2>2, CommandLeaves, QuietStep
  <2>3. CASE ~Leave(c)
    <3>1. /\ lock' = lock /\ \A i \in Attached(q) : image[i].status \in Attachable
          /\ cmd' = [cmd EXCEPT ![c].pc = "working", ![c].images = Attached(q)]
      BY <1>5, <2>3 DEF Precheck
    <3>2. /\ cmd'[c].pc = "working" /\ cmd'[c].post = q /\ cmd'[c].images = Attached(q)
          /\ cmd'[c].promoted = {} /\ cmd[c].pc = "locked"
          /\ \A d \in Cmds : d # c => cmd'[d] = cmd[d]
      BY <1>1, <1>5, <3>1 DEF Precheck, CmdsOK, CmdState, CommandHolds
    <3>3. q \in Posts /\ q # None
      BY <1>1, <3>2, ConstantsAssumption
    <3>4. ASSUME NEW i \in Attached(q) PROVE q \in Home[i]
      <4>1. i \in Images /\ image[i].post = q
        BY DEF Attached
      <4>2. ImageRow(i)
        BY <1>1, <4>1 DEF ImageRows
      <4>. QED
        BY <3>3, <4>1, <4>2 DEF ImageRow
    <3>5. lock'[q] = c /\ post'[q].status # "ABSENT"
      BY <1>1, <2>1, <3>1, <3>2 DEF CommandHolds
    <3>6. Attached(q)' = Attached(q)
      BY <2>1, <3>2 DEF Attached
    <3>7. CommandHolds(c)'
      BY <2>1, <3>1, <3>2, <3>3, <3>4, <3>5, <3>6 DEF CommandHolds, Attached
    <3>. QED
      BY <1>1, <1>2, <2>1, <3>1, <3>2, <3>7, SameLocks, QuietStep
  <2>. QED
    BY <2>2, <2>3
<1>6. ASSUME NEW i \in Images, Promote(c, i) \/ PromoteFails(c, i) PROVE StorageDiscipline'
  <2>1. /\ post' = post /\ image' = image /\ task' = task /\ lock' = lock
        /\ worker' = worker /\ cleaner' = cleaner
        /\ publicObjs \subseteq publicObjs'
        /\ \A d \in Cmds : d # c => cmd'[d] = cmd[d]
    BY <1>6 DEF Promote, PromoteFails, CmdsOK
  <2>2. /\ cmd[c].pc = "working" /\ i \in cmd[c].images
        /\ cmd'[c].promoted = cmd[c].promoted \cup {i} /\ cmd'[c].images = cmd[c].images
        /\ cmd'[c].post = q /\ cmd'[c].action = cmd[c].action
        /\ \/ cmd'[c].pc = "working" /\ <<q, i>> \in publicObjs'
           \/ cmd'[c].pc = "compensating"
    BY <1>1, <1>6 DEF Promote, PromoteFails, CmdsOK, CmdState
  <2>3. Attached(q)' = Attached(q)
    BY <2>1, <2>2 DEF Attached
  <2>4. CommandHolds(c)'
    BY <1>1, <2>1, <2>2, <2>3 DEF CommandHolds, Attached
  <2>. QED
    BY <1>1, <1>2, <2>1, <2>4, SameLocks, QuietStep
<1>7. ASSUME NEW i \in Images, Compensate(c, i) PROVE StorageDiscipline'
  <2>1. /\ post' = post /\ image' = image /\ publicObjs' = publicObjs /\ lock' = lock
        /\ worker' = worker /\ cleaner' = cleaner
        /\ \A d \in Cmds : d # c => cmd'[d] = cmd[d]
    BY <1>7 DEF Compensate, CmdsOK
  <2>2. /\ cmd[c].pc = "compensating" /\ cmd'[c].pc = "compensating" /\ cmd'[c].post = q
        /\ cmd'[c].images = cmd[c].images /\ cmd'[c].promoted \subseteq cmd[c].promoted
    BY <1>1, <1>7 DEF Compensate, CmdsOK, CmdState
  <2>3. CommandHolds(c)'
    BY <1>1, <2>1, <2>2 DEF CommandHolds
  <2>4. TasksAtHome'
    BY <1>1, <1>7, EnqueueAtHome DEF Compensate, CommandHolds
  <2>. QED
    BY <1>1, <2>1, <2>3, <2>4, SameLocks, QuietStep
<1>8. ASSUME Rollback(c) PROVE StorageDiscipline'
  <2>1. /\ post' = post /\ image' = image /\ publicObjs' = publicObjs /\ lock' = lock
        /\ worker' = worker /\ cleaner' = cleaner /\ task' = task
        /\ \A d \in Cmds : d # c => cmd'[d] = cmd[d]
    BY <1>8 DEF Rollback, CmdsOK
  <2>2. /\ cmd[c].pc = "working" /\ cmd'[c].pc = "compensating" /\ cmd'[c].post = q
        /\ cmd'[c].images = cmd[c].images /\ cmd'[c].promoted = cmd[c].promoted
    BY <1>1, <1>8 DEF Rollback, CmdsOK, CmdState
  <2>3. CommandHolds(c)'
    BY <1>1, <2>1, <2>2 DEF CommandHolds
  <2>. QED
    BY <1>1, <1>2, <2>1, <2>3, SameLocks, QuietStep
<1>9. ASSUME Rethrow(c) \/ CommandDies(c) PROVE StorageDiscipline'
  <2>1. /\ post' = post /\ image' = image /\ publicObjs' = publicObjs /\ task' = task
        /\ worker' = worker /\ cleaner' = cleaner /\ Leave(c)
    BY <1>9 DEF Rethrow, CommandDies
  <2>. QED
    BY <1>1, <1>2, <2>1, CommandLeaves, QuietStep
<1>. QED
  BY <1>3, <1>4, <1>5, <1>6, <1>7, <1>8, <1>9

\* What a commit leaves to show: the image rows and the new outbox rows.
LEMMA CommitStep ==
    ASSUME TypeOK, StorageDiscipline, NEW c \in Cmds, NEW status \in PostStatus,
           InTransaction(c), Commit(c, status), status # "ABSENT", ImagesOK',
           \A i \in Images :
               \/ image'[i] = image[i]
               \/ /\ image[i].post \in {None, cmd[c].post}
                  /\ image'[i].post \in {None, cmd[c].post}
                  /\ image'[i].publicKey \in {image[i].publicKey, cmd[c].post},
           ImageRows', TasksAtHome'
    PROVE  StorageDiscipline'
<1>1. OthersUndisturbed(c) /\ CommandHolds(c)'
  BY CommitFrame
<1>2. c \notin Workers /\ c # Cleaner
  BY ConstantsAssumption
<1>. QED
  BY <1>1, <1>2, Discipline

LEMMA CommitFacts ==
    ASSUME TypeOK, StorageDiscipline, NEW c \in Cmds, NEW status, InTransaction(c),
           Commit(c, status)
    PROVE  /\ cmd[c].post \in Posts /\ cmd[c].post # None /\ lock[cmd[c].post] = c
           /\ post[cmd[c].post].status \in Allowed[cmd[c].action] /\ cmd[c].action \in Actions
           /\ post'[cmd[c].post].status = status
           /\ \A q \in Posts : q # cmd[c].post => post'[q] = post[q]
           /\ publicObjs' = publicObjs
  BY ConstantsAssumption
  DEF TypeOK, PostsOK, CmdsOK, CmdState, StorageDiscipline, CommandHolds, InTransaction, Current,
      Commit, storeVars

LEMMA CommitSteps ==
    ASSUME TypeOK, ImagesOK', StorageDiscipline, NEW c \in Cmds,
           \/ CommitPlain(c) \/ CommitPublish(c) \/ CommitHide(c) \/ CommitRemove(c)
           \/ \E S \in SUBSET Images : CommitBlocks(c, S)
    PROVE  StorageDiscipline'
<1>. DEFINE p == cmd[c].post
<1>1. ImageRows /\ TasksAtHome /\ CommandHolds(c)
  BY DEF StorageDiscipline
<1>2. \A i \in Images : image[i].post \in Posts \cup {None} /\ image[i].status \in ImageStatus
  BY DEF TypeOK, ImagesOK
<1>3. CASE CommitPlain(c)
  <2>. DEFINE status == CASE cmd[c].action = "update"     -> post[cmd[c].post].status
                          [] cmd[c].action = "schedule"   -> "SCHEDULED"
                          [] cmd[c].action = "unschedule" -> "DRAFT"
  <2>1. /\ InTransaction(c) /\ cmd[c].action \in {"update", "schedule", "unschedule"}
        /\ Commit(c, status) /\ UNCHANGED <<image, task>>
    BY <1>3 DEF CommitPlain
  <2>2. /\ status \in PostStatus /\ status # "ABSENT" /\ status # "PUBLISHED"
        /\ post[p].status # "PUBLISHED"
        /\ post[p].status = "HIDDEN_REVIEW" => status = "HIDDEN_REVIEW"
    BY <2>1, CommitFacts DEF Allowed, PostStatus
  <2>3. ImageRows'
    <3>1. SUFFICES ASSUME NEW i \in Images PROVE ImageRow(i)'
      BY DEF ImageRows
    <3>2. ImageRow(i) /\ image[i].post \in Posts \cup {None}
      BY <1>1, <1>2 DEF ImageRows
    <3>3. image'[i] = image[i] /\ publicObjs' = publicObjs
      BY <2>1, CommitFacts
    <3>4. /\ post'[p].status # "PUBLISHED" /\ post[p].status # "PUBLISHED"
          /\ post[p].status = "HIDDEN_REVIEW" => post'[p].status = "HIDDEN_REVIEW"
          /\ \A q \in Posts : q # p => post'[q] = post[q]
      <4>. HIDE DEF status
      <4>1. post'[p].status = status /\ \A q \in Posts : q # p => post'[q] = post[q]
        BY <2>1, CommitFacts
      <4>. QED
        BY <2>2, <4>1
    <3>. QED
      BY <3>2, <3>3, <3>4 DEF ImageRow
  <2>4. TasksAtHome'
    BY <1>1, <2>1 DEF TasksAtHome
  <2>. QED
    BY <2>1, <2>2, <2>3, <2>4, CommitStep
<1>4. CASE CommitPublish(c)
  <2>1. /\ InTransaction(c) /\ cmd[c].action \in Publishing /\ Commit(c, "PUBLISHED")
        /\ image' = [i \in Images |->
               IF i \in cmd[c].promoted /\ image[i].post = p
               THEN [image[i] EXCEPT !.status = "PUBLIC", !.publicKey = p] ELSE image[i]]
        /\ Enqueue(Purges(c))
    BY <1>4 DEF CommitPublish
  <2>2. /\ cmd[c].promoted = Attached(p)
        /\ \A i \in Attached(p) : image[i].status \in Attachable /\ <<p, i>> \in publicObjs
    BY <1>1, <2>1 DEF InTransaction, CommandHolds
  <2>3. \A i \in Images : IF image[i].post = p
                          THEN /\ image'[i].status = "PUBLIC" /\ image'[i].publicKey = p
                               /\ image'[i].post = p
                          ELSE image'[i] = image[i]
    <3>1. SUFFICES ASSUME NEW i \in Images
                   PROVE  IF image[i].post = p
                          THEN /\ image'[i].status = "PUBLIC" /\ image'[i].publicKey = p
                               /\ image'[i].post = p
                          ELSE image'[i] = image[i]
      OBVIOUS
    <3>2. image[i] \in [status: ImageStatus, post: Posts \cup {None}, publicKey: Posts \cup {None}]
      BY DEF TypeOK, ImagesOK
    <3>3. image'[i] = IF image[i].post = p
                      THEN [image[i] EXCEPT !.status = "PUBLIC", !.publicKey = p] ELSE image[i]
      BY <2>1, <2>2 DEF Attached
    <3>. QED
      BY <3>2, <3>3
  <2>4. ImageRows'
    <3>1. SUFFICES ASSUME NEW i \in Images PROVE ImageRow(i)'
      BY DEF ImageRows
    <3>2. ImageRow(i) /\ image[i].post \in Posts \cup {None} /\ p \in Posts
      BY <1>1, <1>2, <2>1, CommitFacts DEF ImageRows
    <3>3. /\ post'[p].status = "PUBLISHED" /\ publicObjs' = publicObjs
          /\ \A q \in Posts : q # p => post'[q] = post[q]
      BY <2>1, CommitFacts
    <3>4. CASE image[i].post = p
      <4>1. /\ image'[i].status = "PUBLIC" /\ image'[i].publicKey = p /\ image'[i].post = p
            /\ <<p, i>> \in publicObjs /\ p # None
        BY <2>1, <2>2, <2>3, <3>4, CommitFacts DEF Attached
      <4>2. p \in Home[i]
        BY <3>2, <3>4, <4>1 DEF ImageRow
      <4>. QED
        BY <3>3, <4>1, <4>2 DEF ImageRow
    <3>5. CASE image[i].post # p
      BY <2>3, <3>2, <3>3, <3>5 DEF ImageRow
    <3>. QED
      BY <3>4, <3>5
  <2>5. \A k \in Purges(c) : k[1] = "CACHE_PURGE"
    BY DEF Purges
  <2>6. TasksAtHome'
    BY <1>1, <2>1, <2>5, EnqueueAtHome DEF PublicKinds
  <2>. QED
    BY <2>1, <2>3, <2>4, <2>6, CommitStep DEF PostStatus
<1>5. CASE CommitHide(c)
  <2>1. /\ InTransaction(c) /\ cmd[c].action = "hide" /\ Commit(c, "HIDDEN_REVIEW")
        /\ \A i \in Attached(p) : image[i].status = "PUBLIC"
        /\ image' = [i \in Images |->
               IF i \in Attached(p) THEN [image[i] EXCEPT !.status = "PUBLIC_DELETE_PENDING"]
               ELSE image[i]]
        /\ Enqueue(Purges(c) \cup {<<"DELETE_PUBLIC", image[i].publicKey, i>> : i \in Attached(p)})
    BY <1>5 DEF CommitHide
  <2>2. \A i \in Images : IF image[i].post = p
                          THEN /\ image'[i].status = "PUBLIC_DELETE_PENDING"
                               /\ image'[i].publicKey = image[i].publicKey
                               /\ image'[i].post = p /\ image[i].status = "PUBLIC"
                          ELSE image'[i] = image[i]
    BY <2>1 DEF Attached, TypeOK, ImagesOK
  <2>3. ImageRows'
    <3>1. SUFFICES ASSUME NEW i \in Images PROVE ImageRow(i)'
      BY DEF ImageRows
    <3>2. ImageRow(i) /\ image[i].post \in Posts \cup {None} /\ p \in Posts
      BY <1>1, <1>2, <2>1, CommitFacts DEF ImageRows
    <3>3. /\ post'[p].status = "HIDDEN_REVIEW" /\ publicObjs' = publicObjs
          /\ \A q \in Posts : q # p => post'[q] = post[q]
      BY <2>1, CommitFacts
    <3>4. CASE image[i].post = p
      <4>1. /\ image'[i].status = "PUBLIC_DELETE_PENDING" /\ image'[i].post = p
            /\ image'[i].publicKey = image[i].publicKey /\ image[i].status = "PUBLIC"
        BY <2>2, <3>4
      <4>. QED
        BY <3>2, <3>3, <3>4, <4>1 DEF ImageRow
    <3>5. CASE image[i].post # p
      BY <2>2, <3>2, <3>3, <3>5 DEF ImageRow
    <3>. QED
      BY <3>4, <3>5
  <2>4. \A i \in Attached(p) : image[i].publicKey = p /\ p \in Home[i]
    <3>1. SUFFICES ASSUME NEW i \in Images, image[i].post = p
                   PROVE  image[i].publicKey = p /\ p \in Home[i]
      BY DEF Attached
    <3>2. ImageRow(i) /\ image[i].status = "PUBLIC" /\ p # None
      BY <1>1, <2>1, <2>2, <3>1, CommitFacts DEF ImageRows
    <3>. QED
      BY <3>1, <3>2 DEF ImageRow
  <2>5. TasksAtHome'
    BY <1>1, <2>1, <2>4, EnqueueAtHome DEF Purges, PublicKinds
  <2>. QED
    BY <2>1, <2>2, <2>3, <2>5, CommitStep DEF PostStatus
<1>6. CASE CommitRemove(c)
  <2>1. /\ InTransaction(c) /\ cmd[c].action = "remove" /\ Commit(c, "REMOVED")
        /\ \A i \in Attached(p) : image[i].status # "PUBLIC_DELETE_PENDING"
        /\ image' = [i \in Images |->
               IF i \in Attached(p) THEN [image[i] EXCEPT !.status = "PRIVATE_DELETE_PENDING"]
               ELSE image[i]]
        /\ Enqueue(Purges(c) \cup {<<"DELETE_PRIVATE", None, i>> : i \in Attached(p)})
    BY <1>6 DEF CommitRemove
  <2>2. \A i \in Images : IF image[i].post = p
                          THEN /\ image'[i].status = "PRIVATE_DELETE_PENDING"
                               /\ image'[i].publicKey = image[i].publicKey
                               /\ image'[i].post = p /\ image[i].status # "PUBLIC_DELETE_PENDING"
                          ELSE image'[i] = image[i]
    BY <2>1 DEF Attached, TypeOK, ImagesOK
  <2>3. ImageRows'
    <3>1. SUFFICES ASSUME NEW i \in Images PROVE ImageRow(i)'
      BY DEF ImageRows
    <3>2. ImageRow(i) /\ image[i].post \in Posts \cup {None} /\ p \in Posts
      BY <1>1, <1>2, <2>1, CommitFacts DEF ImageRows
    <3>3. /\ post'[p].status = "REMOVED" /\ post[p].status = "HIDDEN_REVIEW"
          /\ publicObjs' = publicObjs /\ \A q \in Posts : q # p => post'[q] = post[q]
      BY <2>1, CommitFacts, AllowedStatuses
    <3>4. CASE image[i].post = p
      <4>1. /\ image'[i].status = "PRIVATE_DELETE_PENDING" /\ image'[i].post = p
            /\ image'[i].publicKey = image[i].publicKey
            /\ image[i].status \notin {"PUBLIC", "PUBLIC_DELETE_PENDING"}
        BY <2>2, <3>2, <3>3, <3>4 DEF ImageRow
      <4>. QED
        BY <3>2, <3>3, <3>4, <4>1 DEF ImageRow
    <3>5. CASE image[i].post # p
      BY <2>2, <3>2, <3>3, <3>5 DEF ImageRow
    <3>. QED
      BY <3>4, <3>5
  <2>4. TasksAtHome'
    BY <1>1, <2>1, EnqueueAtHome DEF Purges, PublicKinds
  <2>. QED
    BY <2>1, <2>2, <2>3, <2>4, CommitStep DEF PostStatus
<1>7. ASSUME NEW S \in SUBSET Images, CommitBlocks(c, S) PROVE StorageDiscipline'
  <2>. DEFINE discarded == {i \in Attached(p) \ S : image[i].status = "PRIVATE_REVIEW"}
  <2>1. /\ InTransaction(c) /\ cmd[c].action = "update" /\ Commit(c, post[p].status)
        /\ post[p].status = "HIDDEN_REVIEW" =>
               \A i \in Attached(p) : image[i].status # "PUBLIC_DELETE_PENDING"
        /\ \A i \in S : p \in Home[i] /\ image[i].post \in {None, p}
                            /\ image[i].status \in Attachable
        /\ Enqueue({<<"DELETE_PRIVATE", None, i>> : i \in discarded})
    BY <1>7 DEF CommitBlocks
  <2>2. post[p].status \in {"DRAFT", "SCHEDULED", "HIDDEN_REVIEW"}
    BY <2>1, CommitFacts DEF Allowed
  <2>3. \A i \in Images :
           \/ i \in S /\ image'[i] = [image[i] EXCEPT !.post = p]
           \/ i \notin S /\ image[i].post = p /\ image'[i] =
                  [image[i] EXCEPT !.post = None, !.status = "PRIVATE_DELETE_PENDING"]
           \/ i \notin S /\ image[i].post = p /\ image'[i] =
                  [image[i] EXCEPT !.post = None, !.status = "STAGED"]
           \/ i \notin S /\ image[i].post # p /\ image'[i] = image[i]
    BY <1>7 DEF CommitBlocks, Attached, Detached
  <2>4. ASSUME NEW i \in Images
        PROVE  \/ /\ i \in S /\ image'[i].post = p /\ image'[i].publicKey = image[i].publicKey
                  /\ image'[i].status = image[i].status
               \/ /\ i \notin S /\ image[i].post = p /\ image'[i].post = None
                  /\ image'[i].publicKey = image[i].publicKey
                  /\ image'[i].status \in {"STAGED", "PRIVATE_DELETE_PENDING"}
               \/ i \notin S /\ image[i].post # p /\ image'[i] = image[i]
    <3>1. image[i] \in [status: ImageStatus, post: Posts \cup {None}, publicKey: Posts \cup {None}]
      BY DEF TypeOK, ImagesOK
    <3>. QED
      BY <2>3, <3>1
  <2>5. ImageRows'
    <3>1. SUFFICES ASSUME NEW i \in Images PROVE ImageRow(i)'
      BY DEF ImageRows
    <3>2. ImageRow(i) /\ image[i].post \in Posts \cup {None} /\ p \in Posts /\ p # None
      BY <1>1, <1>2, <2>1, CommitFacts DEF ImageRows
    <3>3. CASE i \in S
      <4>1. image[i].status \in {"STAGED", "PRIVATE_REVIEW"} /\ p \in Home[i]
        BY <2>1, <3>3 DEF Attachable
      <4>2. image'[i].post = p /\ image'[i].publicKey = None /\ image'[i].status = image[i].status
        BY <2>4, <3>2, <3>3, <4>1 DEF ImageRow
      <4>3. post'[p].status # "PUBLISHED"
        BY <2>1, <2>2, CommitFacts
      <4>. QED
        BY <3>2, <4>1, <4>2, <4>3 DEF ImageRow
    <3>4. CASE i \notin S /\ image[i].post = p
      <4>1. image[i].status \notin {"PUBLIC", "PUBLIC_DELETE_PENDING"}
        BY <2>1, <2>2, <3>2, <3>4 DEF ImageRow, Attached
      <4>2. /\ image'[i].post = None /\ image'[i].publicKey = None
            /\ image'[i].status \in {"STAGED", "PRIVATE_DELETE_PENDING"}
        BY <2>4, <3>2, <3>4, <4>1 DEF ImageRow
      <4>. QED
        BY <4>2 DEF ImageRow
    <3>5. CASE i \notin S /\ image[i].post # p
      <4>1. image'[i] = image[i]
        BY <2>4, <3>5
      <4>. QED
        BY <2>1, <3>2, <3>5, <4>1, CommitFacts DEF ImageRow
    <3>. QED
      BY <3>3, <3>4, <3>5
  <2>6. TasksAtHome'
    BY <1>1, <2>1, EnqueueAtHome DEF PublicKinds
  <2>7. \A i \in Images :
            \/ image'[i] = image[i]
            \/ /\ image[i].post \in {None, p} /\ image'[i].post \in {None, p}
               /\ image'[i].publicKey \in {image[i].publicKey, p}
    BY <2>1, <2>4
  <2>8. post[p].status \in PostStatus /\ post[p].status # "ABSENT"
    BY <2>2 DEF PostStatus
  <2>. QED
    BY <2>1, <2>5, <2>6, <2>7, <2>8, CommitStep
<1>. QED
  BY <1>3, <1>4, <1>5, <1>6, <1>7

----------------------------------------------------------------------------
(* The steps of an outbox worker *)

\* While a worker or the cleaner holds the lock of post q, no row says that an image is
\* public under q: an object whose key nobody's PUBLIC row owns may go.
LEMMA DeletionHarmless ==
    ASSUME TypeOK, StorageDiscipline, NEW actor \in Holders, actor \notin Cmds,
           NEW p \in Posts, NEW i \in Images, lock[p] = actor,
           ~(Owns(p, i) /\ image[i].status = "PUBLIC"),
           image' = image, post' = post, publicObjs' = publicObjs \ {<<p, i>>}
    PROVE  /\ ImageRows'
           /\ \A h \in Holders : h # actor => KeepsKeys(h) /\ KeepsImages(h) /\ KeepsObjects(h)
<1>1. ImageRows'
  <2>1. SUFFICES ASSUME NEW j \in Images PROVE ImageRow(j)'
    BY DEF ImageRows
  <2>2. ImageRow(j)
    BY DEF StorageDiscipline, ImageRows
  <2>3. image[j].status = "PUBLIC" => <<image[j].post, j>> # <<p, i>>
    BY <2>2 DEF ImageRow, Owns
  <2>. QED
    BY <2>2, <2>3 DEF ImageRow
<1>2. ASSUME NEW h \in Holders, h # actor PROVE KeepsObjects(h)
  BY <1>2 DEF KeepsObjects
<1>3. \A h : KeepsKeys(h) /\ KeepsImages(h)
  BY DEF KeepsKeys, KeepsImages
<1>. QED
  BY <1>1, <1>2, <1>3

LEMMA WorkerSteps ==
    ASSUME NoSharing, TypeOK, ImagesOK', StorageDiscipline, NEW w \in Workers,
           \/ \E m \in Messages : Claim(w, m)
           \/ ReadImage(w) \/ WorkerLocks(w) \/ Execute(w) \/ DeleteObject(w) \/ PurgeCache(w)
           \/ FinishTask(w) \/ TaskThrows(w) \/ FailTask(w) \/ WorkerDies(w)
    PROVE  StorageDiscipline'
<1>. DEFINE msg == worker[w].msg
            Quietly == /\ post' = post /\ image' = image /\ publicObjs' = publicObjs
                       /\ cmd' = cmd /\ cleaner' = cleaner
                       /\ \A v \in Workers : v # w => worker'[v] = worker[v]
<1>1. /\ w \notin Cmds /\ w # Cleaner /\ w \in Holders
      /\ WorkerHolds(w) /\ TasksAtHome /\ ImageRows
      /\ worker[w].pc # "idle" => msg \in Messages
      /\ worker[w] \in WorkerState
  BY ConstantsAssumption DEF StorageDiscipline, TypeOK, WorkersOK, Holders
<1>2. UNCHANGED task => TasksAtHome'
  BY <1>1 DEF TasksAtHome
<1>3. ASSUME Quietly, TasksAtHome', WorkerHolds(w)', \A h \in Holders : h # w => KeepsLocks(h)
      PROVE  StorageDiscipline'
  BY <1>1, <1>3, QuietStep
<1>4. ASSUME NEW m \in Messages, Claim(w, m) PROVE StorageDiscipline'
  <2>1. Quietly /\ lock' = lock /\ task[m].status # "NONE"
    BY <1>4 DEF Claim, storeVars, TypeOK, WorkersOK
  <2>2. TasksAtHome'
    BY <1>1, <1>4, <2>1, SameTasks DEF Claim, TypeOK, TasksOK
  <2>3. worker'[w] = [pc |-> "claimed", msg |-> m, lock |-> None]
    BY <1>4 DEF Claim, TypeOK, WorkersOK
  <2>4. WorkerHolds(w)'
    BY <1>1, <2>1, <2>3 DEF WorkerHolds, TasksAtHome
  <2>. QED
    BY <1>3, <2>1, <2>2, <2>4, SameLocks
<1>5. ASSUME ReadImage(w) PROVE StorageDiscipline'
  <2>1. Quietly /\ lock' = lock /\ task' = task /\ msg \in Messages
    BY <1>1, <1>5 DEF ReadImage, dbVars, storeVars, TypeOK, WorkersOK
  <2>2. /\ worker'[w].lock = StoragePost(msg) /\ worker'[w].msg = msg
        /\ worker'[w].pc \in {"execute", "waiting"}
        /\ worker'[w].pc = "execute" => StoragePost(msg) = None
        /\ worker[w].pc = "claimed"
    BY <1>1, <1>5 DEF ReadImage, TypeOK, WorkersOK, WorkerState
  <2>3. msg.kind \in PublicKinds => StoragePost(msg) = msg.post
    <3>1. SUFFICES ASSUME msg.kind \in PublicKinds, image[msg.image].post # None
                   PROVE  image[msg.image].post = msg.post
      BY DEF StoragePost, PublicKinds
    <3>2. msg.image \in Images /\ msg.post \in Home[msg.image]
      BY <1>1, <2>1, <2>2, <3>1, MessageType DEF WorkerHolds, PublicKinds
    <3>3. image[msg.image].post \in Home[msg.image]
      BY <1>1, <3>1, <3>2 DEF ImageRows, ImageRow
    <3>. QED
      BY <3>2, <3>3 DEF NoSharing
  <2>4. msg.kind \in PublicKinds => msg.post \in Home[msg.image]
    BY <1>1, <2>2 DEF WorkerHolds
  <2>5. WorkerHolds(w)'
    BY <2>1, <2>2, <2>3, <2>4 DEF WorkerHolds
  <2>. QED
    BY <1>2, <1>3, <2>1, <2>5, SameLocks
<1>6. ASSUME WorkerLocks(w) PROVE StorageDiscipline'
  <2>1. Quietly /\ task' = task
    BY <1>6 DEF WorkerLocks, dbVars, storeVars, TypeOK, WorkersOK
  <2>2. /\ worker[w].pc = "waiting" /\ worker[w].lock \in Posts
        /\ lock[worker[w].lock] = None /\ lock' = [lock EXCEPT ![worker[w].lock] = w]
    BY <1>6 DEF WorkerLocks, TypeOK, WorkersOK
  <2>3. \A h \in Holders : KeepsLocks(h)
    BY <2>2, TakeKeeps
  <2>4. /\ worker'[w].pc = "execute" /\ worker'[w].msg = msg /\ worker'[w].lock = worker[w].lock
        /\ lock'[worker[w].lock] = w
    BY <1>1, <1>6, <2>2 DEF WorkerLocks, TypeOK, WorkersOK, WorkerState, LocksOK
  <2>5. WorkerHolds(w)'
    BY <1>1, <2>2, <2>4 DEF WorkerHolds
  <2>. QED
    BY <1>2, <1>3, <2>1, <2>3, <2>5
<1>7. ASSUME Execute(w) PROVE StorageDiscipline'
  <2>1. post' = post /\ image' = image /\ publicObjs' = publicObjs /\ task' = task
        /\ cmd' = cmd /\ cleaner' = cleaner
    BY <1>7 DEF Execute, dbVars, storeVars
  <2>2. CASE WorkerLeaves(w)
    BY <1>1, <1>2, <2>1, <2>2, WorkerGoes, QuietStep
  <2>3. CASE ~WorkerLeaves(w)
    <3>1. /\ lock' = lock /\ worker[w].pc = "execute"
          /\ worker' = [worker EXCEPT ![w].pc = IF msg.kind = "CACHE_PURGE" THEN "purge"
                                                ELSE IF Deletes(msg) THEN "delete" ELSE "finish"]
      BY <1>7, <2>3 DEF Execute
    <3>2. /\ worker'[w].pc \in {"purge", "delete", "finish"}
          /\ worker'[w].pc = "delete" => Deletes(msg)
          /\ worker'[w].msg = msg /\ worker'[w].lock = worker[w].lock
          /\ \A v \in Workers : v # w => worker'[v] = worker[v]
      BY <1>1, <3>1 DEF TypeOK, WorkersOK, WorkerState
    <3>3. Deletes(msg) /\ msg.kind \in PublicKinds =>
              ~(Owns(msg.post, msg.image) /\ image[msg.image].status = "PUBLIC")
      BY DEF Deletes, PublicKinds
    <3>4. WorkerHolds(w)'
      BY <1>1, <2>1, <3>1, <3>2, <3>3 DEF WorkerHolds, Owns
    <3>. QED
      BY <1>2, <1>3, <2>1, <3>1, <3>2, <3>4, SameLocks
  <2>. QED
    BY <2>2, <2>3
<1>8. ASSUME DeleteObject(w) PROVE StorageDiscipline'
  <2>1. /\ worker[w].pc = "delete" /\ post' = post /\ image' = image /\ task' = task
        /\ lock' = lock /\ cmd' = cmd /\ cleaner' = cleaner
        /\ \A v \in Workers : v # w => worker'[v] = worker[v]
    BY <1>8 DEF DeleteObject, dbVars, TypeOK, WorkersOK
  <2>2. /\ worker'[w].pc \in {"finish", "purge"} /\ worker'[w].msg = msg
        /\ worker'[w].lock = worker[w].lock
    BY <1>1, <1>8 DEF DeleteObject, TypeOK, WorkersOK, WorkerState
  <2>3. WorkerHolds(w)'
    BY <1>1, <2>1, <2>2 DEF WorkerHolds
  <2>4. CASE msg.kind = "DELETE_PRIVATE"
    <3>1. publicObjs' = publicObjs
      BY <1>8, <2>4 DEF DeleteObject
    <3>. QED
      BY <1>2, <1>3, <2>1, <2>3, <3>1, SameLocks
  <2>5. CASE msg.kind \in PublicKinds
    <3>1. msg.post \in Posts /\ msg.image \in Images
      BY <1>1, <2>1, <2>5, MessageType DEF PublicKinds
    <3>2. publicObjs' = publicObjs \ {<<msg.post, msg.image>>}
      BY <1>8, <2>5 DEF DeleteObject, PublicKinds
    <3>3. /\ lock[msg.post] = w
          /\ ~(Owns(msg.post, msg.image) /\ image[msg.image].status = "PUBLIC")
      BY <1>1, <2>1, <2>5, <3>1, ConstantsAssumption DEF WorkerHolds
    <3>4. /\ ImageRows'
          /\ \A h \in Holders : h # w => KeepsKeys(h) /\ KeepsImages(h) /\ KeepsObjects(h)
      BY <1>1, <2>1, <3>1, <3>2, <3>3, DeletionHarmless
    <3>5. PostsStay /\ \A h : KeepsLocks(h)
      BY <2>1, SameLocks DEF PostsStay
    <3>6. OthersUndisturbed(w)
      BY <2>1, <3>4, <3>5 DEF OthersUndisturbed
    <3>. QED
      BY <1>1, <1>2, <2>1, <2>3, <3>4, <3>6, Discipline
  <2>6. CASE msg.kind = "CACHE_PURGE"
    <3>1. msg.image = None
      BY <1>1, <2>1, <2>6 DEF Messages
    <3>2. publicObjs' = publicObjs \ {<<msg.post, None>>}
      BY <1>8, <2>6, <3>1 DEF DeleteObject
    <3>3. publicObjs' = publicObjs
      BY <3>2, ConstantsAssumption DEF TypeOK, StoresOK, Keys
    <3>. QED
      BY <1>2, <1>3, <2>1, <2>3, <3>3, SameLocks
  <2>. QED
    BY <1>1, <2>1, <2>4, <2>5, <2>6, MessageType DEF Kinds, PublicKinds
<1>9. ASSUME PurgeCache(w) PROVE StorageDiscipline'
  <2>1. Quietly /\ lock' = lock /\ task' = task
    BY <1>9 DEF PurgeCache, dbVars, TypeOK, WorkersOK
  <2>2. /\ worker[w].pc = "purge" /\ worker'[w].pc = "finish" /\ worker'[w].msg = msg
        /\ worker'[w].lock = worker[w].lock
    BY <1>1, <1>9 DEF PurgeCache, TypeOK, WorkersOK, WorkerState
  <2>3. WorkerHolds(w)'
    BY <1>1, <2>1, <2>2 DEF WorkerHolds
  <2>. QED
    BY <1>2, <1>3, <2>1, <2>3, SameLocks
<1>10. ASSUME FinishTask(w) PROVE StorageDiscipline'
  <2>1. /\ worker[w].pc = "finish" /\ WorkerLeaves(w) /\ post' = post /\ publicObjs' = publicObjs
        /\ cmd' = cmd /\ cleaner' = cleaner /\ msg \in Messages
    BY <1>1, <1>10 DEF FinishTask, storeVars
  <2>2. \A m \in Messages : task'[m].status # "NONE" => task[m].status # "NONE"
    <3>1. task' = [task EXCEPT ![msg] = NoTask] \/ task' = task
      BY <1>10 DEF FinishTask
    <3>2. task \in [Messages -> TaskRow] /\ NoTask.status = "NONE"
      BY DEF TypeOK, TasksOK, NoTask
    <3>. QED
      BY <2>1, <3>1, <3>2
  <2>3. TasksAtHome'
    BY <1>1, <2>2, SameTasks
  <2>4. ASSUME NEW i \in Images
        PROVE  \/ image'[i] = image[i]
               \/ /\ image[i].status = "PUBLIC_DELETE_PENDING"
                  /\ image'[i].status = "PRIVATE_REVIEW" /\ image'[i].publicKey = None
                  /\ image'[i].post = image[i].post
               \/ /\ image[i].status = "PRIVATE_DELETE_PENDING"
                  /\ image'[i].status = "DELETED" /\ image'[i].publicKey = image[i].publicKey
                  /\ image'[i].post = image[i].post
    <3>1. \/ image' = image
          \/ /\ image[msg.image].status = "PUBLIC_DELETE_PENDING"
             /\ image' = [image EXCEPT ![msg.image].status = "PRIVATE_REVIEW",
                                       ![msg.image].publicKey = None]
          \/ /\ image[msg.image].status = "PRIVATE_DELETE_PENDING"
             /\ image' = [image EXCEPT ![msg.image].status = "DELETED"]
      BY <1>10 DEF FinishTask
    <3>2. image \in [Images -> [status: ImageStatus, post: Posts \cup {None},
                               publicKey: Posts \cup {None}]]
      BY DEF TypeOK, ImagesOK
    <3>. QED
      BY <3>1, <3>2
  <2>5. ImageRows'
    <3>1. SUFFICES ASSUME NEW i \in Images PROVE ImageRow(i)'
      BY DEF ImageRows
    <3>2. ImageRow(i) /\ image[i].post \in Posts \cup {None}
      BY <1>1 DEF ImageRows, TypeOK, ImagesOK
    <3>. QED
      BY <2>1, <2>4, <3>2 DEF ImageRow
  <2>6. ASSUME NEW h \in Holders PROVE KeepsKeys(h) /\ KeepsImages(h) /\ KeepsObjects(h)
    <3>1. KeepsKeys(h)
      BY <2>4, ConstantsAssumption DEF KeepsKeys
    <3>2. KeepsImages(h)
      BY <2>4 DEF KeepsImages, Attachable
    <3>. QED
      BY <2>1, <3>1, <3>2 DEF KeepsObjects
  <2>7. PostsStay /\ \A h \in Holders : h # w => KeepsLocks(h)
    BY <2>1, WorkerGoes DEF PostsStay
  <2>8. WorkerHolds(w)' /\ \A v \in Workers : v # w => worker'[v] = worker[v]
    BY <2>1, WorkerGoes
  <2>9. OthersUndisturbed(w)
    BY <2>1, <2>6, <2>7, <2>8 DEF OthersUndisturbed
  <2>. QED
    BY <1>1, <2>3, <2>5, <2>8, <2>9, Discipline
<1>11. ASSUME TaskThrows(w) PROVE StorageDiscipline'
  <2>1. Quietly /\ task' = task /\ lock' = Released(w)
    BY <1>11 DEF TaskThrows, dbVars, storeVars, TypeOK, WorkersOK
  <2>2. /\ worker[w].pc # "idle" /\ worker'[w].pc = "failing" /\ worker'[w].msg = msg
        /\ worker'[w].lock = None
    BY <1>1, <1>11 DEF TaskThrows, TypeOK, WorkersOK, WorkerState
  <2>3. WorkerHolds(w)'
    BY <1>1, <2>1, <2>2 DEF WorkerHolds
  <2>. QED
    BY <1>2, <1>3, <2>1, <2>3, ReleaseKeeps
<1>12. ASSUME FailTask(w) PROVE StorageDiscipline'
  <2>1. Quietly /\ lock' = lock /\ worker'[w] = IdleWorker /\ worker[w].pc = "failing"
    BY <1>12 DEF FailTask, storeVars, TypeOK, WorkersOK
  <2>2. \A m \in Messages : task'[m].status # "NONE" => task[m].status # "NONE"
    BY <1>1, <1>12, <2>1 DEF FailTask, Owned, TypeOK, TasksOK
  <2>3. TasksAtHome'
    BY <1>1, <2>2, SameTasks
  <2>4. WorkerHolds(w)'
    BY <2>1 DEF WorkerHolds, IdleWorker
  <2>. QED
    BY <1>3, <2>1, <2>3, <2>4, SameLocks
<1>13. ASSUME WorkerDies(w) PROVE StorageDiscipline'
  <2>1. /\ post' = post /\ image' = image /\ publicObjs' = publicObjs /\ task' = task
        /\ cmd' = cmd /\ cleaner' = cleaner /\ WorkerLeaves(w)
    BY <1>13 DEF WorkerDies, dbVars, storeVars
  <2>. QED
    BY <1>2, <1>3, <2>1, WorkerGoes
<1>. QED
  BY <1>4, <1>5, <1>6, <1>7, <1>8, <1>9, <1>10, <1>11, <1>12, <1>13

----------------------------------------------------------------------------
(* The steps of the cleanup job *)

LEMMA CleanerSteps ==
    ASSUME TypeOK, StorageDiscipline, CleanerStep
    PROVE  StorageDiscipline'
<1>1. /\ Cleaner \notin Cmds /\ Cleaner \notin Workers /\ Cleaner \in Holders
      /\ CleanerHolds /\ TasksAtHome /\ ImageRows
      /\ cleaner.pc # "idle" => cleaner.key \in Keys
  BY ConstantsAssumption DEF StorageDiscipline, TypeOK, CleanerOK, Holders
<1>2. cmd' = cmd /\ worker' = worker /\ post' = post /\ image' = image /\ task' = task
  BY DEF CleanerStep, CleanPick, CleanLock, CleanCheck, CleanDelete, CleanerDies, dbVars
<1>3. TasksAtHome'
  BY <1>1, <1>2 DEF TasksAtHome
<1>4. ASSUME publicObjs' = publicObjs, CleanerHolds', \A h \in Holders : h # Cleaner => KeepsLocks(h)
      PROVE  StorageDiscipline'
  BY <1>1, <1>2, <1>3, <1>4, QuietStep
<1>5. ASSUME NEW k \in Keys, CleanPick(k) PROVE StorageDiscipline'
  <2>1. CleanerHolds'
    BY <1>5 DEF CleanPick, CleanerHolds
  <2>. QED
    BY <1>4, <1>5, <2>1, SameLocks DEF CleanPick, storeVars
<1>6. ASSUME CleanLock PROVE StorageDiscipline'
  <2>1. /\ cleaner.pc = "waiting" /\ cleaner.key[1] \in Posts /\ lock[cleaner.key[1]] = None
        /\ lock' = [lock EXCEPT ![cleaner.key[1]] = Cleaner]
    BY <1>1, <1>6 DEF CleanLock, Keys
  <2>2. cleaner' = [cleaner EXCEPT !.pc = "locked"] /\ publicObjs' = publicObjs
    BY <1>6 DEF CleanLock, storeVars
  <2>3. cleaner'.pc = "locked" /\ cleaner'.key = cleaner.key
    BY <2>2 DEF TypeOK, CleanerOK
  <2>4. CleanerHolds'
    BY <2>1, <2>3 DEF CleanerHolds, TypeOK, LocksOK
  <2>. QED
    BY <1>4, <2>1, <2>2, <2>4, TakeKeeps
<1>7. ASSUME CleanCheck PROVE StorageDiscipline'
  <2>1. publicObjs' = publicObjs /\ cleaner.pc = "locked"
    BY <1>7 DEF CleanCheck, storeVars
  <2>2. CASE CleanerLeaves
    BY <1>4, <2>1, <2>2, CleanerGoes
  <2>3. CASE ~CleanerLeaves
    <3>1. /\ ~Owns(cleaner.key[1], cleaner.key[2]) /\ lock' = lock
          /\ cleaner' = [cleaner EXCEPT !.pc = "delete"]
      BY <1>7, <2>3 DEF CleanCheck, Referenced
    <3>2. cleaner'.pc = "delete" /\ cleaner'.key = cleaner.key
      BY <3>1 DEF TypeOK, CleanerOK
    <3>3. CleanerHolds'
      BY <1>1, <1>2, <2>1, <3>1, <3>2 DEF CleanerHolds, Owns
    <3>. QED
      BY <1>4, <2>1, <3>1, <3>3, SameLocks
  <2>. QED
    BY <2>2, <2>3
<1>8. ASSUME CleanDelete PROVE StorageDiscipline'
  <2>1. /\ cleaner.pc = "delete" /\ CleanerLeaves
        /\ publicObjs' = publicObjs \ {cleaner.key}
    BY <1>8 DEF CleanDelete
  <2>2. PICK p \in Posts, i \in Images : cleaner.key = <<p, i>>
    BY <1>1, <2>1 DEF Keys
  <2>3. lock[p] = Cleaner /\ ~Owns(p, i)
    BY <1>1, <2>1, <2>2 DEF CleanerHolds
  <2>4. /\ ImageRows'
        /\ \A h \in Holders : h # Cleaner => KeepsKeys(h) /\ KeepsImages(h) /\ KeepsObjects(h)
    BY <1>1, <1>2, <2>1, <2>2, <2>3, DeletionHarmless
  <2>5. CleanerHolds' /\ \A h \in Holders : h # Cleaner => KeepsLocks(h)
    BY <2>1, CleanerGoes
  <2>6. OthersUndisturbed(Cleaner)
    BY <1>2, <2>4, <2>5 DEF OthersUndisturbed, PostsStay
  <2>. QED
    BY <1>1, <1>3, <2>4, <2>5, <2>6, Discipline
<1>9. ASSUME CleanerDies PROVE StorageDiscipline'
  BY <1>4, <1>9, CleanerGoes DEF CleanerDies, storeVars
<1>. QED
  BY <1>5, <1>6, <1>7, <1>8, <1>9 DEF CleanerStep

----------------------------------------------------------------------------
(* The steps without an actor, and the theorem *)

LEMMA OtherSteps ==
    ASSUME TypeOK, StorageDiscipline,
           \/ \E p \in Posts, S \in SUBSET Images : CreateDraft(p, S)
           \/ \E i \in Images : Discard(i)
           \/ \E m \in Messages : RecoverExpired(m)
           \/ \E k \in Keys : FetchImage(k)
           \/ \E p \in Posts : FetchPage(p)
           \/ UNCHANGED vars
    PROVE  StorageDiscipline'
<1>1. None \notin Cmds /\ None \notin Workers /\ None # Cleaner
  BY ConstantsAssumption
<1>2. /\ lock' = lock /\ cmd' = cmd /\ worker' = worker /\ cleaner' = cleaner
      /\ publicObjs' = publicObjs
  BY DEF CreateDraft, Discard, RecoverExpired, FetchImage, FetchPage, vars, storeVars
<1>3. ImageRows /\ TasksAtHome
  BY DEF StorageDiscipline
<1>4. ASSUME PostsStay, ImageRows', TasksAtHome',
             \A h \in Holders : KeepsKeys(h) /\ KeepsImages(h)
      PROVE  StorageDiscipline'
  <2>1. \A h \in Holders : KeepsLocks(h) /\ KeepsObjects(h)
    BY <1>2 DEF KeepsLocks, KeepsObjects
  <2>2. OthersUndisturbed(None)
    BY <1>2, <1>4, <2>1 DEF OthersUndisturbed
  <2>. QED
    BY <1>1, <1>4, <2>2, Discipline
<1>5. ASSUME post' = post, image' = image, TasksAtHome' PROVE StorageDiscipline'
  <2>1. \A h : KeepsKeys(h) /\ KeepsImages(h)
    BY <1>5 DEF KeepsKeys, KeepsImages
  <2>2. PostsStay /\ ImageRows'
    BY <1>2, <1>3, <1>5 DEF PostsStay, ImageRows, ImageRow
  <2>. QED
    BY <1>4, <1>5, <2>1, <2>2
<1>6. ASSUME NEW p \in Posts, NEW S \in SUBSET Images, CreateDraft(p, S) PROVE StorageDiscipline'
  <2>1. /\ post[p].status = "ABSENT" /\ task' = task /\ p # None
        /\ \A i \in S : p \in Home[i] /\ image[i].post = None /\ image[i].status \in Attachable
        /\ post' = [post EXCEPT ![p] = [status |-> "DRAFT", version |-> 1]]
    BY <1>6, ConstantsAssumption DEF CreateDraft
  <2>2. \A i \in Images : IF i \in S
                          THEN /\ image'[i].post = p /\ image'[i].status = image[i].status
                               /\ image'[i].publicKey = image[i].publicKey
                          ELSE image'[i] = image[i]
    BY <1>6 DEF CreateDraft, TypeOK, ImagesOK
  <2>3. post'[p].status = "DRAFT" /\ \A q \in Posts : q # p => post'[q] = post[q]
    BY <2>1 DEF TypeOK, PostsOK
  <2>4. PostsStay
    BY <2>3 DEF PostsStay
  <2>5. ImageRows'
    <3>1. SUFFICES ASSUME NEW i \in Images PROVE ImageRow(i)'
      BY DEF ImageRows
    <3>2. ImageRow(i) /\ image[i].post \in Posts \cup {None}
      BY <1>3 DEF ImageRows, TypeOK, ImagesOK
    <3>3. CASE i \in S
      <4>1. p \in Home[i] /\ image[i].status \in {"STAGED", "PRIVATE_REVIEW"}
        BY <2>1, <3>3 DEF Attachable
      <4>2. /\ image'[i].post = p /\ image'[i].status = image[i].status
            /\ image'[i].publicKey = image[i].publicKey
        BY <2>2, <3>3
      <4>. QED
        BY <2>3, <3>2, <4>1, <4>2 DEF ImageRow
    <3>4. CASE i \notin S
      <4>1. image'[i] = image[i]
        BY <2>2, <3>4
      <4>. QED
        BY <1>2, <2>1, <2>3, <3>2, <4>1 DEF ImageRow
    <3>. QED
      BY <3>3, <3>4
  <2>6. ASSUME NEW h \in Holders PROVE KeepsKeys(h) /\ KeepsImages(h)
    <3>1. KeepsKeys(h)
      BY <2>2 DEF KeepsKeys
    <3>2. KeepsImages(h)
      BY <2>1, <2>2, ConstantsAssumption DEF KeepsImages
    <3>. QED
      BY <3>1, <3>2
  <2>7. TasksAtHome'
    BY <1>3, <2>1 DEF TasksAtHome
  <2>. QED
    BY <1>4, <2>4, <2>5, <2>6, <2>7
<1>7. ASSUME NEW i \in Images, Discard(i) PROVE StorageDiscipline'
  <2>1. /\ image[i].status = "STAGED" /\ image[i].post = None /\ post' = post
        /\ Enqueue({<<"DELETE_PRIVATE", None, i>>})
    BY <1>7 DEF Discard
  <2>2. /\ image'[i].status = "PRIVATE_DELETE_PENDING" /\ image'[i].post = image[i].post
        /\ image'[i].publicKey = image[i].publicKey
        /\ \A j \in Images : j # i => image'[j] = image[j]
    BY <1>7 DEF Discard, TypeOK, ImagesOK
  <2>3. ImageRows'
    BY <1>2, <1>3, <2>1, <2>2 DEF ImageRows, ImageRow
  <2>4. TasksAtHome'
    BY <1>3, <2>1, EnqueueAtHome DEF PublicKinds
  <2>5. ASSUME NEW h \in Holders PROVE KeepsKeys(h) /\ KeepsImages(h)
    <3>1. KeepsKeys(h)
      BY <2>2 DEF KeepsKeys
    <3>2. KeepsImages(h)
      BY <2>1, <2>2, ConstantsAssumption DEF KeepsImages
    <3>. QED
      BY <3>1, <3>2
  <2>6. PostsStay
    BY <2>1 DEF PostsStay
  <2>. QED
    BY <1>4, <2>3, <2>4, <2>5, <2>6
<1>8. ASSUME NEW m \in Messages, RecoverExpired(m) PROVE StorageDiscipline'
  <2>1. \A n \in Messages : task'[n].status # "NONE" => task[n].status # "NONE"
    BY <1>8 DEF RecoverExpired, TypeOK, TasksOK
  <2>. QED
    BY <1>3, <1>5, <1>8, <2>1, SameTasks DEF RecoverExpired
<1>9. ASSUME (\E k \in Keys : FetchImage(k)) \/ (\E p \in Posts : FetchPage(p)) \/ UNCHANGED vars
      PROVE  StorageDiscipline'
  <2>1. post' = post /\ image' = image /\ task' = task
    BY <1>9 DEF FetchImage, FetchPage, vars, dbVars
  <2>2. TasksAtHome'
    BY <1>3, <2>1 DEF TasksAtHome
  <2>. QED
    BY <1>5, <2>1, <2>2
<1>. QED
  BY <1>6, <1>7, <1>8, <1>9

THEOREM DisciplineNext ==
    NoSharing /\ TypeOK /\ TypeOK' /\ StorageDiscipline /\ [Next]_vars => StorageDiscipline'
<1>. SUFFICES ASSUME NoSharing, TypeOK, TypeOK', StorageDiscipline, [Next]_vars
              PROVE  StorageDiscipline'
  OBVIOUS
<1>1. ImagesOK'
  BY DEF TypeOK
<1>2. CASE \E c \in Cmds : CommandStep(c)
  <2>1. PICK c \in Cmds : CommandStep(c)
    BY <1>2
  <2>. QED
    BY <1>1, <2>1, RequestSteps, CommitSteps DEF CommandStep
<1>3. CASE \E w \in Workers : WorkerStep(w)
  <2>1. PICK w \in Workers : WorkerStep(w)
    BY <1>3
  <2>. QED
    BY <1>1, <2>1, WorkerSteps DEF WorkerStep
<1>. QED
  BY <1>2, <1>3, CleanerSteps, OtherSteps DEF Next

LEMMA DisciplineServes == StorageDiscipline => PublishedServable
<1>. SUFFICES ASSUME StorageDiscipline, NEW p \in Posts, post[p].status = "PUBLISHED",
                     NEW i \in Images, image[i].post = p
              PROVE  image[i].status = "PUBLIC" /\ Owns(p, i) /\ <<p, i>> \in publicObjs
  BY DEF PublishedServable, Attached
<1>. QED
  BY ConstantsAssumption DEF StorageDiscipline, ImageRows, ImageRow, Owns

\* Whoever is about to delete a public object, or is between copying it and committing,
\* holds the lock of the post its key names, whatever requests, outbox workers, expired
\* claims and the cleanup job do - as long as no image moves between two posts.
THEOREM DisciplineHolds ==
    ASSUME NoSharing
    PROVE  Spec => []StorageDiscipline
<1>1. TypeOK /\ TypeOK' /\ StorageDiscipline /\ [Next]_vars => StorageDiscipline'
  BY DisciplineNext
<1>. QED
  BY <1>1, DisciplineInit, TypeCorrect, PTL DEF Spec

\* A reader of a published post gets its images: no compensation, hide deletion, expired
\* claim or orphan cleaning ever takes the object of an image attached to it.
THEOREM PublishedAlwaysServable ==
    ASSUME NoSharing
    PROVE  Spec => []PublishedServable
  BY DisciplineHolds, DisciplineServes, PTL

-----------------------------------------------------------------------------
(* Withdrawals: originals are kept while they can be needed, no withdrawal is *)
(* forgotten, a stale page has its purge, and what is reported done is done.  *)

----------------------------------------------------------------------------
(* What a step may do to a row *)

\* A class that is enqueued is live afterwards.
LEMMA EnqueueLive ==
    ASSUME NEW classes, Enqueue(classes), NEW k \in classes
    PROVE  \E m \in Messages : Class(m) = k /\ task[m].status = "NONE" /\ task'[m] = Pending
<1>. DEFINE new == CHOOSE f \in Free(k) : TRUE
<1>1. new \in Free(k)
  BY DEF Enqueue
<1>2. new \in Messages /\ Class(new) = k /\ task[new].status = "NONE"
  BY <1>1 DEF Free
<1>3. task'[new] = Pending
  BY <1>2 DEF Enqueue
<1>. QED
  BY <1>2, <1>3

\* Nothing that was open is closed by an Enqueue.
LEMMA EnqueueKeeps ==
    ASSUME NEW classes, Enqueue(classes), NEW m \in Messages
    PROVE  /\ task[m].status # "NONE" => task'[m] = task[m]
           /\ task'[m] = task[m] \/ (Class(m) \in classes /\ task'[m] = Pending)
<1>1. CASE Class(m) \in classes /\ m = (CHOOSE f \in Free(Class(m)) : TRUE)
  <2>1. m \in Free(Class(m))
    BY <1>1 DEF Enqueue
  <2>. QED
    BY <1>1, <2>1 DEF Enqueue, Free
<1>2. CASE ~(Class(m) \in classes /\ m = (CHOOSE f \in Free(Class(m)) : TRUE))
  BY <1>2 DEF Enqueue
<1>. QED
  BY <1>1, <1>2

\* The ways in which a step may change the row of image i.
Attaches(i) ==
    /\ image[i].status \in Attachable /\ image'[i].status = image[i].status
    /\ image'[i].publicKey = image[i].publicKey
    /\ image'[i].post \in Posts /\ post'[image'[i].post].status # "REMOVED"
Discards(i) ==
    /\ image[i].status = "STAGED" /\ image'[i].status = "PRIVATE_DELETE_PENDING"
    /\ image[i].post = None /\ image'[i].post = None
    /\ image'[i].publicKey = image[i].publicKey
Detaches(i) ==
    /\ image[i].post \in Posts /\ post[image[i].post].status # "REMOVED"
    /\ image'[i].post = None /\ image'[i].publicKey = image[i].publicKey
    /\ image'[i].status \in {"STAGED", "PRIVATE_DELETE_PENDING"}
Publishes(i) ==
    /\ image[i].post \in Posts /\ post[image[i].post].status # "REMOVED"
    /\ image'[i].post = image[i].post /\ image'[i].status = "PUBLIC"
    /\ image'[i].publicKey = image[i].post
Hides(i) ==
    /\ image[i].post \in Posts /\ post[image[i].post].status = "PUBLISHED"
    /\ image'[i].post = image[i].post /\ image'[i].publicKey = image[i].publicKey
    /\ image'[i].status = "PUBLIC_DELETE_PENDING"
    /\ \E c \in Cmds : CommitHide(c) /\ cmd[c].post = image[i].post
Removes(i) ==
    /\ image[i].post \in Posts /\ post'[image[i].post].status = "REMOVED"
    /\ image'[i].post = image[i].post /\ image'[i].publicKey = image[i].publicKey
    /\ image'[i].status = "PRIVATE_DELETE_PENDING"
Withdrawn(i) ==
    /\ image[i].status = "PUBLIC_DELETE_PENDING" /\ image'[i].status = "PRIVATE_REVIEW"
    /\ image'[i].post = image[i].post /\ image'[i].publicKey = None
    /\ \E w \in Workers : FinishTask(w) /\ Owned(w) /\ worker[w].msg.kind = "DELETE_PUBLIC"
                                        /\ worker[w].msg.image = i
Deleted(i) ==
    /\ image[i].status = "PRIVATE_DELETE_PENDING" /\ image'[i].status = "DELETED"
    /\ image'[i].post = image[i].post /\ image'[i].publicKey = image[i].publicKey

Moves(i) ==
    \/ image'[i] = image[i]
    \/ Attaches(i) \/ Discards(i) \/ Detaches(i) \/ Publishes(i) \/ Hides(i) \/ Removes(i)
    \/ Withdrawn(i) \/ Deleted(i)

LEMMA ImageMoves ==
    ASSUME TypeOK, [Next]_vars, NEW i \in Images
    PROVE  Moves(i)
<1>. USE DEF Moves
<1>1. /\ image[i] \in [status: ImageStatus, post: Posts \cup {None}, publicKey: Posts \cup {None}]
      /\ image \in [Images -> [status: ImageStatus, post: Posts \cup {None},
                               publicKey: Posts \cup {None}]]
      /\ None \notin Posts
  BY ConstantsAssumption DEF TypeOK, ImagesOK
<1>2. ASSUME NEW p \in Posts, NEW S \in SUBSET Images, CreateDraft(p, S) PROVE Moves(i)
  <2>1. post'[p].status = "DRAFT"
    BY <1>2 DEF CreateDraft, TypeOK, PostsOK
  <2>2. CASE i \in S
    <3>1. image'[i] = [image[i] EXCEPT !.post = p] /\ image[i].status \in Attachable
      BY <1>2, <2>2 DEF CreateDraft
    <3>2. Attaches(i)
      BY <1>1, <2>1, <3>1 DEF Attaches
    <3>. QED
      BY <3>2
  <2>3. CASE i \notin S
    BY <1>2, <2>3 DEF CreateDraft
  <2>. QED
    BY <2>2, <2>3
<1>3. ASSUME NEW j \in Images, Discard(j) PROVE Moves(i)
  <2>1. CASE i = j
    BY <1>1, <1>3, <2>1 DEF Discard, Discards
  <2>2. CASE i # j
    BY <1>1, <1>3, <2>2 DEF Discard
  <2>. QED
    BY <2>1, <2>2
<1>4. ASSUME NEW c \in Cmds, NEW status \in PostStatus, InTransaction(c), Commit(c, status)
      PROVE  /\ cmd[c].post \in Posts /\ post'[cmd[c].post].status = status
             /\ post[cmd[c].post].status \in Allowed[cmd[c].action] /\ cmd[c].action \in Actions
  BY <1>4 DEF InTransaction, Current, Commit, TypeOK, CmdsOK, CmdState, PostsOK
<1>5. ASSUME NEW c \in Cmds, CommitPublish(c) PROVE Moves(i)
  <2>1. /\ cmd[c].post \in Posts /\ post[cmd[c].post].status \in Allowed[cmd[c].action]
        /\ cmd[c].action \in Publishing
    BY <1>4, <1>5 DEF CommitPublish, PostStatus
  <2>2. post[cmd[c].post].status # "REMOVED"
    BY <2>1 DEF Allowed, Publishing
  <2>3. CASE i \in cmd[c].promoted /\ image[i].post = cmd[c].post
    <3>1. image'[i] = [image[i] EXCEPT !.status = "PUBLIC", !.publicKey = cmd[c].post]
      BY <1>5, <2>3 DEF CommitPublish
    <3>2. Publishes(i)
      BY <1>1, <2>1, <2>2, <2>3, <3>1 DEF Publishes
    <3>. QED
      BY <3>2
  <2>4. CASE ~(i \in cmd[c].promoted /\ image[i].post = cmd[c].post)
    BY <1>5, <2>4 DEF CommitPublish
  <2>. QED
    BY <2>3, <2>4
<1>6. ASSUME NEW c \in Cmds, CommitHide(c) PROVE Moves(i)
  <2>1. /\ cmd[c].post \in Posts /\ post[cmd[c].post].status \in Allowed[cmd[c].action]
        /\ cmd[c].action = "hide"
    BY <1>4, <1>6 DEF CommitHide, PostStatus
  <2>2. post[cmd[c].post].status = "PUBLISHED"
    BY <2>1 DEF Allowed
  <2>3. CASE i \in Attached(cmd[c].post)
    <3>1. image'[i] = [image[i] EXCEPT !.status = "PUBLIC_DELETE_PENDING"]
      BY <1>6, <2>3 DEF CommitHide
    <3>2. image[i].post = cmd[c].post
      BY <2>3 DEF Attached
    <3>3. Hides(i)
      BY <1>1, <1>6, <2>1, <2>2, <3>1, <3>2 DEF Hides
    <3>. QED
      BY <3>3
  <2>4. CASE i \notin Attached(cmd[c].post)
    BY <1>6, <2>4 DEF CommitHide
  <2>. QED
    BY <2>3, <2>4
<1>7. ASSUME NEW c \in Cmds, CommitRemove(c) PROVE Moves(i)
  <2>1. cmd[c].post \in Posts /\ post'[cmd[c].post].status = "REMOVED"
    BY <1>4, <1>7 DEF CommitRemove, PostStatus
  <2>2. CASE i \in Attached(cmd[c].post)
    <3>1. image'[i] = [image[i] EXCEPT !.status = "PRIVATE_DELETE_PENDING"]
      BY <1>7, <2>2 DEF CommitRemove
    <3>2. Removes(i)
      BY <1>1, <2>1, <2>2, <3>1 DEF Removes, Attached
    <3>. QED
      BY <3>2
  <2>3. CASE i \notin Attached(cmd[c].post)
    BY <1>7, <2>3 DEF CommitRemove
  <2>. QED
    BY <2>2, <2>3
<1>8. ASSUME NEW c \in Cmds, NEW S \in SUBSET Images, CommitBlocks(c, S) PROVE Moves(i)
  <2>1. post[cmd[c].post].status \in PostStatus
    BY <1>8 DEF CommitBlocks, InTransaction, TypeOK, CmdsOK, PostsOK
  <2>2. /\ cmd[c].post \in Posts /\ post[cmd[c].post].status \in Allowed[cmd[c].action]
        /\ cmd[c].action = "update" /\ post'[cmd[c].post].status = post[cmd[c].post].status
    BY <1>4, <1>8, <2>1 DEF CommitBlocks
  <2>3. post[cmd[c].post].status # "REMOVED"
    BY <2>2 DEF Allowed
  <2>4. CASE i \in S
    <3>1. image'[i] = [image[i] EXCEPT !.post = cmd[c].post] /\ image[i].status \in Attachable
      BY <1>8, <2>4 DEF CommitBlocks
    <3>2. Attaches(i)
      BY <1>1, <2>2, <2>3, <3>1 DEF Attaches
    <3>. QED
      BY <3>2
  <2>5. CASE i \notin S /\ i \in Attached(cmd[c].post)
    <3>1. image'[i] = Detached(i) /\ image[i].post = cmd[c].post
      BY <1>8, <2>5 DEF CommitBlocks, Attached
    <3>2. Detaches(i)
      BY <1>1, <2>2, <2>3, <3>1 DEF Detaches, Detached
    <3>. QED
      BY <3>2
  <2>6. CASE i \notin S /\ i \notin Attached(cmd[c].post)
    BY <1>8, <2>6 DEF CommitBlocks
  <2>. QED
    BY <2>4, <2>5, <2>6
<1>9. ASSUME NEW w \in Workers, FinishTask(w) PROVE Moves(i)
  <2>1. CASE image' = image
    BY <2>1
  <2>2. CASE /\ Owned(w) /\ worker[w].msg.kind = "DELETE_PUBLIC"
             /\ image[worker[w].msg.image].status = "PUBLIC_DELETE_PENDING"
    <3>1. image' = [image EXCEPT ![worker[w].msg.image].status = "PRIVATE_REVIEW",
                                 ![worker[w].msg.image].publicKey = None]
      BY <1>9, <2>2 DEF FinishTask
    <3>2. CASE i = worker[w].msg.image
      BY <1>1, <1>9, <2>2, <3>1, <3>2 DEF Withdrawn
    <3>3. CASE i # worker[w].msg.image
      BY <1>1, <3>1, <3>3
    <3>. QED
      BY <3>2, <3>3
  <2>3. CASE /\ Owned(w) /\ worker[w].msg.kind = "DELETE_PRIVATE"
             /\ image[worker[w].msg.image].status = "PRIVATE_DELETE_PENDING"
    <3>1. image' = [image EXCEPT ![worker[w].msg.image].status = "DELETED"]
      BY <1>9, <2>3 DEF FinishTask
    <3>2. CASE i = worker[w].msg.image
      BY <1>1, <2>3, <3>1, <3>2 DEF Deleted
    <3>3. CASE i # worker[w].msg.image
      BY <1>1, <3>1, <3>3
    <3>. QED
      BY <3>2, <3>3
  <2>. QED
    BY <1>9, <2>1, <2>2, <2>3 DEF FinishTask
<1>10. CASE image' = image
  BY <1>10
<1>. QED
  <2>1. ASSUME NEW c \in Cmds, CommandStep(c) PROVE Moves(i)
    BY <2>1, <1>5, <1>6, <1>7, <1>8, <1>10
    DEF CommandStep, Request, AcquireLock, Precheck, Promote, PromoteFails, Compensate, CommitPlain,
        Rollback, Rethrow, CommandDies, dbVars
  <2>2. ASSUME NEW w \in Workers, WorkerStep(w) PROVE Moves(i)
    BY <2>2, <1>9, <1>10
    DEF WorkerStep, Claim, ReadImage, WorkerLocks, Execute, DeleteObject, PurgeCache, TaskThrows,
        FailTask, WorkerDies, dbVars
  <2>. QED
    BY <2>1, <2>2, <1>2, <1>3, <1>10
    DEF Next, CleanerStep, RecoverExpired, FetchImage, FetchPage, CleanPick, CleanLock, CleanCheck,
        CleanDelete, CleanerDies, dbVars, vars

\* A removed post stays removed.
LEMMA RemovedStays ==
    ASSUME TypeOK, [Next]_vars, NEW p \in Posts, post[p].status = "REMOVED"
    PROVE  post'[p].status = "REMOVED"
<1>1. ASSUME NEW c \in Cmds, NEW status, InTransaction(c), Commit(c, status), cmd[c].action # "due"
      PROVE  post'[p] = post[p]
  <2>1. post[cmd[c].post].status \in Allowed[cmd[c].action] /\ cmd[c].action \in Actions
    BY <1>1 DEF InTransaction, Current, TypeOK, CmdsOK, CmdState
  <2>2. cmd[c].post # p
    BY <2>1 DEF Allowed, Actions
  <2>. QED
    BY <1>1, <2>2 DEF Commit, TypeOK, PostsOK
<1>2. ASSUME NEW c \in Cmds, NEW status, InTransaction(c), Commit(c, status), cmd[c].action = "due"
      PROVE  post'[p] = post[p]
  <2>1. cmd[c].post # p
    BY <1>2 DEF InTransaction, Current, Allowed
  <2>. QED
    BY <1>2, <2>1 DEF Commit, TypeOK, PostsOK
<1>3. ASSUME NEW c \in Cmds, CommandStep(c) PROVE post'[p] = post[p]
  <2>1. CASE UNCHANGED post
    BY <2>1
  <2>2. CASE CommitPlain(c)
    BY <2>2, <1>1, <1>2 DEF CommitPlain
  <2>3. CASE CommitPublish(c)
    BY <2>3, <1>1, <1>2 DEF CommitPublish
  <2>4. CASE CommitHide(c) \/ CommitRemove(c)
    BY <2>4, <1>1, <1>2 DEF CommitHide, CommitRemove
  <2>5. CASE \E S \in SUBSET Images : CommitBlocks(c, S)
    BY <2>5, <1>1, <1>2 DEF CommitBlocks
  <2>. QED
    BY <1>3, <2>1, <2>2, <2>3, <2>4, <2>5
    DEF CommandStep, Request, AcquireLock, Precheck, Promote, PromoteFails, Compensate,
        Rollback, Rethrow, CommandDies, dbVars
<1>4. ASSUME NEW q \in Posts, NEW S \in SUBSET Images, CreateDraft(q, S) PROVE post'[p] = post[p]
  BY <1>4 DEF CreateDraft, TypeOK, PostsOK
<1>5. CASE UNCHANGED post
  BY <1>5
<1>. QED
  BY <1>3, <1>4, <1>5
  DEF Next, CleanerStep, RecoverExpired, FetchImage, FetchPage, CleanPick, CleanLock, CleanCheck,
      CleanDelete, CleanerDies, Discard, WorkerStep, Claim, ReadImage, WorkerLocks, Execute,
      DeleteObject, PurgeCache, TaskThrows, FinishTask, FailTask, WorkerDies, dbVars, vars

\* An open task stays open until its owner finishes it.
LEMMA TasksMove ==
    ASSUME TypeOK, [Next]_vars, NEW m \in Messages
    PROVE  \/ task'[m] = task[m]
           \/ /\ task[m].status = "NONE" /\ task'[m] = Pending
              /\ m.kind = "DELETE_PRIVATE" => image'[m.image].status = "PRIVATE_DELETE_PENDING"
           \/ /\ task[m].status # "NONE" /\ task'[m].status \in {"FAILED", "DEAD"}
           \/ \E w \in Workers : Claim(w, m) /\ task[m].status # "NONE"
                                   /\ task'[m].status = "RUNNING" /\ task'[m].owner = w
           \/ \E w \in Workers : FinishTask(w) /\ Owned(w) /\ worker[w].msg = m
                                   /\ task'[m] = NoTask
<1>. DEFINE Goal ==
           \/ task'[m] = task[m]
           \/ /\ task[m].status = "NONE" /\ task'[m] = Pending
              /\ m.kind = "DELETE_PRIVATE" => image'[m.image].status = "PRIVATE_DELETE_PENDING"
           \/ /\ task[m].status # "NONE" /\ task'[m].status \in {"FAILED", "DEAD"}
           \/ \E w \in Workers : Claim(w, m) /\ task[m].status # "NONE"
                                   /\ task'[m].status = "RUNNING" /\ task'[m].owner = w
           \/ \E w \in Workers : FinishTask(w) /\ Owned(w) /\ worker[w].msg = m
                                   /\ task'[m] = NoTask
<1>1. /\ task \in [Messages -> TaskRow]
      /\ image \in [Images -> [status: ImageStatus, post: Posts \cup {None},
                               publicKey: Posts \cup {None}]]
  BY DEF TypeOK, TasksOK, ImagesOK
<1>2. ASSUME NEW classes, Enqueue(classes),
             \A k \in classes : k[1] = "DELETE_PRIVATE" =>
                                    image'[k[3]].status = "PRIVATE_DELETE_PENDING"
      PROVE  Goal
  <2>1. CASE task'[m] = task[m]
    BY <2>1
  <2>2. CASE task'[m] # task[m]
    <3>1. Class(m) \in classes /\ task'[m] = Pending /\ task[m].status = "NONE"
      BY <1>2, <2>2, EnqueueKeeps
    <3>2. m.kind = "DELETE_PRIVATE" => image'[m.image].status = "PRIVATE_DELETE_PENDING"
      BY <1>2, <3>1 DEF Class
    <3>. QED
      BY <3>1, <3>2
  <2>. QED
    BY <2>1, <2>2
<1>3. ASSUME NEW i \in Images, Discard(i) PROVE Goal
  <2>1. image'[i].status = "PRIVATE_DELETE_PENDING"
    BY <1>1, <1>3 DEF Discard
  <2>. QED
    BY <1>2, <1>3, <2>1 DEF Discard
<1>4. ASSUME NEW c \in Cmds, CommandStep(c) PROVE Goal
  <2>1. CASE UNCHANGED task
    BY <2>1
  <2>2. ASSUME NEW i \in Images, Compensate(c, i) PROVE Goal
    BY <1>2, <2>2 DEF Compensate
  <2>3. CASE CommitPublish(c)
    <3>1. Enqueue(Purges(c))
      BY <2>3 DEF CommitPublish
    <3>. QED
      BY <1>2, <3>1 DEF Purges
  <2>4. CASE CommitHide(c)
    BY <1>2, <2>4 DEF CommitHide, Purges
  <2>5. CASE CommitRemove(c)
    <3>1. \A i \in Attached(cmd[c].post) : image'[i].status = "PRIVATE_DELETE_PENDING"
      BY <1>1, <2>5 DEF CommitRemove, Attached
    <3>. QED
      BY <1>2, <2>5, <3>1 DEF CommitRemove, Purges
  <2>6. ASSUME NEW S \in SUBSET Images, CommitBlocks(c, S) PROVE Goal
    <3>1. \A i \in Attached(cmd[c].post) \ S : image[i].status = "PRIVATE_REVIEW" =>
              image'[i].status = "PRIVATE_DELETE_PENDING"
      BY <1>1, <2>6 DEF CommitBlocks, Attached, Detached
    <3>. QED
      BY <1>2, <2>6, <3>1 DEF CommitBlocks
  <2>. QED
    BY <1>4, <2>1, <2>2, <2>3, <2>4, <2>5, <2>6
    DEF CommandStep, Request, AcquireLock, Precheck, Promote, PromoteFails, CommitPlain,
        Rollback, Rethrow, CommandDies, dbVars
<1>5. ASSUME NEW n \in Messages, RecoverExpired(n) PROVE Goal
  BY <1>1, <1>5 DEF RecoverExpired, Failed
<1>6. ASSUME NEW w \in Workers, NEW n \in Messages, Claim(w, n) PROVE Goal
  <2>1. CASE n = m
    <3>1. /\ task[m].status # "NONE" /\ task'[m].status = "RUNNING" /\ task'[m].owner = w
      BY <1>1, <1>6, <2>1 DEF Claim, TaskRow
    <3>. QED
      BY <1>6, <2>1, <3>1
  <2>2. CASE n # m
    BY <1>1, <1>6, <2>2 DEF Claim
  <2>. QED
    BY <2>1, <2>2
<1>7. ASSUME NEW w \in Workers, FinishTask(w) PROVE Goal
  <2>1. CASE Owned(w) /\ worker[w].msg = m
    BY <1>1, <1>7, <2>1 DEF FinishTask
  <2>2. CASE ~(Owned(w) /\ worker[w].msg = m)
    BY <1>1, <1>7, <2>2 DEF FinishTask
  <2>. QED
    BY <2>1, <2>2
<1>8. ASSUME NEW w \in Workers, FailTask(w) PROVE Goal
  <2>1. CASE Owned(w) /\ worker[w].msg = m
    BY <1>1, <1>8, <2>1 DEF FailTask, Failed, Owned
  <2>2. CASE ~(Owned(w) /\ worker[w].msg = m)
    BY <1>1, <1>8, <2>2 DEF FailTask
  <2>. QED
    BY <2>1, <2>2
<1>9. ASSUME UNCHANGED task PROVE Goal
  BY <1>9
<1>. QED
  <2>. HIDE DEF Goal
  <2>1. ASSUME NEW w \in Workers, WorkerStep(w) PROVE Goal
    BY <2>1, <1>6, <1>7, <1>8, <1>9
    DEF WorkerStep, ReadImage, WorkerLocks, Execute, DeleteObject, PurgeCache, TaskThrows, WorkerDies,
        dbVars
  <2>2. CleanerStep => UNCHANGED task
    BY DEF CleanerStep, CleanPick, CleanLock, CleanCheck, CleanDelete, CleanerDies, dbVars
  <2>3. Goal
    BY <2>1, <2>2, <1>3, <1>4, <1>5, <1>9
    DEF Next, CreateDraft, FetchImage, FetchPage, dbVars, vars
  <2>. QED
    BY <2>3 DEF Goal

\* Where a worker is after a step of its own.
LEMMA WorkerPlaces ==
    ASSUME TypeOK, NEW w \in Workers
    PROVE  /\ \A m \in Messages : Claim(w, m) => worker'[w].pc = "claimed"
           /\ ReadImage(w) \/ WorkerLocks(w) => worker'[w].pc \in {"waiting", "execute"}
           /\ Execute(w) /\ Owned(w) =>
                  worker'[w].pc = IF worker[w].msg.kind = "CACHE_PURGE" THEN "purge"
                                  ELSE IF Deletes(worker[w].msg) THEN "delete" ELSE "finish"
           /\ Execute(w) /\ ~Owned(w) => worker'[w].pc = "idle"
           /\ DeleteObject(w) =>
                  worker'[w].pc = IF worker[w].msg.kind = "DELETE_PRIVATE" THEN "finish" ELSE "purge"
           /\ PurgeCache(w) => worker'[w].pc = "finish"
           /\ FinishTask(w) \/ FailTask(w) \/ WorkerDies(w) => worker'[w].pc = "idle"
           /\ TaskThrows(w) => worker'[w].pc = "failing"
<1>1. worker \in [Workers -> WorkerState] /\ worker[w] \in WorkerState
  BY DEF TypeOK, WorkersOK
<1>2. \A m \in Messages : Claim(w, m) => worker'[w].pc = "claimed"
  BY <1>1 DEF Claim
<1>3. ReadImage(w) \/ WorkerLocks(w) => worker'[w].pc \in {"waiting", "execute"}
  BY <1>1 DEF ReadImage, WorkerLocks, WorkerState
<1>4. Execute(w) /\ Owned(w) =>
          worker'[w].pc = IF worker[w].msg.kind = "CACHE_PURGE" THEN "purge"
                          ELSE IF Deletes(worker[w].msg) THEN "delete" ELSE "finish"
  BY <1>1 DEF Execute, WorkerState
<1>5. Execute(w) /\ ~Owned(w) => worker'[w].pc = "idle"
  BY <1>1 DEF Execute, WorkerLeaves, IdleWorker
<1>6. DeleteObject(w) =>
          worker'[w].pc = IF worker[w].msg.kind = "DELETE_PRIVATE" THEN "finish" ELSE "purge"
  BY <1>1 DEF DeleteObject, WorkerState
<1>7. PurgeCache(w) => worker'[w].pc = "finish"
  BY <1>1 DEF PurgeCache, WorkerState
<1>8. FinishTask(w) \/ FailTask(w) \/ WorkerDies(w) => worker'[w].pc = "idle"
  BY <1>1 DEF FinishTask, FailTask, WorkerDies, WorkerLeaves, IdleWorker
<1>9. TaskThrows(w) => worker'[w].pc = "failing"
  BY <1>1 DEF TaskThrows, WorkerState
<1>. QED
  BY <1>2, <1>3, <1>4, <1>5, <1>6, <1>7, <1>8, <1>9

\* A worker takes up a message by claiming it, and keeps it until it is idle again.
LEMMA WorkerMessage ==
    ASSUME TypeOK, [Next]_vars, NEW w \in Workers, worker'[w].pc # "idle"
    PROVE  \/ worker[w].pc # "idle" /\ worker'[w].msg = worker[w].msg
           \/ \E m \in Messages : Claim(w, m) /\ worker'[w].msg = m /\ task[m].status # "NONE"
<1>1. worker \in [Workers -> WorkerState]
  BY DEF TypeOK, WorkersOK
<1>2. ASSUME NEW v \in Workers, NEW m \in Messages, Claim(v, m)
      PROVE  \/ worker'[w] = worker[w]
             \/ Claim(w, m) /\ worker'[w].msg = m /\ task[m].status # "NONE"
  BY <1>1, <1>2 DEF Claim
<1>3. ASSUME NEW v \in Workers,
             \/ ReadImage(v) \/ WorkerLocks(v) \/ Execute(v) \/ DeleteObject(v) \/ PurgeCache(v)
             \/ FinishTask(v) \/ TaskThrows(v) \/ FailTask(v) \/ WorkerDies(v)
      PROVE  worker[w].pc # "idle" /\ worker'[w].msg = worker[w].msg
  <2>1. CASE v = w
    <3>1. worker'[w] # IdleWorker
      BY DEF IdleWorker
    <3>. QED
      BY <1>1, <1>3, <2>1, <3>1
      DEF ReadImage, WorkerLocks, Execute, DeleteObject, PurgeCache, FinishTask, TaskThrows,
          FailTask, WorkerDies, WorkerLeaves, WorkerState
  <2>2. CASE v # w
    BY <1>1, <1>3, <2>2
    DEF ReadImage, WorkerLocks, Execute, DeleteObject, PurgeCache, FinishTask, TaskThrows,
        FailTask, WorkerDies, WorkerLeaves
  <2>. QED
    BY <2>1, <2>2
<1>4. CASE UNCHANGED worker
  BY <1>4
<1>. QED
  BY <1>2, <1>3, <1>4
  DEF Next, CleanerStep, CreateDraft, Discard, RecoverExpired, FetchImage, FetchPage, CleanPick,
      CleanLock, CleanCheck, CleanDelete, CleanerDies, WorkerStep, CommandStep, Request, AcquireLock,
      Precheck, Promote, PromoteFails, Compensate, CommitPlain, CommitPublish, CommitHide,
      CommitRemove, CommitBlocks, Commit, Rollback, Rethrow, CommandDies, vars

----------------------------------------------------------------------------
(* Originals *)

Gone == {"PRIVATE_DELETE_PENDING", "DELETED"}

\* The deletion of an original is asked for, and carried out, only once the image can
\* never be used again; an image of a post that is not removed can.
OriginalsGuarded ==
    /\ \A i \in Images : i \in privateObjs \/ image[i].status \in Gone
    /\ \A i \in Images : image[i].status \in Gone /\ image[i].post # None =>
                             post[image[i].post].status = "REMOVED"
    /\ \A m \in Messages : m.kind = "DELETE_PRIVATE" /\ task[m].status # "NONE" =>
                               image[m.image].status \in Gone
    /\ \A w \in Workers : worker[w].pc # "idle" /\ worker[w].msg.kind = "DELETE_PRIVATE" =>
                              image[worker[w].msg.image].status \in Gone

LEMMA GoneStays ==
    ASSUME TypeOK, OriginalsGuarded, [Next]_vars, NEW i \in Images, image[i].status \in Gone
    PROVE  image'[i].status \in Gone
<1>1. Moves(i)
  BY ImageMoves
<1>2. image[i].post # None => post[image[i].post].status = "REMOVED"
  BY DEF OriginalsGuarded
<1>. QED
  BY <1>1, <1>2, ConstantsAssumption
  DEF Moves, Attaches, Discards, Detaches, Publishes, Hides, Removes, Withdrawn, Deleted, Gone, Attachable

LEMMA OriginalsGuardedNext ==
    ASSUME TypeOK, OriginalsGuarded, [Next]_vars
    PROVE  OriginalsGuarded'
<1>1. ASSUME NEW i \in Images PROVE i \in privateObjs' \/ image'[i].status \in Gone
  <2>1. SUFFICES ASSUME i \notin privateObjs', i \in privateObjs PROVE image[i].status \in Gone
    BY GoneStays DEF OriginalsGuarded
  <2>2. \A w \in Workers : DeleteObject(w) => worker[w].msg.kind = "DELETE_PRIVATE" /\ worker[w].msg.image = i
    BY <2>1 DEF DeleteObject
  <2>3. ASSUME NEW w \in Workers, DeleteObject(w) PROVE image[i].status \in Gone
    BY <2>2, <2>3 DEF OriginalsGuarded, DeleteObject
  <2>. QED
    BY <2>1, <2>3
    DEF Next, CleanerStep, CreateDraft, Discard, RecoverExpired, FetchImage, FetchPage, CleanPick,
        CleanLock, CleanCheck, CleanDelete, CleanerDies, WorkerStep, Claim, ReadImage, WorkerLocks,
        Execute, PurgeCache, FinishTask, TaskThrows, FailTask, WorkerDies, CommandStep,
        Request, AcquireLock, Precheck, Promote, PromoteFails, Compensate, CommitPlain, CommitPublish,
        CommitHide, CommitRemove, CommitBlocks, Commit, Rollback, Rethrow, CommandDies, storeVars, vars
<1>2. ASSUME NEW i \in Images, image'[i].status \in Gone, image'[i].post # None
      PROVE  post'[image'[i].post].status = "REMOVED"
  <2>1. Moves(i)
    BY ImageMoves
  <2>2. image[i].status \in Gone /\ image[i].post # None =>
            image[i].post \in Posts /\ post'[image[i].post].status = "REMOVED"
    BY RemovedStays DEF OriginalsGuarded, TypeOK, ImagesOK
  <2>. QED
    BY <1>2, <2>1, <2>2
    DEF Moves, Attaches, Discards, Detaches, Publishes, Hides, Removes, Withdrawn, Deleted, Gone, Attachable
<1>3. ASSUME NEW m \in Messages, m.kind = "DELETE_PRIVATE", task'[m].status # "NONE"
      PROVE  image'[m.image].status \in Gone
  <2>1. m.image \in Images
    BY <1>3, MessageType
  <2>2. CASE task[m].status # "NONE"
    BY <1>3, <2>1, <2>2, GoneStays DEF OriginalsGuarded
  <2>3. CASE task[m].status = "NONE"
    BY <1>3, <2>3, TasksMove DEF NoTask, Gone
  <2>. QED
    BY <2>2, <2>3
<1>4. ASSUME NEW w \in Workers, worker'[w].pc # "idle", worker'[w].msg.kind = "DELETE_PRIVATE"
      PROVE  image'[worker'[w].msg.image].status \in Gone
  <2>1. CASE worker[w].pc # "idle" /\ worker'[w].msg = worker[w].msg
    <3>1. worker[w].msg.image \in Images
      BY <1>4, <2>1, MessageType DEF TypeOK, WorkersOK
    <3>. QED
      BY <1>4, <2>1, <3>1, GoneStays DEF OriginalsGuarded
  <2>2. ASSUME NEW m \in Messages, worker'[w].msg = m, task[m].status # "NONE"
        PROVE  image'[worker'[w].msg.image].status \in Gone
    BY <1>4, <2>2, GoneStays, MessageType DEF OriginalsGuarded
  <2>. QED
    BY <1>4, <2>1, <2>2, WorkerMessage
<1>. QED
  BY <1>1, <1>2, <1>3, <1>4 DEF OriginalsGuarded

\* The original of an image that may still be published again is never deleted, whatever
\* discards, detaching updates, removals and slow outbox workers do.
THEOREM OriginalsKept == Spec => []OriginalKept
<1>1. Init => OriginalsGuarded
  BY ConstantsAssumption DEF Init, OriginalsGuarded, NoTask, IdleWorker, Gone
<1>2. TypeOK /\ OriginalsGuarded /\ [Next]_vars => OriginalsGuarded'
  BY OriginalsGuardedNext
<1>3. OriginalsGuarded => OriginalKept
  BY DEF OriginalsGuarded, OriginalKept, Gone
<1>. QED
  BY <1>1, <1>2, <1>3, TypeCorrect, PTL DEF Spec

----------------------------------------------------------------------------
(* Withdrawals are not forgotten *)

\* An image that waits for its withdrawal always has the outbox row that does it.
THEOREM WithdrawalsNotForgotten == Spec => []WithdrawalNotForgotten
<1>1. Init => WithdrawalNotForgotten
  BY DEF Init, WithdrawalNotForgotten
<1>2. TypeOK /\ WithdrawalNotForgotten /\ [Next]_vars => WithdrawalNotForgotten'
  <2>1. SUFFICES ASSUME TypeOK, WithdrawalNotForgotten, [Next]_vars, NEW i \in Images,
                        image'[i].status = "PUBLIC_DELETE_PENDING"
                 PROVE  \E m \in Messages : /\ Class(m) = <<"DELETE_PUBLIC", image'[i].publicKey, i>>
                                            /\ task'[m].status # "NONE"
    BY DEF WithdrawalNotForgotten, Live
  <2>2. (image'[i] = image[i]) \/ Hides(i)
    BY <2>1, ImageMoves
    DEF Moves, Attaches, Discards, Detaches, Publishes, Removes, Withdrawn, Deleted, Attachable
  <2>3. CASE image'[i] = image[i]
    <3>1. PICK m \in Messages : Class(m) = <<"DELETE_PUBLIC", image[i].publicKey, i>>
                                /\ task[m].status # "NONE"
      BY <2>1, <2>3 DEF WithdrawalNotForgotten, Live
    <3>2. m.kind = "DELETE_PUBLIC" /\ m.image = i
      BY <3>1 DEF Class
    <3>3. ASSUME NEW w \in Workers, FinishTask(w), Owned(w), worker[w].msg = m PROVE FALSE
      <4>1. image' = [image EXCEPT ![i].status = "PRIVATE_REVIEW", ![i].publicKey = None]
        BY <2>1, <2>3, <3>2, <3>3 DEF FinishTask
      <4>2. image'[i].status = "PRIVATE_REVIEW"
        BY <2>1, <4>1 DEF TypeOK, ImagesOK
      <4>. QED
        BY <2>1, <4>2
    <3>4. task'[m].status # "NONE"
      BY <2>1, <3>1, <3>3, TasksMove DEF Pending
    <3>. QED
      BY <2>3, <3>1, <3>4
  <2>4. CASE Hides(i)
    <3>1. PICK c \in Cmds : CommitHide(c) /\ cmd[c].post = image[i].post
      BY <2>4 DEF Hides
    <3>2. i \in Attached(cmd[c].post) /\ image'[i].publicKey = image[i].publicKey
      BY <2>4, <3>1 DEF Attached, Hides
    <3>3. PICK classes : /\ <<"DELETE_PUBLIC", image[i].publicKey, i>> \in classes
                         /\ Enqueue(classes)
      BY <3>1, <3>2 DEF CommitHide
    <3>4. PICK m \in Messages : /\ Class(m) = <<"DELETE_PUBLIC", image[i].publicKey, i>>
                                /\ task'[m] = Pending
      BY <3>3, EnqueueLive
    <3>. QED
      BY <3>2, <3>4 DEF Pending
  <2>. QED
    BY <2>2, <2>3, <2>4
<1>. QED
  BY <1>1, <1>2, TypeCorrect, PTL DEF Spec

----------------------------------------------------------------------------
(* Stale pages *)

\* The purge m has been carried out, and its row is about to be removed.
PurgeDone(m) == \E w \in Workers : worker[w].pc = "finish" /\ worker[w].msg = m /\ Owned(w)

\* A stale page has a purge that is yet to be carried out.
PagesGuarded ==
    /\ pages \subseteq Paged
    /\ \A p \in pages : post[p].status # "PUBLISHED" =>
           \E m \in Messages : /\ Class(m) = <<"CACHE_PURGE", p, None>>
                               /\ task[m].status # "NONE" /\ ~PurgeDone(m)

\* A post ceases to be published by a hide only, which asks for a purge of its page.
LEMMA UnpublishingPurges ==
    ASSUME TypeOK, [Next]_vars, NEW p \in Paged, post[p].status = "PUBLISHED",
           post'[p].status # "PUBLISHED"
    PROVE  \E m \in Messages : /\ Class(m) = <<"CACHE_PURGE", p, None>>
                               /\ task[m].status = "NONE" /\ task'[m] = Pending
<1>1. p \in Posts
  BY ConstantsAssumption
<1>2. ASSUME NEW c \in Cmds, NEW status \in PostStatus, InTransaction(c), Commit(c, status),
             status = "PUBLISHED" \/ cmd[c].action \notin {"hide"}
      PROVE  FALSE
  <2>1. CASE cmd[c].post = p
    <3>1. "PUBLISHED" \in Allowed[cmd[c].action] /\ cmd[c].action \in Actions
      BY <1>2, <2>1 DEF InTransaction, Current, TypeOK, CmdsOK, CmdState
    <3>2. cmd[c].action = "hide"
      BY <3>1 DEF Allowed, Actions
    <3>3. post'[p].status = status
      BY <1>1, <1>2, <2>1 DEF Commit, TypeOK, PostsOK
    <3>. QED
      BY <1>2, <3>2, <3>3
  <2>2. CASE cmd[c].post # p
    BY <1>1, <1>2, <2>2 DEF Commit, TypeOK, PostsOK
  <2>. QED
    BY <2>1, <2>2
<1>3. ASSUME NEW c \in Cmds, CommitHide(c)
      PROVE  \E m \in Messages : /\ Class(m) = <<"CACHE_PURGE", p, None>>
                                 /\ task[m].status = "NONE" /\ task'[m] = Pending
  <2>1. cmd[c].post = p
    BY <1>1, <1>3 DEF CommitHide, Commit, TypeOK, PostsOK
  <2>2. PICK classes : <<"CACHE_PURGE", p, None>> \in classes /\ Enqueue(classes)
    BY <1>3, <2>1 DEF CommitHide, Purges
  <2>. QED
    BY <2>2, EnqueueLive
<1>4. ASSUME NEW c \in Cmds, CommitPlain(c) PROVE FALSE
  <2>1. cmd[c].post \in Posts /\ post[cmd[c].post].status \in PostStatus
    BY <1>4 DEF CommitPlain, InTransaction, TypeOK, CmdsOK, PostsOK
  <2>. QED
    BY <1>2, <1>4, <2>1 DEF CommitPlain, PostStatus
<1>5. ASSUME NEW c \in Cmds, CommitPublish(c) PROVE FALSE
  BY <1>2, <1>5 DEF CommitPublish, PostStatus
<1>6. ASSUME NEW c \in Cmds, CommitRemove(c) PROVE FALSE
  BY <1>2, <1>6 DEF CommitRemove, PostStatus
<1>7. ASSUME NEW c \in Cmds, NEW S \in SUBSET Images, CommitBlocks(c, S) PROVE FALSE
  <2>1. post[cmd[c].post].status \in PostStatus
    BY <1>7 DEF CommitBlocks, InTransaction, TypeOK, CmdsOK, PostsOK
  <2>. QED
    BY <1>2, <1>7, <2>1 DEF CommitBlocks
<1>8. ASSUME NEW q \in Posts, NEW S \in SUBSET Images, CreateDraft(q, S) PROVE FALSE
  BY <1>1, <1>8 DEF CreateDraft, TypeOK, PostsOK
<1>9. post' # post
  BY <1>1
<1>. QED
  BY <1>3, <1>4, <1>5, <1>6, <1>7, <1>8, <1>9
  DEF Next, CleanerStep, RecoverExpired, FetchImage, FetchPage, CleanPick, CleanLock, CleanCheck,
      CleanDelete, CleanerDies, Discard, WorkerStep, Claim, ReadImage, WorkerLocks, Execute,
      DeleteObject, PurgeCache, TaskThrows, FinishTask, FailTask, WorkerDies, CommandStep, Request,
      AcquireLock, Precheck, Promote, PromoteFails, Compensate, Rollback, Rethrow, CommandDies,
      dbVars, vars

\* A purge is done only by a step that takes the page out of the cache.
LEMMA PurgesPurge ==
    ASSUME TypeOK, [Next]_vars, NEW m \in Messages, m.kind = "CACHE_PURGE", ~PurgeDone(m),
           PurgeDone(m)'
    PROVE  m.post \notin pages'
<1>1. PICK w \in Workers : worker'[w].pc = "finish" /\ worker'[w].msg = m /\ Owned(w)'
  BY DEF PurgeDone
<1>2. /\ worker \in [Workers -> WorkerState] /\ task \in [Messages -> TaskRow]
      /\ m.kind # "DELETE_PRIVATE" /\ "finish" # "idle"
  BY DEF TypeOK, WorkersOK, TasksOK
<1>3. worker[w].pc # "idle" /\ worker[w].msg = m
  <2>1. \A n \in Messages : Claim(w, n) => worker'[w].pc = "claimed"
    BY <1>2 DEF Claim
  <2>. QED
    BY <1>1, <2>1, WorkerMessage
<1>4. CASE worker[w].pc = "finish"
  <2>1. ~Owned(w) /\ task'[m].status = "RUNNING" /\ task'[m].owner = w
    BY <1>1, <1>3, <1>4 DEF PurgeDone, Owned
  <2>2. task'[m] # task[m]
    BY <1>3, <2>1 DEF Owned
  <2>3. ASSUME NEW v \in Workers, Claim(v, m), task'[m].owner = v PROVE FALSE
    BY <1>4, <2>1, <2>3 DEF Claim
  <2>. QED
    BY <2>1, <2>2, <2>3, TasksMove DEF Pending, NoTask
<1>5. CASE worker[w].pc # "finish"
  <2>1. ASSUME NEW v \in Workers, WorkerStep(v) PROVE m.post \notin pages'
    <3>1. v = w
      BY <1>1, <1>2, <1>5, <2>1
      DEF WorkerStep, Claim, ReadImage, WorkerLocks, Execute, DeleteObject, PurgeCache, FinishTask,
          TaskThrows, FailTask, WorkerDies, WorkerLeaves
    <3>2. PurgeCache(w)
      BY <1>1, <1>2, <1>3, <1>5, <2>1, <3>1, WorkerPlaces DEF WorkerStep
    <3>. QED
      BY <1>3, <3>2 DEF PurgeCache
  <2>2. worker' # worker
    BY <1>1, <1>5
  <2>. QED
    BY <2>1, <2>2
    DEF Next, CleanerStep, CreateDraft, Discard, RecoverExpired, FetchImage, FetchPage, CleanPick,
        CleanLock, CleanCheck, CleanDelete, CleanerDies, CommandStep, Request, AcquireLock,
        Precheck, Promote, PromoteFails, Compensate, CommitPlain, CommitPublish, CommitHide,
        CommitRemove, CommitBlocks, Commit, Rollback, Rethrow, CommandDies, vars
<1>. QED
  BY <1>4, <1>5

LEMMA PagesFill ==
    ASSUME [Next]_vars, NEW p \in pages', p \notin pages
    PROVE  p \in Paged /\ post'[p].status = "PUBLISHED"
<1>1. \A q \in Posts : FetchPage(q) => q \in Paged /\ pages' = pages \cup {q}
                                       /\ post' = post /\ post[q].status = "PUBLISHED"
  BY DEF FetchPage, dbVars
<1>. QED
  BY <1>1
  DEF Next, CleanerStep, CreateDraft, Discard, RecoverExpired, FetchImage, CleanPick, CleanLock,
      CleanCheck, CleanDelete, CleanerDies, WorkerStep, Claim, ReadImage, WorkerLocks, Execute,
      DeleteObject, PurgeCache, FinishTask, TaskThrows, FailTask, WorkerDies, CommandStep, Request,
      AcquireLock, Precheck, Promote, PromoteFails, Compensate, CommitPlain, CommitPublish, CommitHide,
      CommitRemove, CommitBlocks, Commit, Rollback, Rethrow, CommandDies, storeVars, vars

LEMMA PagesGuardedNext ==
    ASSUME TypeOK, PagesGuarded, [Next]_vars
    PROVE  PagesGuarded'
<1>1. pages' \subseteq Paged
  BY PagesFill DEF PagesGuarded
<1>2. ASSUME NEW p \in pages', post'[p].status # "PUBLISHED"
      PROVE  \E m \in Messages : /\ Class(m) = <<"CACHE_PURGE", p, None>>
                                 /\ task'[m].status # "NONE" /\ ~PurgeDone(m)'
  <2>1. p \in pages /\ p \in Paged /\ p \in Posts
    BY <1>1, <1>2, PagesFill, ConstantsAssumption
  <2>2. CASE post[p].status = "PUBLISHED"
    <3>1. PICK m \in Messages : /\ Class(m) = <<"CACHE_PURGE", p, None>>
                                /\ task[m].status = "NONE" /\ task'[m] = Pending
      BY <1>2, <2>1, <2>2, UnpublishingPurges
    <3>2. ~PurgeDone(m)'
      BY <3>1 DEF PurgeDone, Owned, Pending
    <3>. QED
      BY <3>1, <3>2 DEF Pending
  <2>3. CASE post[p].status # "PUBLISHED"
    <3>1. PICK m \in Messages : /\ Class(m) = <<"CACHE_PURGE", p, None>>
                                /\ task[m].status # "NONE" /\ ~PurgeDone(m)
      BY <2>1, <2>3 DEF PagesGuarded
    <3>2. m.kind = "CACHE_PURGE" /\ m.post = p
      BY <3>1 DEF Class
    <3>3. ASSUME NEW w \in Workers, FinishTask(w), Owned(w), worker[w].msg = m PROVE FALSE
      BY <3>1, <3>3 DEF FinishTask, PurgeDone
    <3>4. task'[m].status # "NONE"
      BY <3>1, <3>3, TasksMove
    <3>5. ~PurgeDone(m)'
      BY <1>2, <3>1, <3>2, PurgesPurge
    <3>. QED
      BY <3>1, <3>4, <3>5
  <2>. QED
    BY <2>2, <2>3
<1>. QED
  BY <1>1, <1>2 DEF PagesGuarded

\* A cached page of a post that is no longer published has a purge queued, running or
\* DEAD, although purges of earlier withdrawals may finish late.
THEOREM StalePagesPurged == Spec => []StalePagePurged
<1>1. Init => PagesGuarded
  BY DEF Init, PagesGuarded
<1>2. TypeOK /\ PagesGuarded /\ [Next]_vars => PagesGuarded'
  BY PagesGuardedNext
<1>3. PagesGuarded => StalePagePurged
  BY DEF PagesGuarded, StalePagePurged, Live
<1>. QED
  BY <1>1, <1>2, <1>3, TypeCorrect, PTL DEF Spec

----------------------------------------------------------------------------
(* Withdrawn images *)

\* A worker past the deletion of a withdrawn object finds it gone, from the bucket and,
\* past the purge, from the edge cache: it holds the lock under which it might return.
WithdrawalClean ==
    \A w \in Workers :
        LET m == worker[w].msg IN
        /\ worker[w].pc \in {"purge", "finish"} /\ m.kind = "DELETE_PUBLIC"
        /\ image[m.image].status = "PUBLIC_DELETE_PENDING"
        => /\ <<m.post, m.image>> \notin publicObjs
           /\ worker[w].pc = "finish" => <<m.post, m.image>> \notin cached

\* Objects come to the public bucket under the lock of the post they are copied for.
LEMMA ObjectsAppear ==
    ASSUME TypeOK, StorageDiscipline, [Next]_vars, NEW p \in Posts, NEW i \in Images,
           <<p, i>> \in publicObjs', <<p, i>> \notin publicObjs
    PROVE  lock[p] \in Cmds
<1>1. \A c \in Cmds : CommandHolds(c)
  BY DEF StorageDiscipline
<1>2. ASSUME NEW c \in Cmds, NEW j \in Images, Promote(c, j) \/ PromoteFails(c, j)
      PROVE  lock[p] \in Cmds
  <2>1. cmd[c].post = p /\ cmd[c].pc = "working"
    BY <1>2 DEF Promote, PromoteFails
  <2>. QED
    BY <1>1, <2>1 DEF CommandHolds
<1>. QED
  BY <1>2
  DEF Next, CleanerStep, CreateDraft, Discard, RecoverExpired, FetchImage, FetchPage, CleanPick,
      CleanLock, CleanCheck, CleanDelete, CleanerDies, WorkerStep, Claim, ReadImage, WorkerLocks,
      Execute, DeleteObject, PurgeCache, FinishTask, TaskThrows, FailTask, WorkerDies, CommandStep,
      Request, AcquireLock, Precheck, Compensate, CommitPlain, CommitPublish, CommitHide,
      CommitRemove, CommitBlocks, Commit, Rollback, Rethrow, CommandDies, storeVars, vars

LEMMA CacheFills ==
    ASSUME [Next]_vars, NEW k \in cached', k \notin cached
    PROVE  k \in publicObjs
  BY DEF Next, CleanerStep, CreateDraft, Discard, RecoverExpired, FetchImage, FetchPage, CleanPick,
      CleanLock, CleanCheck, CleanDelete, CleanerDies, WorkerStep, Claim, ReadImage, WorkerLocks,
      Execute, DeleteObject, PurgeCache, FinishTask, TaskThrows, FailTask, WorkerDies, CommandStep,
      Request, AcquireLock, Precheck, Promote, PromoteFails, Compensate, CommitPlain, CommitPublish,
      CommitHide, CommitRemove, CommitBlocks, Commit, Rollback, Rethrow, CommandDies, storeVars, vars

\* How a worker comes past the deletion, and past the purge.
LEMMA WorkerPasses ==
    ASSUME TypeOK, [Next]_vars, NEW w \in Workers, worker'[w].pc \in {"purge", "finish"},
           worker'[w].msg.kind = "DELETE_PUBLIC"
    PROVE  /\ worker[w].msg = worker'[w].msg
           /\ \/ worker[w].pc = worker'[w].pc
              \/ worker[w].pc = "delete" /\ DeleteObject(w)
              \/ worker[w].pc = "purge" /\ PurgeCache(w)
              \/ worker[w].pc = "execute" /\ Execute(w) /\ ~Deletes(worker[w].msg)
<1>1. worker \in [Workers -> WorkerState]
  BY DEF TypeOK, WorkersOK
<1>2. worker[w].pc # "idle" /\ worker[w].msg = worker'[w].msg
  <2>1. \A m \in Messages : Claim(w, m) => worker'[w].pc = "claimed"
    BY <1>1 DEF Claim
  <2>. QED
    BY <2>1, WorkerMessage
<1>3. CASE worker'[w] = worker[w]
  BY <1>2, <1>3
<1>4. CASE worker'[w] # worker[w]
  <2>1. ASSUME NEW v \in Workers, WorkerStep(v) PROVE WorkerStep(w)
    <3>1. v = w
      BY <1>1, <1>4, <2>1
      DEF WorkerStep, Claim, ReadImage, WorkerLocks, Execute, DeleteObject, PurgeCache, FinishTask,
          TaskThrows, FailTask, WorkerDies, WorkerLeaves
    <3>. QED
      BY <2>1, <3>1
  <2>2. WorkerStep(w)
    BY <1>4, <2>1
    DEF Next, CleanerStep, CreateDraft, Discard, RecoverExpired, FetchImage, FetchPage, CleanPick,
        CleanLock, CleanCheck, CleanDelete, CleanerDies, CommandStep, Request, AcquireLock,
        Precheck, Promote, PromoteFails, Compensate, CommitPlain, CommitPublish, CommitHide,
        CommitRemove, CommitBlocks, Commit, Rollback, Rethrow, CommandDies, vars
  <2>3. DeleteObject(w) \/ PurgeCache(w) \/ Execute(w)
    BY <2>2, WorkerPlaces DEF WorkerStep
  <2>4. Execute(w) => ~Deletes(worker[w].msg) /\ worker[w].pc = "execute"
    BY <1>2, WorkerPlaces DEF Execute
  <2>. QED
    BY <1>2, <2>3, <2>4 DEF DeleteObject, PurgeCache
<1>. QED
  BY <1>3, <1>4

LEMMA WithdrawalCleanNext ==
    ASSUME NoSharing, TypeOK, TypeOK', StorageDiscipline, WithdrawalClean, [Next]_vars
    PROVE  WithdrawalClean'
<1>. SUFFICES ASSUME NEW w \in Workers, NEW m, worker'[w].msg = m,
                     worker'[w].pc \in {"purge", "finish"}, m.kind = "DELETE_PUBLIC",
                     image'[m.image].status = "PUBLIC_DELETE_PENDING"
              PROVE  /\ <<m.post, m.image>> \notin publicObjs'
                     /\ worker'[w].pc = "finish" => <<m.post, m.image>> \notin cached'
  BY DEF WithdrawalClean
<1>1. /\ worker[w].msg = m
      /\ \/ worker[w].pc = worker'[w].pc
         \/ worker[w].pc = "delete" /\ DeleteObject(w)
         \/ worker[w].pc = "purge" /\ PurgeCache(w)
         \/ worker[w].pc = "execute" /\ Execute(w) /\ ~Deletes(m)
  BY WorkerPasses
<1>2. m \in Messages /\ m.post \in Posts /\ m.image \in Images
  BY MessageType DEF TypeOK, WorkersOK
<1>3. worker[w].pc \in {"execute", "delete", "purge", "finish"}
  BY <1>1
<1>4. m.post \in Home[m.image] /\ lock[m.post] = w /\ w \notin Cmds
  BY <1>1, <1>2, <1>3, ConstantsAssumption DEF StorageDiscipline, WorkerHolds, PublicKinds
<1>5. ImageRow(m.image)
  BY <1>2 DEF StorageDiscipline, ImageRows
<1>6. image[m.image].status = "PUBLIC_DELETE_PENDING"
  <2>1. SUFFICES ASSUME Hides(m.image) PROVE FALSE
    BY <1>2, ImageMoves
    DEF Moves, Attaches, Discards, Detaches, Publishes, Removes, Withdrawn, Deleted, Attachable
  <2>2. PICK c \in Cmds : CommitHide(c) /\ cmd[c].post = image[m.image].post
    BY <2>1 DEF Hides
  <2>3. image[m.image].post = m.post
    BY <1>2, <1>4, <1>5, <2>1, ConstantsAssumption DEF Hides, ImageRow, NoSharing
  <2>4. lock[m.post] = c
    BY <2>2, <2>3 DEF CommitHide, InTransaction, StorageDiscipline, CommandHolds
  <2>. QED
    BY <1>4, <2>4
<1>7. Owns(m.post, m.image)
  BY <1>2, <1>4, <1>5, <1>6, ConstantsAssumption DEF ImageRow, NoSharing, Owns
<1>8. <<m.post, m.image>> \notin publicObjs'
  <2>1. <<m.post, m.image>> \in publicObjs => <<m.post, m.image>> \notin publicObjs'
    <3>1. CASE worker[w].pc \in {"purge", "finish"}
      BY <1>1, <1>6, <3>1 DEF WithdrawalClean
    <3>2. CASE worker[w].pc = "delete" /\ DeleteObject(w)
      BY <1>1, <3>2 DEF DeleteObject
    <3>3. CASE ~Deletes(m)
      BY <1>6, <1>7, <3>3 DEF Deletes
    <3>. QED
      BY <1>1, <3>1, <3>2, <3>3
  <2>. QED
    BY <1>2, <1>4, <2>1, ObjectsAppear
<1>9. ASSUME worker'[w].pc = "finish" PROVE <<m.post, m.image>> \notin cached'
  <2>1. CASE worker[w].pc = "finish"
    <3>1. <<m.post, m.image>> \notin publicObjs /\ <<m.post, m.image>> \notin cached
      BY <1>1, <1>6, <2>1 DEF WithdrawalClean
    <3>. QED
      BY <3>1, CacheFills
  <2>2. CASE worker[w].pc = "purge" /\ PurgeCache(w)
    BY <1>1, <2>2 DEF PurgeCache
  <2>3. CASE worker[w].pc = "delete" /\ DeleteObject(w)
    BY <1>1, <1>9, <2>3 DEF DeleteObject, TypeOK, WorkersOK, WorkerState
  <2>4. CASE ~Deletes(m)
    BY <1>6, <1>7, <2>4 DEF Deletes
  <2>. QED
    BY <1>1, <1>9, <2>1, <2>2, <2>3, <2>4
<1>. QED
  BY <1>8, <1>9

\* When the row of an image reports the end of a withdrawal, neither the bucket nor the
\* edge cache serves the image - as long as no image moves between two posts.
THEOREM WithdrawnImagesAreGone ==
    ASSUME NoSharing
    PROVE  Spec => WithdrawnIsGone
<1>1. Init => WithdrawalClean
  BY DEF Init, WithdrawalClean, IdleWorker
<1>2. TypeOK /\ TypeOK' /\ StorageDiscipline /\ WithdrawalClean /\ [Next]_vars => WithdrawalClean'
  BY WithdrawalCleanNext
<1>3. TypeOK /\ StorageDiscipline /\ WithdrawalClean /\ [Next]_vars =>
          [\A p \in Posts, i \in Images :
              (Owns(p, i) /\ image'[i].publicKey = None) =>
                  <<p, i>> \notin publicObjs /\ <<p, i>> \notin cached]_vars
  <2>1. SUFFICES ASSUME TypeOK, StorageDiscipline, WithdrawalClean, [Next]_vars,
                        NEW p \in Posts, NEW i \in Images, Owns(p, i), image'[i].publicKey = None
                 PROVE  <<p, i>> \notin publicObjs /\ <<p, i>> \notin cached
    OBVIOUS
  <2>2. Withdrawn(i)
    BY <2>1, ImageMoves, ConstantsAssumption
    DEF Moves, Attaches, Discards, Detaches, Publishes, Hides, Removes, Deleted, Owns
  <2>3. PICK w \in Workers : FinishTask(w) /\ Owned(w) /\ worker[w].msg.kind = "DELETE_PUBLIC"
                                           /\ worker[w].msg.image = i
    BY <2>2 DEF Withdrawn
  <2>4. worker[w].pc = "finish" /\ worker[w].msg.post \in Home[i]
    BY <2>1, <2>3 DEF FinishTask, StorageDiscipline, WorkerHolds, PublicKinds
  <2>5. image[i].status = "PUBLIC_DELETE_PENDING" /\ p \in Home[i]
    BY <2>1, <2>2, ConstantsAssumption DEF Withdrawn, StorageDiscipline, ImageRows, ImageRow, Owns
  <2>6. worker[w].msg.post = p
    BY <2>4, <2>5 DEF NoSharing
  <2>. QED
    BY <2>1, <2>3, <2>4, <2>5, <2>6 DEF WithdrawalClean
<1>. QED
  BY <1>1, <1>2, <1>3, TypeCorrect, DisciplineHolds, PTL DEF Spec, WithdrawnIsGone
=============================================================================
