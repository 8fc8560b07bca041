--------------------------- MODULE CandidateProofs ---------------------------
(***************************************************************************)
(* Proofs about CandidateCollection: under either contract, and for any    *)
(* number of executions, claims, versions and previews, the review page,   *)
(* promotion and the collectors agree about what was collected.            *)
(***************************************************************************)
EXTENDS CandidateCollection, FiniteSetTheorems, TLAPS

Hands == [task : {"idle", "upload", "promote"}, exec : Executions \cup {None},
          stage : {"put", "commit", "check"}, view : Views, shown : Views, key : {0} \cup Keys]

(* The types, by what changes together. *)
AnswersTyped == receipts \subseteq Receipts /\ known \in [Executions -> SUBSET Answers]
StoreTyped ==
  /\ image \in Images /\ hand \in Hands
  /\ objects \subseteq Keys /\ old \subseteq objects /\ tasks \subseteq Keys
ViewsTyped == seen \in Views /\ posts \subseteq [made : Views, shown : Views]

\* An answer names no version that is still to come; one that names the present version of
\* a running candidate names its claim.
Stands(a) ==
  /\ a.version <= cand.version
  /\ a.version = cand.version /\ cand.status = "RUNNING" => a.claim = cand.claim

\* The execution has a receipt of its one claim or takeover.
Began(e) == HasReceipt(e, {"claim", "refresh"}, 0)
OfLease(a) == a.op \in {"claim", "heartbeat"} /\ a # NoItems

RowSound ==
  /\ cand.version >= 1
  /\ cand.status = "RUNNING" => cand.version <= MaxVersion
  /\ cand.status = "PENDING" => cand.attempts = 0
  /\ cand.exec # None => SpringMode /\ Began(cand.exec)

AnswersSound ==
  /\ \A e \in Executions : \A k \in known[e] : Stands(k)
  /\ \A r \in receipts : Stands(r.answer)

\* What the receipts of the execution that works on the candidate say is of its present claim.
ReceiptsSound ==
  /\ ~SpringMode => receipts = {}
  /\ \A r \in receipts : OfLease(r.answer) => Began(r.exec)
  /\ cand.status = "RUNNING" =>
       \A r \in receipts : r.exec = cand.exec /\ OfLease(r.answer) => r.answer.claim = cand.claim

\* The preview in force is stored, and no task is about to delete it.
ImageSound == image.key # 0 => image.key \in objects \ tasks

\* Who holds the candidate's lock found what is still there: the object that an upload stores is
\* its own, and a promotion makes what was shown.
HandSound ==
  /\ hand.task = "upload" => hand.exec \in Executions /\ hand.key \in Keys /\ hand.key \notin tasks \cup old
  /\ hand.task = "upload" /\ hand.stage # "check" => hand.key # image.key /\ hand.view.key = image.key
  /\ hand.task = "upload" /\ hand.stage = "commit" => hand.key \in objects
  /\ hand.task = "promote" => hand.view = hand.shown

\* The page shows the candidate of its version, but for a preview that has been let go.
SeenSound ==
  /\ seen.version <= cand.version
  /\ seen.version = cand.version =>
       seen.content = cand.content /\ (image.key # 0 => seen.key = image.key)

PostsSound ==
  /\ posts # {} => cand.status = "APPROVED"
  /\ \A p \in posts : p.made = p.shown
  /\ \A p, q \in posts : p = q

AskInv   == cand \in Candidates /\ AnswersTyped /\ RowSound /\ AnswersSound /\ ReceiptsSound
StoreInv == StoreTyped /\ ImageSound /\ HandSound
ViewInv  == ViewsTyped /\ SeenSound /\ PostsSound

\* The inductive invariant.
CollectionInv == AskInv /\ StoreInv /\ ViewInv

----------------------------------------------------------------------------
(* The row and the answers *)

LEMMA Types ==
    ASSUME CollectorsAssumption, cand \in Candidates
    PROVE  /\ cand.version \in Versions /\ cand.version \in Int /\ cand.claim \in Claims /\ cand.content \in Claims
           /\ cand.owner \in Collectors \cup {None} /\ cand.exec \in Executions \cup {None}
           /\ cand.attempts \in 0..3 /\ cand.stale \in BOOLEAN /\ cand.aged \in BOOLEAN
           /\ MaxVersion \in Nat /\ MaxClaims \in Nat /\ MaxKeys \in Nat
           /\ \A v \in Int : 0 <= v /\ v <= MaxVersion + 1 => v \in Versions
           /\ \A v \in Versions : v \in Nat /\ 0 <= v /\ v <= MaxVersion + 1
           /\ \A c \in Claims : c \in Nat /\ 0 <= c /\ c <= MaxClaims
           /\ 0 \in Claims /\ 0 \in Versions
           /\ \A e \in Executions : Owner[e] \in Collectors /\ e # None
  BY DEF CollectorsAssumption, Candidates, Versions, Claims

\* The answers of others keep standing when the row moves on.
Later ==
  \/ cand'.version > cand.version
  \/ /\ cand'.version = cand.version /\ cand'.claim = cand.claim
     /\ cand'.status = "RUNNING" => cand.status = "RUNNING"

LEMMA AnswersStand ==
    ASSUME CollectorsAssumption, AskInv, cand' \in Candidates, Later,
           \A e \in Executions : \A k \in known'[e] : k \in known[e] \/ Stands(k)',
           \A r \in receipts' : r \in receipts \/ Stands(r.answer)'
    PROVE  AnswersSound'
<1>1. cand.version \in Int /\ cand'.version \in Int
  BY DEF AskInv, Candidates, Versions
<1>2. ASSUME NEW a \in Answers, Stands(a) PROVE Stands(a)'
  <2>1. a.version \in Int
    BY DEF Answers, Versions
  <2>. QED
    BY <1>1, <1>2, <2>1 DEF Stands, Later
<1>3. ASSUME NEW e \in Executions, NEW k \in known'[e] PROVE Stands(k)'
  <2>1. CASE k \in known[e]
    <3>1. k \in Answers
      BY <2>1 DEF AskInv, AnswersTyped
    <3>. QED
      BY <2>1, <3>1, <1>2 DEF AskInv, AnswersSound
  <2>. QED
    BY <2>1
<1>4. ASSUME NEW r \in receipts' PROVE Stands(r.answer)'
  <2>1. CASE r \in receipts
    <3>1. r.answer \in Answers
      BY <2>1 DEF AskInv, AnswersTyped, Receipts
    <3>. QED
      BY <2>1, <3>1, <1>2 DEF AskInv, AnswersSound
  <2>. QED
    BY <2>1
<1>. QED
  BY <1>3, <1>4 DEF AnswersSound

\* A step that gives no answer, or gives an old one again.
LEMMA Unanswered ==
    ASSUME CollectorsAssumption, AskInv, cand' \in Candidates, Later,
           receipts' = receipts, AnswersTyped',
           \A e \in Executions : \A k \in known'[e] : k \in known[e] \/ Stands(k)',
           cand'.exec \in {None, cand.exec},
           cand'.status = "RUNNING" => cand.status = "RUNNING" /\ cand'.version <= MaxVersion
                                       /\ cand'.claim = cand.claim /\ cand'.exec = cand.exec,
           cand'.status = "PENDING" => cand'.attempts = 0
    PROVE  AskInv'
<1>1. AnswersSound'
  BY AnswersStand
<1>2. cand.version \in Int /\ cand'.version \in Int
  BY DEF AskInv, Candidates, Versions
<1>3. \A x \in Executions : Began(x)' <=> Began(x)
  BY DEF Began, HasReceipt
<1>4. RowSound'
  BY <1>2, <1>3, Types DEF AskInv, RowSound, Later
<1>5. ReceiptsSound'
  BY DEF AskInv, ReceiptsSound, Began, HasReceipt
<1>. QED
  BY <1>1, <1>4, <1>5 DEF AskInv

\* What an answer adds.
LEMMA Given ==
    ASSUME CollectorsAssumption, AskInv, NEW e \in Executions, NEW at \in Nat, NEW a \in Answers, Save(e, at, a),
           Tell(e, a) \/ UNCHANGED known
    PROVE  /\ AnswersTyped'
           /\ \A x \in Executions : \A k \in known'[x] : k \in known[x] \/ (x = e /\ k = a)
           /\ \A r \in receipts' : r \in receipts \/ (SpringMode /\ r.exec = e /\ r.answer = a)
           /\ \A x \in Executions : Began(x) => Began(x)'
           /\ SpringMode /\ at = 0 /\ a.op \in {"claim", "refresh"} => Began(e)'
           /\ ~SpringMode => receipts' = receipts
<1>1. [exec |-> e, at |-> at, answer |-> a] \in Receipts
  BY DEF Receipts
<1>2. receipts' \subseteq Receipts
  BY <1>1 DEF Save, AskInv, AnswersTyped
<1>3. known' \in [Executions -> SUBSET Answers]
  BY DEF Tell, AskInv, AnswersTyped
<1>4. \A x \in Executions : \A k \in known'[x] : k \in known[x] \/ (x = e /\ k = a)
  BY DEF Tell, AskInv, AnswersTyped
<1>5. \A r \in receipts' : r \in receipts \/ (SpringMode /\ r.exec = e /\ r.answer = a)
  BY DEF Save
<1>6. \A x \in Executions : Began(x) => Began(x)'
  <2>. SUFFICES ASSUME NEW x \in Executions, Began(x) PROVE Began(x)'
    OBVIOUS
  <2>1. PICK r \in receipts : r.exec = x /\ r.answer.op \in {"claim", "refresh"} /\ r.at = 0
    BY DEF Began, HasReceipt
  <2>2. r \in receipts'
    BY DEF Save
  <2>. QED
    BY <2>1, <2>2 DEF Began, HasReceipt
<1>7. ASSUME SpringMode, at = 0, a.op \in {"claim", "refresh"} PROVE Began(e)'
  <2>. DEFINE r == [exec |-> e, at |-> at, answer |-> a]
  <2>1. r \in receipts'
    BY <1>7 DEF Save
  <2>2. r.exec = e /\ r.answer.op \in {"claim", "refresh"} /\ r.at = 0
    BY <1>7
  <2>. HIDE DEF r
  <2>. QED
    BY <2>1, <2>2 DEF Began, HasReceipt
<1>. QED
  BY <1>2, <1>3, <1>4, <1>5, <1>6, <1>7 DEF AnswersTyped, Save

LEMMA ReceiptsOf ==
    ASSUME AskInv, NEW r \in receipts
    PROVE  r.exec \in Executions /\ r.answer \in Answers
  BY DEF AskInv, AnswersTyped, Receipts

LEMMA AnswerMade ==
    ASSUME CollectorsAssumption, NEW op \in {"claim", "refresh", "heartbeat", "result", "preview"},
           NEW v \in Versions, NEW c \in Claims
    PROVE  [op |-> op, version |-> v, claim |-> c] \in Answers
  BY DEF Answers

LEMMA ClaimAnswers ==
    ASSUME CollectorsAssumption, AskInv, NEW e \in Executions, Claim(e)
    PROVE  AskInv'
<1>1. cand \in Candidates /\ cand.version < MaxVersion /\ cand.claim < MaxClaims /\ cand.attempts < 3
  BY DEF Claim, AskInv, CanChange, Claimable, RowSound
<1>2. cand.version + 1 \in Versions /\ cand.claim + 1 \in Claims /\ cand.attempts + 1 \in 0..3
  BY <1>1, Types DEF Claims, Versions
<1>3. cand' \in Candidates
  BY <1>1, <1>2, Types DEF Claim, Candidates
<1>4. /\ cand'.status = "RUNNING" /\ cand'.version = cand.version + 1 /\ cand'.claim = cand.claim + 1
      /\ cand'.exec = (IF SpringMode THEN e ELSE cand.exec)
  BY <1>1 DEF Claim, Candidates
<1>5. PICK a \in Answers : a = [op |-> "claim", version |-> cand.version + 1, claim |-> cand.claim + 1]
  BY <1>2, AnswerMade
<1>6. Save(e, 0, a) /\ Tell(e, a)
  BY <1>5 DEF Claim, Answer
<1>7. /\ AnswersTyped'
      /\ \A x \in Executions : \A k \in known'[x] : k \in known[x] \/ (x = e /\ k = a)
      /\ \A r \in receipts' : r \in receipts \/ (SpringMode /\ r.exec = e /\ r.answer = a)
      /\ \A x \in Executions : Began(x) => Began(x)'
      /\ SpringMode /\ a.op \in {"claim", "refresh"} => Began(e)'
      /\ ~SpringMode => receipts' = receipts
  BY <1>5, <1>6, Given
<1>8. Stands(a)' /\ a.op = "claim" /\ a.claim = cand'.claim
  BY <1>4, <1>1, <1>5, Types DEF Stands
<1>9. Later
  BY <1>4, <1>1, Types DEF Later
<1>10. AnswersSound'
  BY <1>3, <1>7, <1>8, <1>9, AnswersStand
<1>11. RowSound'
  BY <1>1, <1>4, <1>7, <1>8, Types DEF RowSound, AskInv
<1>12. \A r \in receipts : OfLease(r.answer) => Began(r.exec) /\ r.exec # e
  BY DEF AskInv, ReceiptsSound, Claim, Began
<1>13. ReceiptsSound'
  BY <1>4, <1>7, <1>8, <1>12, ReceiptsOf DEF ReceiptsSound, AskInv
<1>. QED
  BY <1>3, <1>7, <1>10, <1>11, <1>13 DEF AskInv

\* The row when its lease is given up for good.
LEMMA ExpireMoves ==
    ASSUME CollectorsAssumption, AskInv, LeaseLapsed, Expire
    PROVE  /\ cand' \in Candidates /\ Later /\ cand'.status = "FETCH_FAILED" /\ cand'.exec = cand.exec
           /\ cand'.version = cand.version + 1
<1>1. cand \in Candidates /\ cand.version <= MaxVersion
  BY DEF AskInv, RowSound, LeaseLapsed
<1>2. cand.version + 1 \in Versions
  BY <1>1, Types
<1>3. cand' \in Candidates /\ cand'.status = "FETCH_FAILED" /\ cand'.exec = cand.exec /\ cand'.version = cand.version + 1
  BY <1>1, <1>2, Types DEF Expire, Candidates
<1>. QED
  BY <1>1, <1>3, Types DEF Later

LEMMA ClaimNothingAnswers ==
    ASSUME CollectorsAssumption, AskInv, NEW e \in Executions, ClaimNothing(e)
    PROVE  AskInv'
<1>1. cand \in Candidates
  BY DEF AskInv
<1>2. /\ cand' \in Candidates /\ Later /\ cand'.exec = cand.exec /\ cand'.version \in Int /\ cand'.version >= cand.version
      /\ cand'.status = "RUNNING" => cand' = cand
      /\ cand'.status = "PENDING" => cand' = cand
  <2>1. CASE Unclaimable
    BY <1>1, <2>1, ExpireMoves, Types DEF ClaimNothing, Unclaimable
  <2>2. CASE ~Unclaimable
    BY <1>1, <2>2, Types DEF ClaimNothing, Later
  <2>. QED
    BY <2>1, <2>2
<1>3. NoItems \in Answers
  BY <1>1, Types, AnswerMade DEF NoItems
<1>4. /\ AnswersTyped'
      /\ \A x \in Executions : \A k \in known'[x] : k \in known[x] \/ (x = e /\ k = NoItems)
      /\ \A r \in receipts' : r \in receipts \/ (SpringMode /\ r.exec = e /\ r.answer = NoItems)
      /\ \A x \in Executions : Began(x) => Began(x)'
      /\ ~SpringMode => receipts' = receipts
  BY <1>3, Given DEF ClaimNothing
<1>5. Stands(NoItems)'
  BY <1>1, <1>2, Types DEF Stands, NoItems, AskInv, RowSound
<1>6. AnswersSound'
  BY <1>2, <1>4, <1>5, AnswersStand
<1>7. RowSound'
  BY <1>1, <1>2, <1>4, Types DEF RowSound, AskInv
<1>8. ~OfLease(NoItems)
  BY DEF OfLease
<1>9. ReceiptsSound'
  BY <1>2, <1>4, <1>8, ReceiptsOf DEF ReceiptsSound, AskInv
<1>. QED
  BY <1>2, <1>4, <1>6, <1>7, <1>9 DEF AskInv

\* A request of the execution that holds the candidate is carried out and answered.
LEMMA Answered ==
    ASSUME CollectorsAssumption, AskInv, NEW e \in Executions, NEW at \in Nat, NEW a \in Answers, Answer(e, at, a),
           cand' \in Candidates, cand'.version = cand.version + 1, a.version = cand'.version,
           cand'.status = "RUNNING" =>
               /\ cand.status = "RUNNING" /\ cand'.claim = cand.claim /\ cand'.exec = cand.exec
               /\ a.claim = cand.claim /\ cand'.version <= MaxVersion,
           cand'.status # "PENDING",
           cand'.exec = cand.exec \/ (SpringMode /\ cand'.exec = e /\ at = 0 /\ a.op = "refresh"),
           SpringMode /\ OfLease(a) => Began(e)
    PROVE  AskInv'
<1>1. cand \in Candidates
  BY DEF AskInv
<1>2. /\ AnswersTyped'
      /\ \A x \in Executions : \A k \in known'[x] : k \in known[x] \/ (x = e /\ k = a)
      /\ \A r \in receipts' : r \in receipts \/ (SpringMode /\ r.exec = e /\ r.answer = a)
      /\ \A x \in Executions : Began(x) => Began(x)'
      /\ SpringMode /\ at = 0 /\ a.op \in {"claim", "refresh"} => Began(e)'
      /\ ~SpringMode => receipts' = receipts
  BY Given DEF Answer
<1>3. Stands(a)'
  BY <1>1, Types DEF Stands
<1>4. Later
  BY <1>1, Types DEF Later
<1>5. AnswersSound'
  BY <1>2, <1>3, <1>4, AnswersStand
<1>6. RowSound'
  BY <1>1, <1>2, Types DEF RowSound, AskInv
<1>7. ReceiptsSound'
  BY <1>2, ReceiptsOf DEF ReceiptsSound, AskInv
<1>. QED
  BY <1>2, <1>5, <1>6, <1>7 DEF AskInv

\* Whoever holds the lease, and knows the present version, works under the present claim.
LEMMA HoldersClaim ==
    ASSUME CollectorsAssumption, AskInv, NEW e \in Executions, NEW k \in known[e], HoldsLease(e, k.version)
    PROVE  /\ k \in Answers /\ k.claim = cand.claim /\ k.version = cand.version
           /\ SpringMode => cand.exec = e /\ Began(e)
<1>1. k \in Answers /\ Stands(k)
  BY DEF AskInv, AnswersTyped, AnswersSound
<1>2. SpringMode => cand.exec = e
  BY DEF HoldsLease, Owns
<1>. QED
  BY <1>1, <1>2, Types DEF HoldsLease, Stands, AskInv, RowSound

LEMMA HeartbeatAnswers ==
    ASSUME CollectorsAssumption, AskInv, NEW e \in Executions, NEW k \in known[e], Heartbeat(e, k)
    PROVE  AskInv'
<1>1. cand \in Candidates /\ cand.status = "RUNNING" /\ cand.version < MaxVersion
  BY DEF Heartbeat, HoldsLease, AskInv, CanChange
<1>2. k.claim = cand.claim /\ k.version = cand.version /\ k.claim \in Claims /\ (SpringMode => Began(e))
  BY HoldersClaim DEF Heartbeat, Answers
<1>3. cand.version + 1 \in Versions /\ cand.version \in Nat
  BY <1>1, Types
<1>4. PICK a \in Answers : a = [op |-> "heartbeat", version |-> cand.version + 1, claim |-> k.claim]
  BY <1>2, <1>3, AnswerMade
<1>5. Answer(e, k.version, a)
  BY <1>4 DEF Heartbeat
<1>6. /\ cand' \in Candidates /\ cand'.version = cand.version + 1 /\ cand'.status = "RUNNING"
      /\ cand'.claim = cand.claim /\ cand'.exec = cand.exec
  BY <1>1, <1>3 DEF Heartbeat, Candidates
<1>7. cand'.version <= MaxVersion
  BY <1>1, <1>6, Types
<1>. QED
  BY <1>1, <1>2, <1>3, <1>4, <1>5, <1>6, <1>7, Answered

LEMMA ResultAnswers ==
    ASSUME CollectorsAssumption, AskInv, NEW e \in Executions, NEW k \in known[e], Result(e, k)
    PROVE  /\ AskInv' /\ cand'.version = cand.version + 1
           /\ cand'.content # cand.content => cand'.content = cand.claim /\ cand.lease = "live"
<1>1. cand \in Candidates /\ cand.status = "RUNNING" /\ cand.lease = "live" /\ cand.version < MaxVersion
  BY DEF Result, HoldsLease, AskInv, CanChange
<1>2. k.claim = cand.claim /\ k.version = cand.version /\ k.claim \in Claims /\ (SpringMode => Began(e))
  BY HoldersClaim DEF Result, Answers
<1>3. cand.version + 1 \in Versions /\ cand.version \in Nat
  BY <1>1, Types
<1>4. PICK a \in Answers : a = [op |-> "result", version |-> cand.version + 1, claim |-> k.claim]
  BY <1>2, <1>3, AnswerMade
<1>5. Answer(e, 0, a)
  BY <1>4 DEF Result
<1>6. /\ cand' \in Candidates /\ cand'.version = cand.version + 1 /\ cand'.status \in {"NEW", "FETCH_FAILED"}
      /\ cand'.exec = cand.exec /\ (cand'.content # cand.content => cand'.content = k.claim)
  BY <1>1, <1>2, <1>3 DEF Result, ResultNew, ResultFailed, Candidates
<1>. QED
  BY <1>1, <1>2, <1>3, <1>4, <1>5, <1>6, Answered DEF OfLease

LEMMA RefreshAnswers ==
    ASSUME CollectorsAssumption, AskInv, NEW e \in Executions, Refresh(e)
    PROVE  AskInv' /\ cand'.version = cand.version + 1 /\ cand'.content = cand.content /\ cand'.status = "NEW"
<1>1. cand \in Candidates /\ cand.status = "NEW" /\ cand.version < MaxVersion /\ SpringMode
  BY DEF Refresh, AskInv, CanChange
<1>2. cand.version + 1 \in Versions /\ cand.content \in Claims
  BY <1>1, Types
<1>3. PICK a \in Answers : a = [op |-> "refresh", version |-> cand.version + 1, claim |-> cand.content]
  BY <1>2, AnswerMade
<1>4. Answer(e, 0, a)
  BY <1>3 DEF Refresh
<1>5. /\ cand' \in Candidates /\ cand'.version = cand.version + 1 /\ cand'.status = "NEW"
      /\ cand'.exec = e /\ cand'.content = cand.content
  BY <1>1, <1>2, Types DEF Refresh, Candidates
<1>. QED
  BY <1>1, <1>3, <1>4, <1>5, Answered DEF OfLease

LEMMA ReplayAnswers ==
    ASSUME CollectorsAssumption, AskInv, Replay
    PROVE  AskInv'
<1>1. PICK r \in receipts : known' = [known EXCEPT ![r.exec] = @ \cup {r.answer}]
  BY DEF Replay
<1>2. r.exec \in Executions /\ r.answer \in Answers /\ Stands(r.answer)
  BY ReceiptsOf DEF AskInv, AnswersSound
<1>3. cand' = cand /\ receipts' = receipts /\ cand \in Candidates
  BY DEF Replay, AskInv
<1>4. AnswersTyped'
  BY <1>1, <1>2, <1>3 DEF AskInv, AnswersTyped
<1>5. \A x \in Executions : \A k \in known'[x] : k \in known[x] \/ k = r.answer
  BY <1>1, <1>2 DEF AskInv, AnswersTyped
<1>6. PICK a \in Answers : a = r.answer
  BY <1>2
<1>7. Stands(a)'
  BY <1>2, <1>3, <1>6 DEF Stands
<1>8. Later
  BY <1>3 DEF Later
<1>9. cand'.status = "RUNNING" => cand'.version <= MaxVersion
  BY <1>3 DEF AskInv, RowSound
<1>10. cand'.status = "PENDING" => cand'.attempts = 0
  BY <1>3 DEF AskInv, RowSound
<1>. QED
  BY <1>3, <1>4, <1>5, <1>6, <1>7, <1>8, <1>9, <1>10, Unanswered

\* The row goes on without an answer, and does not begin to run.
LEMMA RowMoves ==
    ASSUME CollectorsAssumption, AskInv, cand' \in Candidates, UNCHANGED answers,
           \/ cand'.version = cand.version + 1
           \/ cand'.version = cand.version /\ cand'.claim = cand.claim,
           cand'.exec \in {None, cand.exec},
           cand'.status = "RUNNING" => cand.status = "RUNNING" /\ cand'.version = cand.version
                                       /\ cand'.claim = cand.claim /\ cand'.exec = cand.exec,
           cand'.status = "PENDING" => cand'.attempts = 0
    PROVE  AskInv'
<1>1. cand \in Candidates
  BY DEF AskInv
<1>2. Later
  BY <1>1, Types DEF Later
<1>3. cand'.status = "RUNNING" => cand'.version <= MaxVersion
  BY DEF AskInv, RowSound
<1>4. AnswersTyped' /\ receipts' = receipts
  BY DEF AskInv, AnswersTyped, answers
<1>5. \A x \in Executions : \A k \in known'[x] : k \in known[x]
  BY DEF answers
<1>. QED
  BY <1>2, <1>3, <1>4, <1>5, Unanswered

LEMMA RowRests ==
    ASSUME CollectorsAssumption, AskInv, UNCHANGED <<cand, answers>>
    PROVE  AskInv'
<1>1. cand \in Candidates /\ (cand.status = "PENDING" => cand.attempts = 0)
  BY DEF AskInv, RowSound
<1>. QED
  BY <1>1, RowMoves

\* A decision of the administrator or of the cleanup job, or time.
Decides == Retry \/ Reject \/ Promote \/ CleanupExpires \/ CleanupRemoves
Passes  == LeaseExpires \/ DayPasses \/ MonthPasses

LEMMA DecisionMoves ==
    ASSUME CollectorsAssumption, AskInv, Decides
    PROVE  /\ AskInv'
           /\ cand'.version > cand.version \/ (cand'.version = cand.version /\ image'.key = 0)
           /\ cand'.content \in {0, cand.content} /\ (cand'.version = cand.version => cand'.content = cand.content)
           /\ cand.status # "APPROVED"
<1>1. cand \in Candidates
  BY DEF AskInv
<1>2. CASE CleanupExpires
  <2>1. LeaseLapsed /\ Expire /\ UNCHANGED answers /\ cand'.content = cand.content /\ cand'.claim = cand.claim
    BY <1>1, <1>2 DEF CleanupExpires, Unclaimable, Expire, Candidates
  <2>. QED
    BY <1>1, <2>1, ExpireMoves, RowMoves, Types DEF LeaseLapsed
<1>3. CASE CleanupRemoves
  <2>1. /\ cand' \in Candidates /\ cand'.version = cand.version /\ cand'.exec = cand.exec /\ cand'.status = "GONE"
        /\ cand'.content = cand.content /\ cand.status # "APPROVED" /\ UNCHANGED answers /\ cand'.claim = cand.claim
        /\ image'.key = 0
    BY <1>1, <1>3 DEF CleanupRemoves, Candidates, NoImage
  <2>. QED
    BY <1>1, <2>1, RowMoves, Types
<1>4. CASE Retry
  <2>1. cand.version + 1 \in Versions
    BY <1>1, <1>4, Types DEF Retry, CanChange
  <2>2. 0 \in 0..3 /\ 0 \in Claims
    BY <1>1, Types
  <2>3. /\ cand' \in Candidates /\ cand'.version = cand.version + 1 /\ cand'.exec = None /\ cand'.status = "PENDING"
        /\ cand'.content = 0 /\ cand.status # "APPROVED" /\ UNCHANGED answers /\ cand'.attempts = 0
    BY <1>1, <1>4, <2>1, <2>2 DEF Retry, Candidates
  <2>. QED
    BY <1>1, <2>3, RowMoves, Types
<1>5. CASE Reject \/ Promote
  <2>1. cand.version + 1 \in Versions
    BY <1>1, <1>5, Types DEF Reject, Promote, CanChange
  <2>2. /\ cand' \in Candidates /\ cand'.version = cand.version + 1 /\ cand'.exec = cand.exec
        /\ cand'.status \in {"REJECTED", "APPROVED"}
        /\ cand'.content = cand.content /\ cand.status # "APPROVED" /\ UNCHANGED answers
    BY <1>1, <1>5, <2>1 DEF Reject, Promote, Previewable, Candidates
  <2>. QED
    BY <1>1, <2>2, RowMoves, Types
<1>. QED
  BY <1>2, <1>3, <1>4, <1>5 DEF Decides

LEMMA TimeMoves ==
    ASSUME CollectorsAssumption, AskInv, Passes
    PROVE  AskInv' /\ cand'.version = cand.version /\ cand'.content = cand.content /\ cand'.status = cand.status
<1>1. cand \in Candidates /\ (cand.status = "PENDING" => cand.attempts = 0)
  BY DEF AskInv, RowSound
<1>2. /\ cand' \in Candidates /\ cand'.version = cand.version /\ cand'.exec = cand.exec /\ cand'.status = cand.status
      /\ cand'.content = cand.content /\ cand'.claim = cand.claim /\ cand'.attempts = cand.attempts /\ UNCHANGED answers
  BY <1>1 DEF Passes, LeaseExpires, DayPasses, MonthPasses, Candidates
<1>. QED
  BY <1>1, <1>2, RowMoves

LEMMA UploadAnswers ==
    ASSUME CollectorsAssumption, AskInv, StoreInv, UploadCommit
    PROVE  AskInv' /\ cand'.version = cand.version + 1 /\ cand'.content = cand.content /\ cand'.status = "NEW"
<1>1. cand \in Candidates /\ cand.version < MaxVersion /\ cand.status = "NEW" /\ hand.view.version = cand.version
  BY DEF UploadCommit, Previewable, AskInv, CanChange
<1>2. hand.exec \in Executions /\ hand.view.content \in Claims
  BY DEF StoreInv, StoreTyped, HandSound, UploadCommit, Hands, Views
<1>3. cand.version + 1 \in Versions /\ hand.view.content \in Nat
  BY <1>1, <1>2, Types
<1>4. PICK a \in Answers : a = [op |-> "preview", version |-> cand.version + 1, claim |-> hand.view.content]
  BY <1>2, <1>3, AnswerMade
<1>5. Answer(hand.exec, hand.view.content, a)
  BY <1>1, <1>4 DEF UploadCommit
<1>6. /\ cand' \in Candidates /\ cand'.version = cand.version + 1 /\ cand'.status = "NEW"
      /\ cand'.exec = cand.exec /\ cand'.content = cand.content
  BY <1>1, <1>3 DEF UploadCommit, StorePreview, Candidates
<1>. QED
  BY <1>1, <1>2, <1>3, <1>4, <1>5, <1>6, Answered DEF OfLease

----------------------------------------------------------------------------
(* The previews *)

LEMMA HandTypes ==
    ASSUME CollectorsAssumption, StoreInv
    PROVE  /\ image.key \in {0} \cup Keys /\ image.expired \in BOOLEAN
           /\ hand.key \in {0} \cup Keys /\ hand.view.key \in {0} \cup Keys
           /\ 0 \notin Keys /\ NoImage \in Images /\ NoImage.key = 0 /\ Idle.task = "idle"
<1>1. 0 \notin Keys
  BY DEF Keys, CollectorsAssumption
<1>. QED
  BY <1>1 DEF StoreInv, StoreTyped, Images, Hands, Views, NoImage, Idle

LEMMA IdleTyped ==
    ASSUME CollectorsAssumption
    PROVE  Idle \in Hands /\ NoView \in Views
<1>1. 0 \in Versions /\ 0 \in Claims
  BY DEF CollectorsAssumption, Versions, Claims
<1>2. NoView \in Views
  BY <1>1 DEF NoView, Views
<1>. QED
  BY <1>2 DEF Idle, Hands

\* The candidate lets its preview go, while nobody holds it or by a promotion.
LEMMA DiscardKeeps ==
    ASSUME CollectorsAssumption, StoreInv, Discard, image' = NoImage, UNCHANGED storage,
           (hand' = hand /\ LockFree) \/ hand' = Idle
    PROVE  StoreInv'
<1>1. hand' \in Hands /\ hand'.task = "idle"
  BY HandTypes, IdleTyped DEF StoreInv, StoreTyped, LockFree
<1>2. tasks' \subseteq Keys
  BY HandTypes DEF Discard, StoreInv, StoreTyped
<1>3. StoreTyped'
  BY <1>1, <1>2, HandTypes DEF StoreInv, StoreTyped, storage
<1>. QED
  BY <1>1, <1>3, HandTypes DEF StoreInv, ImageSound, HandSound

LEMMA StoreRests ==
    ASSUME StoreInv, UNCHANGED <<image, storage, tasks, hand>>
    PROVE  StoreInv'
  BY DEF StoreInv, StoreTyped, ImageSound, HandSound, storage

LEMMA UploadStartsKeeps ==
    ASSUME CollectorsAssumption, AskInv, StoreInv, NEW e \in Executions, NEW k \in known[e], UploadStarts(e, k)
    PROVE  StoreInv'
<1>1. PICK key \in Fresh : hand' = [task |-> "upload", exec |-> e, stage |-> "put", view |-> View,
                                    shown |-> NoView, key |-> key]
  BY DEF UploadStarts
<1>2. key \in Keys /\ key \notin objects \cup tasks \cup {image.key}
  BY DEF Fresh
<1>3. View \in Views
  BY Types, HandTypes DEF View, Views, AskInv
<1>4. hand' \in Hands
  BY <1>1, <1>2, <1>3, IdleTyped DEF Hands
<1>5. image' = image /\ objects' = objects /\ old' = old /\ tasks' = tasks
  BY DEF UploadStarts, storage
<1>6. StoreTyped'
  BY <1>4, <1>5 DEF StoreInv, StoreTyped
<1>7. hand'.view.key = image.key
  BY <1>1 DEF View
<1>8. HandSound'
  BY <1>1, <1>2, <1>5, <1>7 DEF HandSound, StoreInv, StoreTyped
<1>. QED
  BY <1>5, <1>6, <1>8 DEF StoreInv, ImageSound

\* What a stage of the upload, or its end, leaves.
LEMMA PutKeeps ==
    ASSUME CollectorsAssumption, StoreInv, UploadPut
    PROVE  StoreInv'
<1>1. PICK stored \in BOOLEAN, next \in {"commit", "check"} :
          /\ next = "commit" => stored
          /\ objects' = IF stored THEN objects \cup {hand.key} ELSE objects
          /\ hand' = [hand EXCEPT !.stage = next]
  BY DEF UploadPut
<1>2. hand \in Hands /\ hand.key \in Keys
  BY DEF StoreInv, StoreTyped, HandSound, UploadPut
<1>3. /\ hand' \in Hands /\ hand'.task = hand.task /\ hand'.key = hand.key /\ hand'.exec = hand.exec
      /\ hand'.view = hand.view /\ hand'.shown = hand.shown /\ hand'.stage = next
  BY <1>1, <1>2 DEF Hands
<1>4. /\ image' = image /\ old' = old /\ tasks' = tasks
      /\ objects \subseteq objects' /\ objects' \subseteq objects \cup {hand.key}
  BY <1>1 DEF UploadPut
<1>5. StoreTyped'
  BY <1>2, <1>3, <1>4 DEF StoreInv, StoreTyped
<1>. QED
  BY <1>1, <1>3, <1>4, <1>5 DEF StoreInv, ImageSound, HandSound, UploadPut

LEMMA CommitKeeps ==
    ASSUME CollectorsAssumption, StoreInv, UploadCommit
    PROVE  StoreInv'
<1>1. hand \in Hands /\ hand.key \in Keys /\ hand.key \in objects \ tasks
      /\ hand.view.key = image.key /\ hand.key # image.key /\ hand.exec \in Executions /\ hand.key \notin old
  BY DEF StoreInv, StoreTyped, HandSound, UploadCommit
<1>2. /\ hand' = Idle \/ hand' = [hand EXCEPT !.stage = "check"]
      /\ image' = [key |-> hand.key, expired |-> FALSE] /\ UNCHANGED storage
      /\ tasks' = IF hand.view.key = 0 THEN tasks ELSE tasks \cup {hand.view.key}
  BY DEF UploadCommit, StorePreview
<1>3. hand' \in Hands /\ (hand'.task # "idle" => /\ hand'.task = "upload" /\ hand'.stage = "check"
                                                /\ hand'.key = hand.key /\ hand'.exec = hand.exec)
  BY <1>1, <1>2, IdleTyped, HandTypes DEF Hands, UploadCommit
<1>4. image' \in Images /\ image'.key = hand.key
  BY <1>1, <1>2 DEF Images
<1>5. tasks' \subseteq Keys /\ hand.key \notin tasks'
  BY <1>1, <1>2, HandTypes DEF StoreInv, StoreTyped
<1>6. StoreTyped'
  BY <1>2, <1>3, <1>4, <1>5 DEF StoreInv, StoreTyped, storage
<1>. QED
  BY <1>1, <1>2, <1>3, <1>4, <1>5, <1>6 DEF StoreInv, ImageSound, HandSound, storage

LEMMA RefusedKeeps ==
    ASSUME CollectorsAssumption, StoreInv, UploadRefused
    PROVE  StoreInv'
<1>1. hand \in Hands
  BY DEF StoreInv, StoreTyped
<1>2. /\ hand' \in Hands /\ hand'.task = hand.task /\ hand'.key = hand.key /\ hand'.exec = hand.exec
      /\ hand'.view = hand.view /\ hand'.stage = "check"
  BY <1>1 DEF UploadRefused, Hands
<1>. QED
  BY <1>2 DEF UploadRefused, StoreInv, StoreTyped, ImageSound, HandSound, storage

LEMMA EndKeeps ==
    ASSUME CollectorsAssumption, StoreInv, UploadCheck \/ HandLost
    PROVE  StoreInv'
<1>1. hand' = Idle /\ Idle \in Hands /\ Idle.task = "idle" /\ image' = image
  BY IdleTyped, HandTypes DEF UploadCheck, HandLost
<1>2. HandSound'
  BY <1>1 DEF HandSound
<1>3. CASE UploadCheck
  <2>1. hand.key \in Keys
    BY <1>3 DEF UploadCheck, StoreInv, HandSound
  <2>. QED
    BY <1>1, <1>2, <1>3, <2>1 DEF UploadCheck, CheckUpload, StoreInv, StoreTyped, ImageSound, storage
<1>4. CASE HandLost
  <2>1. old' = old /\ tasks' = tasks /\ objects \subseteq objects' /\ objects' \subseteq Keys
    BY <1>4 DEF HandLost, StoreInv, StoreTyped, HandSound
  <2>. QED
    BY <1>1, <1>2, <2>1 DEF StoreInv, StoreTyped, ImageSound
<1>. QED
  BY <1>3, <1>4

LEMMA PromoteStartsKeeps ==
    ASSUME CollectorsAssumption, AskInv, StoreInv, ViewInv, PromoteStarts
    PROVE  StoreInv'
<1>1. hand' = [task |-> "promote", exec |-> None, stage |-> "put", view |-> View, shown |-> seen, key |-> 0]
  BY DEF PromoteStarts
<1>2. View \in Views /\ seen \in Views
  BY Types, HandTypes DEF View, Views, AskInv, ViewInv, ViewsTyped
<1>3. hand' \in Hands
  BY <1>1, <1>2 DEF Hands
<1>4. image.key # 0 /\ seen.version = cand.version
  BY HandTypes DEF PromoteStarts, Previewable, StoreInv, StoreTyped
<1>5. View = seen
  BY <1>2, <1>4 DEF ViewInv, SeenSound, View, Views
<1>6. HandSound'
  BY <1>1, <1>5 DEF HandSound
<1>. QED
  BY <1>3, <1>6 DEF PromoteStarts, StoreInv, StoreTyped, ImageSound, storage

\* Objects that nothing needs go, grow old, and previews expire.
LEMMA ObjectsGo ==
    ASSUME CollectorsAssumption, StoreInv,
           PreviewExpires \/ \E key \in Keys : DeleteObject(key) \/ Sweep(key) \/ ObjectAges(key)
    PROVE  StoreInv'
<1>1. CASE PreviewExpires
  <2>1. image \in Images
    BY DEF StoreInv, StoreTyped
  <2>2. image' \in Images /\ image'.key = image.key
    BY <1>1, <2>1 DEF PreviewExpires, Images
  <2>. QED
    BY <1>1, <2>2 DEF PreviewExpires, StoreInv, StoreTyped, ImageSound, HandSound, storage
<1>2. ASSUME NEW key \in Keys, DeleteObject(key) PROVE StoreInv'
  BY <1>2 DEF DeleteObject, StoreInv, StoreTyped, ImageSound, HandSound
<1>3. ASSUME NEW key \in Keys, Sweep(key) PROVE StoreInv'
  BY <1>3 DEF Sweep, StoreInv, StoreTyped, ImageSound, HandSound
<1>4. ASSUME NEW key \in Keys, ObjectAges(key) PROVE StoreInv'
  BY <1>4 DEF ObjectAges, StoreInv, StoreTyped, ImageSound, HandSound
<1>. QED
  BY <1>1, <1>2, <1>3, <1>4

----------------------------------------------------------------------------
(* What is shown and made *)

\* The page still shows the candidate of its version when the row moves on.
LEMMA ViewsStand ==
    ASSUME CollectorsAssumption, AskInv, StoreInv, ViewInv, cand' \in Candidates, image' \in Images,
           UNCHANGED <<seen, posts>>,
           \/ cand'.version = cand.version + 1
           \/ /\ cand'.version = cand.version /\ cand'.content = cand.content
              /\ image'.key \in {0, image.key},
           cand.status = "APPROVED" => cand'.status = "APPROVED"
    PROVE  ViewInv'
<1>1. seen.version \in Int /\ cand.version \in Int /\ cand'.version \in Int
  BY DEF AskInv, ViewInv, ViewsTyped, Views, Candidates, Versions
<1>2. SeenSound'
  BY <1>1 DEF ViewInv, SeenSound
<1>3. PostsSound'
  BY DEF ViewInv, PostsSound
<1>. QED
  BY <1>2, <1>3 DEF ViewInv, ViewsTyped

LEMMA ViewsRest ==
    ASSUME CollectorsAssumption, AskInv, StoreInv, ViewInv, UNCHANGED <<cand, seen, posts>>,
           image' \in Images, image'.key \in {0, image.key}
    PROVE  ViewInv'
<1>1. cand \in Candidates
  BY DEF AskInv
<1>. QED
  BY <1>1, ViewsStand

LEMMA LooksKeeps ==
    ASSUME CollectorsAssumption, AskInv, StoreInv, ViewInv, Looks
    PROVE  ViewInv'
<1>1. View \in Views
  BY Types, HandTypes DEF View, Views, AskInv
<1>2. seen' = View /\ cand' = cand /\ image' = image /\ posts' = posts
  BY DEF Looks
<1>3. seen'.version = cand.version /\ seen'.content = cand.content /\ seen'.key = image.key
  BY <1>2 DEF View
<1>4. cand.version \in Int
  BY Types DEF AskInv
<1>. QED
  BY <1>1, <1>2, <1>3, <1>4 DEF ViewInv, ViewsTyped, SeenSound, PostsSound

LEMMA PromoteKeeps ==
    ASSUME CollectorsAssumption, AskInv, StoreInv, ViewInv, Promote
    PROVE  ViewInv'
<1>1. cand \in Candidates /\ cand.status = "NEW"
  BY DEF AskInv, Promote, Previewable
<1>2. posts = {} /\ posts' = {[made |-> hand.view, shown |-> hand.shown]}
  BY <1>1 DEF ViewInv, PostsSound, Promote
<1>3. hand.view \in Views /\ hand.shown \in Views /\ hand.view = hand.shown
  BY DEF StoreInv, StoreTyped, Hands, HandSound, Promote
<1>4. cand'.status = "APPROVED" /\ cand'.version = cand.version + 1 /\ seen' = seen
  BY <1>1 DEF Promote, Candidates
<1>5. seen.version \in Int /\ cand.version \in Int /\ seen.version <= cand.version
  BY <1>1, Types DEF ViewInv, ViewsTyped, Views, Versions, SeenSound
<1>6. SeenSound'
  BY <1>4, <1>5 DEF SeenSound
<1>7. PostsSound'
  BY <1>2, <1>3, <1>4 DEF PostsSound
<1>8. ViewsTyped'
  BY <1>2, <1>3, <1>4 DEF ViewsTyped, ViewInv
<1>. QED
  BY <1>6, <1>7, <1>8 DEF ViewInv

----------------------------------------------------------------------------
(* The steps *)

LEMMA CollectionInit ==
    ASSUME CollectorsAssumption, Init
    PROVE  CollectionInv
<1>. DEFINE c == [status |-> "PENDING", version |-> 1, owner |-> None, exec |-> None,
                  lease |-> "none", attempts |-> 0, stale |-> FALSE, aged |-> FALSE,
                  claim |-> 0, content |-> 0]
<1>1. 1 \in Versions /\ 0 \in Claims /\ 0 \in 0..3
  BY DEF CollectorsAssumption, Versions, Claims
<1>2. c \in Candidates
  BY <1>1 DEF Candidates
<1>3. c.version = 1 /\ c.status = "PENDING" /\ c.exec = None /\ c.attempts = 0 /\ c.content = 0
  OBVIOUS
<1>4. cand = c
  BY DEF Init
<1>. HIDE DEF c
<1>5. AskInv
  <2>1. receipts = {} /\ known = [e \in Executions |-> {}]
    BY DEF Init
  <2>2. AnswersTyped /\ AnswersSound
    BY <2>1 DEF AnswersTyped, AnswersSound
  <2>3. RowSound
    BY <1>3, <1>4 DEF RowSound
  <2>4. ReceiptsSound
    BY <2>1 DEF ReceiptsSound
  <2>. QED
    BY <1>2, <1>4, <2>2, <2>3, <2>4 DEF AskInv
<1>6. NoView.version = 0 /\ NoView.content = 0 /\ NoImage.key = 0 /\ NoImage \in Images /\ Idle.task = "idle"
  BY DEF NoView, NoImage, Images, Idle
<1>7. StoreInv
  BY <1>6, IdleTyped DEF Init, StoreInv, StoreTyped, ImageSound, HandSound
<1>8. ViewInv
  BY <1>3, <1>4, <1>6, IdleTyped DEF Init, ViewInv, ViewsTyped, SeenSound, PostsSound
<1>. QED
  BY <1>5, <1>7, <1>8 DEF CollectionInv

\* The requests of the collectors.
LEMMA AskKeeps ==
    ASSUME CollectorsAssumption, CollectionInv, NEW e \in Executions, Ask(e)
    PROVE  CollectionInv'
<1>. USE DEF CollectionInv
<1>1. cand \in Candidates /\ image \in Images /\ image.key \in {0, image.key}
  BY DEF AskInv, StoreInv, StoreTyped
<1>2. CASE Claim(e)
  <2>1. AskInv'
    BY <1>2, ClaimAnswers
  <2>2. cand'.version = cand.version + 1 /\ cand.status # "APPROVED"
    BY <1>1, <1>2 DEF Claim, Candidates, Claimable, LeaseLapsed
  <2>3. UNCHANGED <<image, storage, tasks, seen, hand, posts>> /\ cand' \in Candidates
    BY <1>2, <2>1 DEF Claim, AskInv
  <2>. QED
    BY <1>1, <2>1, <2>2, <2>3, StoreRests, ViewsStand
<1>3. CASE ClaimNothing(e)
  <2>1. AskInv'
    BY <1>3, ClaimNothingAnswers
  <2>2. \/ cand' = cand
        \/ cand'.version = cand.version + 1 /\ cand.status # "APPROVED"
    BY <1>1, <1>3, ExpireMoves DEF ClaimNothing, Unclaimable, LeaseLapsed
  <2>3. UNCHANGED <<image, storage, tasks, seen, hand, posts>> /\ cand' \in Candidates
    BY <1>3, <2>1 DEF ClaimNothing, AskInv
  <2>. QED
    BY <1>1, <2>1, <2>2, <2>3, StoreRests, ViewsStand
<1>4. CASE Refresh(e)
  <2>1. AskInv' /\ cand'.version = cand.version + 1 /\ cand.status # "APPROVED"
    BY <1>4, RefreshAnswers DEF Refresh
  <2>2. UNCHANGED <<image, storage, tasks, seen, hand, posts>> /\ cand' \in Candidates
    BY <1>4, <2>1 DEF Refresh, AskInv
  <2>. QED
    BY <1>1, <2>1, <2>2, StoreRests, ViewsStand
<1>5. ASSUME NEW k \in known[e], Heartbeat(e, k) PROVE CollectionInv'
  <2>1. AskInv'
    BY <1>5, HeartbeatAnswers
  <2>2. cand'.version = cand.version + 1 /\ cand.status # "APPROVED"
    BY <1>1, <1>5 DEF Heartbeat, HoldsLease, Candidates
  <2>3. UNCHANGED <<image, storage, tasks, seen, hand, posts>> /\ cand' \in Candidates
    BY <1>5, <2>1 DEF Heartbeat, AskInv
  <2>. QED
    BY <1>1, <2>1, <2>2, <2>3, StoreRests, ViewsStand
<1>6. ASSUME NEW k \in known[e], Result(e, k) PROVE CollectionInv'
  <2>1. AskInv' /\ cand'.version = cand.version + 1 /\ cand.status # "APPROVED"
    BY <1>6, ResultAnswers DEF Result, HoldsLease
  <2>2. UNCHANGED <<storage, seen, hand, posts>> /\ LockFree
    BY <1>6 DEF Result
  <2>3. StoreInv'
    <3>1. CASE ResultNew(e, k)
      BY <2>2, <3>1, DiscardKeeps DEF ResultNew
    <3>2. CASE ResultFailed
      BY <2>2, <3>2, StoreRests DEF ResultFailed
    <3>. QED
      BY <1>6, <3>1, <3>2 DEF Result
  <2>4. cand' \in Candidates /\ image' \in Images
    BY <2>1, <2>3 DEF AskInv, StoreInv, StoreTyped
  <2>. QED
    BY <2>1, <2>2, <2>3, <2>4, ViewsStand
<1>7. ASSUME NEW k \in known[e], UploadStarts(e, k) PROVE CollectionInv'
  <2>1. StoreInv' /\ UNCHANGED <<cand, image, answers, seen, posts>>
    BY <1>7, UploadStartsKeeps DEF UploadStarts
  <2>. QED
    BY <1>1, <2>1, RowRests, ViewsRest
<1>. QED
  BY <1>2, <1>3, <1>4, <1>5, <1>6, <1>7 DEF Ask

\* Uploads and promotions, as they go on or are lost.
LEMMA HandKeeps ==
    ASSUME CollectorsAssumption, CollectionInv, Upload \/ HandLost \/ PromoteStarts
    PROVE  CollectionInv'
<1>. USE DEF CollectionInv
<1>1. image \in Images /\ image.key \in {0, image.key}
  BY DEF StoreInv, StoreTyped
<1>2. CASE UploadCommit
  <2>1. AskInv' /\ StoreInv' /\ cand'.version = cand.version + 1 /\ cand'.status = "NEW" /\ cand.status # "APPROVED"
    BY <1>2, UploadAnswers, CommitKeeps DEF UploadCommit, Previewable
  <2>2. UNCHANGED <<seen, posts>> /\ cand' \in Candidates /\ image' \in Images
    BY <1>2, <2>1 DEF UploadCommit, AskInv, StoreInv, StoreTyped
  <2>. QED
    BY <2>1, <2>2, ViewsStand
<1>3. CASE UploadPut \/ UploadRefused \/ UploadCheck \/ HandLost \/ PromoteStarts
  <2>1. StoreInv'
    BY <1>3, PutKeeps, RefusedKeeps, EndKeeps, PromoteStartsKeeps
  <2>2. UNCHANGED <<cand, image, answers, seen, posts>>
    BY <1>3 DEF UploadPut, UploadRefused, UploadCheck, HandLost, PromoteStarts
  <2>. QED
    BY <1>1, <2>1, <2>2, RowRests, ViewsRest
<1>. QED
  BY <1>2, <1>3 DEF Upload

LEMMA DecisionKeeps ==
    ASSUME CollectorsAssumption, CollectionInv, Decides
    PROVE  CollectionInv'
<1>. USE DEF CollectionInv
<1>1. /\ AskInv' /\ cand.status # "APPROVED"
      /\ cand'.version > cand.version \/ (cand'.version = cand.version /\ image'.key = 0)
      /\ cand'.version = cand.version => cand'.content = cand.content
  BY DecisionMoves
<1>2. CASE CleanupExpires
  <2>1. UNCHANGED <<image, storage, tasks, hand, seen, posts>>
    BY <1>2 DEF CleanupExpires
  <2>2. cand'.version = cand.version + 1
    BY <1>2, ExpireMoves DEF CleanupExpires, Unclaimable
  <2>3. cand' \in Candidates /\ image' \in Images
    BY <1>1, <2>1 DEF AskInv, StoreInv, StoreTyped
  <2>. QED
    BY <1>1, <2>1, <2>2, <2>3, StoreRests, ViewsStand
<1>3. CASE Promote
  <2>1. StoreInv'
    BY <1>3, DiscardKeeps DEF Promote
  <2>. QED
    BY <1>1, <1>3, <2>1, PromoteKeeps
<1>4. CASE Retry \/ Reject \/ CleanupRemoves
  <2>1. Discard /\ image' = NoImage /\ LockFree /\ UNCHANGED <<storage, hand, seen, posts>>
    BY <1>4 DEF Retry, Reject, CleanupRemoves
  <2>2. StoreInv'
    BY <2>1, DiscardKeeps
  <2>3. cand \in Candidates /\ cand' \in Candidates /\ image' \in Images /\ image'.key = 0
    BY <1>1, <2>1, <2>2, HandTypes DEF AskInv, StoreInv, StoreTyped
  <2>4. cand'.version = cand.version + 1 \/ cand'.version = cand.version
    BY <1>4, <2>3 DEF Retry, Reject, CleanupRemoves, Candidates
  <2>. QED
    BY <1>1, <2>1, <2>2, <2>3, <2>4, ViewsStand
<1>. QED
  BY <1>2, <1>3, <1>4 DEF Decides

\* Time, and what is left to the workers.
LEMMA RestKeeps ==
    ASSUME CollectorsAssumption, CollectionInv,
           \/ Replay \/ Looks \/ CleanupClears \/ Passes \/ PreviewExpires
           \/ \E key \in Keys : DeleteObject(key) \/ Sweep(key) \/ ObjectAges(key)
    PROVE  CollectionInv'
<1>. USE DEF CollectionInv
<1>1. cand \in Candidates /\ image \in Images /\ image.key \in {0, image.key}
  BY DEF AskInv, StoreInv, StoreTyped
<1>2. CASE Replay
  <2>1. AskInv' /\ UNCHANGED <<cand, image, storage, tasks, hand, seen, posts>>
    BY <1>2, ReplayAnswers DEF Replay
  <2>. QED
    BY <1>1, <2>1, StoreRests, ViewsRest
<1>3. CASE Looks
  <2>1. UNCHANGED <<cand, answers, image, storage, tasks, hand>>
    BY <1>3 DEF Looks
  <2>. QED
    BY <1>3, <2>1, StoreRests, RowRests, LooksKeeps
<1>4. CASE CleanupClears
  <2>1. Discard /\ image' = NoImage /\ LockFree /\ UNCHANGED <<cand, answers, storage, hand, seen, posts>>
    BY <1>4 DEF CleanupClears
  <2>2. StoreInv'
    BY <2>1, DiscardKeeps
  <2>3. image' \in Images /\ image'.key = 0
    BY <2>1, HandTypes
  <2>. QED
    BY <2>1, <2>2, <2>3, RowRests, ViewsRest
<1>5. CASE Passes
  <2>1. AskInv' /\ cand'.version = cand.version /\ cand'.content = cand.content /\ cand'.status = cand.status
    BY <1>5, TimeMoves
  <2>2. UNCHANGED <<image, storage, tasks, seen, hand, posts>> /\ cand' \in Candidates
    BY <1>5, <2>1 DEF Passes, LeaseExpires, DayPasses, MonthPasses, AskInv
  <2>. QED
    BY <1>1, <2>1, <2>2, StoreRests, ViewsStand
<1>6. CASE PreviewExpires \/ \E key \in Keys : DeleteObject(key) \/ Sweep(key) \/ ObjectAges(key)
  <2>1. StoreInv'
    BY <1>6, ObjectsGo
  <2>2. UNCHANGED <<cand, answers, seen, posts>> /\ image'.key = image.key
    BY <1>1, <1>6 DEF PreviewExpires, DeleteObject, Sweep, ObjectAges, Images
  <2>3. image' \in Images
    BY <2>1 DEF StoreInv, StoreTyped
  <2>. QED
    BY <2>1, <2>2, <2>3, RowRests, ViewsRest
<1>. QED
  BY <1>2, <1>3, <1>4, <1>5, <1>6

LEMMA CollectionNext ==
    ASSUME CollectorsAssumption, CollectionInv, [Next]_vars
    PROVE  CollectionInv'
<1>1. CASE UNCHANGED vars
  <2>1. UNCHANGED <<cand, answers, image, storage, tasks, hand, seen, posts>> /\ image \in Images
    BY <1>1 DEF vars, answers, storage, CollectionInv, StoreInv, StoreTyped
  <2>. QED
    BY <2>1, RowRests, StoreRests, ViewsRest DEF CollectionInv
<1>2. CASE Next
  BY <1>2, AskKeeps, HandKeeps, DecisionKeeps, RestKeeps
  DEF Next, Review, Cleanup, Ages, Decides, Passes
<1>. QED
  BY <1>1, <1>2

----------------------------------------------------------------------------
(* What the invariant says of the properties *)

LEMMA InvSound ==
    ASSUME CollectorsAssumption, CollectionInv
    PROVE  TypeOK /\ PreviewStands /\ PromotedAsSeen
<1>1. TypeOK
  BY DEF CollectionInv, AskInv, AnswersTyped, StoreInv, StoreTyped, Hands, ViewInv, ViewsTyped, TypeOK
<1>2. PreviewStands
  BY DEF CollectionInv, StoreInv, ImageSound, PreviewStands
<1>3. PostsSound
  BY DEF CollectionInv, ViewInv
<1>4. Cardinality(posts) \in {0, 1}
  <2>1. CASE posts = {}
    BY <2>1, FS_EmptySet
  <2>2. ASSUME NEW p \in posts PROVE Cardinality(posts) = 1
    <3>1. posts = {p}
      BY <1>3 DEF PostsSound
    <3>. QED
      BY <3>1, FS_Singleton
  <2>. QED
    BY <2>1, <2>2
<1>5. PromotedAsSeen
  BY <1>3, <1>4 DEF PostsSound, PromotedAsSeen
<1>. QED
  BY <1>1, <1>2, <1>5

\* The steps that move the row, and those that answer a collector.
LEMMA RowSteps ==
    ASSUME Next, cand' # cand
    PROVE  \/ Decides \/ Passes \/ UploadCommit
           \/ \E e \in Executions :
                \/ Claim(e) \/ ClaimNothing(e) \/ Refresh(e)
                \/ \E k \in known[e] : Heartbeat(e, k) \/ Result(e, k)
<1>1. CASE Replay \/ Upload \/ HandLost
  BY <1>1 DEF Replay, Upload, UploadPut, UploadRefused, UploadCheck, HandLost
<1>2. CASE Review \/ Cleanup
  BY <1>2 DEF Review, Looks, PromoteStarts, Cleanup, CleanupClears, Decides
<1>3. CASE Ages \/ \E key \in Keys : DeleteObject(key) \/ Sweep(key) \/ ObjectAges(key)
  BY <1>3 DEF Ages, PreviewExpires, Passes, DeleteObject, Sweep, ObjectAges
<1>4. ASSUME NEW e \in Executions, NEW k \in known[e], UploadStarts(e, k) PROVE FALSE
  BY <1>4 DEF UploadStarts
<1>. QED
  BY <1>1, <1>2, <1>3, <1>4 DEF Next, Ask

LEMMA AnswerSteps ==
    ASSUME Next, known' # known
    PROVE  \/ Replay \/ UploadCommit
           \/ \E e \in Executions :
                \/ Claim(e) \/ Refresh(e)
                \/ \E k \in known[e] : Heartbeat(e, k) \/ Result(e, k)
<1>. USE DEF answers
<1>1. CASE Upload \/ HandLost
  BY <1>1 DEF Upload, UploadPut, UploadRefused, UploadCheck, HandLost
<1>2. ASSUME Review \/ Cleanup PROVE FALSE
  BY <1>2 DEF Review, Looks, PromoteStarts, Retry, Reject, Promote, Cleanup, CleanupClears,
     CleanupExpires, CleanupRemoves
<1>3. ASSUME Ages \/ \E key \in Keys : DeleteObject(key) \/ Sweep(key) \/ ObjectAges(key) PROVE FALSE
  BY <1>3 DEF Ages, PreviewExpires, LeaseExpires, DayPasses, MonthPasses, DeleteObject, Sweep, ObjectAges
<1>4. ASSUME NEW e \in Executions, ClaimNothing(e) PROVE FALSE
  BY <1>4 DEF ClaimNothing
<1>5. ASSUME NEW e \in Executions, NEW k \in known[e], UploadStarts(e, k) PROVE FALSE
  BY <1>5 DEF UploadStarts
<1>. QED
  BY <1>1, <1>2, <1>3, <1>4, <1>5 DEF Next, Ask

\* The content of the row is replaced by a result, and let go by a retry.
LEMMA ResultStep ==
    ASSUME CollectorsAssumption, CollectionInv, [Next]_vars, cand'.content # cand.content
    PROVE  cand'.content = 0 \/ (cand'.content = cand.claim /\ cand.lease = "live")
<1>. USE DEF CollectionInv
<1>1. cand \in Candidates
  BY DEF AskInv
<1>2. CASE cand' = cand
  BY <1>2
<1>3. ASSUME NEW e \in Executions, NEW k \in known[e], Result(e, k)
      PROVE  cand'.content = cand.claim /\ cand.lease = "live"
  BY <1>3, ResultAnswers
<1>4. ASSUME NEW e \in Executions, Claim(e) \/ ClaimNothing(e) PROVE FALSE
  BY <1>1, <1>4 DEF Claim, ClaimNothing, Expire, Candidates
<1>5. ASSUME NEW e \in Executions, Refresh(e) PROVE FALSE
  BY <1>5, RefreshAnswers
<1>6. ASSUME NEW e \in Executions, NEW k \in known[e], Heartbeat(e, k) PROVE FALSE
  BY <1>1, <1>6 DEF Heartbeat, Candidates
<1>7. ASSUME UploadCommit PROVE FALSE
  BY <1>7, UploadAnswers
<1>8. ASSUME Decides PROVE cand'.content = 0
  BY <1>8, DecisionMoves
<1>9. ASSUME Passes PROVE FALSE
  BY <1>9, TimeMoves
<1>10. ASSUME Next, cand' # cand
       PROVE  \/ Decides \/ Passes \/ UploadCommit
              \/ \E e \in Executions :
                   \/ Claim(e) \/ ClaimNothing(e) \/ Refresh(e)
                   \/ \E k \in known[e] : Heartbeat(e, k) \/ Result(e, k)
  BY <1>10, RowSteps
<1>. QED
  BY <1>2, <1>3, <1>4, <1>5, <1>6, <1>7, <1>8, <1>9, <1>10 DEF vars

LEMMA ToldStep ==
    ASSUME CollectorsAssumption, CollectionInv, [Next]_vars,
           NEW e \in Executions, NEW k \in known'[e] \ known[e], k.op \in {"claim", "heartbeat"}
    PROVE  cand'.status = "RUNNING" /\ cand'.lease = "live" /\ cand'.claim = k.claim
<1>. USE DEF CollectionInv
<1>1. cand \in Candidates /\ known \in [Executions -> SUBSET Answers]
  BY DEF AskInv, AnswersTyped
<1>2. ASSUME NEW x \in Executions, NEW a, Tell(x, a) PROVE k = a
  BY <1>1, <1>2 DEF Tell
<1>3. ASSUME NEW x \in Executions, Claim(x)
      PROVE  cand'.status = "RUNNING" /\ cand'.lease = "live" /\ cand'.claim = k.claim
  <2>1. k = [op |-> "claim", version |-> cand.version + 1, claim |-> cand.claim + 1]
    BY <1>2, <1>3 DEF Claim, Answer
  <2>. QED
    BY <1>1, <1>3, <2>1 DEF Claim, Candidates
<1>4. ASSUME NEW x \in Executions, NEW h \in known[x], Heartbeat(x, h)
      PROVE  cand'.status = "RUNNING" /\ cand'.lease = "live" /\ cand'.claim = k.claim
  <2>1. k = [op |-> "heartbeat", version |-> cand.version + 1, claim |-> h.claim]
    BY <1>2, <1>4 DEF Heartbeat, Answer
  <2>2. h.claim = cand.claim
    BY <1>4, HoldersClaim DEF Heartbeat
  <2>3. cand.status = "RUNNING" /\ cand.lease = "live"
    BY <1>4 DEF Heartbeat, HoldsLease
  <2>. QED
    BY <1>1, <1>4, <2>1, <2>2, <2>3 DEF Heartbeat, Candidates
<1>5. ASSUME NEW x \in Executions, NEW h \in known[x], Result(x, h) PROVE FALSE
  <2>1. k = [op |-> "result", version |-> cand.version + 1, claim |-> h.claim]
    BY <1>2, <1>5 DEF Result, Answer
  <2>. QED
    BY <2>1
<1>6. ASSUME NEW x \in Executions, Refresh(x) PROVE FALSE
  <2>1. k = [op |-> "refresh", version |-> cand.version + 1, claim |-> cand.content]
    BY <1>2, <1>6 DEF Refresh, Answer
  <2>. QED
    BY <2>1
<1>7. ASSUME UploadCommit PROVE FALSE
  <2>1. hand.exec \in Executions
    BY <1>7 DEF UploadCommit, StoreInv, HandSound
  <2>2. k = [op |-> "preview", version |-> hand.view.version + 1, claim |-> hand.view.content]
    BY <1>2, <1>7, <2>1 DEF UploadCommit, Answer
  <2>. QED
    BY <2>2
<1>8. CASE Replay
  <2>1. PICK r \in receipts : Replayable(r) /\ known' = [known EXCEPT ![r.exec] = @ \cup {r.answer}]
    BY <1>8 DEF Replay
  <2>2. k = r.answer /\ r.answer # NoItems /\ r.exec \in Executions
    BY <1>1, <2>1, ReceiptsOf DEF Replayable
  <2>3. cand.status = "RUNNING" /\ cand.lease = "live" /\ cand' = cand
    BY <1>8, <2>1, <2>2 DEF Replay, Replayable
  <2>4. SpringMode /\ cand.exec = r.exec
    BY <2>1 DEF Replayable, Owns, AskInv, ReceiptsSound
  <2>. QED
    BY <2>2, <2>3, <2>4 DEF AskInv, ReceiptsSound, OfLease
<1>9. CASE known' = known
  BY <1>9
<1>10. ASSUME Next, known' # known
       PROVE  \/ Replay \/ UploadCommit
              \/ \E x \in Executions :
                   \/ Claim(x) \/ Refresh(x)
                   \/ \E h \in known[x] : Heartbeat(x, h) \/ Result(x, h)
  BY <1>10, AnswerSteps
<1>. QED
  BY <1>3, <1>4, <1>5, <1>6, <1>7, <1>8, <1>9, <1>10 DEF vars

\* Under either contract, and whatever answers are lost, sent again or late: the preview that the review
\* page shows is stored, a candidate becomes one post of what was shown, the result that is shown was
\* fetched under the last claim while its lease lasted, and nobody is told of a claim that is over
\* (CollectionService, CollectorService, CandidatePreviewService, PromotionService).
THEOREM CandidateIsSound ==
    ASSUME CollectorsAssumption
    PROVE  Spec => CandidateSound
<1>1. Init => CollectionInv
  BY CollectionInit
<1>2. CollectionInv /\ [Next]_vars => CollectionInv'
  BY CollectionNext
<1>3. CollectionInv => TypeOK /\ PreviewStands /\ PromotedAsSeen
  BY InvSound
<1>4. /\ CollectionInv /\ [Next]_vars
      => [cand'.content # cand.content =>
            \/ cand'.content = 0
            \/ cand'.content = cand.claim /\ cand.lease = "live"]_vars
  BY ResultStep
<1>5. /\ CollectionInv /\ [Next]_vars
      => [\A e \in Executions : \A k \in known'[e] \ known[e] :
            k.op \in {"claim", "heartbeat"} =>
              cand'.status = "RUNNING" /\ cand'.lease = "live" /\ cand'.claim = k.claim]_vars
  BY ToldStep
<1>. QED
  BY <1>1, <1>2, <1>3, <1>4, <1>5, PTL DEF Spec, CandidateSound, ResultOfLastClaim, ToldOfLiveClaim

=============================================================================
