--------------------------- MODULE DiscordDelivery ---------------------------
(***************************************************************************)
(* One review message in Discord: its row collect.discord_review_delivery, *)
(* the worker that writes the head, the thread and a part and marks it     *)
(* READY (DiscordReviewWorker), the decision that cancels it, and the      *)
(* removal by the API after its commit and by the worker.                  *)
(*                                                                         *)
(* A request to Discord is in flight until it is carried out or refused;   *)
(* the worker may give up waiting, or die, before.  run.lock keeps one     *)
(* worker on the host, so a claim is named by what it is for.              *)
(*                                                                         *)
(* The generation is left out: it changes exactly when the state becomes   *)
(* CANCELLED.  Nobody but the program deletes messages.                    *)
(***************************************************************************)
EXTENDS Integers

CONSTANTS
  Dying,    \* whether the worker and the API die
  Waking    \* whether the API removes too; else its queue is full

DeliveryAssumption == Dying \in BOOLEAN /\ Waking \in BOOLEAN

VARIABLES
  row,     \* the delivery with its part
  woken,   \* the API's dispatcher has been told of the delivery
  worker,  \* the worker of the batch: where it is and what it read
  clean,   \* the two that remove messages: the API and the worker
  chan     \* the channel in Discord

vars == <<row, woken, worker, clean, chan>>

Sends == {"PENDING", "SENDING", "SENT", "BLOCKED"}
Cleaners == {"api", "batch"}
Receipts == {"HEAD_SENT", "THREAD_SENT", "PART_SENT"}
Places ==
  {"idle", "notice", "noticing", "clean", "cleaning", "export",
   "head", "headPost", "headWait", "headSent", "headFind", "headRetry",
   "thread", "threadOpen", "threadWait", "threadSent",
   "part", "partPost", "partWait", "partSent", "partFind", "partRetry", "partSeed", "partSeeded",
   "votes", "headSeed", "headSeeded", "ready", "late", "lost", "resolved", "error"}

\* discord_review_delivery with its discord_review_part: what is known to be sent, who
\* has the lease and whether its time runs, whether the next attempt is due.
Row ==
  [state : {"PENDING", "EXPORTING", "READY", "CANCELLED", "BLOCKED"},
   head : BOOLEAN, headSend : Sends, headSeeded : BOOLEAN, thread : BOOLEAN,
   part : BOOLEAN, partSend : Sends, partSeeded : BOOLEAN,
   lease : {"none", "export", "notice", "api", "batch"}, live : BOOLEAN, due : BOOLEAN,
   cleanup : {"NONE", "PENDING", "RUNNING", "RETRY_WAIT", "BLOCKED", "DONE"},
   headGone : BOOLEAN, threadGone : BOOLEAN, failures : 0..2,
   notice : {"NONE", "PENDING", "SENT", "BLOCKED", "UNAVAILABLE"}]

\* The types, and the CHECK constraints of the two tables.
TypeOK ==
  /\ row \in Row
  /\ row.state = "READY" => row.head /\ row.thread /\ row.headSeeded /\ row.headSend = "SENT"
  /\ row.live => row.lease # "none"
  /\ row.partSeeded => row.partSend = "SENT" /\ row.part
  /\ woken \in BOOLEAN
  /\ worker \in [at : Places, cancelled : BOOLEAN, head : BOOLEAN, headSend : Sends,
                 thread : BOOLEAN, part : BOOLEAN, partSend : Sends, seeded : BOOLEAN,
                 blocked : BOOLEAN, todo : SUBSET {"notice", "cleanup"}]
  /\ clean \in [Cleaners -> [at : {"idle", "head", "thread", "ack"}, head : BOOLEAN, thread : BOOLEAN,
                             headGone : BOOLEAN, threadGone : BOOLEAN, failed : BOOLEAN]]
  /\ chan \in [head : BOOLEAN, thread : BOOLEAN, part : BOOLEAN, posted : [{"head", "part"} -> 0..2],
               flight : SUBSET {"head", "thread", "part"}]

NoWork ==
  [at |-> "idle", cancelled |-> FALSE, head |-> FALSE, headSend |-> "PENDING", thread |-> FALSE,
   part |-> FALSE, partSend |-> "PENDING", seeded |-> FALSE, blocked |-> FALSE, todo |-> {}]
NoClean ==
  [at |-> "idle", head |-> FALSE, thread |-> FALSE, headGone |-> FALSE, threadGone |-> FALSE,
   failed |-> FALSE]

\* DiscordReviewRepository.create
Init ==
  /\ row = [state |-> "PENDING", head |-> FALSE, headSend |-> "PENDING", headSeeded |-> FALSE,
            thread |-> FALSE, part |-> FALSE, partSend |-> "PENDING", partSeeded |-> FALSE,
            lease |-> "none", live |-> FALSE, due |-> TRUE, cleanup |-> "NONE", headGone |-> FALSE,
            threadGone |-> FALSE, failures |-> 0, notice |-> "NONE"]
  /\ woken = FALSE /\ worker = NoWork
  /\ clean = [c \in Cleaners |-> NoClean]
  /\ chan = [head |-> FALSE, thread |-> FALSE, part |-> FALSE,
             posted |-> [m \in {"head", "part"} |-> 0], flight |-> {}]

----------------------------------------------------------------------------
(* The rows, in the API *)

Free == row.lease = "none" \/ ~row.live
Released(r) == [r EXCEPT !.lease = "none", !.live = FALSE]
Late == row.state = "CANCELLED"
\* Bug: a removal under way is left to whoever began it.
Waiting == {"PENDING", "RETRY_WAIT"}
Removable == {"PENDING", "RUNNING", "RETRY_WAIT"}
Unsure(send) == send = "SENDING"

\* What an acknowledgement asks of the row.
Fits(event) ==
  CASE event = "HEAD_BEGIN"      -> row.headSend = "PENDING"
    [] event = "HEAD_RETRY"      -> row.headSend = "SENDING" /\ ~row.head
    [] event = "HEAD_SENT"       -> row.headSend \in {"SENDING", "SENT"}
    [] event = "THREAD_BEGIN"    -> row.head /\ row.headSend = "SENT"
    [] event = "PART_BEGIN"      -> row.thread /\ row.partSend = "PENDING"
    [] event = "PART_RETRY"      -> row.partSend = "SENDING" /\ ~row.part
    [] event = "PART_SENT"       -> row.partSend \in {"SENDING", "SENT"}
    [] event = "PART_SEEDED"     -> row.partSend = "SENT"
    [] event = "HEAD_SEEDED"     -> row.headSend = "SENT"
    [] event = "READY"           -> /\ row.headSeeded /\ row.head /\ row.thread
                                    /\ row.partSeeded /\ row.partSend = "SENT" /\ row.part
    [] event = "CANCEL_RESOLVED" -> Late /\ row.threadGone /\ row.headSend = "SENT" /\ row.head
    [] OTHER -> TRUE

Held == row.lease = "export" /\ row.live
\* A receipt is taken after a cancellation too, whoever has the lease.
Accepts(event) ==
  /\ (Late /\ event \in Receipts) \/ Held
  /\ Late => event \in Receipts \cup {"ERROR", "CANCEL_RESOLVED"}
  /\ Fits(event)

Written(event, blocked) ==
  CASE event = "HEAD_BEGIN"   -> [row EXCEPT !.headSend = "SENDING"]
    [] event = "HEAD_RETRY"   -> [row EXCEPT !.headSend = "PENDING"]
    [] event = "HEAD_SENT"    -> [row EXCEPT !.head = TRUE, !.headSend = "SENT", !.headGone = FALSE]
    [] event = "THREAD_BEGIN" -> [row EXCEPT !.thread = TRUE]
    [] event = "THREAD_SENT"  -> [row EXCEPT !.thread = TRUE, !.threadGone = FALSE]
    [] event = "PART_BEGIN"   -> [row EXCEPT !.partSend = "SENDING"]
    [] event = "PART_RETRY"   -> [row EXCEPT !.partSend = "PENDING"]
    [] event = "PART_SENT"    -> [row EXCEPT !.part = TRUE, !.partSend = "SENT"]
    [] event = "PART_SEEDED"  -> [row EXCEPT !.partSeeded = TRUE]
    [] event = "HEAD_SEEDED"  -> [row EXCEPT !.headSeeded = TRUE]
    [] event = "READY"        -> Released([row EXCEPT !.state = "READY"])
    [] event = "CANCEL_RESOLVED" ->
         Released([row EXCEPT !.partSend = IF Unsure(@) THEN "BLOCKED" ELSE @,
                              !.cleanup = "PENDING", !.due = TRUE])
    [] event = "ERROR" ->
         Released([row EXCEPT !.state = IF blocked /\ ~Late THEN "BLOCKED" ELSE @, !.due = FALSE])

\* A receipt that came late leaves cleanup only.
LateReceipt(r) == Released([r EXCEPT !.cleanup = "PENDING", !.due = TRUE])

Acknowledged(event, blocked) ==
  LET r == Written(event, blocked)
  IN IF Late /\ event \in Receipts THEN LateReceipt(r)
     ELSE IF event \in {"READY", "ERROR", "CANCEL_RESOLVED"} THEN r
     ELSE [r EXCEPT !.live = TRUE]

----------------------------------------------------------------------------
(* The worker *)

At(place) == worker.at = place
Go(place) == worker' = [worker EXCEPT !.at = place]
Failed(blocked) == worker' = [worker EXCEPT !.at = "error", !.blocked = blocked]
Here == UNCHANGED <<woken, clean, chan>>

\* The call is carried out or refused, and its answer may be lost.
Ack(event, next) ==
  \/ /\ Accepts(event) /\ row' = Acknowledged(event, FALSE)
     /\ worker' = next \/ Failed(FALSE)
  \/ Failed(FALSE) /\ UNCHANGED row
Next0(place) == [worker EXCEPT !.at = place]

\* maintain: the jobs are read once, then notices, cleanup and exports in this order.
Listed ==
  {j \in {"notice", "cleanup"} :
     /\ Free
     /\ j = "notice" => row.notice = "PENDING"
     /\ j = "cleanup" => row.due /\ row.cleanup \in Removable}
Begin ==
  /\ At("idle")
  /\ worker' = [NoWork EXCEPT !.at = "notice", !.todo = Listed]
  /\ UNCHANGED row /\ Here

ClaimNotice ==
  /\ At("notice")
  /\ IF "notice" \in worker.todo /\ row.notice = "PENDING" /\ row.failures = 2 /\ Free
     THEN IF ~row.thread \/ row.threadGone
          THEN row' = Released([row EXCEPT !.notice = "UNAVAILABLE"]) /\ Go("clean")
          ELSE row' = [row EXCEPT !.lease = "notice", !.live = TRUE] /\ Go("noticing")
     ELSE UNCHANGED row /\ Go("clean")
  /\ Here

\* Of the notice only its acknowledgement matters here.
Notice ==
  /\ At("noticing") /\ Go("clean")
  /\ \/ /\ row.lease = "notice" /\ row.live
        /\ \E n \in IF chan.thread THEN {"SENT", "BLOCKED", "PENDING"} ELSE {"UNAVAILABLE", "PENDING"} :
             row' = Released([row EXCEPT !.notice = n])
     \/ UNCHANGED row
  /\ Here

ClaimExport ==
  /\ At("export")
  /\ IF /\ row.state \in {"PENDING", "EXPORTING"}
             \/ (Late /\ (Unsure(row.headSend) \/ Unsure(row.partSend)))
        /\ row.due /\ Free
     THEN /\ row' = [row EXCEPT !.state = IF Late THEN @ ELSE "EXPORTING", !.lease = "export",
                                !.live = TRUE]
          /\ worker' = [NoWork EXCEPT !.at = "head", !.cancelled = Late, !.head = row.head,
                          !.headSend = row.headSend, !.thread = row.thread, !.part = row.part,
                          !.partSend = row.partSend, !.seeded = row.partSeeded]
     ELSE worker' = NoWork /\ UNCHANGED row
  /\ Here

\* Any call to Discord or the API that is not told apart below may fail.
CallFails ==
  /\ worker.at \notin {"idle", "notice", "noticing", "clean", "cleaning", "export", "error"}
  /\ \E blocked \in BOOLEAN : Failed(blocked)
  /\ UNCHANGED row /\ Here

ReportError ==
  /\ At("error")
  /\ Go("export") \/ worker' = NoWork      \* a pause that Discord asks for ends the run
  /\ (Accepts("ERROR") /\ row' = Acknowledged("ERROR", worker.blocked)) \/ UNCHANGED row
  /\ Here

BeginHead ==
  /\ At("head")
  /\ IF worker.head
     THEN Go(IF worker.cancelled THEN "late" ELSE "thread") /\ UNCHANGED row
     ELSE IF worker.headSend = "PENDING"
          THEN Ack("HEAD_BEGIN", Next0("headPost"))
          ELSE Go("headFind") /\ UNCHANGED row
  /\ Here

\* A request that the worker sends, and the answer if it comes.
Post(message) == chan' = [chan EXCEPT !.flight = @ \cup {message}]
PostHead ==
  /\ At("headPost") /\ Post("head") /\ Go("headWait")
  /\ UNCHANGED <<row, woken, clean>>
HeadLimited ==
  /\ At("headWait") /\ "head" \in chan.flight
  /\ chan' = [chan EXCEPT !.flight = @ \ {"head"}]
  /\ Go("headRetry") /\ UNCHANGED <<row, woken, clean>>
HeadAnswered ==
  /\ At("headWait") /\ "head" \notin chan.flight /\ chan.head
  /\ Go("headSent") /\ UNCHANGED row /\ Here
HeadRetry == At("headRetry") /\ Ack("HEAD_RETRY", [worker EXCEPT !.at = "error"]) /\ Here

\* Bug: what is not found is sent once more.
FindHeadOrPost ==
  /\ At("headFind")
  /\ Go(IF chan.head THEN "headSent" ELSE "headPost")
  /\ UNCHANGED row /\ Here
\* recover: by its marker, in the channel; an uncertain request is not sent again.
FindHead ==
  /\ At("headFind")
  /\ IF chan.head THEN Go("headSent") ELSE Failed(TRUE)
  /\ UNCHANGED row /\ Here
HeadSent ==
  /\ At("headSent")
  /\ Ack("HEAD_SENT", [worker EXCEPT !.at = IF worker.cancelled THEN "export" ELSE "thread",
                                     !.head = TRUE])
  /\ Here

BeginThread ==
  /\ At("thread")
  /\ IF worker.thread /\ chan.thread THEN Go("part") /\ UNCHANGED row
     ELSE Ack("THREAD_BEGIN", Next0("threadOpen"))
  /\ Here
OpenThread ==
  /\ At("threadOpen")
  /\ IF chan.thread THEN Go("threadSent") /\ UNCHANGED chan ELSE Post("thread") /\ Go("threadWait")
  /\ UNCHANGED <<row, woken, clean>>
ThreadAnswered ==
  /\ At("threadWait") /\ "thread" \notin chan.flight
  /\ IF chan.thread THEN Go("threadSent") ELSE Failed(TRUE)
  /\ UNCHANGED row /\ Here
ThreadSent == At("threadSent") /\ Ack("THREAD_SENT", Next0("part")) /\ Here

BeginPart ==
  /\ At("part")
  /\ IF worker.part THEN Go(IF worker.seeded THEN "votes" ELSE "partSeed") /\ UNCHANGED row
     ELSE IF worker.partSend = "PENDING" THEN Ack("PART_BEGIN", Next0("partPost"))
     ELSE Go("partFind") /\ UNCHANGED row
  /\ Here
PostPart ==
  /\ At("partPost") /\ Post("part") /\ Go("partWait")
  /\ UNCHANGED <<row, woken, clean>>
PartLimited ==
  /\ At("partWait") /\ "part" \in chan.flight
  /\ chan' = [chan EXCEPT !.flight = @ \ {"part"}]
  /\ Go("partRetry") /\ UNCHANGED <<row, woken, clean>>
PartAnswered ==
  /\ At("partWait") /\ "part" \notin chan.flight
  /\ IF chan.part THEN Go("partSent") ELSE Failed(TRUE)
  /\ UNCHANGED row /\ Here
PartRetry == At("partRetry") /\ Ack("PART_RETRY", [worker EXCEPT !.at = "error"]) /\ Here
FindPart ==
  /\ At("partFind")
  /\ IF chan.part THEN Go("partSent") ELSE Failed(TRUE)
  /\ UNCHANGED row /\ Here
PartSent ==
  /\ At("partSent") /\ Ack("PART_SENT", [worker EXCEPT !.at = "partSeed", !.part = TRUE])
  /\ Here
SeedPart ==
  /\ At("partSeed")
  /\ IF chan.part THEN Go("partSeeded") ELSE Failed(TRUE)
  /\ UNCHANGED row /\ Here
PartSeeded == At("partSeeded") /\ Ack("PART_SEEDED", Next0("votes")) /\ Here

\* The reactions on the head are removed before the two of the bot are added.
ClearVotes ==
  /\ At("votes")
  /\ IF chan.head THEN Go("headSeed") ELSE Failed(TRUE)
  /\ UNCHANGED row /\ Here
SeedHead ==
  /\ At("headSeed")
  /\ IF chan.head THEN Go("headSeeded") ELSE Failed(TRUE)
  /\ UNCHANGED row /\ Here
HeadSeeded == At("headSeeded") /\ Ack("HEAD_SEEDED", Next0("ready")) /\ Here
Ready == At("ready") /\ Ack("READY", Next0("export")) /\ Here

\* A cancelled delivery: only what was sent is looked for.
LateExport ==
  /\ At("late")
  /\ IF worker.thread /\ chan.thread /\ Unsure(worker.partSend) THEN Go("lost")
     ELSE IF worker.thread /\ ~chan.thread THEN Go("resolved")
     ELSE Failed(FALSE)
  /\ UNCHANGED row /\ Here
FindLatePart ==
  /\ At("lost")
  /\ IF chan.part THEN Ack("PART_SENT", Next0("export")) ELSE Failed(TRUE) /\ UNCHANGED row
  /\ Here
Resolve == At("resolved") /\ Ack("CANCEL_RESOLVED", Next0("export")) /\ Here

----------------------------------------------------------------------------
(* The removal *)

StartsCleanup(c) ==
  IF c = "api" THEN woken /\ clean[c].at = "idle" ELSE At("clean")

ClaimCleanup(c) ==
  /\ StartsCleanup(c)
  /\ LET claims == /\ c = "batch" => "cleanup" \in worker.todo
                   /\ row.cleanup \in Removable /\ row.due /\ Free
     IN /\ row' = IF claims THEN [row EXCEPT !.cleanup = "RUNNING", !.lease = c, !.live = TRUE]
                  ELSE row
        /\ clean' = IF claims
                    THEN [clean EXCEPT ![c] = [at |-> "head", head |-> row.head, thread |-> row.thread,
                                               headGone |-> row.headGone,
                                               threadGone |-> row.threadGone, failed |-> FALSE]]
                    ELSE clean
        /\ IF c = "api" THEN woken' = FALSE /\ UNCHANGED worker
           ELSE Go(IF claims THEN "cleaning" ELSE "export") /\ UNCHANGED woken
  /\ UNCHANGED chan

\* Bug: the thread goes first.
ThreadFirst(c) ==
  /\ clean[c].at = "head"
  /\ chan' = [chan EXCEPT !.thread = FALSE, !.part = FALSE]
  /\ clean' = [clean EXCEPT ![c].at = "thread", ![c].headGone = clean[c].head]
  /\ UNCHANGED <<row, woken, worker>>
DeleteHead(c) ==
  /\ clean[c].at = "head"
  /\ IF clean[c].headGone \/ ~clean[c].head
     THEN clean' = [clean EXCEPT ![c].at = "thread"] /\ UNCHANGED chan
     ELSE \/ /\ chan' = [chan EXCEPT !.head = FALSE]
             /\ clean' = [clean EXCEPT ![c].at = "thread", ![c].headGone = TRUE]
          \/ /\ chan' \in {chan, [chan EXCEPT !.head = FALSE]}
             /\ clean' = [clean EXCEPT ![c].at = "ack", ![c].failed = TRUE]
  /\ UNCHANGED <<row, woken, worker>>

DeleteThread(c) ==
  /\ clean[c].at = "thread"
  /\ IF clean[c].threadGone \/ ~clean[c].thread
     THEN clean' = [clean EXCEPT ![c].at = "ack"] /\ UNCHANGED chan
     ELSE \/ /\ chan' = [chan EXCEPT !.thread = FALSE, !.part = FALSE]
             /\ clean' = [clean EXCEPT ![c].at = "ack", ![c].threadGone = TRUE]
          \/ /\ chan' \in {chan, [chan EXCEPT !.thread = FALSE, !.part = FALSE]}
             /\ clean' = [clean EXCEPT ![c].at = "ack", ![c].failed = TRUE]
  /\ UNCHANGED <<row, woken, worker>>

Outcome(failed) ==
  IF failed THEN {"RETRY_WAIT", "BLOCKED"}
  ELSE IF Unsure(row.partSend) \/ Unsure(row.headSend) \/ row.state = "EXPORTING" THEN {"RETRY_WAIT"}
  ELSE {"DONE"}

Cleaned(c, state) ==
  LET k == clean[c]
      failures == IF k.failed /\ row.failures < 2 THEN row.failures + 1 ELSE row.failures
  IN Released([row EXCEPT !.headGone = @ \/ k.headGone, !.threadGone = @ \/ k.threadGone,
                 !.cleanup = state, !.due = FALSE, !.failures = failures,
                 !.notice = IF k.failed /\ failures = 2 THEN "PENDING" ELSE @])

AckCleanup(c) ==
  /\ clean[c].at = "ack"
  /\ \/ /\ row.lease = c /\ row.live
        /\ \E state \in Outcome(clean[c].failed) : row' = Cleaned(c, state)
     \/ UNCHANGED row
  /\ clean' = [clean EXCEPT ![c] = NoClean]
  /\ IF c = "api" THEN UNCHANGED worker
     ELSE worker' = [worker EXCEPT !.at = IF clean[c].failed THEN "notice" ELSE "export",
                                   !.todo = IF clean[c].failed THEN {"notice"} ELSE {}]
  /\ UNCHANGED <<woken, chan>>

----------------------------------------------------------------------------
(* Decisions, Discord, time and crashes *)

\* cancelDelivery, in the transaction that decides the review or ends its command.
Cancel ==
  /\ LET r == [row EXCEPT !.state = "CANCELLED",
                          !.cleanup = IF @ \in {"NONE", "DONE"} THEN "PENDING" ELSE @,
                          !.due = IF row.cleanup \in {"NONE", "DONE"} THEN TRUE ELSE @]
     IN row' = IF row.lease = "export" THEN Released(r) ELSE r
  /\ woken' \in IF Waking THEN BOOLEAN ELSE {woken}
  /\ UNCHANGED <<worker, clean, chan>>

\* reconcileExpired: the original is no longer kept.
OriginalExpires ==
  /\ row.cleanup = "NONE"
  /\ row' = Released([row EXCEPT !.state = "CANCELLED", !.cleanup = "PENDING", !.due = TRUE])
  /\ UNCHANGED <<woken, worker, clean, chan>>

\* A request is carried out, whether anybody waits or not, or is refused.
Arrives(message) ==
  /\ message \in chan.flight
  /\ LET c == [chan EXCEPT !.flight = @ \ {message}]
     IN \/ /\ message = "head"
           /\ chan' = [c EXCEPT !.head = TRUE, !.posted["head"] = IF @ = 2 THEN 2 ELSE @ + 1]
        \/ message = "thread" /\ chan' = [c EXCEPT !.thread = chan.head \/ @]
        \/ /\ message = "part" /\ chan.thread
           /\ chan' = [c EXCEPT !.part = TRUE, !.posted["part"] = IF @ = 2 THEN 2 ELSE @ + 1]
        \/ message = "part" /\ ~chan.thread /\ chan' = c
  /\ UNCHANGED <<row, woken, worker, clean>>

LeaseLapses ==
  /\ row.live /\ row' = [row EXCEPT !.live = FALSE]
  /\ UNCHANGED <<woken, worker, clean, chan>>
Due ==
  /\ ~row.due /\ row' = [row EXCEPT !.due = TRUE]
  /\ UNCHANGED <<woken, worker, clean, chan>>

WorkerDies ==
  /\ Dying /\ ~At("idle") /\ worker' = NoWork
  /\ clean' = [clean EXCEPT !["batch"] = NoClean]
  /\ UNCHANGED <<row, woken, chan>>
ApiRestarts ==
  /\ Dying /\ (woken \/ clean["api"].at # "idle")
  /\ woken' = FALSE /\ clean' = [clean EXCEPT !["api"] = NoClean]
  /\ UNCHANGED <<row, worker, chan>>

Export ==
  BeginHead \/ PostHead \/ HeadLimited \/ HeadAnswered \/ HeadRetry \/ FindHead \/ HeadSent
  \/ BeginThread \/ OpenThread \/ ThreadAnswered \/ ThreadSent
  \/ BeginPart \/ PostPart \/ PartLimited \/ PartAnswered \/ PartRetry \/ FindPart \/ PartSent
  \/ SeedPart \/ PartSeeded \/ ClearVotes \/ SeedHead \/ HeadSeeded \/ Ready
  \/ LateExport \/ FindLatePart \/ Resolve \/ ReportError
Cleans(c) == ClaimCleanup(c) \/ DeleteHead(c) \/ DeleteThread(c) \/ AckCleanup(c)
Worker == Begin \/ ClaimNotice \/ Notice \/ ClaimExport \/ Export \/ Cleans("batch")
Channel == \E m \in {"head", "thread", "part"} : Arrives(m)

Next ==
  \/ Worker \/ CallFails \/ Cleans("api") \/ Cancel \/ OriginalExpires
  \/ Channel \/ LeaseLapses \/ Due \/ WorkerDies \/ ApiRestarts

Spec == Init /\ [][Next]_vars

\* What does not go on for ever: the review is decided again, a removal fails or outlives its
\* lease, or its acknowledgement, or that of a notice, is lost.  Neither process dies.
Removing == \E c \in Cleaners : row.lease = c /\ clean[c].at # "idle"
Faults ==
  \/ WorkerDies \/ ApiRestarts \/ (Cancel /\ ~OriginalExpires) \/ (LeaseLapses /\ Removing)
  \/ \E c \in Cleaners :
       \/ (DeleteHead(c) \/ DeleteThread(c)) /\ clean'[c].failed
       \/ AckCleanup(c) /\ row.lease = c /\ row.live /\ row' = row
  \/ Notice /\ row.lease = "notice" /\ row.live /\ row' = row

----------------------------------------------------------------------------
(* Properties *)

\* Whatever answers are lost and whenever the worker dies, Discord gets the head and each
\* part once: a request that may have been carried out is looked for, never repeated.
PostedOnce == \A m \in {"head", "part"} : chan.posted[m] <= 1

\* Removal is recorded as done only when nothing of the delivery is left in Discord and
\* nothing of it can still arrive.
DoneMeansGone == row.cleanup = "DONE" => ~chan.head /\ ~chan.thread /\ ~chan.part

\* A delivery offered for decision is there as a whole.
ReadyIsWhole == row.state = "READY" => chan.head /\ chan.thread /\ chan.part

\* The thread, where a failed removal is reported, stays as long as the head does.
ThreadOutlivesHead == [][chan.thread /\ ~chan'.thread => ~chan.head]_vars

\* What TLC checks of a delivery, for every state and step.
DeliverySound == [](TypeOK /\ PostedOnce /\ DoneMeansGone /\ ReadyIsWhole) /\ ThreadOutlivesHead

\* What a cancelled delivery is known to have sent is removed in the end.
Removed ==
  []<>(Late /\ ~Unsure(row.headSend) /\ ~Unsure(row.partSend) => row.cleanup \in {"DONE", "BLOCKED"})
=============================================================================
