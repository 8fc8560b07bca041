-------------------------- MODULE CollectorProofs --------------------------
(***************************************************************************)
(* Proofs about the collector's side: one message in Discord               *)
(* (DiscordDelivery), one job of the collector (CollectorRun), and what    *)
(* the reactions on a message decide (ReviewVote).                         *)
(***************************************************************************)
EXTENDS DiscordDelivery, CollectorRun, ReviewVote, TLAPS

----------------------------------------------------------------------------
(* DiscordDelivery: whatever answers are lost, and whenever the worker or     *)
(* the API dies, Discord gets each message once, and what is recorded as      *)
(* removed is gone.                                                           *)

Works ==
  [at : Places, cancelled : BOOLEAN, head : BOOLEAN, headSend : Sends, thread : BOOLEAN, part : BOOLEAN,
   partSend : Sends, seeded : BOOLEAN, blocked : BOOLEAN, todo : SUBSET {"notice", "cleanup"}]
Cleaning ==
  [at : {"idle", "head", "thread", "ack"}, head : BOOLEAN, thread : BOOLEAN, headGone : BOOLEAN,
   threadGone : BOOLEAN, failed : BOOLEAN]
Channels ==
  [head : BOOLEAN, thread : BOOLEAN, part : BOOLEAN, posted : [{"head", "part"} -> 0..2],
   flight : SUBSET {"head", "thread", "part"}]

Typed ==
  /\ row \in Row /\ woken \in BOOLEAN /\ worker \in Works
  /\ clean \in [Cleaners -> Cleaning] /\ chan \in Channels

InFlight(message) == message \in chan.flight
Posted(message) == chan.posted[message] = 1
\* Nothing was sent, or all that was sent was refused.
Unsent(message) == chan.posted[message] = 0 /\ ~InFlight(message)

\* What Discord has of the two messages that are sent once: a message that is there was posted, and
\* one that is under way was not.
ChannelSound ==
  /\ \A m \in {"head", "part"} : chan.posted[m] <= 1 /\ (InFlight(m) => chan.posted[m] = 0)
  /\ chan.head => Posted("head")
  /\ chan.part => Posted("part") /\ chan.thread

\* The row never counts a message as unsent that may have been sent, nor as sent one that was not.
RowSound ==
  /\ row.headSend = "PENDING" => Unsent("head")
  /\ row.headSend # "BLOCKED" /\ (row.headSend = "SENT" <=> row.head)
  /\ row.head => Posted("head")
  /\ row.partSend = "PENDING" => Unsent("part")
  /\ row.partSend = "SENT" <=> row.part
  /\ row.part => Posted("part")
  /\ row.partSeeded => row.part
  /\ row.thread => row.head
  /\ chan.thread \/ InFlight("thread") => row.thread
  /\ row.live => row.lease # "none"

\* The worker posts what the row says it began to send, and has the receipt only of what was posted.
WorkerSound ==
  /\ At("headPost") => Unsent("head") /\ row.headSend # "PENDING"
  /\ At("headRetry") => Unsent("head")
  /\ At("headSent") => Posted("head")
  /\ worker.at \in {"threadOpen", "threadWait", "threadSent"} => row.thread
  /\ At("partPost") => Unsent("part") /\ row.partSend # "PENDING"
  /\ At("partRetry") => Unsent("part")
  /\ At("partSent") => Posted("part")

\* Nothing is removed before the delivery is cancelled.
OpenSound ==
  /\ row.cleanup # "NONE" \/ row.lease \in Cleaners => Late
  /\ \A c \in Cleaners : clean[c].at # "idle" => Late
  /\ ~Late /\ Posted("head") => chan.head
  /\ ~Late /\ Posted("part") => chan.part
  /\ row.state = "READY" => row.head /\ row.thread /\ row.headSeeded /\ row.part

\* The head is gone for good: it was posted, and it is posted once.
HeadIsGone == Posted("head") /\ ~chan.head
\* So is the thread: a thread needs its head.
ThreadIsGone == HeadIsGone /\ ~chan.thread

\* Who removes knows no more than the row did; what is said to be gone is gone for good; the thread
\* goes after the head; and who still has the lease has seen all that was sent.
CleanSound ==
  /\ row.headGone => HeadIsGone
  /\ row.threadGone => ThreadIsGone
  /\ \A c \in Cleaners :
       /\ clean[c].headGone => HeadIsGone
       /\ clean[c].threadGone => ThreadIsGone
       /\ clean[c].head => row.head
       /\ clean[c].thread => clean[c].head
       /\ clean[c].at = "thread" /\ clean[c].head => clean[c].headGone
       /\ clean[c].at = "ack" /\ ~clean[c].failed =>
            (clean[c].head => clean[c].headGone) /\ (clean[c].thread => clean[c].threadGone)
       /\ row.lease = c /\ clean[c].at # "idle" => clean[c].head = row.head /\ clean[c].thread = row.thread

DoneSound == row.cleanup = "DONE" => ~chan.head /\ ~chan.thread /\ row.headSend # "SENDING"

\* The inductive invariant.
DeliveryInv == Typed /\ ChannelSound /\ RowSound /\ WorkerSound /\ OpenSound /\ CleanSound /\ DoneSound

----------------------------------------------------------------------------
(* Frames *)

\* What the row says was sent and removed.
SentOf(r) == <<r.head, r.headSend, r.headSeeded, r.thread, r.part, r.partSend, r.partSeeded, r.headGone, r.threadGone>>

RowInv == RowSound /\ OpenSound /\ CleanSound /\ DoneSound

\* Leases, attempts and states change; what was sent does not.
LEMMA RowMoves ==
    ASSUME DeliveryInv, row' \in Row, UNCHANGED <<clean, chan>>, SentOf(row') = SentOf(row),
           row'.state = row.state \/ (row'.state # "READY" /\ (Late => Late')),
           row'.cleanup = row.cleanup \/ (row'.cleanup # "DONE" /\ Late'),
           row'.lease = row.lease \/ row'.lease \notin Cleaners,
           row'.live => row'.lease # "none"
    PROVE  RowInv'
<1>. USE DEF DeliveryInv
<1>1. /\ row'.head = row.head /\ row'.headSend = row.headSend /\ row'.headSeeded = row.headSeeded
      /\ row'.thread = row.thread /\ row'.part = row.part /\ row'.partSend = row.partSend
      /\ row'.partSeeded = row.partSeeded /\ row'.headGone = row.headGone /\ row'.threadGone = row.threadGone
  BY DEF SentOf
<1>2. RowSound'
  BY <1>1 DEF RowSound, Posted, Unsent, InFlight
<1>3. OpenSound'
  BY <1>1 DEF OpenSound, Posted, Late
<1>4. CleanSound'
  BY <1>1 DEF CleanSound, HeadIsGone, ThreadIsGone, Posted
<1>5. DoneSound'
  BY <1>1 DEF DoneSound
<1>. QED
  BY <1>2, <1>3, <1>4, <1>5 DEF RowInv

LEMMA RowRests ==
    ASSUME DeliveryInv, UNCHANGED <<row, clean, chan>>
    PROVE  RowInv' /\ ChannelSound'
<1>. USE DEF DeliveryInv
<1>1. row \in Row /\ (row.live => row.lease # "none")
  BY DEF Typed, RowSound
<1>2. RowInv'
  BY <1>1, RowMoves DEF Typed
<1>3. ChannelSound'
  BY DEF ChannelSound, Posted, InFlight
<1>. QED
  BY <1>2, <1>3

LEMMA ChannelRests ==
    ASSUME DeliveryInv, UNCHANGED chan
    PROVE  ChannelSound'
  BY DEF DeliveryInv, ChannelSound, Posted, InFlight

\* The worker is nowhere that matters.
Quiet == worker.at \notin {"headPost", "headRetry", "headSent", "threadOpen", "threadWait", "threadSent",
                          "partPost", "partRetry", "partSent"}

LEMMA QuietSound ==
    ASSUME Quiet
    PROVE  WorkerSound
  BY DEF Quiet, WorkerSound, At

\* Where the worker is stays sound when what was sent does.
LEMMA WorkerRests ==
    ASSUME DeliveryInv, UNCHANGED <<worker, chan>>, row'.headSend = row.headSend,
           row'.partSend = row.partSend \/ row'.partSend # "PENDING", row.thread => row'.thread
    PROVE  WorkerSound'
  BY DEF DeliveryInv, WorkerSound, At, Unsent, Posted, InFlight

LEMMA Goes ==
    ASSUME worker \in Works, NEW place \in Places, worker' = [worker EXCEPT !.at = place]
    PROVE  worker' \in Works /\ worker'.at = place
  BY DEF Works

LEMMA Fails ==
    ASSUME worker \in Works, NEW b \in BOOLEAN, Failed(b)
    PROVE  worker' \in Works /\ worker'.at = "error" /\ WorkerSound'
<1>1. worker' \in Works /\ worker'.at = "error"
  BY DEF Works, Failed, Places
<1>2. Quiet'
  BY <1>1 DEF Quiet
<1>3. WorkerSound'
  BY <1>1 DEF WorkerSound, At
<1>. QED
  BY <1>1, <1>3

\* Only the worker moves.
LEMMA WorkerMoves ==
    ASSUME DeliveryInv, UNCHANGED <<row, woken, clean, chan>>, worker' \in Works, WorkerSound'
    PROVE  DeliveryInv'
<1>1. RowInv' /\ ChannelSound'
  BY RowRests
<1>2. Typed'
  BY DEF DeliveryInv, Typed
<1>. QED
  BY <1>1, <1>2 DEF DeliveryInv, RowInv

----------------------------------------------------------------------------
(* Acknowledgements *)

Begins == {"HEAD_BEGIN", "HEAD_RETRY", "THREAD_BEGIN", "PART_BEGIN", "PART_RETRY", "PART_SEEDED", "HEAD_SEEDED"}
Events == Begins \cup Receipts \cup {"READY", "ERROR", "CANCEL_RESOLVED"}

\* What must have happened before an event is acknowledged.
Happened(event) ==
  /\ event = "HEAD_RETRY" => Unsent("head")
  /\ event = "HEAD_SENT" => Posted("head")
  /\ event = "THREAD_SENT" => row.thread
  /\ event = "PART_RETRY" => Unsent("part")
  /\ event = "PART_SENT" => Posted("part")

\* A row whose holder reports what it is about to do: the delivery is not cancelled.
LEMMA BeginWritten ==
    ASSUME DeliveryInv, NEW event \in Begins, NEW b \in BOOLEAN, Accepts(event), row' = Acknowledged(event, b)
    PROVE  /\ ~Late /\ row.lease = "export" /\ Fits(event)
           /\ row' = CASE event = "HEAD_BEGIN"   -> [row EXCEPT !.headSend = "SENDING", !.live = TRUE]
                      [] event = "HEAD_RETRY"   -> [row EXCEPT !.headSend = "PENDING", !.live = TRUE]
                      [] event = "THREAD_BEGIN" -> [row EXCEPT !.thread = TRUE, !.live = TRUE]
                      [] event = "PART_BEGIN"   -> [row EXCEPT !.partSend = "SENDING", !.live = TRUE]
                      [] event = "PART_RETRY"   -> [row EXCEPT !.partSend = "PENDING", !.live = TRUE]
                      [] event = "PART_SEEDED"  -> [row EXCEPT !.partSeeded = TRUE, !.live = TRUE]
                      [] event = "HEAD_SEEDED"  -> [row EXCEPT !.headSeeded = TRUE, !.live = TRUE]
<1>1. ~Late /\ row.lease = "export" /\ Fits(event)
  BY DEF Accepts, Held, Begins, Receipts
<1>2. row' = [Written(event, b) EXCEPT !.live = TRUE]
  BY <1>1 DEF Acknowledged, Begins, Receipts
<1>. QED
  BY <1>1, <1>2 DEF Written, Begins

LEMMA BeginKeeps ==
    ASSUME DeliveryInv, NEW event \in Begins, NEW b \in BOOLEAN, Accepts(event), row' = Acknowledged(event, b),
           Happened(event), UNCHANGED <<clean, chan>>
    PROVE  row' \in Row /\ RowInv'
<1>. USE DEF DeliveryInv
<1>1. ~Late /\ row.lease = "export" /\ Fits(event)
  BY BeginWritten
<1>2. row \in Row /\ row.cleanup = "NONE"
  BY <1>1 DEF Typed, OpenSound
<1>3. CASE event = "HEAD_BEGIN"
  <2>1. row' = [row EXCEPT !.headSend = "SENDING", !.live = TRUE] /\ row.headSend = "PENDING"
    BY <1>1, <1>3, BeginWritten DEF Fits
  <2>. QED
    BY <1>1, <1>2, <2>1
    DEF Row, Sends, RowInv, RowSound, OpenSound, CleanSound, DoneSound, Late, Posted, Unsent, InFlight,
        HeadIsGone, ThreadIsGone
<1>4. CASE event = "HEAD_RETRY"
  <2>1. row' = [row EXCEPT !.headSend = "PENDING", !.live = TRUE] /\ row.headSend = "SENDING" /\ Unsent("head")
    BY <1>1, <1>4, BeginWritten DEF Fits, Happened
  <2>. QED
    BY <1>1, <1>2, <2>1
    DEF Row, Sends, RowInv, RowSound, OpenSound, CleanSound, DoneSound, Late, Posted, Unsent, InFlight,
        HeadIsGone, ThreadIsGone
<1>5. CASE event = "THREAD_BEGIN"
  <2>1. row' = [row EXCEPT !.thread = TRUE, !.live = TRUE] /\ row.head
    BY <1>1, <1>5, BeginWritten DEF Fits
  <2>2. \A c \in Cleaners : clean[c].at = "idle"
    BY <1>1 DEF OpenSound
  <2>. QED
    BY <1>1, <1>2, <2>1, <2>2
    DEF Row, RowInv, RowSound, OpenSound, CleanSound, DoneSound, Late, Posted, Unsent, InFlight,
        HeadIsGone, ThreadIsGone
<1>6. CASE event = "PART_BEGIN"
  <2>1. row' = [row EXCEPT !.partSend = "SENDING", !.live = TRUE] /\ row.partSend = "PENDING"
    BY <1>1, <1>6, BeginWritten DEF Fits
  <2>. QED
    BY <1>1, <1>2, <2>1
    DEF Row, Sends, RowInv, RowSound, OpenSound, CleanSound, DoneSound, Late, Posted, Unsent, InFlight,
        HeadIsGone, ThreadIsGone
<1>7. CASE event = "PART_RETRY"
  <2>1. row' = [row EXCEPT !.partSend = "PENDING", !.live = TRUE] /\ row.partSend = "SENDING" /\ Unsent("part")
    BY <1>1, <1>7, BeginWritten DEF Fits, Happened
  <2>. QED
    BY <1>1, <1>2, <2>1
    DEF Row, Sends, RowInv, RowSound, OpenSound, CleanSound, DoneSound, Late, Posted, Unsent, InFlight,
        HeadIsGone, ThreadIsGone
<1>8. CASE event = "PART_SEEDED"
  <2>1. row' = [row EXCEPT !.partSeeded = TRUE, !.live = TRUE] /\ row.partSend = "SENT"
    BY <1>1, <1>8, BeginWritten DEF Fits
  <2>. QED
    BY <1>1, <1>2, <2>1
    DEF Row, RowInv, RowSound, OpenSound, CleanSound, DoneSound, Late, Posted, Unsent, InFlight,
        HeadIsGone, ThreadIsGone
<1>9. CASE event = "HEAD_SEEDED"
  <2>1. row' = [row EXCEPT !.headSeeded = TRUE, !.live = TRUE]
    BY <1>1, <1>9, BeginWritten DEF Fits
  <2>2. /\ row' \in Row /\ row'.cleanup = row.cleanup /\ row'.lease = row.lease /\ row'.state = row.state
        /\ row'.head = row.head /\ row'.headSend = row.headSend /\ row'.headSeeded
        /\ row'.thread = row.thread /\ row'.part = row.part /\ row'.partSend = row.partSend
        /\ row'.partSeeded = row.partSeeded /\ row'.headGone = row.headGone /\ row'.threadGone = row.threadGone
    BY <1>2, <2>1 DEF Row
  <2>3. RowSound'
    BY <1>1, <2>2 DEF RowSound, Posted, Unsent, InFlight
  <2>4. OpenSound'
    BY <2>2 DEF OpenSound, Posted, Late
  <2>5. CleanSound'
    BY <2>2 DEF CleanSound, HeadIsGone, ThreadIsGone, Posted
  <2>6. DoneSound'
    BY <2>2 DEF DoneSound
  <2>. QED
    BY <2>2, <2>3, <2>4, <2>5, <2>6 DEF RowInv
<1>. QED
  BY <1>3, <1>4, <1>5, <1>6, <1>7, <1>8, <1>9 DEF Begins

\* A receipt, with the lease or late: then the lease goes, and removal begins again.
LEMMA ReceiptKeeps ==
    ASSUME DeliveryInv, NEW event \in Receipts, NEW b \in BOOLEAN, Accepts(event), row' = Acknowledged(event, b),
           Happened(event), UNCHANGED <<clean, chan>>
    PROVE  row' \in Row /\ RowInv'
<1>. USE DEF DeliveryInv
<1>1. row \in Row /\ Fits(event)
  BY DEF Typed, Accepts
<1>2. PICK r \in Row : r = Written(event, b)
  BY <1>1 DEF Written, Receipts, Row, Sends
<1>3. /\ event = "HEAD_SENT" => r = [row EXCEPT !.head = TRUE, !.headSend = "SENT", !.headGone = FALSE]
      /\ event = "THREAD_SENT" => r = [row EXCEPT !.thread = TRUE, !.threadGone = FALSE]
      /\ event = "PART_SENT" => r = [row EXCEPT !.part = TRUE, !.partSend = "SENT"]
  BY <1>2 DEF Written
<1>4. /\ r.state = row.state /\ r.cleanup = row.cleanup /\ r.lease = row.lease /\ r.live = row.live
      /\ r.headSeeded = row.headSeeded /\ r.partSeeded = row.partSeeded
      /\ r.headGone => row.headGone
      /\ r.threadGone => row.threadGone
      /\ row.head => r.head
      /\ row.thread => r.thread
      /\ row.part => r.part
  <2>1. CASE event = "HEAD_SENT"
    BY <1>1, <1>3, <2>1 DEF Row
  <2>2. CASE event = "THREAD_SENT"
    BY <1>1, <1>3, <2>2 DEF Row
  <2>3. CASE event = "PART_SENT"
    <3>1. r = [row EXCEPT !.part = TRUE, !.partSend = "SENT"]
      BY <1>3, <2>3
    <3>. QED
      BY <1>1, <3>1 DEF Row
  <2>. QED
    BY <2>1, <2>2, <2>3 DEF Receipts
<1>5. /\ r.headSend = "PENDING" => Unsent("head")
      /\ r.headSend # "BLOCKED" /\ (r.headSend = "SENT" <=> r.head)
      /\ r.head => Posted("head")
      /\ r.partSend = "PENDING" => Unsent("part")
      /\ r.partSend = "SENT" <=> r.part
      /\ r.part => Posted("part")
      /\ r.thread => r.head
      /\ r.headSend = "SENDING" => row.headSend = "SENDING"
  <2>1. CASE event = "HEAD_SENT"
    <3>1. /\ r.head /\ r.headSend = "SENT" /\ r.thread = row.thread /\ r.part = row.part
          /\ r.partSend = row.partSend
      BY <1>1, <1>3, <2>1 DEF Row
    <3>. QED
      BY <2>1, <3>1 DEF Happened, RowSound
  <2>2. CASE event = "THREAD_SENT"
    <3>1. /\ r.head = row.head /\ r.headSend = row.headSend /\ r.thread /\ r.part = row.part
          /\ r.partSend = row.partSend
      BY <1>1, <1>3, <2>2 DEF Row
    <3>. QED
      BY <2>2, <3>1 DEF Happened, RowSound
  <2>3. CASE event = "PART_SENT"
    <3>1. /\ r.head = row.head /\ r.headSend = row.headSend /\ r.thread = row.thread /\ r.part
          /\ r.partSend = "SENT"
      BY <1>1, <1>3, <2>3 DEF Row
    <3>. QED
      BY <2>3, <3>1 DEF Happened, RowSound
  <2>. QED
    BY <2>1, <2>2, <2>3 DEF Receipts
<1>6. CASE Late
  <2>1. row' = [r EXCEPT !.cleanup = "PENDING", !.due = TRUE, !.lease = "none", !.live = FALSE]
    BY <1>2, <1>6 DEF Acknowledged, LateReceipt, Released
  <2>2. /\ row' \in Row /\ row'.state = r.state /\ row'.cleanup = "PENDING" /\ row'.lease = "none" /\ row'.live = FALSE
        /\ row'.head = r.head /\ row'.headSend = r.headSend /\ row'.headSeeded = r.headSeeded
        /\ row'.thread = r.thread /\ row'.part = r.part /\ row'.partSend = r.partSend
        /\ row'.partSeeded = r.partSeeded /\ row'.headGone = r.headGone /\ row'.threadGone = r.threadGone
    BY <2>1 DEF Row
  <2>3. RowSound'
    BY <1>4, <1>5, <2>2 DEF RowSound, Posted, Unsent, InFlight
  <2>4. OpenSound'
    BY <1>4, <1>6, <2>2 DEF OpenSound, Posted, Late
  <2>5. CleanSound'
    BY <1>4, <2>2 DEF CleanSound, HeadIsGone, ThreadIsGone, Posted, Cleaners
  <2>6. DoneSound'
    BY <2>2 DEF DoneSound
  <2>. QED
    BY <2>2, <2>3, <2>4, <2>5, <2>6 DEF RowInv
<1>7. CASE ~Late
  <2>1. row' = [r EXCEPT !.live = TRUE] /\ row.lease = "export"
    BY <1>2, <1>7 DEF Acknowledged, Accepts, Held, Receipts
  <2>2. /\ row' \in Row /\ row'.state = r.state /\ row'.cleanup = r.cleanup /\ row'.lease = r.lease
        /\ row'.head = r.head /\ row'.headSend = r.headSend /\ row'.headSeeded = r.headSeeded
        /\ row'.thread = r.thread /\ row'.part = r.part /\ row'.partSend = r.partSend
        /\ row'.partSeeded = r.partSeeded /\ row'.headGone = r.headGone /\ row'.threadGone = r.threadGone
    BY <2>1 DEF Row
  <2>3. RowSound'
    BY <1>4, <1>5, <2>1, <2>2 DEF RowSound, Posted, Unsent, InFlight
  <2>4. OpenSound'
    BY <1>4, <1>7, <2>2 DEF OpenSound, Posted, Late
  <2>5. CleanSound'
    BY <1>4, <2>1, <2>2 DEF CleanSound, HeadIsGone, ThreadIsGone, Posted, Cleaners
  <2>6. DoneSound'
    BY <1>4, <1>5, <2>2 DEF DoneSound
  <2>. QED
    BY <2>2, <2>3, <2>4, <2>5, <2>6 DEF RowInv
<1>. QED
  BY <1>6, <1>7

LEMMA ReadyKeeps ==
    ASSUME DeliveryInv, Accepts("READY"), row' = Acknowledged("READY", FALSE), UNCHANGED <<clean, chan>>
    PROVE  row' \in Row /\ RowInv' /\ SentOf(row') = SentOf(row)
<1>. USE DEF DeliveryInv
<1>1. row \in Row /\ ~Late /\ row.lease = "export" /\ row.headSeeded /\ row.head /\ row.thread /\ row.part
  BY DEF Typed, Accepts, Held, Fits, Receipts
<1>2. row' = [row EXCEPT !.state = "READY", !.lease = "none", !.live = FALSE]
  BY DEF Acknowledged, Written, Released, Receipts
<1>3. row' \in Row /\ row'.state = "READY" /\ row'.cleanup = row.cleanup /\ row'.lease = "none" /\ row'.live = FALSE
  BY <1>1, <1>2 DEF Row
<1>4. SentOf(row') = SentOf(row)
  BY <1>1, <1>2 DEF Row, SentOf
<1>5. /\ row'.head = row.head /\ row'.headSend = row.headSend /\ row'.headSeeded = row.headSeeded
      /\ row'.thread = row.thread /\ row'.part = row.part /\ row'.partSend = row.partSend
      /\ row'.partSeeded = row.partSeeded /\ row'.headGone = row.headGone /\ row'.threadGone = row.threadGone
  BY <1>4 DEF SentOf
<1>6. RowSound'
  BY <1>3, <1>5 DEF RowSound, Posted, Unsent, InFlight
<1>7. OpenSound'
  BY <1>1, <1>3, <1>5 DEF OpenSound, Posted, Late, Cleaners
<1>8. CleanSound'
  BY <1>3, <1>5 DEF CleanSound, HeadIsGone, ThreadIsGone, Posted, Cleaners
<1>9. DoneSound'
  BY <1>3, <1>5 DEF DoneSound
<1>. QED
  BY <1>3, <1>4, <1>6, <1>7, <1>8, <1>9 DEF RowInv

LEMMA ErrorKeeps ==
    ASSUME DeliveryInv, NEW b \in BOOLEAN, Accepts("ERROR"), row' = Acknowledged("ERROR", b), UNCHANGED <<clean, chan>>
    PROVE  row' \in Row /\ RowInv' /\ SentOf(row') = SentOf(row)
<1>1. row \in Row
  BY DEF DeliveryInv, Typed
<1>2. row' = [row EXCEPT !.state = IF b /\ ~Late THEN "BLOCKED" ELSE @, !.due = FALSE, !.lease = "none", !.live = FALSE]
  BY DEF Acknowledged, Written, Released, Receipts
<1>3. /\ row' \in Row /\ row'.cleanup = row.cleanup /\ row'.lease = "none" /\ row'.live = FALSE
      /\ row'.state = row.state \/ (~Late /\ row'.state = "BLOCKED")
  BY <1>1, <1>2 DEF Row
<1>4. SentOf(row') = SentOf(row)
  BY <1>1, <1>2 DEF Row, SentOf
<1>5. RowInv'
  BY <1>3, <1>4, RowMoves DEF Cleaners
<1>. QED
  BY <1>3, <1>4, <1>5

LEMMA ResolvedKeeps ==
    ASSUME DeliveryInv, Accepts("CANCEL_RESOLVED"), row' = Acknowledged("CANCEL_RESOLVED", FALSE),
           UNCHANGED <<clean, chan>>
    PROVE  row' \in Row /\ RowInv'
<1>. USE DEF DeliveryInv
<1>1. row \in Row /\ Late
  BY DEF Typed, Accepts, Fits
<1>2. row' = [row EXCEPT !.partSend = IF Unsure(@) THEN "BLOCKED" ELSE @, !.cleanup = "PENDING", !.due = TRUE,
                         !.lease = "none", !.live = FALSE]
  BY DEF Acknowledged, Written, Released, Receipts
<1>3. /\ row' \in Row /\ row'.cleanup = "PENDING" /\ row'.lease = "none" /\ row'.live = FALSE /\ row'.state = row.state
      /\ row'.head = row.head /\ row'.headSend = row.headSend /\ row'.headSeeded = row.headSeeded
      /\ row'.thread = row.thread /\ row'.part = row.part
      /\ row'.partSeeded = row.partSeeded /\ row'.headGone = row.headGone /\ row'.threadGone = row.threadGone
      /\ row'.partSend = row.partSend \/ (row.partSend = "SENDING" /\ row'.partSend = "BLOCKED")
  BY <1>1, <1>2 DEF Row, Sends, Unsure
<1>4. RowSound'
  BY <1>3 DEF RowSound, Posted, Unsent, InFlight
<1>5. OpenSound'
  BY <1>1, <1>3 DEF OpenSound, Posted, Late
<1>6. CleanSound'
  BY <1>3 DEF CleanSound, HeadIsGone, ThreadIsGone, Posted, Cleaners
<1>7. DoneSound'
  BY <1>3 DEF DoneSound
<1>. QED
  BY <1>3, <1>4, <1>5, <1>6, <1>7 DEF RowInv

\* The worker goes on when its event is taken, and fails when it is refused or the answer is lost.
LEMMA AckKeeps ==
    ASSUME DeliveryInv, NEW event \in Events, NEW next \in Works, Ack(event, next), Happened(event),
           UNCHANGED <<woken, clean, chan>>,
           row' = Acknowledged(event, FALSE) /\ Accepts(event) /\ RowInv' /\ worker' = next => WorkerSound'
    PROVE  DeliveryInv'
<1>1. row \in Row /\ worker \in Works
  BY DEF DeliveryInv, Typed
<1>2. worker' \in Works /\ (worker' = next \/ WorkerSound')
  BY <1>1, Fails DEF Ack
<1>3. CASE UNCHANGED row /\ Failed(FALSE)
  BY <1>1, <1>3, Fails, WorkerMoves
<1>4. CASE Accepts(event) /\ row' = Acknowledged(event, FALSE)
  <2>1. row' \in Row /\ RowInv'
    BY <1>4, BeginKeeps, ReceiptKeeps, ReadyKeeps, ErrorKeeps, ResolvedKeeps DEF Events
  <2>2. WorkerSound'
    BY <1>2, <1>4, <2>1
  <2>3. Typed'
    BY <1>2, <2>1 DEF DeliveryInv, Typed
  <2>. QED
    BY <2>1, <2>2, <2>3, ChannelRests DEF DeliveryInv, RowInv
<1>. QED
  BY <1>3, <1>4 DEF Ack

----------------------------------------------------------------------------
(* The worker *)

\* What the worker does by itself.
LEMMA LookKeeps ==
    ASSUME DeliveryInv,
           \/ Begin \/ CallFails \/ HeadAnswered \/ FindHead \/ ThreadAnswered \/ PartAnswered
           \/ FindPart \/ SeedPart \/ ClearVotes \/ SeedHead \/ LateExport
    PROVE  DeliveryInv'
<1>. USE DEF DeliveryInv
<1>1. worker \in Works /\ row' = row /\ Here
  BY DEF Typed, Begin, CallFails, HeadAnswered, FindHead, ThreadAnswered, PartAnswered, FindPart, SeedPart,
         ClearVotes, SeedHead, LateExport
<1>2. TRUE \in BOOLEAN /\ FALSE \in BOOLEAN
  OBVIOUS
<1>3. CASE Begin
  <2>1. Listed \subseteq {"notice", "cleanup"} /\ NoWork \in Works
    BY DEF Listed, NoWork, Works, Places, Sends
  <2>2. worker' \in Works /\ worker'.at = "notice"
    BY <1>3, <2>1 DEF Begin, Works, Places
  <2>3. WorkerSound'
    BY <2>2 DEF WorkerSound, At
  <2>. QED
    BY <1>1, <2>2, <2>3, WorkerMoves DEF Here
<1>4. CASE HeadAnswered \/ (FindHead /\ chan.head)
  <2>1. Go("headSent") /\ Posted("head") /\ "headSent" \in Places
    BY <1>4 DEF HeadAnswered, FindHead, ChannelSound, Places
  <2>2. worker' \in Works /\ worker'.at = "headSent"
    BY <1>1, <2>1, Goes DEF Go
  <2>3. WorkerSound'
    BY <1>1, <2>1, <2>2 DEF WorkerSound, At, Posted, Here
  <2>. QED
    BY <1>1, <2>2, <2>3, WorkerMoves DEF Here
<1>5. CASE ThreadAnswered
  <2>1. Go("threadSent") \/ Failed(TRUE)
    BY <1>5 DEF ThreadAnswered
  <2>2. ASSUME Go("threadSent") PROVE worker' \in Works /\ WorkerSound'
    <3>1. worker' \in Works /\ worker'.at = "threadSent"
      BY <1>1, <2>2, Goes DEF Go, Places
    <3>2. row.thread
      BY <1>5 DEF ThreadAnswered, WorkerSound, At
    <3>3. WorkerSound'
      BY <1>1, <3>1, <3>2 DEF WorkerSound, At
    <3>. QED
      BY <3>1, <3>3
  <2>. QED
    BY <1>1, <2>1, <2>2, Fails, WorkerMoves DEF Here
<1>6. CASE (PartAnswered \/ FindPart) /\ chan.part
  <2>1. Go("partSent") /\ Posted("part") /\ "partSent" \in Places
    BY <1>6 DEF PartAnswered, FindPart, ChannelSound, Places
  <2>2. worker' \in Works /\ worker'.at = "partSent"
    BY <1>1, <2>1, Goes DEF Go
  <2>3. WorkerSound'
    BY <1>1, <2>1, <2>2 DEF WorkerSound, At, Posted, Here
  <2>. QED
    BY <1>1, <2>2, <2>3, WorkerMoves DEF Here
<1>7. CASE \E place \in {"partSeeded", "headSeed", "headSeeded", "lost", "resolved"} : Go(place)
  <2>1. PICK place \in {"partSeeded", "headSeed", "headSeeded", "lost", "resolved"} : Go(place)
    BY <1>7
  <2>2. worker' \in Works /\ worker'.at = place
    BY <1>1, <2>1, Goes DEF Go, Places
  <2>3. WorkerSound'
    BY <2>2 DEF WorkerSound, At
  <2>. QED
    BY <1>1, <2>2, <2>3, WorkerMoves DEF Here
<1>8. CASE \E b \in BOOLEAN : Failed(b)
  BY <1>1, <1>8, Fails, WorkerMoves DEF Here
<1>. QED
  BY <1>2, <1>3, <1>4, <1>5, <1>6, <1>7, <1>8
  DEF CallFails, FindHead, PartAnswered, FindPart, SeedPart, ClearVotes, SeedHead, LateExport

\* Where the worker goes when its event is taken.
LEMMA AckGoes ==
    ASSUME DeliveryInv, NEW event \in Events, NEW next \in Works, Ack(event, next), Happened(event),
           UNCHANGED <<woken, clean, chan>>,
           next.at \in {"error", "export", "thread", "part", "partSeed", "votes", "ready"}
    PROVE  DeliveryInv'
<1>1. worker' = next => WorkerSound'
  BY DEF WorkerSound, At
<1>. QED
  BY <1>1, AckKeeps

LEMMA HeadKeeps ==
    ASSUME DeliveryInv, BeginHead
    PROVE  DeliveryInv'
<1>. USE DEF DeliveryInv
<1>1. worker \in Works
  BY DEF Typed
<1>2. CASE \E place \in {"late", "thread", "headFind"} : Go(place) /\ UNCHANGED row
  <2>1. PICK place \in {"late", "thread", "headFind"} : Go(place) /\ UNCHANGED row
    BY <1>2
  <2>2. worker' \in Works /\ worker'.at = place
    BY <1>1, <2>1, Goes DEF Go, Places
  <2>3. WorkerSound'
    BY <2>2 DEF WorkerSound, At
  <2>. QED
    BY <2>1, <2>2, <2>3, WorkerMoves DEF BeginHead, Here
<1>3. CASE Ack("HEAD_BEGIN", Next0("headPost"))
  <2>1. Next0("headPost") \in Works /\ Next0("headPost").at = "headPost"
    BY <1>1 DEF Next0, Works, Places
  <2>2. ASSUME row' = Acknowledged("HEAD_BEGIN", FALSE), Accepts("HEAD_BEGIN"), worker' = Next0("headPost")
        PROVE  WorkerSound'
    <3>1. Unsent("head") /\ row' = [row EXCEPT !.headSend = "SENDING", !.live = TRUE]
      BY <2>2, BeginWritten DEF Begins, Fits, RowSound
    <3>2. row'.headSend # "PENDING" /\ worker'.at = "headPost" /\ chan' = chan
      BY <2>1, <2>2, <3>1 DEF Typed, Row, BeginHead, Here
    <3>. QED
      BY <3>1, <3>2 DEF WorkerSound, At, Unsent, InFlight
  <2>. QED
    BY <1>3, <2>1, <2>2, AckKeeps DEF Events, Begins, Happened, BeginHead, Here
<1>. QED
  BY <1>2, <1>3 DEF BeginHead

LEMMA PartKeeps ==
    ASSUME DeliveryInv, BeginPart
    PROVE  DeliveryInv'
<1>. USE DEF DeliveryInv
<1>1. worker \in Works
  BY DEF Typed
<1>2. CASE \E place \in {"votes", "partSeed", "partFind"} : Go(place) /\ UNCHANGED row
  <2>1. PICK place \in {"votes", "partSeed", "partFind"} : Go(place) /\ UNCHANGED row
    BY <1>2
  <2>2. worker' \in Works /\ worker'.at = place
    BY <1>1, <2>1, Goes DEF Go, Places
  <2>3. WorkerSound'
    BY <2>2 DEF WorkerSound, At
  <2>. QED
    BY <2>1, <2>2, <2>3, WorkerMoves DEF BeginPart, Here
<1>3. CASE Ack("PART_BEGIN", Next0("partPost"))
  <2>1. Next0("partPost") \in Works /\ Next0("partPost").at = "partPost"
    BY <1>1 DEF Next0, Works, Places
  <2>2. ASSUME row' = Acknowledged("PART_BEGIN", FALSE), Accepts("PART_BEGIN"), worker' = Next0("partPost")
        PROVE  WorkerSound'
    <3>1. Unsent("part") /\ row' = [row EXCEPT !.partSend = "SENDING", !.live = TRUE]
      BY <2>2, BeginWritten DEF Begins, Fits, RowSound
    <3>2. row'.partSend # "PENDING" /\ worker'.at = "partPost" /\ chan' = chan
      BY <2>1, <2>2, <3>1 DEF Typed, Row, BeginPart, Here
    <3>. QED
      BY <3>1, <3>2 DEF WorkerSound, At, Unsent, InFlight
  <2>. QED
    BY <1>3, <2>1, <2>2, AckKeeps DEF Events, Begins, Happened, BeginPart, Here
<1>. QED
  BY <1>2, <1>3 DEF BeginPart

LEMMA ThreadKeeps ==
    ASSUME DeliveryInv, BeginThread
    PROVE  DeliveryInv'
<1>. USE DEF DeliveryInv
<1>1. worker \in Works
  BY DEF Typed
<1>2. CASE Go("part") /\ UNCHANGED row
  <2>1. worker' \in Works /\ worker'.at = "part"
    BY <1>1, <1>2, Goes DEF Go, Places
  <2>2. WorkerSound'
    BY <2>1 DEF WorkerSound, At
  <2>. QED
    BY <1>2, <2>1, <2>2, WorkerMoves DEF BeginThread, Here
<1>3. CASE Ack("THREAD_BEGIN", Next0("threadOpen"))
  <2>1. Next0("threadOpen") \in Works /\ Next0("threadOpen").at = "threadOpen"
    BY <1>1 DEF Next0, Works, Places
  <2>2. ASSUME row' = Acknowledged("THREAD_BEGIN", FALSE), Accepts("THREAD_BEGIN"), worker' = Next0("threadOpen")
        PROVE  WorkerSound'
    <3>1. row' = [row EXCEPT !.thread = TRUE, !.live = TRUE]
      BY <2>2, BeginWritten DEF Begins
    <3>2. row'.thread /\ worker'.at = "threadOpen"
      BY <2>1, <2>2, <3>1 DEF Typed, Row
    <3>. QED
      BY <3>2 DEF WorkerSound, At
  <2>. QED
    BY <1>3, <2>1, <2>2, AckKeeps DEF Events, Begins, Happened, BeginThread, Here
<1>. QED
  BY <1>2, <1>3 DEF BeginThread

\* The other events.
LEMMA ReportsKeep ==
    ASSUME DeliveryInv,
           HeadRetry \/ HeadSent \/ ThreadSent \/ PartRetry \/ PartSent \/ PartSeeded \/ HeadSeeded \/ Ready \/ Resolve
    PROVE  DeliveryInv'
<1>. USE DEF DeliveryInv
<1>1. worker \in Works
  BY DEF Typed
<1>2. ASSUME NEW place \in {"error", "export", "thread", "part", "partSeed", "votes", "ready"}
      PROVE  Next0(place) \in Works /\ Next0(place).at = place
  BY <1>1 DEF Next0, Works, Places
<1>3. CASE HeadRetry
  BY <1>2, <1>3, AckGoes DEF HeadRetry, Next0, Events, Begins, Happened, WorkerSound, Here
<1>4. CASE HeadSent
  <2>. DEFINE next == [worker EXCEPT !.at = IF worker.cancelled THEN "export" ELSE "thread", !.head = TRUE]
  <2>1. next \in Works /\ next.at \in {"export", "thread"}
    BY <1>1 DEF Works, Places
  <2>2. Ack("HEAD_SENT", next) /\ Happened("HEAD_SENT") /\ UNCHANGED <<woken, clean, chan>>
    BY <1>4 DEF HeadSent, Happened, WorkerSound, Here
  <2>. HIDE DEF next
  <2>. QED
    BY <2>1, <2>2, AckGoes DEF Events, Receipts
<1>5. CASE ThreadSent
  <2>1. Ack("THREAD_SENT", Next0("part")) /\ Happened("THREAD_SENT") /\ UNCHANGED <<woken, clean, chan>>
    BY <1>5 DEF ThreadSent, Happened, WorkerSound, At, Here
  <2>. QED
    BY <1>2, <2>1, AckGoes DEF Events, Receipts
<1>6. CASE PartRetry
  BY <1>2, <1>6, AckGoes DEF PartRetry, Next0, Events, Begins, Happened, WorkerSound, Here
<1>7. CASE PartSent
  <2>. DEFINE next == [worker EXCEPT !.at = "partSeed", !.part = TRUE]
  <2>1. next \in Works /\ next.at = "partSeed"
    BY <1>1 DEF Works, Places
  <2>2. Ack("PART_SENT", next) /\ Happened("PART_SENT") /\ UNCHANGED <<woken, clean, chan>>
    BY <1>7 DEF PartSent, Happened, WorkerSound, Here
  <2>. HIDE DEF next
  <2>. QED
    BY <2>1, <2>2, AckGoes DEF Events, Receipts
<1>8. CASE PartSeeded \/ HeadSeeded \/ Ready \/ Resolve
  <2>1. \E event \in {"PART_SEEDED", "HEAD_SEEDED", "READY", "CANCEL_RESOLVED"}, place \in {"votes",
        "ready", "export"} :
          Ack(event, Next0(place)) /\ UNCHANGED <<woken, clean, chan>>
    BY <1>8 DEF PartSeeded, HeadSeeded, Ready, Resolve, Here
  <2>. QED
    BY <1>2, <2>1, AckGoes DEF Events, Begins, Happened
<1>. QED
  BY <1>3, <1>4, <1>5, <1>6, <1>7, <1>8

LEMMA FindLateKeeps ==
    ASSUME DeliveryInv, FindLatePart
    PROVE  DeliveryInv'
<1>. USE DEF DeliveryInv
<1>1. worker \in Works
  BY DEF Typed
<1>2. CASE Failed(TRUE) /\ UNCHANGED row
  BY <1>1, <1>2, Fails, WorkerMoves DEF FindLatePart, Here
<1>3. CASE chan.part /\ Ack("PART_SENT", Next0("export"))
  <2>1. Happened("PART_SENT")
    BY <1>3 DEF Happened, ChannelSound
  <2>2. Next0("export") \in Works /\ Next0("export").at = "export"
    BY <1>1 DEF Next0, Works, Places
  <2>. QED
    BY <1>3, <2>1, <2>2, AckGoes DEF FindLatePart, Events, Receipts, Here
<1>. QED
  BY <1>2, <1>3 DEF FindLatePart

----------------------------------------------------------------------------
(* Discord *)

\* A request is sent, or refused: nothing in the channel changes yet.
LEMMA RequestKeeps ==
    ASSUME DeliveryInv, NEW flight \in SUBSET {"head", "thread", "part"}, chan' = [chan EXCEPT !.flight = flight],
           "head" \in flight => InFlight("head") \/ (Unsent("head") /\ row.headSend # "PENDING"),
           "part" \in flight => InFlight("part") \/ (Unsent("part") /\ row.partSend # "PENDING"),
           "thread" \in flight => InFlight("thread") \/ row.thread,
           UNCHANGED <<row, woken, clean>>, worker' \in Works,
           worker'.at \in {"headRetry", "headPost", "headSent"} => Unsent("head")' /\ worker'.at = "headRetry",
           worker'.at \in {"partRetry", "partPost", "partSent"} => Unsent("part")' /\ worker'.at = "partRetry",
           worker'.at \in {"threadOpen", "threadWait", "threadSent"} => row.thread
    PROVE  DeliveryInv'
<1>. USE DEF DeliveryInv
<1>1. chan \in Channels
  BY DEF Typed
<1>2. /\ chan' \in Channels /\ chan'.head = chan.head /\ chan'.thread = chan.thread /\ chan'.part = chan.part
      /\ chan'.posted = chan.posted /\ chan'.flight = flight
  BY <1>1 DEF Channels
<1>3. ChannelSound'
  BY <1>2 DEF ChannelSound, Posted, InFlight, Unsent
<1>4. RowSound'
  BY <1>2 DEF RowSound, Posted, InFlight, Unsent
<1>5. OpenSound' /\ CleanSound' /\ DoneSound'
  BY <1>2 DEF OpenSound, CleanSound, DoneSound, Posted, Late, HeadIsGone, ThreadIsGone
<1>6. WorkerSound'
  BY DEF WorkerSound, At
<1>7. Typed'
  BY <1>2 DEF Typed
<1>. QED
  BY <1>3, <1>4, <1>5, <1>6, <1>7

LEMMA SendsKeep ==
    ASSUME DeliveryInv, PostHead \/ HeadLimited \/ OpenThread \/ PostPart \/ PartLimited
    PROVE  DeliveryInv'
<1>. USE DEF DeliveryInv
<1>1. worker \in Works /\ chan \in Channels
  BY DEF Typed
<1>2. chan.flight \in SUBSET {"head", "thread", "part"}
  BY <1>1 DEF Channels
<1>3. CASE PostHead
  <2>1. worker' \in Works /\ worker'.at = "headWait"
    BY <1>1, <1>3, Goes DEF PostHead, Go, Places
  <2>2. Unsent("head") /\ row.headSend # "PENDING"
    BY <1>3 DEF PostHead, WorkerSound
  <2>3. chan' = [chan EXCEPT !.flight = chan.flight \cup {"head"}]
    BY <1>3 DEF PostHead, Post
  <2>. QED
    BY <1>2, <1>3, <2>1, <2>2, <2>3, RequestKeeps DEF PostHead, InFlight
<1>4. CASE PostPart
  <2>1. worker' \in Works /\ worker'.at = "partWait"
    BY <1>1, <1>4, Goes DEF PostPart, Go, Places
  <2>2. Unsent("part") /\ row.partSend # "PENDING"
    BY <1>4 DEF PostPart, WorkerSound
  <2>3. chan' = [chan EXCEPT !.flight = chan.flight \cup {"part"}]
    BY <1>4 DEF PostPart, Post
  <2>. QED
    BY <1>2, <1>4, <2>1, <2>2, <2>3, RequestKeeps DEF PostPart, InFlight
<1>5. CASE OpenThread
  <2>1. row.thread
    BY <1>5 DEF OpenThread, WorkerSound, At
  <2>2. CASE chan.thread
    <3>1. worker' \in Works /\ worker'.at = "threadSent"
      BY <1>1, <1>5, <2>2, Goes DEF OpenThread, Go, Places
    <3>2. WorkerSound' /\ UNCHANGED <<row, woken, clean, chan>>
      BY <1>5, <2>1, <2>2, <3>1 DEF OpenThread, WorkerSound, At
    <3>. QED
      BY <3>1, <3>2, WorkerMoves
  <2>3. CASE ~chan.thread
    <3>1. worker' \in Works /\ worker'.at = "threadWait"
      BY <1>1, <1>5, <2>3, Goes DEF OpenThread, Go, Places
    <3>2. chan' = [chan EXCEPT !.flight = chan.flight \cup {"thread"}]
      BY <1>5, <2>3 DEF OpenThread, Post
    <3>. QED
      BY <1>2, <1>5, <2>1, <3>1, <3>2, RequestKeeps DEF OpenThread, InFlight
  <2>. QED
    BY <2>2, <2>3
<1>6. CASE HeadLimited
  <2>1. worker' \in Works /\ worker'.at = "headRetry"
    BY <1>1, <1>6, Goes DEF HeadLimited, Go, Places
  <2>2. chan' = [chan EXCEPT !.flight = chan.flight \ {"head"}] /\ InFlight("head")
    BY <1>6 DEF HeadLimited, InFlight
  <2>3. Unsent("head")'
    BY <1>1, <2>2 DEF Unsent, InFlight, ChannelSound, Channels
  <2>. QED
    BY <1>2, <1>6, <2>1, <2>2, <2>3, RequestKeeps DEF HeadLimited, InFlight
<1>7. CASE PartLimited
  <2>1. worker' \in Works /\ worker'.at = "partRetry"
    BY <1>1, <1>7, Goes DEF PartLimited, Go, Places
  <2>2. chan' = [chan EXCEPT !.flight = chan.flight \ {"part"}] /\ InFlight("part")
    BY <1>7 DEF PartLimited, InFlight
  <2>3. Unsent("part")'
    BY <1>1, <2>2 DEF Unsent, InFlight, ChannelSound, Channels
  <2>. QED
    BY <1>2, <1>7, <2>1, <2>2, <2>3, RequestKeeps DEF PartLimited, InFlight
<1>. QED
  BY <1>3, <1>4, <1>5, <1>6, <1>7

\* A request is carried out.
LEMMA ArrivesKeeps ==
    ASSUME DeliveryInv, NEW m \in {"head", "thread", "part"}, Arrives(m)
    PROVE  DeliveryInv'
<1>. USE DEF DeliveryInv
<1>1. chan \in Channels /\ chan.posted \in [{"head", "part"} -> 0..2] /\ InFlight(m)
  BY DEF Typed, Channels, Arrives, InFlight
<1>2. UNCHANGED <<row, woken, worker, clean>>
  BY DEF Arrives
<1>3. CASE m = "head"
  <2>1. chan' = [chan EXCEPT !.flight = @ \ {"head"}, !.head = TRUE, !.posted["head"] = IF @ = 2 THEN 2 ELSE @ + 1]
    BY <1>3 DEF Arrives
  <2>2. chan.posted["head"] = 0
    BY <1>1, <1>3 DEF ChannelSound
  <2>. DEFINE posted == [chan.posted EXCEPT !["head"] = 1]
  <2>11. /\ posted \in [{"head", "part"} -> 0..2]
         /\ posted["head"] = 1
         /\ \A x \in {"head", "part"} \ {"head"} : posted[x] = chan.posted[x]
    BY <1>1
  <2>12. chan' = [chan EXCEPT !.flight = @ \ {"head"}, !.head = TRUE, !.posted = posted]
    BY <1>1, <2>1, <2>2 DEF Channels
  <2>. HIDE DEF posted
  <2>3. /\ chan' \in Channels /\ chan'.head /\ chan'.thread = chan.thread /\ chan'.part = chan.part
        /\ chan'.posted["head"] = 1 /\ chan'.posted["part"] = chan.posted["part"]
        /\ chan'.flight = chan.flight \ {"head"}
    BY <1>1, <2>11, <2>12 DEF Channels
  <2>4. row.headSend = "SENDING" /\ ~row.head
    BY <1>1, <1>3, <2>2 DEF RowSound, Unsent, Posted, Typed, Row, Sends
  <2>5. ChannelSound'
    BY <2>3 DEF ChannelSound, Posted, InFlight
  <2>6. RowSound'
    BY <1>2, <2>3, <2>4 DEF RowSound, Posted, InFlight, Unsent
  <2>7. WorkerSound'
    BY <1>1, <1>2, <1>3, <2>2, <2>3 DEF WorkerSound, At, Posted, InFlight, Unsent
  <2>8. OpenSound'
    BY <1>2, <2>3 DEF OpenSound, Posted, Late
  <2>9. CleanSound'
    BY <1>2, <2>2, <2>3 DEF CleanSound, HeadIsGone, ThreadIsGone, Posted
  <2>10. DoneSound'
    BY <1>2, <2>4 DEF DoneSound
  <2>. QED
    BY <1>2, <2>3, <2>5, <2>6, <2>7, <2>8, <2>9, <2>10 DEF Typed
<1>4. CASE m = "thread"
  <2>1. chan' = [chan EXCEPT !.flight = @ \ {"thread"}, !.thread = chan.head \/ @]
    BY <1>4 DEF Arrives
  <2>2. /\ chan' \in Channels /\ chan'.head = chan.head /\ chan'.thread = (chan.head \/ chan.thread)
        /\ chan'.part = chan.part /\ chan'.posted = chan.posted /\ chan'.flight = chan.flight \ {"thread"}
    BY <1>1, <2>1 DEF Channels
  <2>3. row.thread
    BY <1>1, <1>4 DEF RowSound
  <2>4. ChannelSound'
    BY <2>2 DEF ChannelSound, Posted, InFlight
  <2>5. RowSound'
    BY <1>2, <2>2, <2>3 DEF RowSound, Posted, InFlight, Unsent
  <2>6. WorkerSound'
    BY <1>2, <2>2 DEF WorkerSound, At, Posted, InFlight, Unsent
  <2>7. OpenSound' /\ CleanSound' /\ DoneSound'
    BY <1>2, <2>2 DEF OpenSound, CleanSound, DoneSound, HeadIsGone, ThreadIsGone, Posted, Late
  <2>. QED
    BY <1>2, <2>2, <2>4, <2>5, <2>6, <2>7 DEF Typed
<1>5. CASE m = "part" /\ chan.thread
  <2>1. chan' = [chan EXCEPT !.flight = @ \ {"part"}, !.part = TRUE, !.posted["part"] = IF @ = 2 THEN 2 ELSE @ + 1]
    BY <1>5 DEF Arrives
  <2>2. chan.posted["part"] = 0
    BY <1>1, <1>5 DEF ChannelSound
  <2>. DEFINE posted == [chan.posted EXCEPT !["part"] = 1]
  <2>11. /\ posted \in [{"head", "part"} -> 0..2]
         /\ posted["part"] = 1
         /\ \A x \in {"head", "part"} \ {"part"} : posted[x] = chan.posted[x]
    BY <1>1
  <2>12. chan' = [chan EXCEPT !.flight = @ \ {"part"}, !.part = TRUE, !.posted = posted]
    BY <1>1, <2>1, <2>2 DEF Channels
  <2>. HIDE DEF posted
  <2>3. /\ chan' \in Channels /\ chan'.head = chan.head /\ chan'.thread = chan.thread /\ chan'.part
        /\ chan'.posted["part"] = 1 /\ chan'.posted["head"] = chan.posted["head"]
        /\ chan'.flight = chan.flight \ {"part"}
    BY <1>1, <2>11, <2>12 DEF Channels
  <2>4. row.partSend # "PENDING" /\ ~row.part
    BY <1>1, <1>5, <2>2 DEF RowSound, Unsent, Posted
  <2>5. ChannelSound'
    BY <1>5, <2>3 DEF ChannelSound, Posted, InFlight
  <2>6. RowSound'
    BY <1>2, <2>3, <2>4 DEF RowSound, Posted, InFlight, Unsent
  <2>7. WorkerSound'
    BY <1>1, <1>2, <1>5, <2>2, <2>3 DEF WorkerSound, At, Posted, InFlight, Unsent
  <2>8. OpenSound'
    BY <1>2, <2>3 DEF OpenSound, Posted, Late
  <2>9. CleanSound' /\ DoneSound'
    BY <1>2, <2>3 DEF CleanSound, DoneSound, HeadIsGone, ThreadIsGone, Posted
  <2>. QED
    BY <1>2, <2>3, <2>5, <2>6, <2>7, <2>8, <2>9 DEF Typed
<1>6. CASE m = "part" /\ ~chan.thread
  <2>1. chan' = [chan EXCEPT !.flight = chan.flight \ {"part"}]
    BY <1>6 DEF Arrives
  <2>2. /\ chan' \in Channels /\ chan'.head = chan.head /\ chan'.thread = chan.thread
        /\ chan'.part = chan.part /\ chan'.posted = chan.posted /\ chan'.flight = chan.flight \ {"part"}
    BY <1>1, <2>1 DEF Channels
  <2>3. ChannelSound' /\ RowSound'
    BY <1>2, <2>2 DEF ChannelSound, RowSound, Posted, InFlight, Unsent
  <2>4. WorkerSound'
    BY <1>2, <2>2 DEF WorkerSound, At, Posted, InFlight, Unsent
  <2>5. OpenSound' /\ CleanSound' /\ DoneSound'
    BY <1>2, <2>2 DEF OpenSound, CleanSound, DoneSound, HeadIsGone, ThreadIsGone, Posted, Late
  <2>. QED
    BY <1>2, <2>2, <2>3, <2>4, <2>5 DEF Typed
<1>. QED
  BY <1>3, <1>4, <1>5, <1>6

----------------------------------------------------------------------------
(* The removal *)

\* The steps of a removal that delete: what the one who takes them knows, and what goes.
LEMMA Removes ==
    ASSUME DeliveryInv, NEW c \in Cleaners, NEW k \in Cleaning, clean' = [clean EXCEPT ![c] = k],
           clean[c].at # "idle", k.at # "idle", UNCHANGED <<row, woken, worker>>,
           NEW h \in BOOLEAN, NEW t \in BOOLEAN, NEW p \in BOOLEAN,
           chan' = [chan EXCEPT !.head = h, !.thread = t, !.part = p],
           h => chan.head, t => chan.thread, p => chan.part /\ t,
           k.head = clean[c].head, k.thread = clean[c].thread,
           k.headGone => HeadIsGone', k.threadGone => ThreadIsGone',
           k.at = "thread" /\ k.head => k.headGone,
           k.at = "ack" /\ ~k.failed => (k.head => k.headGone) /\ (k.thread => k.threadGone)
    PROVE  DeliveryInv'
<1>. USE DEF DeliveryInv
<1>1. chan \in Channels /\ clean \in [Cleaners -> Cleaning] /\ Late
  BY DEF Typed, OpenSound
<1>2. /\ chan' \in Channels /\ chan'.posted = chan.posted /\ chan'.flight = chan.flight
      /\ chan'.head = h /\ chan'.thread = t /\ chan'.part = p
  BY <1>1 DEF Channels
<1>3. clean' \in [Cleaners -> Cleaning] /\ clean'[c] = k /\ \A x \in Cleaners \ {c} : clean'[x] = clean[x]
  BY <1>1
<1>4. ChannelSound' /\ RowSound'
  BY <1>2 DEF ChannelSound, RowSound, Posted, InFlight, Unsent
<1>5. WorkerSound'
  BY <1>2 DEF WorkerSound, At, Posted, InFlight, Unsent
<1>6. OpenSound' /\ DoneSound'
  BY <1>1, <1>2, <1>3 DEF OpenSound, DoneSound, Posted, Late
<1>7. (HeadIsGone => HeadIsGone') /\ (ThreadIsGone => ThreadIsGone')
  BY <1>2 DEF HeadIsGone, ThreadIsGone, Posted
<1>8. CleanSound'
  BY <1>1, <1>2, <1>3, <1>7 DEF CleanSound
<1>9. Typed'
  BY <1>2, <1>3 DEF Typed
<1>. QED
  BY <1>4, <1>5, <1>6, <1>8, <1>9

LEMMA DeleteHeadKeeps ==
    ASSUME DeliveryInv, NEW c \in Cleaners, DeleteHead(c)
    PROVE  DeliveryInv'
<1>. USE DEF DeliveryInv
<1>1. chan \in Channels /\ clean \in [Cleaners -> Cleaning] /\ clean[c].at = "head" /\ clean[c] \in Cleaning
  BY DEF Typed, DeleteHead
<1>2. UNCHANGED <<row, woken, worker>>
  BY DEF DeleteHead
<1>3. /\ chan = [chan EXCEPT !.head = chan.head, !.thread = chan.thread, !.part = chan.part]
      /\ [chan EXCEPT !.head = FALSE] = [chan EXCEPT !.head = FALSE, !.thread = chan.thread, !.part = chan.part]
      /\ chan.head \in BOOLEAN /\ chan.thread \in BOOLEAN /\ chan.part \in BOOLEAN /\ (chan.part => chan.thread)
  BY <1>1 DEF Channels, ChannelSound
<1>4. CASE clean[c].headGone \/ ~clean[c].head
  <2>1. PICK k \in Cleaning : k = [clean[c] EXCEPT !.at = "thread"]
    BY <1>1 DEF Cleaning
  <2>2. clean' = [clean EXCEPT ![c] = k] /\ chan' = chan
    BY <1>1, <1>4, <2>1 DEF DeleteHead
  <2>3. /\ k.at = "thread" /\ k.head = clean[c].head /\ k.thread = clean[c].thread
        /\ k.headGone = clean[c].headGone /\ k.threadGone = clean[c].threadGone
    BY <1>1, <2>1 DEF Cleaning
  <2>4. (HeadIsGone => HeadIsGone') /\ (ThreadIsGone => ThreadIsGone')
    BY <2>2 DEF HeadIsGone, ThreadIsGone, Posted
  <2>5. (k.headGone => HeadIsGone') /\ (k.threadGone => ThreadIsGone')
    BY <2>3, <2>4 DEF CleanSound
  <2>. QED
    BY <1>1, <1>2, <1>3, <1>4, <2>2, <2>3, <2>5, Removes
<1>5. CASE ~(clean[c].headGone \/ ~clean[c].head)
  <2>1. Posted("head")
    BY <1>5 DEF CleanSound, RowSound
  <2>2. PICK h \in BOOLEAN, k \in Cleaning :
          /\ chan' = [chan EXCEPT !.head = h, !.thread = chan.thread, !.part = chan.part] /\ (h => chan.head)
          /\ clean' = [clean EXCEPT ![c] = k]
          /\ k.head = clean[c].head /\ k.thread = clean[c].thread /\ k.threadGone = clean[c].threadGone
          /\ \/ k.at = "thread" /\ k.headGone /\ ~h
             \/ k.at = "ack" /\ k.failed /\ k.headGone = clean[c].headGone
    <3>1. CASE chan' = [chan EXCEPT !.head = FALSE]
               /\ clean' = [clean EXCEPT ![c].at = "thread", ![c].headGone = TRUE]
      <4>1. PICK k \in Cleaning : k = [clean[c] EXCEPT !.at = "thread", !.headGone = TRUE]
        BY <1>1 DEF Cleaning
      <4>2. clean' = [clean EXCEPT ![c] = k]
        BY <1>1, <3>1, <4>1
      <4>3. /\ k.at = "thread"
            /\ k.headGone
            /\ k.head = clean[c].head
            /\ k.thread = clean[c].thread
            /\ k.threadGone = clean[c].threadGone
        BY <1>1, <4>1 DEF Cleaning
      <4>. QED
        BY <1>3, <3>1, <4>2, <4>3
    <3>2. CASE chan' \in {chan, [chan EXCEPT !.head = FALSE]}
               /\ clean' = [clean EXCEPT ![c].at = "ack", ![c].failed = TRUE]
      <4>1. PICK k \in Cleaning : k = [clean[c] EXCEPT !.at = "ack", !.failed = TRUE]
        BY <1>1 DEF Cleaning
      <4>2. clean' = [clean EXCEPT ![c] = k]
        BY <1>1, <3>2, <4>1
      <4>3. /\ k.at = "ack"
            /\ k.failed
            /\ k.headGone = clean[c].headGone
            /\ k.head = clean[c].head
            /\ k.thread = clean[c].thread
            /\ k.threadGone = clean[c].threadGone
        BY <1>1, <4>1 DEF Cleaning
      <4>4. PICK h \in BOOLEAN : chan' = [chan EXCEPT !.head = h, !.thread = chan.thread,
            !.part = chan.part] /\ (h => chan.head)
        BY <1>3, <3>2
      <4>. QED
        BY <4>2, <4>3, <4>4
    <3>. QED
      BY <1>5, <3>1, <3>2 DEF DeleteHead
  <2>3. chan'.head = h /\ chan'.thread = chan.thread /\ chan'.part = chan.part /\ chan'.posted = chan.posted
    BY <1>1, <2>2 DEF Channels
  <2>4. (HeadIsGone => HeadIsGone') /\ (ThreadIsGone => ThreadIsGone') /\ (~h => HeadIsGone')
    BY <2>1, <2>2, <2>3 DEF HeadIsGone, ThreadIsGone, Posted
  <2>5. (k.headGone => HeadIsGone') /\ (k.threadGone => ThreadIsGone')
    BY <2>2, <2>4 DEF CleanSound
  <2>. QED
    BY <1>1, <1>2, <1>3, <2>2, <2>5, Removes
<1>. QED
  BY <1>4, <1>5

LEMMA DeleteThreadKeeps ==
    ASSUME DeliveryInv, NEW c \in Cleaners, DeleteThread(c)
    PROVE  DeliveryInv' /\ (chan.thread /\ ~chan'.thread => ~chan.head)
<1>. USE DEF DeliveryInv
<1>1. chan \in Channels /\ clean \in [Cleaners -> Cleaning] /\ clean[c].at = "thread" /\ clean[c] \in Cleaning
  BY DEF Typed, DeleteThread
<1>2. UNCHANGED <<row, woken, worker>>
  BY DEF DeleteThread
<1>3. /\ chan = [chan EXCEPT !.head = chan.head, !.thread = chan.thread, !.part = chan.part]
      /\ [chan EXCEPT !.thread = FALSE, !.part = FALSE]
            = [chan EXCEPT !.head = chan.head, !.thread = FALSE, !.part = FALSE]
      /\ chan.head \in BOOLEAN /\ chan.thread \in BOOLEAN /\ chan.part \in BOOLEAN /\ (chan.part => chan.thread)
  BY <1>1 DEF Channels, ChannelSound
<1>4. CASE clean[c].threadGone \/ ~clean[c].thread
  <2>1. PICK k \in Cleaning : k = [clean[c] EXCEPT !.at = "ack"]
    BY <1>1 DEF Cleaning
  <2>2. clean' = [clean EXCEPT ![c] = k] /\ chan' = chan
    BY <1>1, <1>4, <2>1 DEF DeleteThread
  <2>3. /\ k.at = "ack" /\ k.head = clean[c].head /\ k.thread = clean[c].thread
        /\ k.headGone = clean[c].headGone /\ k.threadGone = clean[c].threadGone
    BY <1>1, <2>1 DEF Cleaning
  <2>4. (HeadIsGone => HeadIsGone') /\ (ThreadIsGone => ThreadIsGone')
    BY <2>2 DEF HeadIsGone, ThreadIsGone, Posted
  <2>5. /\ (k.headGone => HeadIsGone') /\ (k.threadGone => ThreadIsGone')
        /\ (k.head => k.headGone) /\ (k.thread => k.threadGone)
    BY <1>1, <1>4, <2>3, <2>4 DEF CleanSound
  <2>6. chan' = [chan EXCEPT !.head = chan.head, !.thread = chan.thread, !.part = chan.part]
    BY <1>3, <2>2
  <2>7. DeliveryInv'
    BY <1>1, <1>2, <1>3, <2>2, <2>3, <2>5, <2>6, Removes
  <2>. QED
    BY <2>2, <2>7
<1>5. CASE ~(clean[c].threadGone \/ ~clean[c].thread)
  <2>1. HeadIsGone /\ clean[c].headGone
    BY <1>1, <1>5 DEF CleanSound
  <2>2. PICK t \in {chan.thread, FALSE}, p \in {chan.part, FALSE}, k \in Cleaning :
          /\ chan' = [chan EXCEPT !.head = chan.head, !.thread = t, !.part = p] /\ (p => t)
          /\ clean' = [clean EXCEPT ![c] = k]
          /\ k.head = clean[c].head /\ k.thread = clean[c].thread /\ k.headGone = clean[c].headGone
          /\ k.at = "ack"
          /\ \/ k.threadGone /\ ~t
             \/ k.failed /\ k.threadGone = clean[c].threadGone
    <3>1. CASE chan' = [chan EXCEPT !.thread = FALSE, !.part = FALSE]
               /\ clean' = [clean EXCEPT ![c].at = "ack", ![c].threadGone = TRUE]
      <4>1. PICK k \in Cleaning : k = [clean[c] EXCEPT !.at = "ack", !.threadGone = TRUE]
        BY <1>1 DEF Cleaning
      <4>2. clean' = [clean EXCEPT ![c] = k]
        BY <1>1, <3>1, <4>1
      <4>3. /\ k.at = "ack"
            /\ k.threadGone
            /\ k.head = clean[c].head
            /\ k.thread = clean[c].thread
            /\ k.headGone = clean[c].headGone
        BY <1>1, <4>1 DEF Cleaning
      <4>. QED
        BY <1>3, <3>1, <4>2, <4>3
    <3>2. CASE chan' \in {chan, [chan EXCEPT !.thread = FALSE, !.part = FALSE]}
               /\ clean' = [clean EXCEPT ![c].at = "ack", ![c].failed = TRUE]
      <4>1. PICK k \in Cleaning : k = [clean[c] EXCEPT !.at = "ack", !.failed = TRUE]
        BY <1>1 DEF Cleaning
      <4>2. clean' = [clean EXCEPT ![c] = k]
        BY <1>1, <3>2, <4>1
      <4>3. /\ k.at = "ack"
            /\ k.failed
            /\ k.headGone = clean[c].headGone
            /\ k.head = clean[c].head
            /\ k.thread = clean[c].thread
            /\ k.threadGone = clean[c].threadGone
        BY <1>1, <4>1 DEF Cleaning
      <4>4. PICK t \in {chan.thread, FALSE}, p \in {chan.part, FALSE} :
              chan' = [chan EXCEPT !.head = chan.head, !.thread = t, !.part = p] /\ (p => t)
        BY <1>3, <3>2
      <4>. QED
        BY <4>2, <4>3, <4>4
    <3>. QED
      BY <1>5, <3>1, <3>2 DEF DeleteThread
  <2>3. chan'.head = chan.head /\ chan'.thread = t /\ chan'.part = p /\ chan'.posted = chan.posted
    BY <1>1, <2>2 DEF Channels
  <2>4. HeadIsGone' /\ (~t => ThreadIsGone')
    BY <2>1, <2>2, <2>3 DEF HeadIsGone, ThreadIsGone, Posted
  <2>5. (k.headGone => HeadIsGone') /\ (k.threadGone => ThreadIsGone')
    BY <1>5, <2>2, <2>4
  <2>6. DeliveryInv'
    BY <1>1, <1>2, <1>3, <2>1, <2>2, <2>5, Removes
  <2>. QED
    BY <2>1, <2>6 DEF HeadIsGone
<1>. QED
  BY <1>1, <1>4, <1>5

----------------------------------------------------------------------------
(* Leases, decisions and time *)

\* The row's lease, attempt or state moves, and the worker rests or is nowhere that matters.
LEMMA RowOnly ==
    ASSUME DeliveryInv, row' \in Row, UNCHANGED <<clean, chan>>, SentOf(row') = SentOf(row),
           row'.state = row.state \/ (row'.state # "READY" /\ (Late => Late')),
           row'.cleanup = row.cleanup \/ (row'.cleanup # "DONE" /\ Late'),
           row'.lease = row.lease \/ row'.lease \notin Cleaners,
           row'.live => row'.lease # "none",
           woken' \in BOOLEAN, worker' = worker \/ (worker' \in Works /\ Quiet')
    PROVE  DeliveryInv'
<1>1. RowInv' /\ ChannelSound'
  BY RowMoves, ChannelRests
<1>2. WorkerSound'
  <2>1. CASE worker' = worker
    <3>1. row'.headSend = row.headSend /\ row'.partSend = row.partSend /\ row'.thread = row.thread
      BY DEF SentOf
    <3>. QED
      BY <2>1, <3>1, WorkerRests
  <2>2. CASE Quiet'
    BY <2>2 DEF Quiet, WorkerSound, At
  <2>. QED
    BY <2>1, <2>2
<1>3. Typed'
  BY DEF DeliveryInv, Typed
<1>. QED
  BY <1>1, <1>2, <1>3 DEF DeliveryInv, RowInv

LEMMA NoWorkQuiet == NoWork \in Works /\ NoWork.at = "idle"
  BY DEF NoWork, Works, Places, Sends

LEMMA Moves ==
    ASSUME worker \in Works, NEW place \in {"clean", "cleaning", "export", "noticing", "notice"}, Go(place)
    PROVE  worker' \in Works /\ Quiet'
<1>1. place \in Places
  BY DEF Places
<1>2. worker' \in Works /\ worker'.at = place
  BY <1>1, Goes DEF Go
<1>. QED
  BY <1>2 DEF Quiet

LEMMA NoticeKeeps ==
    ASSUME DeliveryInv, ClaimNotice \/ Notice
    PROVE  DeliveryInv'
<1>. USE DEF DeliveryInv
<1>1. row \in Row /\ worker \in Works /\ Here /\ woken \in BOOLEAN
  BY DEF Typed, ClaimNotice, Notice
<1>2. worker' \in Works /\ Quiet'
  BY <1>1, Moves DEF ClaimNotice, Notice
<1>3. \/ row' = row
      \/ row' = [row EXCEPT !.lease = "notice", !.live = TRUE]
      \/ \E n \in {"SENT", "BLOCKED", "PENDING", "UNAVAILABLE"} :
           row' = [row EXCEPT !.notice = n, !.lease = "none", !.live = FALSE]
  <2>1. CASE ClaimNotice
    BY <2>1 DEF ClaimNotice, Released
  <2>2. CASE Notice
    BY <2>2 DEF Notice, Released
  <2>. QED
    BY <2>1, <2>2
<1>4. /\ row' \in Row /\ row'.state = row.state /\ row'.cleanup = row.cleanup
      /\ row'.lease \in {row.lease, "notice", "none"}
      /\ row'.live => row'.lease # "none"
  BY <1>1, <1>3 DEF Row, RowSound
<1>5. SentOf(row') = SentOf(row)
  BY <1>1, <1>3 DEF Row, SentOf
<1>. QED
  BY <1>1, <1>2, <1>4, <1>5, RowOnly DEF Here, Cleaners

LEMMA ClaimExportKeeps ==
    ASSUME DeliveryInv, ClaimExport
    PROVE  DeliveryInv'
<1>. USE DEF DeliveryInv
<1>1. row \in Row /\ worker \in Works /\ Here /\ woken \in BOOLEAN
  BY DEF Typed, ClaimExport
<1>2. CASE worker' = NoWork /\ UNCHANGED row
  <2>1. worker' \in Works /\ Quiet'
    BY <1>2, NoWorkQuiet DEF Quiet
  <2>2. row.live => row.lease # "none"
    BY DEF RowSound
  <2>. QED
    BY <1>1, <1>2, <2>1, <2>2, RowOnly DEF Here
<1>3. CASE /\ row' = [row EXCEPT !.state = IF Late THEN @ ELSE "EXPORTING", !.lease = "export", !.live = TRUE]
           /\ worker' = [NoWork EXCEPT !.at = "head", !.cancelled = Late, !.head = row.head,
                           !.headSend = row.headSend, !.thread = row.thread, !.part = row.part,
                           !.partSend = row.partSend, !.seeded = row.partSeeded]
  <2>1. worker' \in Works /\ worker'.at = "head"
    <3>1. PICK late \in BOOLEAN : late = Late
      BY DEF Late
    <3>2. /\ row.head \in BOOLEAN /\ row.headSend \in Sends /\ row.thread \in BOOLEAN /\ row.part \in BOOLEAN
          /\ row.partSend \in Sends /\ row.partSeeded \in BOOLEAN
      BY <1>1 DEF Row
    <3>3. worker' = [at |-> "head", cancelled |-> late, head |-> row.head, headSend |-> row.headSend,
                     thread |-> row.thread, part |-> row.part, partSend |-> row.partSend,
                     seeded |-> row.partSeeded, blocked |-> FALSE, todo |-> {}]
      BY <1>3, <3>1 DEF NoWork
    <3>. QED
      BY <3>2, <3>3 DEF Works, Places
  <2>2. /\ row' \in Row /\ row'.cleanup = row.cleanup /\ row'.lease = "export"
        /\ row'.state = row.state \/ (~Late /\ row'.state = "EXPORTING")
    BY <1>1, <1>3 DEF Row
  <2>3. SentOf(row') = SentOf(row)
    BY <1>1, <1>3 DEF Row, SentOf
  <2>4. Quiet'
    BY <2>1 DEF Quiet
  <2>. QED
    BY <1>1, <2>1, <2>2, <2>3, <2>4, RowOnly DEF Here, Cleaners
<1>. QED
  BY <1>2, <1>3 DEF ClaimExport

LEMMA ReportErrorKeeps ==
    ASSUME DeliveryInv, ReportError
    PROVE  DeliveryInv'
<1>. USE DEF DeliveryInv
<1>1. row \in Row /\ worker \in Works /\ Here /\ woken \in BOOLEAN /\ worker.blocked \in BOOLEAN
  BY DEF Typed, Works, ReportError
<1>2. worker' \in Works /\ Quiet'
  <2>1. CASE Go("export")
    BY <1>1, <2>1, Moves
  <2>2. CASE worker' = NoWork
    BY <2>2, NoWorkQuiet DEF Quiet
  <2>. QED
    BY <2>1, <2>2 DEF ReportError
<1>3. WorkerSound'
  BY <1>2 DEF Quiet, WorkerSound, At
<1>4. row' \in Row /\ RowInv'
  <2>1. CASE UNCHANGED row
    BY <1>1, <2>1, RowRests DEF Here
  <2>2. CASE Accepts("ERROR") /\ row' = Acknowledged("ERROR", worker.blocked)
    BY <1>1, <2>2, ErrorKeeps DEF Here
  <2>. QED
    BY <2>1, <2>2 DEF ReportError
<1>5. Typed' /\ ChannelSound'
  BY <1>1, <1>2, <1>4, ChannelRests DEF Typed, Here
<1>. QED
  BY <1>3, <1>4, <1>5 DEF RowInv

LEMMA DecisionsKeep ==
    ASSUME DeliveryInv, DeliveryAssumption, Cancel \/ OriginalExpires
    PROVE  DeliveryInv'
<1>. USE DEF DeliveryInv
<1>1. row \in Row /\ UNCHANGED <<worker, clean, chan>> /\ woken \in BOOLEAN
  BY DEF Typed, Cancel, OriginalExpires
<1>2. woken' \in BOOLEAN
  BY <1>1 DEF Cancel, OriginalExpires
<1>3. \E cleanup \in {"PENDING", row.cleanup}, due \in BOOLEAN, lease \in {row.lease, "none"},
      live \in {row.live, FALSE} :
        /\ lease = "none" => ~live
        /\ row' = [row EXCEPT !.state = "CANCELLED", !.cleanup = cleanup, !.due = due, !.lease = lease, !.live = live]
  <2>1. CASE OriginalExpires
    BY <2>1 DEF OriginalExpires, Released
  <2>2. CASE Cancel
    <3>. DEFINE cleanup == IF row.cleanup \in {"NONE", "DONE"} THEN "PENDING" ELSE row.cleanup
                due == IF row.cleanup \in {"NONE", "DONE"} THEN TRUE ELSE row.due
                r == [row EXCEPT !.state = "CANCELLED", !.cleanup = cleanup, !.due = due]
    <3>1. cleanup \in {"PENDING", row.cleanup} /\ due \in BOOLEAN
      BY <1>1 DEF Row
    <3>2. row' = IF row.lease = "export" THEN Released(r) ELSE r
      BY <2>2 DEF Cancel
    <3>3. CASE row.lease = "export"
      <4>1. row' = [row EXCEPT !.state = "CANCELLED", !.cleanup = cleanup, !.due = due, !.lease = "none",
            !.live = FALSE]
        BY <3>2, <3>3 DEF Released
      <4>. HIDE DEF cleanup, due
      <4>. QED
        BY <3>1, <4>1
    <3>4. CASE row.lease # "export"
      <4>1. row' = [row EXCEPT !.state = "CANCELLED", !.cleanup = cleanup, !.due = due,
            !.lease = row.lease, !.live = row.live]
        BY <1>1, <3>2, <3>4 DEF Row
      <4>2. row.lease = "none" => ~row.live
        BY DEF RowSound
      <4>. HIDE DEF cleanup, due
      <4>. QED
        BY <3>1, <4>1, <4>2
    <3>. QED
      BY <3>3, <3>4
  <2>. QED
    BY <2>1, <2>2
<1>4. PICK cleanup \in {"PENDING", row.cleanup}, due \in BOOLEAN, lease \in {row.lease, "none"},
      live \in {row.live, FALSE} :
        /\ lease = "none" => ~live
        /\ row' = [row EXCEPT !.state = "CANCELLED", !.cleanup = cleanup, !.due = due, !.lease = lease, !.live = live]
  BY <1>3
<1>5. /\ row' \in Row /\ row'.state = "CANCELLED" /\ row'.cleanup = cleanup /\ row'.lease = lease /\ row'.live = live
  BY <1>1, <1>4 DEF Row
<1>6. SentOf(row') = SentOf(row)
  BY <1>1, <1>4 DEF Row, SentOf
<1>7. Late'
  BY <1>5 DEF Late
<1>8. row'.lease = row.lease \/ row'.lease \notin Cleaners
  BY <1>5 DEF Cleaners
<1>9. row'.cleanup = row.cleanup \/ (row'.cleanup # "DONE" /\ Late')
  BY <1>4, <1>5, <1>7
<1>. QED
  BY <1>1, <1>2, <1>4, <1>5, <1>6, <1>7, <1>8, <1>9, RowOnly

LEMMA TimeKeeps ==
    ASSUME DeliveryInv, LeaseLapses \/ Due
    PROVE  DeliveryInv'
<1>. USE DEF DeliveryInv
<1>1. row \in Row /\ UNCHANGED <<woken, worker, clean, chan>> /\ woken \in BOOLEAN
  BY DEF Typed, LeaseLapses, Due
<1>2. row' = [row EXCEPT !.live = FALSE] \/ row' = [row EXCEPT !.due = TRUE]
  BY DEF LeaseLapses, Due
<1>3. /\ row' \in Row /\ row'.state = row.state /\ row'.cleanup = row.cleanup /\ row'.lease = row.lease
      /\ row'.live => row.live
  BY <1>1, <1>2 DEF Row
<1>4. SentOf(row') = SentOf(row)
  BY <1>1, <1>2 DEF Row, SentOf
<1>5. row'.live => row'.lease # "none"
  BY <1>3 DEF RowSound
<1>. QED
  BY <1>1, <1>3, <1>4, <1>5, RowOnly

----------------------------------------------------------------------------
(* The removal begins and ends *)

LEMMA ClaimCleanupKeeps ==
    ASSUME DeliveryInv, NEW c \in Cleaners, ClaimCleanup(c)
    PROVE  DeliveryInv'
<1>. USE DEF DeliveryInv
<1>1. row \in Row /\ worker \in Works /\ clean \in [Cleaners -> Cleaning] /\ woken \in BOOLEAN /\ chan' = chan
  BY DEF Typed, ClaimCleanup
<1>2. woken' \in BOOLEAN /\ (worker' = worker \/ (worker' \in Works /\ Quiet'))
  <2>1. CASE c = "api"
    BY <2>1 DEF ClaimCleanup
  <2>2. CASE c # "api"
    <3>1. PICK place \in {"cleaning", "export"} : Go(place)
      BY <2>2 DEF ClaimCleanup
    <3>2. worker' \in Works /\ Quiet'
      BY <1>1, <3>1, Moves
    <3>. QED
      BY <1>1, <2>2, <3>2 DEF ClaimCleanup
  <2>. QED
    BY <2>1, <2>2
<1>3. CASE UNCHANGED <<row, clean>>
  <2>1. row.live => row.lease # "none"
    BY DEF RowSound
  <2>. QED
    BY <1>1, <1>2, <1>3, <2>1, RowOnly
<1>4. CASE /\ row.cleanup \in Removable
           /\ row' = [row EXCEPT !.cleanup = "RUNNING", !.lease = c, !.live = TRUE]
           /\ clean' = [clean EXCEPT ![c] = [at |-> "head", head |-> row.head, thread |-> row.thread,
                                             headGone |-> row.headGone,
                                             threadGone |-> row.threadGone, failed |-> FALSE]]
  <2>1. Late
    BY <1>4 DEF OpenSound, Removable
  <2>2. /\ row' \in Row /\ row'.cleanup = "RUNNING" /\ row'.lease = c /\ row'.state = row.state
        /\ row'.head = row.head /\ row'.headSend = row.headSend /\ row'.headSeeded = row.headSeeded
        /\ row'.thread = row.thread /\ row'.part = row.part /\ row'.partSend = row.partSend
        /\ row'.partSeeded = row.partSeeded /\ row'.headGone = row.headGone /\ row'.threadGone = row.threadGone
    BY <1>1, <1>4 DEF Row, Cleaners
  <2>3. PICK k \in Cleaning : k = [at |-> "head", head |-> row.head, thread |-> row.thread, headGone |-> row.headGone,
                                   threadGone |-> row.threadGone, failed |-> FALSE]
    BY <1>1 DEF Cleaning, Row
  <2>4. /\ k.at = "head"
        /\ k.head = row.head
        /\ k.thread = row.thread
        /\ k.headGone = row.headGone
        /\ k.threadGone = row.threadGone
    BY <2>3
  <2>5. clean' \in [Cleaners -> Cleaning] /\ clean'[c] = k /\ \A x \in Cleaners \ {c} : clean'[x] = clean[x]
    BY <1>1, <1>4, <2>3
  <2>6. RowSound'
    BY <1>1, <2>2 DEF RowSound, Posted, Unsent, InFlight, Cleaners
  <2>7. OpenSound'
    BY <1>1, <2>1, <2>2 DEF OpenSound, Posted, Late
  <2>8. CleanSound'
    BY <1>1, <2>2, <2>4, <2>5 DEF CleanSound, HeadIsGone, ThreadIsGone, Posted, RowSound
  <2>9. DoneSound'
    BY <2>2 DEF DoneSound
  <2>10. WorkerSound'
    <3>1. CASE worker' = worker
      BY <1>1, <2>2, <3>1, WorkerRests
    <3>2. CASE Quiet'
      BY <3>2 DEF Quiet, WorkerSound, At
    <3>. QED
      BY <1>2, <3>1, <3>2
  <2>11. ChannelSound' /\ Typed'
    BY <1>1, <1>2, <2>2, <2>5, ChannelRests DEF Typed
  <2>. QED
    BY <2>6, <2>7, <2>8, <2>9, <2>10, <2>11
<1>. QED
  BY <1>3, <1>4 DEF ClaimCleanup

\* Who removed reports and forgets, or dies: the row learns at most what is gone.
LEMMA Forgets ==
    ASSUME DeliveryInv, NEW c \in Cleaners, clean' = [clean EXCEPT ![c] = NoClean], UNCHANGED chan, row' \in Row,
           row'.head = row.head, row'.headSend = row.headSend, row'.headSeeded = row.headSeeded,
           row'.thread = row.thread, row'.part = row.part, row'.partSend = row.partSend,
           row'.partSeeded = row.partSeeded, row'.state = row.state,
           row'.headGone => HeadIsGone, row'.threadGone => ThreadIsGone,
           row'.cleanup = row.cleanup \/ Late,
           row'.cleanup = "DONE" => ~chan.head /\ ~chan.thread /\ row.headSend # "SENDING",
           row'.lease \in {row.lease, "none"}, row'.live => row'.lease # "none",
           woken' \in BOOLEAN, worker' = worker \/ (worker' \in Works /\ Quiet')
    PROVE  DeliveryInv'
<1>. USE DEF DeliveryInv
<1>1. clean \in [Cleaners -> Cleaning] /\ NoClean \in Cleaning
  BY DEF Typed, NoClean, Cleaning
<1>2. PICK k \in Cleaning : k = NoClean
  BY <1>1
<1>3. k.at = "idle" /\ ~k.head /\ ~k.thread /\ ~k.headGone /\ ~k.threadGone
  BY <1>2 DEF NoClean
<1>4. clean' \in [Cleaners -> Cleaning] /\ clean'[c] = k /\ \A x \in Cleaners \ {c} : clean'[x] = clean[x]
  BY <1>1, <1>2
<1>5. RowSound'
  BY DEF RowSound, Posted, Unsent, InFlight
<1>6. OpenSound'
  BY <1>1, <1>3, <1>4 DEF OpenSound, Posted, Late, Cleaners
<1>7. CleanSound'
  BY <1>1, <1>3, <1>4 DEF CleanSound, HeadIsGone, ThreadIsGone, Posted, Cleaners
<1>8. DoneSound'
  BY DEF DoneSound
<1>9. WorkerSound'
  <2>1. CASE worker' = worker
    BY <2>1, WorkerRests
  <2>2. CASE Quiet'
    BY <2>2 DEF Quiet, WorkerSound, At
  <2>. QED
    BY <2>1, <2>2
<1>10. ChannelSound' /\ Typed'
  BY <1>4, ChannelRests DEF Typed
<1>. QED
  BY <1>5, <1>6, <1>7, <1>8, <1>9, <1>10

\* Done is said by the one who has the lease: what it removed is all that was sent.
LEMMA DoneIsGone ==
    ASSUME DeliveryInv, NEW c \in Cleaners, row.lease = c, clean[c].at = "ack", "DONE" \in Outcome(clean[c].failed)
    PROVE  ~chan.head /\ ~chan.thread /\ row.headSend # "SENDING"
<1>. USE DEF DeliveryInv
<1>1. ~clean[c].failed /\ row.headSend # "SENDING" /\ row \in Row
  BY DEF Outcome, Unsure, Typed
<1>2. clean[c].head = row.head /\ clean[c].thread = row.thread
  BY DEF CleanSound
<1>3. ~chan.head
  <2>1. CASE row.head
    BY <1>1, <1>2, <2>1 DEF CleanSound, HeadIsGone
  <2>2. CASE ~row.head
    <3>1. row.headSend = "PENDING"
      BY <1>1, <2>2 DEF RowSound, Row, Sends
    <3>. QED
      BY <3>1 DEF RowSound, Unsent, ChannelSound, Posted
  <2>. QED
    BY <2>1, <2>2
<1>4. ~chan.thread
  BY <1>1, <1>2 DEF CleanSound, ThreadIsGone, RowSound
<1>. QED
  BY <1>1, <1>3, <1>4

LEMMA AckCleanupKeeps ==
    ASSUME DeliveryInv, NEW c \in Cleaners, AckCleanup(c)
    PROVE  DeliveryInv'
<1>. USE DEF DeliveryInv
<1>1. /\ row \in Row /\ worker \in Works /\ clean[c] \in Cleaning /\ woken' \in BOOLEAN /\ chan' = chan
      /\ clean' = [clean EXCEPT ![c] = NoClean] /\ clean[c].at = "ack"
  BY DEF Typed, AckCleanup
<1>2. worker' = worker \/ (worker' \in Works /\ Quiet')
  <2>1. CASE c = "api"
    BY <2>1 DEF AckCleanup
  <2>2. CASE c # "api"
    <3>1. PICK place \in {"notice", "export"}, todo \in SUBSET {"notice", "cleanup"} :
            worker' = [worker EXCEPT !.at = place, !.todo = todo]
      BY <2>2 DEF AckCleanup
    <3>2. worker' \in Works /\ worker'.at = place
      BY <1>1, <3>1 DEF Works, Places
    <3>. QED
      BY <3>2 DEF Quiet
  <2>. QED
    BY <2>1, <2>2
<1>3. (row.headGone => HeadIsGone) /\ (row.threadGone => ThreadIsGone) /\ (row.live => row.lease # "none") /\ Late
  BY <1>1 DEF CleanSound, RowSound, OpenSound
<1>4. CASE UNCHANGED row
  BY <1>1, <1>2, <1>3, <1>4, Forgets DEF DoneSound
<1>5. CASE row.lease = c /\ row.live /\ \E state \in Outcome(clean[c].failed) : row' = Cleaned(c, state)
  <2>1. PICK state \in Outcome(clean[c].failed) : row' = Cleaned(c, state)
    BY <1>5
  <2>2. state \in {"RETRY_WAIT", "BLOCKED", "DONE"}
    BY <2>1 DEF Outcome
  <2>3. PICK failures \in 0..2, notice \in {"NONE", "PENDING", "SENT", "BLOCKED", "UNAVAILABLE"} :
          row' = [row EXCEPT !.headGone = row.headGone \/ clean[c].headGone,
                             !.threadGone = row.threadGone \/ clean[c].threadGone,
                             !.cleanup = state, !.due = FALSE, !.failures = failures, !.notice = notice,
                             !.lease = "none", !.live = FALSE]
    <3>. DEFINE failures == IF clean[c].failed /\ row.failures < 2 THEN row.failures + 1 ELSE row.failures
                notice == IF clean[c].failed /\ failures = 2 THEN "PENDING" ELSE row.notice
    <3>1. failures \in 0..2 /\ notice \in {"NONE", "PENDING", "SENT", "BLOCKED", "UNAVAILABLE"}
      BY <1>1 DEF Row
    <3>2. row' = [row EXCEPT !.headGone = row.headGone \/ clean[c].headGone,
                             !.threadGone = row.threadGone \/ clean[c].threadGone,
                             !.cleanup = state, !.due = FALSE, !.failures = failures, !.notice = notice,
                             !.lease = "none", !.live = FALSE]
      BY <2>1 DEF Cleaned, Released
    <3>. HIDE DEF failures, notice
    <3>. QED
      BY <3>1, <3>2
  <2>4. /\ row' \in Row /\ row'.cleanup = state /\ row'.lease = "none" /\ row'.live = FALSE /\ row'.state = row.state
        /\ row'.head = row.head /\ row'.headSend = row.headSend /\ row'.headSeeded = row.headSeeded
        /\ row'.thread = row.thread /\ row'.part = row.part /\ row'.partSend = row.partSend
        /\ row'.partSeeded = row.partSeeded
        /\ row'.headGone = (row.headGone \/ clean[c].headGone)
        /\ row'.threadGone = (row.threadGone \/ clean[c].threadGone)
    <3>1. PICK h \in BOOLEAN, t \in BOOLEAN :
            h = (row.headGone \/ clean[c].headGone) /\ t = (row.threadGone \/ clean[c].threadGone)
      OBVIOUS
    <3>2. row' = [row EXCEPT !.headGone = h, !.threadGone = t, !.cleanup = state, !.due = FALSE,
                             !.failures = failures, !.notice = notice, !.lease = "none", !.live = FALSE]
      BY <2>3, <3>1
    <3>3. /\ row' \in Row /\ row'.cleanup = state /\ row'.lease = "none" /\ row'.live = FALSE
          /\ row'.state = row.state
          /\ row'.head = row.head /\ row'.headSend = row.headSend /\ row'.headSeeded = row.headSeeded
          /\ row'.thread = row.thread /\ row'.part = row.part /\ row'.partSend = row.partSend
          /\ row'.partSeeded = row.partSeeded /\ row'.headGone = h /\ row'.threadGone = t
      <4>1. /\ h \in BOOLEAN /\ t \in BOOLEAN /\ failures \in 0..2
            /\ notice \in {"NONE", "PENDING", "SENT", "BLOCKED", "UNAVAILABLE"}
        BY <2>3, <3>1
      <4>2. PICK r \in Row : r = [row EXCEPT !.headGone = h, !.threadGone = t, !.cleanup = state]
        BY <1>1, <2>2, <4>1 DEF Row
      <4>3. /\ r.state = row.state /\ r.head = row.head /\ r.headSend = row.headSend
            /\ r.headSeeded = row.headSeeded /\ r.thread = row.thread /\ r.part = row.part
            /\ r.partSend = row.partSend /\ r.partSeeded = row.partSeeded
            /\ r.headGone = h /\ r.threadGone = t /\ r.cleanup = state
        BY <1>1, <4>2 DEF Row
      <4>4. row' = [r EXCEPT !.due = FALSE, !.failures = failures, !.notice = notice, !.lease = "none", !.live = FALSE]
        BY <1>1, <3>2, <4>2 DEF Row
      <4>5. row' \in Row
        BY <4>1, <4>4 DEF Row
      <4>. QED
        BY <4>3, <4>4, <4>5 DEF Row
    <3>. QED
      BY <3>1, <3>3
  <2>5. (row'.headGone => HeadIsGone) /\ (row'.threadGone => ThreadIsGone)
    BY <1>3, <2>4 DEF CleanSound
  <2>6. row'.cleanup = "DONE" => ~chan.head /\ ~chan.thread /\ row.headSend # "SENDING"
    BY <1>1, <1>5, <2>1, <2>4, DoneIsGone
  <2>. QED
    BY <1>1, <1>2, <1>3, <2>4, <2>5, <2>6, Forgets
<1>. QED
  BY <1>4, <1>5 DEF AckCleanup

LEMMA DeathsKeep ==
    ASSUME DeliveryInv, WorkerDies \/ ApiRestarts
    PROVE  DeliveryInv'
<1>. USE DEF DeliveryInv
<1>1. /\ row \in Row /\ row' = row /\ chan' = chan /\ woken' \in BOOLEAN
      /\ worker' = worker \/ (worker' \in Works /\ Quiet')
  BY NoWorkQuiet DEF Typed, WorkerDies, ApiRestarts, Quiet
<1>2. PICK c \in Cleaners : clean' = [clean EXCEPT ![c] = NoClean]
  BY DEF WorkerDies, ApiRestarts, Cleaners
<1>3. /\ row.headGone => HeadIsGone
      /\ row.threadGone => ThreadIsGone
      /\ row.live => row.lease # "none"
      /\ row.cleanup = "DONE" => ~chan.head /\ ~chan.thread /\ row.headSend # "SENDING"
  BY DEF CleanSound, RowSound, DoneSound
<1>. QED
  BY <1>1, <1>2, <1>3, Forgets

----------------------------------------------------------------------------
(* The specification *)

LEMMA DeliveryInit ==
    ASSUME Init
    PROVE  DeliveryInv
<1>1. Typed
  <2>1. row \in Row
    BY DEF Init, Row, Sends
  <2>2. woken \in BOOLEAN /\ worker \in Works
    BY NoWorkQuiet DEF Init
  <2>3. clean \in [Cleaners -> Cleaning]
    BY DEF Init, NoClean, Cleaning
  <2>4. chan \in Channels
    BY DEF Init, Channels
  <2>. QED
    BY <2>1, <2>2, <2>3, <2>4 DEF Typed
<1>2. ChannelSound /\ RowSound
  BY DEF Init, ChannelSound, RowSound, Posted, Unsent, InFlight
<1>3. WorkerSound
  BY NoWorkQuiet DEF Init, WorkerSound, At
<1>4. \A c \in Cleaners : clean[c] = NoClean
  BY DEF Init
<1>5. OpenSound
  BY <1>4 DEF Init, OpenSound, NoClean, Cleaners, Posted
<1>6. CleanSound /\ DoneSound
  BY <1>4 DEF Init, CleanSound, DoneSound, NoClean, Cleaners
<1>. QED
  BY <1>1, <1>2, <1>3, <1>5, <1>6 DEF DeliveryInv

LEMMA ExportKeeps ==
    ASSUME DeliveryInv, Export
    PROVE  DeliveryInv'
  BY LookKeeps, HeadKeeps, PartKeeps, ThreadKeeps, ReportsKeep, FindLateKeeps, SendsKeep,
     ReportErrorKeeps DEF Export

LEMMA CleansKeep ==
    ASSUME DeliveryInv, NEW c \in Cleaners, Cleans(c)
    PROVE  DeliveryInv'
  BY ClaimCleanupKeeps, DeleteHeadKeeps, DeleteThreadKeeps, AckCleanupKeeps DEF Cleans

LEMMA DeliveryNext ==
    ASSUME DeliveryAssumption, DeliveryInv, [Next]_vars
    PROVE  DeliveryInv'
<1>1. CASE UNCHANGED vars
  <2>1. UNCHANGED <<row, woken, worker, clean, chan>>
    BY <1>1 DEF vars
  <2>2. WorkerSound' /\ worker' \in Works
    BY <2>1, WorkerRests DEF DeliveryInv, Typed
  <2>. QED
    BY <2>1, <2>2, WorkerMoves
<1>2. CASE Worker
  <2>1. CASE Cleans("batch")
    BY <2>1, CleansKeep DEF Cleaners
  <2>. QED
    BY <1>2, <2>1, LookKeeps, NoticeKeeps, ClaimExportKeeps, ExportKeeps DEF Worker
<1>3. CASE CallFails
  BY <1>3, LookKeeps
<1>4. CASE Cleans("api")
  BY <1>4, CleansKeep DEF Cleaners
<1>5. CASE Cancel \/ OriginalExpires
  BY <1>5, DecisionsKeep
<1>6. CASE Channel
  BY <1>6, ArrivesKeeps DEF Channel
<1>7. CASE LeaseLapses \/ Due
  BY <1>7, TimeKeeps
<1>8. CASE WorkerDies \/ ApiRestarts
  BY <1>8, DeathsKeep
<1>. QED
  BY <1>1, <1>2, <1>3, <1>4, <1>5, <1>6, <1>7, <1>8 DEF Next

LEMMA InvSound ==
    ASSUME DeliveryInv
    PROVE  TypeOK /\ PostedOnce /\ DoneMeansGone /\ ReadyIsWhole
<1>. USE DEF DeliveryInv
<1>1. row \in Row /\ (row.state = "READY" => row.head /\ row.thread /\ row.headSeeded /\ row.part /\ ~Late)
  BY DEF Typed, OpenSound, Late
<1>2. TypeOK
  BY <1>1 DEF Typed, TypeOK, RowSound, Works, Cleaning, Channels
<1>3. PostedOnce
  BY DEF PostedOnce, ChannelSound
<1>4. DoneMeansGone
  BY DEF DoneMeansGone, DoneSound, ChannelSound
<1>5. ReadyIsWhole
  BY <1>1 DEF ReadyIsWhole, OpenSound, ChannelSound, RowSound
<1>. QED
  BY <1>2, <1>3, <1>4, <1>5

\* Only the removal of the thread takes it away.
LEMMA ThreadStep ==
    ASSUME DeliveryInv, [Next]_vars
    PROVE  chan.thread /\ ~chan'.thread => ~chan.head
<1>. USE DEF DeliveryInv
<1>1. chan \in Channels
  BY DEF Typed
<1>2. CASE chan'.thread = chan.thread
  BY <1>2
<1>3. CASE PostHead \/ HeadLimited \/ OpenThread \/ PostPart \/ PartLimited
  <2>1. \E flight \in SUBSET {"head", "thread", "part"} : chan' = [chan EXCEPT !.flight = flight]
    BY <1>1, <1>3 DEF PostHead, HeadLimited, OpenThread, PostPart, PartLimited, Post, Channels
  <2>. QED
    BY <1>1, <2>1 DEF Channels
<1>4. CASE Channel
  BY <1>1, <1>4 DEF Channel, Arrives, Channels
<1>5. CASE \E c \in Cleaners : DeleteHead(c)
  BY <1>1, <1>5 DEF DeleteHead, Channels
<1>6. CASE \E c \in Cleaners : DeleteThread(c)
  BY <1>6, DeleteThreadKeeps
<1>7. CASE UNCHANGED vars
  BY <1>7 DEF vars
<1>8. CASE Begin \/ ClaimNotice \/ Notice \/ ClaimExport \/ CallFails
  BY <1>8 DEF Begin, ClaimNotice, Notice, ClaimExport, CallFails, Here
<1>9. CASE Export /\ ~(PostHead \/ HeadLimited \/ OpenThread \/ PostPart \/ PartLimited)
  <2>1. CASE BeginHead \/ HeadAnswered \/ HeadRetry \/ FindHead \/ HeadSent
    BY <2>1 DEF BeginHead, HeadAnswered, HeadRetry, FindHead, HeadSent, Here
  <2>2. CASE BeginThread \/ ThreadAnswered \/ ThreadSent
    BY <2>2 DEF BeginThread, ThreadAnswered, ThreadSent, Here
  <2>3. CASE BeginPart \/ PartAnswered \/ PartRetry \/ FindPart \/ PartSent
    BY <2>3 DEF BeginPart, PartAnswered, PartRetry, FindPart, PartSent, Here
  <2>4. CASE SeedPart \/ PartSeeded \/ ClearVotes \/ SeedHead \/ HeadSeeded \/ Ready
    BY <2>4 DEF SeedPart, PartSeeded, ClearVotes, SeedHead, HeadSeeded, Ready, Here
  <2>5. CASE LateExport \/ FindLatePart \/ Resolve \/ ReportError
    BY <2>5 DEF LateExport, FindLatePart, Resolve, ReportError, Here
  <2>. QED
    BY <1>9, <2>1, <2>2, <2>3, <2>4, <2>5 DEF Export
<1>10. CASE \E c \in Cleaners : ClaimCleanup(c) \/ AckCleanup(c)
  BY <1>10 DEF ClaimCleanup, AckCleanup
<1>11. CASE Cancel \/ OriginalExpires \/ LeaseLapses \/ Due \/ WorkerDies \/ ApiRestarts
  BY <1>11 DEF Cancel, OriginalExpires, LeaseLapses, Due, WorkerDies, ApiRestarts
<1>. QED
  BY <1>3, <1>4, <1>5, <1>6, <1>7, <1>8, <1>9, <1>10, <1>11 DEF Next, Worker, Cleans, Cleaners

\* Whatever answers are lost and whenever the worker or the API dies, Discord gets the head and the part once;
\* what is recorded as removed is gone, and cannot come back; what is offered for decision is there as a whole;
\* and the thread is removed only after the head (DiscordReviewWorker, DiscordReviewRepository).
THEOREM DeliveryIsSound ==
    ASSUME DeliveryAssumption
    PROVE  Spec => DeliverySound
<1>1. Init => DeliveryInv
  BY DeliveryInit
<1>2. DeliveryInv /\ [Next]_vars => DeliveryInv'
  BY DeliveryNext
<1>3. DeliveryInv => TypeOK /\ PostedOnce /\ DoneMeansGone /\ ReadyIsWhole
  BY InvSound
<1>4. DeliveryInv /\ [Next]_vars => [chan.thread /\ ~chan'.thread => ~chan.head]_vars
  BY ThreadStep
<1>. QED
  BY <1>1, <1>2, <1>3, <1>4, PTL DEF Spec, DeliverySound, ThreadOutlivesHead

----------------------------------------------------------------------------
(* CollectorRun.  The invariant relates the place of the worker, the state    *)
(* in the spool, the one in memory, the row and the candidate.                *)

Working == RunPlaces \ {"idle", "start", "finish", "clear", "reconcile"}
Reading == Working \ {"enter"}
Fetching == {"beat", "quota", "permit"}
Closed == core.status \in {"DECIDED", "GONE"}
\* A restart of this run may still have to know what its state knows.
Kept == run.restartable /\ ~run.expired /\ ~Closed

\* What a state says of the requests that were sent, of the result and of the image.
KnowsSent(st) == st.claimed => \A k \in Kinds : sent[k] > 0 => k \in st.network
KnowsResult(st) ==
  /\ core.took # "none" /\ st.result # "none" => st.result = core.took
  /\ st.submitted => core.took # "none" /\ st.result # "none"
  /\ Refreshing => st.result = "none"
KnowsImage(st) == st.shown /\ ~st.warned => core.preview

\* The worker is where the number of its step and the row allow it to be.
PlaceSound ==
  /\ work.at \in Working \cup {"start", "finish"} => run.state \in Active
  /\ work.at = "clear" => ~run.restartable
  /\ work.at \in Working => done <= 5
  /\ work.at \in {"check", "drop"} => done >= 2
  /\ work.at \in {"fetch", "beat", "quota", "permit", "send", "got"} => done \in {2, 4}
  /\ work.at = "post" => done \in 1..4
  /\ work.at = "upload" => done = 4
  /\ work.outcome = "DONE" => work.at = "finish" /\ done = 6
  /\ work.at = "drop" => Closed

\* A run that is active or queued may be restarted; one that is completed is not.
RestartSound ==
  /\ run.state \in Active \cup {"QUEUED"} => run.restartable
  /\ run.state \in Completed => ~run.restartable

\* A step works on the state of the spool, unless the cleanup or its own clearing took it.
StateSound ==
  /\ work.at \in Reading => saved \in {mem, Empty} /\ (saved = mem \/ run.expired \/ work.at = "drop")
  /\ work.at \in Reading \ {"made"} => ~mem.terminal

\* A request that was sent is marked in every state that a claim is in, and none is sent that is marked.
OnceSound ==
  /\ \A k \in Kinds : sent[k] <= 1
  /\ done < 2 => sent["detail"] = 0
  /\ done < 4 => sent["image"] = 0
  /\ KnowsSent(saved) /\ KnowsSent(mem)
  /\ work.at = "fetch" => mem.claimed
  /\ work.at \in Fetching \/ (work.at = "post" /\ done \in {2, 4}) => mem.claimed /\ Kind \notin mem.network
  /\ work.at = "send" => mem.claimed /\ Kind \in mem.network /\ sent[Kind] = 0

\* The result the API took is the one of the row and of every state that has one; a step that
\* submits it is not passed without it.
ResultSound ==
  /\ core.took # "none" => done >= 3 /\ ~Refreshing /\ run.digest = core.took /\ core.claim = "items"
  /\ core.mine => core.claim = "items"
  /\ core.mine /\ core.took = "page" => core.status \in {"NEW", "DECIDED", "GONE"}
  /\ KnowsResult(saved) /\ KnowsResult(mem)
  /\ work.at \in {"fetch", "beat", "quota", "post", "permit", "send", "got"} /\ done \in {2, 3} => ~Refreshing
  /\ work.at = "post" /\ done = 3 => mem.result # "none" /\ run.digest = mem.result
  /\ work.at = "made" /\ done = 3 /\ ~Refreshing => mem.terminal \/ mem.submitted
  /\ done >= 4 /\ ~Refreshing /\ run.restartable /\ ~run.expired => core.took # "none" \/ saved.terminal
  /\ Kept /\ done >= 4 /\ ~Refreshing => saved.terminal \/ saved.result # "none"

\* A state that says the image was dealt with, without a warning, is of an image that is shown.
ImageSound ==
  /\ KnowsImage(saved) /\ KnowsImage(mem)
  /\ work.at = "made" /\ done = 4 => mem.terminal \/ mem.shown \/ mem.result \in {"failed", "unsafe"}
  /\ Kept /\ done >= 5 => saved.terminal \/ saved.shown \/ saved.result \in {"failed", "unsafe"}

RunInv == RunTypeOK /\ PlaceSound /\ RestartSound /\ StateSound /\ OnceSound /\ ResultSound /\ ImageSound
          /\ CompletedHasResult /\ ImageShown

\* What a step makes of the state it read is a state, and a call makes a candidate of a candidate.
LEMMA EmptyTyped == ASSUME RunAssumption PROVE Empty \in States
  BY DEF RunAssumption, Empty, States, Versions, Kinds, Results

LEMMA StateTyped ==
  ASSUME RunAssumption, NEW st \in States
  PROVE  /\ \A r \in Results : [st EXCEPT !.result = r] \in States
         /\ [st EXCEPT !.warned = TRUE, !.shown = TRUE] \in States
         /\ [st EXCEPT !.terminal = TRUE] \in States
         /\ [Empty EXCEPT !.terminal = TRUE] \in States
         /\ [st EXCEPT !.image = TRUE] \in States
         /\ \A v \in Versions : [st EXCEPT !.claimed = TRUE, !.version = v] \in States
         /\ \A v \in Versions : [st EXCEPT !.submitted = TRUE, !.version = v] \in States
         /\ \A v \in Versions : [st EXCEPT !.shown = TRUE, !.version = v] \in States
         /\ \A v \in Versions : [st EXCEPT !.version = v] \in States
         /\ [st EXCEPT !.body = IF @ = 0 THEN st.version ELSE @] \in States
         /\ \A k \in Kinds : [st EXCEPT !.quota[k] = IF @ = 0 THEN st.version ELSE @] \in States
         /\ \A k \in Kinds : [st EXCEPT !.network = @ \cup {k}] \in States
  BY EmptyTyped DEF States, Empty

LEMMA CandidateTyped ==
  ASSUME RunAssumption, NEW c \in Candidates
  PROVE /\ c.version < MaxVersion =>
             /\ c.version + 1 \in Versions
             /\ \A v \in Versions : [c EXCEPT !.version = @ + 1, !.beat = v] \in Candidates
             /\ [c EXCEPT !.status = "RUNNING", !.mine = TRUE, !.live = TRUE, !.version = @ + 1, !.claim = "items"]
                  \in Candidates
             /\ [c EXCEPT !.mine = TRUE, !.version = @ + 1, !.claim = "items"] \in Candidates
             /\ \A s \in {"NEW", "FETCH_FAILED"}, r \in Results :
                  [c EXCEPT !.status = s, !.live = FALSE, !.version = @ + 1, !.took = r] \in Candidates
             /\ [c EXCEPT !.version = @ + 1, !.preview = TRUE] \in Candidates
             /\ [c EXCEPT !.status = "RUNNING", !.mine = FALSE, !.live = TRUE, !.version = @ + 1] \in Candidates
             /\ \A s \in {"NEW", "FETCH_FAILED"} :
                  [c EXCEPT !.status = s, !.live = FALSE, !.version = @ + 1] \in Candidates
             /\ [c EXCEPT !.status = "FETCH_FAILED", !.version = @ + 1] \in Candidates
             /\ [c EXCEPT !.mine = FALSE, !.version = @ + 1] \in Candidates
             /\ [c EXCEPT !.status = "DECIDED", !.version = @ + 1] \in Candidates
             /\ [c EXCEPT !.status = "PENDING", !.mine = FALSE, !.version = @ + 1] \in Candidates
        /\ [c EXCEPT !.claim = "nothing"] \in Candidates
        /\ [c EXCEPT !.status = "GONE"] \in Candidates
        /\ [c EXCEPT !.live = FALSE] \in Candidates
<1>1. c.version < MaxVersion => c.version + 1 \in Versions
  BY DEF RunAssumption, Candidates, Versions
<1> QED
  BY <1>1 DEF Candidates

\* What a step does, by the number of those before it.
LEMMA DoCases ==
  ASSUME RunTypeOK, PlaceSound, Do
  PROVE  LET rest == UNCHANGED <<mem, saved, readable>> IN
         /\ done \in 0..5 /\ UNCHANGED <<done, file, stopping, core, permit, sent>>
         /\ \/ done \in {0, 5} /\ Save(mem) /\ GoTo("made") /\ run' = run
            \/ done = 1 /\ GoTo(IF mem.claimed THEN "made" ELSE "post") /\ rest /\ run' = run
            \/ done = 2 /\ (Refreshing \/ mem.result # "none") /\ GoTo("made") /\ rest /\ run' = run
            \/ done = 2 /\ ~Refreshing /\ mem.result = "none" /\ SourceFails /\ run' = run
            \/ done = 2 /\ ~Refreshing /\ mem.claimed /\ GoTo("fetch") /\ rest /\ run' = run
            \/ done = 3 /\ (Refreshing \/ mem.submitted) /\ GoTo("made") /\ rest /\ run' = run
            \/ done = 3 /\ mem.result = "none" /\ End("JOB_FAILED") /\ rest /\ run' = run
            \/ /\ done = 3 /\ ~Refreshing /\ ~mem.submitted /\ mem.result # "none" /\ GoTo("post") /\ run' = Digest
               /\ Save([mem EXCEPT !.body = IF @ = 0 THEN mem.version ELSE @])
            \/ done = 4 /\ End("SOURCE_NOT_ALLOWED") /\ rest /\ run' = run
            \/ /\ done = 4 /\ mem.claimed /\ rest /\ run' = run
               /\ GoTo(IF mem.result \in {"failed", "unsafe"} \/ mem.shown
                     THEN "made" ELSE IF mem.image THEN "upload" ELSE "fetch")
<1>1. done \in 0..5
  BY DEF RunTypeOK, PlaceSound, Do, WorkerAt, Working, RunPlaces
<1>2. CASE done \in {0, 5}
  <2>1. CASE done = 0
    BY <2>1 DEF Do, api
  <2>2. CASE done = 5
    BY <2>2 DEF Do, api
  <2> QED
    BY <1>2, <2>1, <2>2
<1>3. CASE done = 1
  BY <1>3 DEF Do, GoTo, api
<1>4. CASE done = 2
  BY <1>4 DEF Do, GoTo, SourceFails, api
<1>5. CASE done = 3
  BY <1>5 DEF Do, GoTo, End, api
<1>6. CASE done = 4
  BY <1>6 DEF Do, GoTo, End, api
<1> QED
  BY <1>1, <1>2, <1>3, <1>4, <1>5, <1>6

\* Every step keeps the types.
LEMMA RunTyped ==
  ASSUME NEW r \in Runs, NEW s \in {"QUEUED", "RUNNING", "STOP_REQUESTED", "STOPPED", "FAILED", "RECONCILE_REQUIRED",
                                    "COMPLETED", "COMPLETED_WITH_WARNINGS"},
         NEW b \in BOOLEAN, NEW d \in Results
  PROVE  /\ [r EXCEPT !.state = s] \in Runs
         /\ [r EXCEPT !.state = s, !.restartable = b] \in Runs
         /\ [r EXCEPT !.expired = TRUE] \in Runs
         /\ [r EXCEPT !.digest = d] \in Runs
         /\ [r EXCEPT !.candidate = TRUE] \in Runs
  BY DEF Runs, Active, Completed

LEMMA TypesKept == ASSUME RunAssumption, RunInv, RunNext PROVE RunTypeOK'
<1> USE DEF RunTypeOK, spool, api
<1>0. /\ RunTypeOK /\ PlaceSound
      /\ core.version \in Versions /\ mem.version \in Versions /\ mem.result \in Results
      /\ run.state \in {"QUEUED", "RUNNING", "STOP_REQUESTED", "STOPPED", "FAILED", "RECONCILE_REQUIRED",
                        "COMPLETED", "COMPLETED_WITH_WARNINGS"}
  BY DEF RunInv, Runs, Candidates, States, Active, Completed
<1>a. ASSUME NEW p \in RunPlaces PROVE GoTo(p) => work' \in [at : RunPlaces, outcome : Outcomes]
  BY DEF GoTo, Outcomes
<1>b. ASSUME NEW o \in Outcomes PROVE End(o) => work' \in [at : RunPlaces, outcome : Outcomes]
  BY DEF End, RunPlaces
<1>c. Idle \in [at : RunPlaces, outcome : Outcomes]
  BY DEF Idle, RunPlaces, Outcomes
<1>d. EndHalted => work' \in [at : RunPlaces, outcome : Outcomes]
  BY DEF EndHalted, End, RunPlaces, Outcomes
<1>e. Kind \in Kinds
  BY DEF Kind, Kinds
<1>f. /\ \A r \in Results : [mem EXCEPT !.result = r] \in States
      /\ [mem EXCEPT !.warned = TRUE, !.shown = TRUE] \in States
      /\ [mem EXCEPT !.terminal = TRUE] \in States
      /\ [Empty EXCEPT !.terminal = TRUE] \in States
      /\ [mem EXCEPT !.image = TRUE] \in States
      /\ \A v \in Versions : [mem EXCEPT !.claimed = TRUE, !.version = v] \in States
      /\ \A v \in Versions : [mem EXCEPT !.submitted = TRUE, !.version = v] \in States
      /\ \A v \in Versions : [mem EXCEPT !.shown = TRUE, !.version = v] \in States
      /\ \A v \in Versions : [mem EXCEPT !.version = v] \in States
      /\ [mem EXCEPT !.body = IF @ = 0 THEN mem.version ELSE @] \in States
      /\ \A k \in Kinds : [mem EXCEPT !.quota[k] = IF @ = 0 THEN mem.version ELSE @] \in States
      /\ \A k \in Kinds : [mem EXCEPT !.network = @ \cup {k}] \in States
  BY <1>0, StateTyped
<1>g. /\ core.version < MaxVersion =>
           /\ core.version + 1 \in Versions
           /\ \A v \in Versions : [core EXCEPT !.version = @ + 1, !.beat = v] \in Candidates
           /\ [core EXCEPT !.status = "RUNNING", !.mine = TRUE, !.live = TRUE, !.version = @ + 1, !.claim = "items"]
                \in Candidates
           /\ [core EXCEPT !.mine = TRUE, !.version = @ + 1, !.claim = "items"] \in Candidates
           /\ \A s \in {"NEW", "FETCH_FAILED"}, r \in Results :
                [core EXCEPT !.status = s, !.live = FALSE, !.version = @ + 1, !.took = r] \in Candidates
           /\ [core EXCEPT !.version = @ + 1, !.preview = TRUE] \in Candidates
           /\ [core EXCEPT !.status = "RUNNING", !.mine = FALSE, !.live = TRUE, !.version = @ + 1] \in Candidates
           /\ \A s \in {"NEW", "FETCH_FAILED"} :
                [core EXCEPT !.status = s, !.live = FALSE, !.version = @ + 1] \in Candidates
           /\ [core EXCEPT !.status = "FETCH_FAILED", !.version = @ + 1] \in Candidates
           /\ [core EXCEPT !.mine = FALSE, !.version = @ + 1] \in Candidates
           /\ [core EXCEPT !.status = "DECIDED", !.version = @ + 1] \in Candidates
           /\ [core EXCEPT !.status = "PENDING", !.mine = FALSE, !.version = @ + 1] \in Candidates
      /\ [core EXCEPT !.claim = "nothing"] \in Candidates
      /\ [core EXCEPT !.status = "GONE"] \in Candidates
      /\ [core EXCEPT !.live = FALSE] \in Candidates
  BY <1>0, CandidateTyped
<1>1. CASE Dispatch
  BY <1>0, <1>1, <1>a, RunTyped DEF Dispatch, RunPlaces
<1>2. CASE Launch
  BY <1>0, <1>2, <1>a, <1>b DEF Launch, RunPlaces, Outcomes
<1>3. CASE Enter
  BY <1>0, <1>3, <1>a, <1>b, <1>d DEF Enter, RunPlaces, Outcomes
<1>4. CASE Check
  BY <1>0, <1>4, <1>a, <1>b DEF Check, Unreached, Refused, Missing, RunPlaces, Outcomes
<1>5. CASE Drop
  BY <1>0, <1>5, <1>a, EmptyTyped, <1>f DEF Drop, Clear, Save, RunPlaces, Results, Kinds
<1>6. CASE Do
  <2>1. work' \in [at : RunPlaces, outcome : Outcomes]
    BY <1>0, <1>6, <1>a, <1>b, DoCases DEF SourceFails, RunPlaces, Outcomes
  <2>2. mem' \in States /\ saved' \in States /\ readable' \in BOOLEAN
    BY <1>0, <1>6, <1>f, DoCases DEF Save, SourceFails, Results
  <2>3. run' \in Runs
    <3>1. Digest \in Runs
      BY <1>0, RunTyped DEF Digest
    <3> QED
      BY <1>0, <1>6, <3>1, DoCases
  <2> QED
    BY <1>0, <1>6, <2>1, <2>2, <2>3 DEF Do
<1>7. CASE Fetch
  BY <1>0, <1>7, <1>a, <1>b, <1>d DEF Fetch, RunPlaces, Outcomes
<1>8. CASE Beat
  <2>1. core' \in Candidates
    BY <1>0, <1>8, <1>g DEF Beat, Unreached, Refused, CanChange
  <2>2. work' \in [at : RunPlaces, outcome : Outcomes]
    BY <1>0, <1>8, <1>a, <1>b DEF Beat, Unreached, Refused, Answered, Stale, Missing, RunPlaces, Outcomes
  <2>3. core'.version \in Versions
    BY <2>1 DEF Candidates
  <2>4. mem' \in States /\ saved' \in States /\ readable' \in BOOLEAN
    BY <1>0, <1>8, <1>f, <2>3 DEF Beat, Answered, Save
  <2> QED
    BY <1>0, <1>8, <2>1, <2>2, <2>4 DEF Beat, Unreached, Refused
<1>9. CASE Quota
  BY <1>0, <1>9, <1>a, <1>e, <1>f DEF Quota, Save, RunPlaces
<1>10. CASE Reserve
  BY <1>0, <1>10, <1>a, <1>b, <1>e DEF Reserve, Unreached, Refused, Missing, RunPlaces, Outcomes
<1>11. CASE Permitted
  BY <1>0, <1>11, <1>a, <1>b, <1>d, <1>e, <1>f DEF Permitted, Mark, Save, RunPlaces, Outcomes, Results
<1>12. CASE Send
  BY <1>0, <1>12, <1>a, <1>e DEF Send, RunPlaces
<1>13. CASE Response
  BY <1>0, <1>13, <1>a, <1>e, <1>f DEF Response, SourceFails, Save, Fetched, RunPlaces, Results
<1>14. CASE Claim
  <2>1. core' \in Candidates
    BY <1>0, <1>14, <1>g DEF Claim, Unreached, Refused, CanChange
  <2>2. work' \in [at : RunPlaces, outcome : Outcomes]
    BY <1>0, <1>14, <1>a, <1>b DEF Claim, Unreached, Refused, Answered, RunPlaces, Outcomes
  <2>3. core'.version \in Versions
    BY <2>1 DEF Candidates
  <2>4. mem' \in States /\ saved' \in States /\ readable' \in BOOLEAN
    BY <1>0, <1>14, <2>3, <1>f DEF Claim, Answered, Save, ClaimAnswer, NoItems
  <2> QED
    BY <1>0, <1>14, <2>1, <2>2, <2>4, RunTyped DEF Claim, Unreached, Refused
<1>15. CASE Submit
  <2>1. core' \in Candidates
    <3>1. (IF mem.result = "page" THEN "NEW" ELSE "FETCH_FAILED") \in {"NEW", "FETCH_FAILED"}
      OBVIOUS
    <3>2. CanChange => [core EXCEPT !.status = IF mem.result = "page" THEN "NEW" ELSE "FETCH_FAILED",
                                    !.live = FALSE, !.version = @ + 1, !.took = mem.result] \in Candidates
      BY <1>0, <1>g, <3>1 DEF CanChange
    <3> QED
      BY <1>0, <1>15, <3>2 DEF Submit, Unreached, Refused
  <2>2. work' \in [at : RunPlaces, outcome : Outcomes]
    BY <1>0, <1>15, <1>a, <1>b DEF Submit, Unreached, Refused, Answered, Stale, Missing, RunPlaces, Outcomes
  <2>3. core'.version \in Versions
    BY <2>1 DEF Candidates
  <2>4. mem' \in States /\ saved' \in States /\ readable' \in BOOLEAN
    BY <1>0, <1>15, <2>3, <1>f DEF Submit, Answered, Save, ResultAnswer
  <2> QED
    BY <1>0, <1>15, <2>1, <2>2, <2>4, RunTyped DEF Submit, Unreached, Refused
<1>16. CASE Upload
  <2>1. core' \in Candidates
    BY <1>0, <1>16, <1>g DEF Upload, Unreached, Refused, CanChange
  <2>2. work' \in [at : RunPlaces, outcome : Outcomes]
    BY <1>0, <1>16, <1>a, <1>b, <1>d
       DEF Upload, SourceFails, Unreached, Refused, Answered, Stale, Missing, RunPlaces, Outcomes
  <2>3. core'.version \in Versions
    BY <2>1 DEF Candidates
  <2>4. mem' \in States /\ saved' \in States /\ readable' \in BOOLEAN
    BY <1>0, <1>16, <2>3, <1>f DEF Upload, SourceFails, Answered, Save, PreviewAnswer, Results
  <2> QED
    BY <1>0, <1>16, <2>1, <2>2, <2>4 DEF Upload, Unreached, Refused
<1>17. CASE StepEnds
  BY <1>0, <1>17, <1>a, <1>b, EmptyTyped DEF StepEnds, WorkerAt, PlaceSound, Working, RunPlaces, Outcomes
<1>18. CASE Finish
  BY <1>0, <1>18, <1>a, <1>c, EmptyTyped, RunTyped DEF Finish, FinishAs, DoneState, FailureState, RunPlaces
<1>19. CASE FinalClear
  BY <1>0, <1>19, <1>c, EmptyTyped DEF FinalClear, Clear
<1>20. CASE Reconcile
  BY <1>0, <1>20, <1>a, <1>c, RunTyped DEF Reconcile, FinishAs, Verdict, RunPlaces
<1>21. CASE Starts
  BY <1>0, <1>21 DEF Starts
<1>22. CASE Stop
  BY <1>0, <1>22, RunTyped DEF Stop
<1>23. CASE Resume
  BY <1>0, <1>23, RunTyped DEF Resume
<1>24. CASE AskReconcile
  BY <1>0, <1>24, <1>a DEF AskReconcile, RunPlaces
<1>25. CASE Cleanup
  BY <1>0, <1>25, EmptyTyped, RunTyped DEF Cleanup
<1>26. CASE RunExpires
  BY <1>0, <1>26, RunTyped DEF RunExpires
<1>27. CASE ImageAges
  BY <1>0, <1>27 DEF ImageAges
<1>28. CASE PermitElapses
  BY <1>0, <1>28 DEF PermitElapses
<1>29. CASE CandidateLapses
  BY <1>0, <1>29, <1>g DEF CandidateLapses
<1>30. CASE Others
  <2>1. core' \in Candidates
    BY <1>0, <1>30, <1>g DEF Others, CanChange
  <2> QED
    BY <1>0, <1>30, <2>1 DEF Others
<1>31. CASE Breaks
  BY <1>0, <1>31, <1>b DEF Breaks, Outcomes
<1>32. CASE Crash
  BY <1>0, <1>32, <1>c, EmptyTyped DEF Crash
<1>33. CASE Shutdown
  BY <1>0, <1>33 DEF Shutdown
<1> QED
  BY <1>1, <1>2, <1>3, <1>4, <1>5, <1>6, <1>7, <1>8, <1>9, <1>10, <1>11, <1>12, <1>13, <1>14, <1>15,
     <1>16, <1>17,
     <1>18, <1>19, <1>20, <1>21, <1>22, <1>23, <1>24, <1>25, <1>26, <1>27, <1>28, <1>29, <1>30, <1>31, <1>32, <1>33
  DEF RunNext, Dispatcher, Step, Operator, Time, RunFaults

\* How the worker and the candidate come out of a call of the API.
StateStays == UNCHANGED <<mem, saved, readable>>
Stops == work'.at = "finish" /\ work'.outcome # "DONE" /\ StateStays
Saves(st, place) == mem' = st /\ saved' = st /\ work'.at = place /\ work'.outcome = "none"
\* An answer that does not touch what the invariant reads of the candidate.
SameCandidate ==
  core'.status = core.status /\ core'.mine = core.mine /\ core'.took = core.took /\ core'.claim = core.claim

\* A worker that does not get an answer ends its job with the state as it was.
LEMMA EndStops == ASSUME NEW o, o # "DONE", End(o), StateStays PROVE Stops
  BY DEF End, Stops

LEMMA RefusedStops == ASSUME NEW o, o # "DONE", Refused(o), StateStays PROVE Stops
  BY EndStops DEF Refused

LEMMA UnreachedStops == ASSUME Unreached, StateStays PROVE Stops
  BY EndStops DEF Unreached

LEMMA AnsweredGoes ==
  ASSUME NEW st, NEW p, Answered(st, p) PROVE Saves(st, p) \/ Stops
  BY EndStops DEF Answered, Save, GoTo, Saves, StateStays

LEMMA StaleIsNotDone == Stale # "DONE" /\ Missing # "DONE"
  BY DEF Stale, Missing

\* What the calls of the API leave behind.
LEMMA BeatCases ==
  ASSUME RunTypeOK, Beat
  PROVE  /\ UNCHANGED <<run, done, file, stopping, sent>> /\ SameCandidate /\ core'.preview = core.preview
         /\ WorkerAt("beat")
         /\ Stops \/ Saves([mem EXCEPT !.version = core'.version], "quota")
<1>1. WorkerAt("beat") /\ UNCHANGED <<run, done, file, stopping, sent>>
  BY DEF Beat
<1>2. core' = core \/ core' = [core EXCEPT !.version = @ + 1, !.beat = mem.version]
  BY DEF Beat, Unreached, Refused, api
<1>3. SameCandidate /\ core'.preview = core.preview
  BY <1>2 DEF SameCandidate, RunTypeOK, Candidates
<1>4. Stops \/ Saves([mem EXCEPT !.version = core'.version], "quota")
  <2>1. core' = core => [mem EXCEPT !.version = core.version] = [mem EXCEPT !.version = core'.version]
    OBVIOUS
  <2> QED
    BY <2>1, UnreachedStops, RefusedStops, AnsweredGoes, StaleIsNotDone DEF Beat, StateStays, api
<1> QED
  BY <1>1, <1>3, <1>4

LEMMA ClaimCases ==
  ASSUME RunTypeOK, Claim
  PROVE  /\ UNCHANGED <<done, file, stopping, sent>> /\ WorkerAt("post") /\ done = 1
         /\ core'.took = core.took /\ core'.preview = core.preview
         /\ run' \in {run, [run EXCEPT !.candidate = TRUE]}
         /\ \/ SameCandidate
            \/ core.claim = "none" /\ core'.claim = "items" /\ core'.mine /\ core'.status \in {"RUNNING", core.status}
            \/ core.claim = "none" /\ core'.claim = "nothing" /\ core'.mine = core.mine /\ core'.status = core.status
         /\ Stops \/ Saves(ClaimAnswer, "made") \/ Saves(NoItems, "made")
<1>1. /\ WorkerAt("post")
      /\ done = 1
      /\ UNCHANGED <<done, file, stopping, sent>>
      /\ run' \in {run, [run EXCEPT !.candidate = TRUE]}
  BY DEF Claim
<1>2. \/ core' = core
      \/ core.claim = "none" /\ core' = [core EXCEPT !.claim = "nothing"]
      \/ core.claim = "none" /\ core' = [core EXCEPT !.mine = TRUE, !.version = @ + 1, !.claim = "items"]
      \/ /\ core.claim = "none"
         /\ core' = [core EXCEPT !.status = "RUNNING", !.mine = TRUE, !.live = TRUE, !.version = @ + 1,
               !.claim = "items"]
  BY DEF Claim, Unreached, Refused, api
<1>3. core'.took = core.took /\ core'.preview = core.preview
  BY <1>2 DEF RunTypeOK, Candidates
<1>4. \/ SameCandidate
      \/ core.claim = "none" /\ core'.claim = "items" /\ core'.mine /\ core'.status \in {"RUNNING", core.status}
      \/ core.claim = "none" /\ core'.claim = "nothing" /\ core'.mine = core.mine /\ core'.status = core.status
  BY <1>2 DEF RunTypeOK, Candidates, SameCandidate
<1>5. Stops \/ Saves(ClaimAnswer, "made") \/ Saves(NoItems, "made")
  BY UnreachedStops, RefusedStops, AnsweredGoes DEF Claim, StateStays
<1> QED
  BY <1>1, <1>3, <1>4, <1>5

LEMMA SubmitCases ==
  ASSUME RunTypeOK, Submit
  PROVE  /\ UNCHANGED <<run, done, file, stopping, sent>> /\ WorkerAt("post") /\ done = 3
         /\ core'.claim = core.claim /\ core'.mine = core.mine /\ core'.preview = core.preview
         /\ \/ core'.took = core.took /\ core'.status = core.status
            \/ /\ core.took = "none" /\ core'.took = mem.result /\ core.mine
               /\ core'.status = IF mem.result = "page" THEN "NEW" ELSE "FETCH_FAILED"
         /\ Stops \/ (Saves(ResultAnswer, "made") /\ (core.took # "none" \/ core'.took = mem.result))
<1> DEFINE Taken == [core EXCEPT !.status = IF mem.result = "page" THEN "NEW" ELSE "FETCH_FAILED",
                                 !.live = FALSE, !.version = @ + 1, !.took = mem.result]
<1>1. WorkerAt("post") /\ done = 3 /\ UNCHANGED <<run, done, file, stopping, sent>>
  BY DEF Submit
<1>2. core' = core \/ (core.took = "none" /\ Stale = "none" /\ core' = Taken)
  BY DEF Submit, Unreached, Refused, api
<1>3. core' = Taken => /\ core'.took = mem.result /\ core'.claim = core.claim /\ core'.mine = core.mine
                       /\ core'.preview = core.preview
                       /\ core'.status = IF mem.result = "page" THEN "NEW" ELSE "FETCH_FAILED"
  BY DEF RunTypeOK, Candidates
<1>4. Stale = "none" => core.mine
  BY DEF Stale, Missing
<1>5. Stops \/ (Saves(ResultAnswer, "made") /\ (core.took # "none" \/ core' = Taken))
  BY UnreachedStops, RefusedStops, AnsweredGoes, StaleIsNotDone DEF Submit, StateStays
<1>6. core'.claim = core.claim /\ core'.mine = core.mine /\ core'.preview = core.preview
  BY <1>2, <1>3
<1>7. \/ core'.took = core.took /\ core'.status = core.status
      \/ /\ core.took = "none" /\ core'.took = mem.result /\ core.mine
         /\ core'.status = IF mem.result = "page" THEN "NEW" ELSE "FETCH_FAILED"
  BY <1>2, <1>3, <1>4
<1>8. Stops \/ (Saves(ResultAnswer, "made") /\ (core.took # "none" \/ core'.took = mem.result))
  BY <1>3, <1>5
<1> QED
  BY <1>1, <1>6, <1>7, <1>8

LEMMA UploadCases ==
  ASSUME RunTypeOK, PlaceSound, Upload
  PROVE  /\ UNCHANGED <<run, done, stopping, sent>> /\ WorkerAt("upload") /\ done = 4
         /\ SameCandidate /\ (core.preview => core'.preview)
         /\ \/ Stops
            \/ Saves(PreviewAnswer, "made") /\ core'.preview
            \/ Saves([mem EXCEPT !.warned = TRUE, !.shown = TRUE], "made")
<1>1. WorkerAt("upload") /\ done = 4 /\ UNCHANGED <<run, done, stopping, sent>>
  BY DEF Upload, WorkerAt, PlaceSound
<1>2. core' = core \/ core' = [core EXCEPT !.version = @ + 1, !.preview = TRUE]
  BY DEF Upload, Unreached, Refused, api
<1>3. SameCandidate /\ (core.preview => core'.preview)
  BY <1>2 DEF SameCandidate, RunTypeOK, Candidates
<1>4. core' = [core EXCEPT !.version = @ + 1, !.preview = TRUE] => core'.preview
  BY DEF RunTypeOK, Candidates
<1>5. EndHalted /\ StateStays => Stops
  BY EndStops DEF EndHalted
<1>6. done = 4 /\ SourceFails => Saves([mem EXCEPT !.warned = TRUE, !.shown = TRUE], "made")
  BY DEF SourceFails, Save, GoTo, Saves
<1>7. \/ Stops
      \/ Saves(PreviewAnswer, "made") /\ core'.preview
      \/ Saves([mem EXCEPT !.warned = TRUE, !.shown = TRUE], "made")
  BY <1>1, <1>4, <1>5, <1>6, EndStops, UnreachedStops, RefusedStops, AnsweredGoes, StaleIsNotDone
     DEF Upload, StateStays, api, spool
<1> QED
  BY <1>1, <1>3, <1>7

LEMMA ResponseCases ==
  ASSUME PlaceSound, Response
  PROVE  /\ UNCHANGED <<run, done, stopping, core, permit, sent>> /\ WorkerAt("got")
         /\ \/ done = 2 /\ Saves([mem EXCEPT !.result = "failed"], "made")
            \/ done = 2 /\ Saves([mem EXCEPT !.result = "page"], "made")
            \/ done = 4 /\ Saves([mem EXCEPT !.warned = TRUE, !.shown = TRUE], "made")
            \/ done = 4 /\ Saves([mem EXCEPT !.image = TRUE], "upload")
<1>1. WorkerAt("got") /\ UNCHANGED <<run, done, stopping, core, permit, sent>>
  BY DEF Response, api
<1>2. done \in {2, 4}
  BY <1>1 DEF WorkerAt, PlaceSound
<1>3. SourceFails => IF done = 2 THEN Saves([mem EXCEPT !.result = "failed"], "made")
                     ELSE Saves([mem EXCEPT !.warned = TRUE, !.shown = TRUE], "made")
  BY DEF SourceFails, Save, GoTo, Saves
<1>4. \A st : Save(st) => (GoTo("made") => Saves(st, "made")) /\ (GoTo("upload") => Saves(st, "upload"))
  BY DEF Save, GoTo, Saves
<1> QED
  BY <1>1, <1>2, <1>3, <1>4 DEF Response, Fetched

\* A step that is passed without a change of the state.
Passes(place) == StateStays /\ work'.at = place /\ work'.outcome = "none"
LEMMA DoMoves ==
  ASSUME RunTypeOK, PlaceSound, Do
  PROVE  /\ done \in 0..5 /\ WorkerAt("do") /\ UNCHANGED <<done, file, stopping, core, permit, sent>>
         /\ \/ run' = run
            \/ /\ done = 3 /\ ~Refreshing /\ ~mem.submitted /\ mem.result # "none" /\ run' = Digest
               /\ Saves([mem EXCEPT !.body = IF @ = 0 THEN mem.version ELSE @], "post")
         /\ \/ Stops
            \/ done \in {0, 5} /\ Saves(mem, "made")
            \/ done = 1 /\ Passes(IF mem.claimed THEN "made" ELSE "post")
            \/ done = 2 /\ (Refreshing \/ mem.result # "none") /\ Passes("made")
            \/ done = 2 /\ ~Refreshing /\ mem.result = "none" /\ Saves([mem EXCEPT !.result = "failed"], "made")
            \/ done = 2 /\ ~Refreshing /\ mem.claimed /\ Passes("fetch")
            \/ done = 3 /\ (Refreshing \/ mem.submitted) /\ Passes("made")
            \/ /\ done = 3 /\ ~Refreshing /\ ~mem.submitted /\ mem.result # "none" /\ run' = Digest
               /\ Saves([mem EXCEPT !.body = IF @ = 0 THEN mem.version ELSE @], "post")
            \/ done = 4 /\ (mem.result \in {"failed", "unsafe"} \/ mem.shown) /\ Passes("made")
            \/ done = 4 /\ mem.claimed /\ Passes("upload")
            \/ done = 4 /\ mem.claimed /\ Passes("fetch")
<1>1. \A st : Save(st) => (GoTo("made") => Saves(st, "made")) /\ (GoTo("post") => Saves(st, "post"))
  BY DEF Save, GoTo, Saves
<1>2. StateStays => \A p : GoTo(p) => Passes(p)
  BY DEF GoTo, Passes
<1>3. done = 2 /\ SourceFails => Saves([mem EXCEPT !.result = "failed"], "made")
  BY DEF SourceFails, Save, GoTo, Saves
<1> QED
  BY <1>1, <1>2, <1>3, DoCases, EndStops DEF Do, StateStays

LEMMA DropCases ==
  ASSUME RunTypeOK, PlaceSound, Drop
  PROVE  /\ WorkerAt("drop") /\ UNCHANGED <<run, done, stopping, core, permit, sent>>
         /\ \/ saved' \in {saved, Empty} /\ mem' = mem /\ work' = work
            \/ Saves([Empty EXCEPT !.terminal = TRUE], "made")
  BY DEF Drop, Clear, Save, GoTo, Saves, api

\* How a run ends.
Settles(states, place) ==
  /\ run'.state \in states /\ run'.expired = run.expired /\ run'.digest = run.digest
  /\ work'.at = place /\ work'.outcome = "none"
  /\ UNCHANGED <<done, saved, readable, file, stopping, core, permit, sent>>

\* What the end of a run, a reconciliation and the others leave behind.
LEMMA FinishAsSettles ==
  ASSUME RunTypeOK, NEW s, NEW b, NEW p, FinishAs(s, b, p),
         UNCHANGED <<done, saved, readable, file, stopping, core, permit, sent>>
  PROVE  Settles({s}, p) /\ run'.restartable = b
  BY DEF FinishAs, Settles, Idle, GoTo, RunTypeOK, Runs

LEMMA FinishCases ==
  ASSUME RunTypeOK, Finish
  PROVE  /\ WorkerAt("finish") /\ mem' = Empty
         /\ \/ /\ Settles({DoneState}, "clear") /\ ~run'.restartable /\ work.outcome = "DONE" /\ readable
            \/ Settles({"FAILED", "STOPPED", "RECONCILE_REQUIRED"}, "idle")
            \/ Settles({"STOPPED"}, "clear") /\ ~run'.restartable
  BY FinishAsSettles DEF Finish, FailureState, spool, api, Settles

LEMMA ReconcileCases ==
  ASSUME RunTypeOK, Reconcile
  PROVE  /\ WorkerAt("reconcile") /\ mem' = mem /\ ~run'.restartable
         /\ Settles({Verdict}, "clear") \/ Settles({"RECONCILE_REQUIRED"}, "clear")
  BY FinishAsSettles DEF Reconcile, spool, api

LEMMA OthersCases ==
  ASSUME RunTypeOK, Others
  PROVE  /\ UNCHANGED <<run, done, saved, readable, file, work, mem, stopping, permit, sent>>
         /\ core'.took = core.took /\ core'.preview = core.preview /\ core'.claim = core.claim
         /\ core'.mine => core.mine
         /\ core'.status \notin {"DECIDED", "GONE"} => core.status \notin {"DECIDED", "GONE"}
         /\ core'.mine /\ core.status \in {"NEW", "DECIDED", "GONE"} => core'.status \in {"NEW", "DECIDED", "GONE"}
<1>1. UNCHANGED <<run, done, saved, readable, file, work, mem, stopping, permit, sent>>
  BY DEF Others, spool
<1> QED
  BY <1>1 DEF Others, RunTypeOK, Candidates

\* What changes nothing that the invariant reads, and what changes neither row nor candidate.
AtRest == Starts \/ Shutdown \/ ImageAges \/ PermitElapses
Unrecorded ==
  Launch \/ Enter \/ Check \/ Drop \/ Fetch \/ Quota \/ Reserve \/ Permitted \/ Send \/ Response \/ StepEnds
  \/ FinalClear \/ AskReconcile \/ Breaks \/ Crash

LEMMA Rests == ASSUME AtRest PROVE UNCHANGED <<run, done, saved, work, mem, core, sent>>
<1>1. CASE Starts \/ Shutdown
  BY <1>1 DEF Starts, Shutdown, spool, api
<1>2. CASE ImageAges
  BY <1>2 DEF ImageAges, api
<1>3. CASE PermitElapses
  BY <1>3 DEF PermitElapses, spool
<1> QED
  BY <1>1, <1>2, <1>3 DEF AtRest

LEMMA RowStays == ASSUME Unrecorded PROVE UNCHANGED <<run, core>>
<1>1. CASE Launch \/ Enter \/ StepEnds \/ FinalClear \/ AskReconcile
  BY <1>1 DEF Launch, Enter, StepEnds, FinalClear, AskReconcile, api
<1>2. CASE Check
  BY <1>2 DEF Check, Unreached, Refused, api
<1>3. CASE Drop \/ Fetch \/ Quota
  BY <1>3 DEF Drop, Fetch, Quota, api
<1>4. CASE Reserve
  BY <1>4 DEF Reserve, Unreached, Refused
<1>5. CASE Permitted \/ Send \/ Response
  BY <1>5 DEF Permitted, Send, Response, api
<1>6. CASE Breaks \/ Crash
  BY <1>6 DEF Breaks, Crash, api
<1> QED
  BY <1>1, <1>2, <1>3, <1>4, <1>5, <1>6 DEF Unrecorded

LEMMA RestKeeps ==
  ASSUME RunInv, UNCHANGED <<run, done, saved, work, mem, core, sent>>
  PROVE  /\ PlaceSound' /\ RestartSound' /\ StateSound' /\ OnceSound' /\ ResultSound' /\ ImageSound'
         /\ CompletedHasResult' /\ ImageShown'
<1> USE DEF RunInv
<1>1. PlaceSound' /\ RestartSound' /\ StateSound'
  BY DEF PlaceSound, RestartSound, StateSound, Closed
<1>2. OnceSound'
  BY DEF OnceSound, KnowsSent, Kind
<1>3. ResultSound' /\ ImageSound'
  BY DEF ResultSound, ImageSound, KnowsResult, KnowsImage, Kept, Closed
<1>4. CompletedHasResult' /\ ImageShown'
  BY DEF CompletedHasResult, ImageShown
<1> QED
  BY <1>1, <1>2, <1>3, <1>4

\* What the place of the worker says of the run.
LEMMA PlaceKept == ASSUME RunAssumption, RunInv, RunNext PROVE PlaceSound'
<1>1. CASE AtRest
  BY <1>1, RestKeeps, Rests
<1>2. CASE Dispatch \/ Launch \/ Enter
  BY <1>2 DEF RunInv, Dispatch, PlaceSound, WorkerAt, Active, GoTo, Working, RunTypeOK, Runs, Launch, End,
     Enter, EndHalted
<1>3. CASE Check \/ Drop
  BY <1>3 DEF RunInv, Check, PlaceSound, WorkerAt, Unreached, Refused, Missing, GoTo, api, Working,
     Closed, End, RunPlaces, Drop
<1>4. CASE Do
  BY <1>4, DoMoves DEF RunInv, PlaceSound, WorkerAt, Saves, Passes, Stops, Digest, RunTypeOK, Runs, Working
<1>5. CASE Fetch \/ Quota \/ Reserve \/ Permitted \/ Send
  BY <1>5 DEF RunInv, Fetch, PlaceSound, WorkerAt, EndHalted, End, GoTo, Working, RunPlaces, Quota,
     Reserve, Unreached, Refused, Missing, Permitted, Send
<1>6. CASE Response
  BY <1>6 DEF RunInv, Response, PlaceSound, WorkerAt, SourceFails, GoTo, Working, RunPlaces
<1>7. CASE Beat
  BY <1>7 DEF RunInv, Beat, PlaceSound, WorkerAt, Unreached, Refused, Stale, Answered, Working, End,
     Missing, GoTo, RunPlaces
<1>8. CASE Claim
  BY <1>8 DEF RunInv, Claim, PlaceSound, WorkerAt, Unreached, Answered, Refused, Working, End, GoTo,
     RunPlaces
<1>9. CASE Submit \/ Upload
  BY <1>9 DEF RunInv, Submit, PlaceSound, WorkerAt, Unreached, Refused, Stale, Answered, Working, End,
     Missing, GoTo, RunPlaces, Upload, EndHalted, SourceFails
<1>10. CASE StepEnds
  BY <1>10 DEF RunInv, StepEnds, PlaceSound, WorkerAt, End, GoTo, Working, RunTypeOK
<1>11. CASE Finish
  BY <1>11, FinishCases DEF RunInv, PlaceSound, Settles, Working
<1>12. CASE FinalClear
  BY <1>12 DEF RunInv, FinalClear, PlaceSound, Idle, api, Working, Closed
<1>13. CASE Reconcile
  BY <1>13, ReconcileCases DEF RunInv, PlaceSound, Settles, Working
<1>14. CASE Stop
  BY <1>14 DEF RunInv, Stop, PlaceSound, api, Active, Closed
<1>15. CASE Resume
  BY <1>15 DEF RunInv, Resume, PlaceSound, Working, Active, RunPlaces
<1>16. CASE AskReconcile
  BY <1>16 DEF RunInv, AskReconcile, PlaceSound, GoTo, Working
<1>17. CASE Cleanup
  BY <1>17 DEF RunInv, Cleanup, PlaceSound, api, Closed
<1>18. CASE RunExpires
  BY <1>18 DEF RunInv, RunExpires, PlaceSound, api, Closed
<1>19. CASE CandidateLapses
  BY <1>19 DEF RunInv, CandidateLapses, PlaceSound, Closed
<1>20. CASE Others
  BY <1>20 DEF RunInv, Others, PlaceSound, Closed, RunTypeOK, Candidates
<1>21. CASE Breaks \/ Crash
  BY <1>21 DEF RunInv, Breaks, PlaceSound, End, Working, Crash, Idle
<1> QED
  BY <1>1, <1>2, <1>3, <1>4, <1>5, <1>6, <1>7, <1>8, <1>9, <1>10, <1>11, <1>12, <1>13, <1>14, <1>15,
     <1>16, <1>17, <1>18, <1>19, <1>20, <1>21 DEF RunNext, Dispatcher, Step, Operator, Time, RunFaults,
     AtRest

\* What the row says of a restart.
LEMMA RestartKept == ASSUME RunAssumption, RunInv, RunNext PROVE RestartSound'
<1>1. CASE AtRest
  BY <1>1, RestKeeps, Rests
<1>2. CASE Unrecorded
  BY <1>2, RowStays DEF RunInv, RestartSound
<1>3. CASE Dispatch
  BY <1>3 DEF RunInv, Dispatch, RestartSound, Completed, RunTypeOK, Runs
<1>4. CASE Do
  BY <1>4 DEF RunInv, Do, RestartSound, Digest
<1>5. CASE Beat
  BY <1>5 DEF RunInv, Beat, RestartSound
<1>6. CASE Claim
  BY <1>6 DEF RunInv, Claim, RestartSound
<1>7. CASE Submit
  BY <1>7 DEF RunInv, Submit, RestartSound
<1>8. CASE Upload
  BY <1>8 DEF RunInv, Upload, RestartSound
<1>9. CASE Finish
  BY <1>9, FinishCases DEF RunInv, RestartSound, Settles, DoneState, Active, Completed
<1>10. CASE Reconcile
  BY <1>10, ReconcileCases DEF RunInv, RestartSound, Settles, Verdict, Active
<1>11. CASE Stop
  BY <1>11 DEF RunInv, Stop, RestartSound, Active, Completed
<1>12. CASE Resume
  BY <1>12 DEF RunInv, Resume, RestartSound, Completed
<1>13. CASE Cleanup
  BY <1>13 DEF RunInv, Cleanup, RestartSound, Active
<1>14. CASE RunExpires
  BY <1>14 DEF RunInv, RunExpires, RestartSound
<1>15. CASE CandidateLapses
  BY <1>15 DEF RunInv, CandidateLapses, RestartSound
<1>16. CASE Others
  BY <1>16 DEF RunInv, Others, RestartSound
<1> QED
  BY <1>1, <1>2, <1>3, <1>4, <1>5, <1>6, <1>7, <1>8, <1>9, <1>10, <1>11, <1>12, <1>13, <1>14, <1>15,
     <1>16 DEF RunNext, Dispatcher, Step, Operator, Time, RunFaults, AtRest, Unrecorded

\* The state in the spool and the one the step works on.
LEMMA StateKept == ASSUME RunAssumption, RunInv, RunNext PROVE StateSound'
<1>1. CASE AtRest
  BY <1>1, RestKeeps, Rests
<1>2. CASE Dispatch \/ Launch \/ Enter
  BY <1>2 DEF RunInv, Dispatch, StateSound, WorkerAt, GoTo, Reading, Working, Launch, End, Enter,
     EndHalted, spool
<1>3. CASE Check
  BY <1>3 DEF RunInv, Check, StateSound, WorkerAt, spool, Reading, Working, RunPlaces
<1>4. CASE Drop
  BY <1>4, DropCases, EmptyTyped DEF RunInv, StateSound, Saves, Clear, Save, GoTo, WorkerAt, Empty,
     Reading, Working, RunPlaces
<1>5. CASE Do
  BY <1>5, DoMoves DEF RunInv, StateSound, WorkerAt, Saves, Passes, Stops, StateStays, RunTypeOK, States,
     Reading, Working
<1>6. CASE Fetch
  BY <1>6 DEF RunInv, Fetch, StateSound, WorkerAt, Reading, Working, RunPlaces
<1>7. CASE Quota
  BY <1>7 DEF RunInv, Quota, StateSound, WorkerAt, Save, Reading, Working, RunPlaces
<1>8. CASE Reserve
  BY <1>8 DEF RunInv, Reserve, StateSound, WorkerAt, spool, Reading, Working, RunPlaces
<1>9. CASE Permitted
  BY <1>9 DEF RunInv, Permitted, StateSound, WorkerAt, Save, GoTo, Halted, Mark, Reading, Working, Kinds,
     RunPlaces, RunTypeOK, Runs, States, Outcomes, Active, Completed, Results, Versions
<1>10. CASE Send
  BY <1>10 DEF RunInv, Send, StateSound, WorkerAt, spool, Reading, Working, RunPlaces
<1>11. CASE Response
  BY <1>11, ResponseCases DEF RunInv, StateSound, Saves, WorkerAt, RunTypeOK, States, Reading, Working,
     RunPlaces
<1>12. CASE Beat \/ Submit \/ Upload
  BY <1>12 DEF RunInv, Beat, StateSound, WorkerAt, Answered, Reading, Save, Working, RunTypeOK, States,
     Submit, GoTo, RunPlaces, Upload, spool, SourceFails
<1>13. CASE Claim
  BY <1>13, ClaimCases DEF RunInv, StateSound, Saves, Stops, StateStays, ClaimAnswer, NoItems, WorkerAt,
     RunTypeOK, States, Reading, Working, RunPlaces
<1>14. CASE StepEnds
  BY <1>14 DEF RunInv, StepEnds, StateSound, End, GoTo, Reading, Working
<1>15. CASE Finish \/ FinalClear \/ Reconcile
  BY <1>15 DEF RunInv, Finish, StateSound, FinishAs, Reading, Idle, GoTo, Working, FinalClear, WorkerAt,
     Reconcile
<1>16. CASE Stop
  BY <1>16 DEF RunInv, Stop, StateSound, spool
<1>17. CASE Resume
  BY <1>17 DEF RunInv, Resume, StateSound, spool
<1>18. CASE AskReconcile
  BY <1>18 DEF RunInv, AskReconcile, StateSound, GoTo, Reading, Working
<1>19. CASE Cleanup
  BY <1>19 DEF RunInv, Cleanup, StateSound
<1>20. CASE RunExpires
  BY <1>20 DEF RunInv, RunExpires, StateSound, spool
<1>21. CASE CandidateLapses
  BY <1>21 DEF RunInv, CandidateLapses, StateSound, spool
<1>22. CASE Others
  BY <1>22 DEF RunInv, Others, StateSound, spool
<1>23. CASE Breaks \/ Crash
  BY <1>23 DEF RunInv, Breaks, StateSound, End, Reading, Working, Crash, Idle
<1> QED
  BY <1>1, <1>2, <1>3, <1>4, <1>5, <1>6, <1>7, <1>8, <1>9, <1>10, <1>11, <1>12, <1>13, <1>14, <1>15,
     <1>16, <1>17, <1>18, <1>19, <1>20, <1>21, <1>22, <1>23 DEF RunNext, Dispatcher, Step, Operator, Time,
     RunFaults, AtRest

\* No request goes out twice.
LEMMA OnceKept == ASSUME RunAssumption, RunInv, RunNext PROVE OnceSound'
<1>1. CASE AtRest
  BY <1>1, RestKeeps, Rests
<1>2. CASE Dispatch \/ Launch \/ Enter
  BY <1>2 DEF RunInv, Dispatch, OnceSound, GoTo, spool, KnowsSent, Fetching, Kind, Launch, End, Enter,
     EndHalted
<1>3. CASE Check \/ Drop
  BY <1>3 DEF RunInv, Check, OnceSound, Unreached, Refused, GoTo, spool, KnowsSent, Fetching, End, Drop,
     Clear, Save, Empty, Kind
<1>4. CASE Do
  BY <1>4, DoMoves DEF RunInv, OnceSound, Saves, Passes, Stops, StateStays, RunTypeOK, States, KnowsSent,
     Fetching
<1>5. CASE Fetch \/ Quota \/ Reserve \/ Permitted \/ Send
  BY <1>5 DEF RunInv, Fetch, OnceSound, WorkerAt, EndHalted, Kind, End, GoTo, KnowsSent, Fetching, Quota,
     Save, Reserve, Unreached, Refused, spool, Permitted, Mark, Kinds, RunTypeOK, States, Send,
     PlaceSound, StateSound, RunPlaces, Working, Reading, Empty
<1>6. CASE Response
  BY <1>6, ResponseCases DEF RunInv, OnceSound, Saves, WorkerAt, RunTypeOK, States, KnowsSent,
     KnowsResult, KnowsImage, Kind, Kinds, Fetching
<1>7. CASE Beat \/ Claim
  BY <1>7 DEF RunInv, Beat, OnceSound, WorkerAt, Unreached, Refused, Answered, KnowsSent, Fetching, Kind,
     End, Save, GoTo, RunTypeOK, States, Claim, Kinds
<1>8. CASE Submit
  BY <1>8, SubmitCases DEF RunInv, OnceSound, Saves, Stops, StateStays, ResultAnswer, WorkerAt, RunTypeOK,
     States, KnowsSent, KnowsResult, KnowsImage, Kind, Kinds, Fetching
<1>9. CASE Upload
  BY <1>9, UploadCases DEF RunInv, OnceSound, Saves, Stops, StateStays, PreviewAnswer, WorkerAt,
     RunTypeOK, States, KnowsSent, KnowsResult, KnowsImage, Kind, Kinds, Fetching
<1>10. CASE StepEnds
  BY <1>10 DEF RunInv, StepEnds, OnceSound, End, GoTo, Empty, spool, KnowsSent, Fetching, RunTypeOK
<1>11. CASE Finish \/ FinalClear \/ Reconcile
  BY <1>11 DEF RunInv, Finish, OnceSound, FinishAs, Empty, spool, KnowsSent, Fetching, Idle, GoTo,
     FinalClear, Clear, Kind, Reconcile
<1>12. CASE Stop \/ Resume \/ AskReconcile
  BY <1>12 DEF RunInv, Stop, OnceSound, spool, KnowsSent, Kind, Resume, AskReconcile, GoTo, Fetching
<1>13. CASE Cleanup \/ RunExpires
  BY <1>13 DEF RunInv, Cleanup, OnceSound, Empty, KnowsSent, Kind, RunExpires, spool
<1>14. CASE CandidateLapses
  BY <1>14 DEF RunInv, CandidateLapses, OnceSound, spool, KnowsSent, Kind
<1>15. CASE Others
  BY <1>15 DEF RunInv, Others, OnceSound, spool, KnowsSent, Kind
<1>16. CASE Breaks \/ Crash
  BY <1>16 DEF RunInv, Breaks, OnceSound, End, spool, KnowsSent, Fetching, Crash, Idle, Empty
<1> QED
  BY <1>1, <1>2, <1>3, <1>4, <1>5, <1>6, <1>7, <1>8, <1>9, <1>10, <1>11, <1>12, <1>13, <1>14, <1>15,
     <1>16 DEF RunNext, Dispatcher, Step, Operator, Time, RunFaults, AtRest

\* What the API took is what the row and the state know of.
LEMMA ResultKept == ASSUME RunAssumption, RunInv, RunNext PROVE ResultSound'
<1>1. CASE AtRest
  BY <1>1, RestKeeps, Rests
<1>2. CASE Dispatch \/ Launch \/ Enter
  BY <1>2 DEF RunInv, Dispatch, ResultSound, GoTo, spool, api, KnowsResult, Kept, Closed, RunTypeOK, Runs,
     Launch, Enter, EndHalted, End
<1>3. CASE Check \/ Drop
  BY <1>3 DEF RunInv, Check, ResultSound, Unreached, Refused, GoTo, api, spool, KnowsResult, Kept, End,
     Closed, Drop, WorkerAt, Clear, Save, Empty, PlaceSound, StateSound, RunPlaces, Working, Reading
<1>4. CASE Do
  BY <1>4, DoMoves DEF RunInv, ResultSound, StateSound, Reading, Working, WorkerAt, Saves, Passes, Stops,
     StateStays, RunTypeOK, States, KnowsResult, Digest, Runs, Kept, Closed
<1>5. CASE Fetch \/ Quota \/ Reserve \/ Permitted \/ Send
  BY <1>5 DEF RunInv, Fetch, ResultSound, WorkerAt, EndHalted, End, GoTo, api, KnowsResult, Kept, Closed,
     Quota, Save, PlaceSound, StateSound, RunPlaces, Working, Reading, Reserve, Unreached, Refused, spool,
     Permitted, Mark, RunTypeOK, States, Send
<1>6. CASE Response
  <2>1. /\ UNCHANGED <<done, core, run>> /\ WorkerAt("got") /\ saved' = mem' /\ mem'.terminal = mem.terminal
        /\ mem'.submitted = mem.submitted /\ work'.at \in {"made", "upload"}
        /\ \/ done = 2 /\ mem'.result # "none"
           \/ done = 4 /\ mem'.result = mem.result
    <3>1. mem \in States /\ PlaceSound
      BY DEF RunInv, RunTypeOK
    <3> QED
      BY <3>1, <1>6, ResponseCases DEF Saves, States
  <2>2. done = 2 => core.took = "none" /\ ~Refreshing
    BY <2>1 DEF RunInv, ResultSound, WorkerAt
  <2>3. KnowsResult(saved)' /\ KnowsResult(mem)'
    BY <2>1, <2>2 DEF RunInv, ResultSound, KnowsResult, Refreshing
  <2> QED
    BY <2>1, <2>2, <2>3 DEF RunInv, ResultSound, StateSound, Reading, Working, RunPlaces, WorkerAt, Kept,
       Closed, Empty
<1>7. CASE Beat
  BY <1>7, BeatCases DEF RunInv, ResultSound, StateSound, Reading, Working, Saves, Stops, StateStays,
     WorkerAt, RunTypeOK, States, KnowsResult, Kept, Closed, SameCandidate
<1>8. CASE Claim
  <2>1. KnowsResult(saved)' /\ KnowsResult(mem)'
    BY <1>8, ClaimCases DEF RunInv, ResultSound, KnowsResult, Saves, Stops, StateStays, ClaimAnswer,
       NoItems, RunTypeOK, States
  <2>2. done = 1 /\ done' = done /\ core.took = "none" /\ core'.took = "none" /\ (core'.mine => core'.claim = "items")
    BY <1>8, ClaimCases DEF RunInv, ResultSound, SameCandidate
  <2>3. work'.at \notin {"fetch", "beat", "quota", "post", "permit", "send", "got"}
    BY <1>8, ClaimCases DEF RunInv, Saves, Stops
  <2> QED
    BY <2>1, <2>2, <2>3 DEF RunInv, ResultSound
<1>9. CASE Submit
  <2>1. /\ done = 3 /\ done' = done /\ run' = run /\ ~Refreshing /\ mem.result # "none" /\ run.digest = mem.result
        /\ core'.mine = core.mine /\ core'.claim = core.claim
    BY <1>9, SubmitCases DEF RunInv, ResultSound, WorkerAt
  <2>2. \/ core'.took = core.took /\ core'.status = core.status
        \/ /\ core.took = "none" /\ core'.took = mem.result /\ core.mine
           /\ core'.status = IF mem.result = "page" THEN "NEW" ELSE "FETCH_FAILED"
    BY <1>9, SubmitCases DEF RunInv
  <2>3. saved \in {mem, Empty}
    BY <1>9, SubmitCases DEF RunInv, StateSound, WorkerAt, Reading, Working, RunPlaces
  <2>4. \/ Stops
        \/ saved' = mem' /\ mem'.result = mem.result /\ mem'.submitted /\ core'.took # "none" /\ work'.at = "made"
    BY <1>9, SubmitCases, <2>1 DEF Saves, ResultAnswer, RunInv, RunTypeOK, States
  <2>5. KnowsResult(saved)' /\ KnowsResult(mem)'
    BY <2>1, <2>2, <2>3, <2>4 DEF RunInv, ResultSound, KnowsResult, Stops, StateStays, Empty
  <2> QED
    BY <2>1, <2>2, <2>4, <2>5 DEF RunInv, ResultSound, Stops
<1>10. CASE Upload
  <2>1. KnowsResult(saved)' /\ KnowsResult(mem)'
    <3>1. core'.took = core.took /\ KnowsResult(saved) /\ KnowsResult(mem)
      BY <1>10, UploadCases DEF RunInv, ResultSound, SameCandidate
    <3>2. /\ PreviewAnswer.result = mem.result /\ PreviewAnswer.submitted = mem.submitted
          /\ LET warned == [mem EXCEPT !.warned = TRUE, !.shown = TRUE]
             IN warned.result = mem.result /\ warned.submitted = mem.submitted
      BY DEF RunInv, RunTypeOK, States, PreviewAnswer
    <3>3. \/ Stops
          \/ Saves(PreviewAnswer, "made")
          \/ Saves([mem EXCEPT !.warned = TRUE, !.shown = TRUE], "made")
      BY <1>10, UploadCases DEF RunInv
    <3>4. CASE Stops
      BY <3>1, <3>4 DEF Stops, StateStays, KnowsResult
    <3>5. CASE Saves(PreviewAnswer, "made")
      BY <3>1, <3>2, <3>5 DEF Saves, KnowsResult
    <3>6. CASE Saves([mem EXCEPT !.warned = TRUE, !.shown = TRUE], "made")
      BY <3>1, <3>2, <3>6 DEF Saves, KnowsResult
    <3> QED
      BY <3>3, <3>4, <3>5, <3>6
  <2>2. /\ done = 4 /\ done' = done /\ run' = run /\ SameCandidate
        /\ work'.at \in {"finish", "made"}
        /\ \/ saved' = saved
           \/ saved' = mem' /\ mem'.terminal = mem.terminal /\ mem'.result = mem.result
    BY <1>10, UploadCases DEF RunInv, Saves, Stops, StateStays, PreviewAnswer, RunTypeOK, States
  <2>3. WorkerAt("upload") /\ (saved = mem \/ run.expired) /\ ~mem.terminal
    BY <1>10, UploadCases DEF RunInv, StateSound, WorkerAt, Reading, Working, RunPlaces
  <2> QED
    BY <2>1, <2>2, <2>3 DEF RunInv, ResultSound, SameCandidate, Kept, Closed
<1>11. CASE StepEnds
  BY <1>11 DEF RunInv, StepEnds, ResultSound, WorkerAt, GoTo, Empty, spool, api, KnowsResult, Kept,
     Closed, RunTypeOK, StateSound, Working, Reading
<1>12. CASE Finish
  BY <1>12, FinishCases DEF RunInv, PlaceSound, RestartSound, ResultSound, Settles, WorkerAt, KnowsResult,
     Empty, Kept, Closed
<1>13. CASE FinalClear
  BY <1>13 DEF RunInv, FinalClear, ResultSound, WorkerAt, Idle, spool, Clear, api, KnowsResult, Kept,
     Empty, PlaceSound
<1>14. CASE Reconcile
  BY <1>14, ReconcileCases DEF RunInv, ResultSound, Settles, KnowsResult, Kept
<1>15. CASE Stop
  BY <1>15 DEF RunInv, Stop, ResultSound, spool, api, KnowsResult, Kept, Closed
<1>16. CASE Resume
  BY <1>16 DEF RunInv, Resume, ResultSound, spool, api, KnowsResult, Kept, Closed
<1>17. CASE AskReconcile
  BY <1>17 DEF RunInv, AskReconcile, ResultSound, GoTo, spool, api, KnowsResult, Kept, Closed
<1>18. CASE Cleanup
  BY <1>18 DEF RunInv, Cleanup, ResultSound, Empty, api, KnowsResult, Kept, Closed
<1>19. CASE RunExpires
  BY <1>19 DEF RunInv, RunExpires, ResultSound, spool, api, KnowsResult, Kept
<1>20. CASE CandidateLapses
  BY <1>20 DEF RunInv, CandidateLapses, ResultSound, spool, KnowsResult, Kept, Closed
<1>21. CASE Others
  BY <1>21, OthersCases DEF RunInv, ResultSound, KnowsResult, Kept, Closed
<1>22. CASE Breaks \/ Crash
  BY <1>22 DEF RunInv, Breaks, ResultSound, End, spool, api, KnowsResult, Kept, Closed, Crash, Idle, Empty
<1> QED
  BY <1>1, <1>2, <1>3, <1>4, <1>5, <1>6, <1>7, <1>8, <1>9, <1>10, <1>11, <1>12, <1>13, <1>14, <1>15,
     <1>16, <1>17, <1>18, <1>19, <1>20, <1>21, <1>22 DEF RunNext, Dispatcher, Step, Operator, Time,
     RunFaults, AtRest

\* What the state says of the image.
LEMMA ImageKept == ASSUME RunAssumption, RunInv, RunNext PROVE ImageSound'
<1>1. CASE AtRest
  BY <1>1, RestKeeps, Rests
<1>2. CASE Dispatch \/ Launch \/ Enter
  BY <1>2 DEF RunInv, Dispatch, ImageSound, GoTo, spool, api, KnowsImage, Kept, Closed, RunTypeOK, Runs,
     Launch, Enter, EndHalted, End
<1>3. CASE Check \/ Drop
  BY <1>3 DEF RunInv, Check, ImageSound, Unreached, Refused, GoTo, api, spool, KnowsImage, Kept, End,
     Closed, Drop, WorkerAt, Clear, Save, Empty, PlaceSound
<1>4. CASE Do
  BY <1>4, DoMoves DEF RunInv, ImageSound, StateSound, Reading, Working, WorkerAt, Saves, Passes, Stops,
     StateStays, RunTypeOK, States, KnowsImage, Kept, Closed
<1>5. CASE Fetch \/ Quota \/ Reserve \/ Permitted \/ Send
  BY <1>5 DEF RunInv, Fetch, ImageSound, EndHalted, End, GoTo, api, KnowsImage, Kept, Closed, Quota,
     WorkerAt, Save, PlaceSound, Reserve, Unreached, Refused, spool, Permitted, Mark, RunTypeOK, States,
     Send
<1>6. CASE Response
  <2>1. KnowsImage(saved)' /\ KnowsImage(mem)'
    BY <1>6, ResponseCases DEF RunInv, ImageSound, KnowsImage, Saves, RunTypeOK, States
  <2>2. PlaceSound /\ mem \in States
    BY DEF RunInv, RunTypeOK
  <2>3. UNCHANGED <<done, core, run>> /\ done \in {2, 4}
    BY <2>2, <1>6, ResponseCases
  <2>4. Saves([mem EXCEPT !.warned = TRUE, !.shown = TRUE], "made") => mem'.shown
    BY <2>2 DEF States, Saves
  <2>5. done = 2 \/ work'.at = "upload" \/ mem'.shown
    BY <2>2, <2>4, <1>6, ResponseCases DEF Saves
  <2> QED
    BY <2>1, <2>3, <2>5 DEF RunInv, ImageSound, Kept, Closed
<1>7. CASE Beat
  BY <1>7, BeatCases DEF RunInv, ImageSound, Saves, Stops, StateStays, PlaceSound, WorkerAt, RunTypeOK,
     States, KnowsImage
<1>8. CASE Claim
  <2>1. KnowsImage(saved)' /\ KnowsImage(mem)'
    BY <1>8, ClaimCases DEF RunInv, ImageSound, KnowsImage, Saves, Stops, StateStays, ClaimAnswer,
       NoItems, RunTypeOK, States
  <2>2. done = 1 /\ done' = done
    BY <1>8, ClaimCases DEF RunInv
  <2> QED
    BY <2>1, <2>2 DEF RunInv, ImageSound
<1>9. CASE Submit
  <2>1. KnowsImage(saved)' /\ KnowsImage(mem)'
    BY <1>9, SubmitCases DEF RunInv, ImageSound, KnowsImage, Saves, Stops, StateStays, ResultAnswer,
       RunTypeOK, States
  <2>2. done = 3 /\ done' = done
    BY <1>9, SubmitCases DEF RunInv
  <2> QED
    BY <2>1, <2>2 DEF RunInv, ImageSound
<1>10. CASE Upload
  BY <1>10, UploadCases DEF RunInv, ImageSound, Saves, Stops, StateStays, PreviewAnswer, WorkerAt,
     RunTypeOK, States, KnowsSent, KnowsResult, KnowsImage, Runs, Kept, Closed, SameCandidate
<1>11. CASE StepEnds
  BY <1>11 DEF RunInv, StepEnds, ImageSound, WorkerAt, GoTo, Empty, spool, api, KnowsImage, Kept, Closed,
     RunTypeOK, StateSound, Working, Reading
<1>12. CASE Finish
  BY <1>12, FinishCases DEF RunInv, PlaceSound, RestartSound, ImageSound, Settles, WorkerAt, KnowsImage,
     Empty, Kept, Closed
<1>13. CASE FinalClear
  BY <1>13 DEF RunInv, FinalClear, ImageSound, WorkerAt, Idle, spool, Clear, api, KnowsImage, Kept, Empty,
     PlaceSound
<1>14. CASE Reconcile
  BY <1>14, ReconcileCases DEF RunInv, ImageSound, Settles, KnowsImage, Kept
<1>15. CASE Stop
  BY <1>15 DEF RunInv, Stop, ImageSound, spool, api, KnowsImage, Kept, Closed
<1>16. CASE Resume
  BY <1>16 DEF RunInv, Resume, ImageSound, spool, api, KnowsImage, Kept, Closed
<1>17. CASE AskReconcile
  BY <1>17 DEF RunInv, AskReconcile, ImageSound, GoTo, spool, api, KnowsImage, Kept, Closed
<1>18. CASE Cleanup
  BY <1>18 DEF RunInv, Cleanup, ImageSound, Empty, api, KnowsImage, Kept, Closed
<1>19. CASE RunExpires
  BY <1>19 DEF RunInv, RunExpires, ImageSound, spool, api, KnowsImage, Kept
<1>20. CASE CandidateLapses
  BY <1>20 DEF RunInv, CandidateLapses, ImageSound, spool, KnowsImage, Kept, Closed
<1>21. CASE Others
  BY <1>21, OthersCases DEF RunInv, ImageSound, KnowsImage, Kept, Closed
<1>22. CASE Breaks \/ Crash
  BY <1>22 DEF RunInv, Breaks, ImageSound, End, spool, api, KnowsImage, Kept, Closed, Crash, Idle, Empty
<1> QED
  BY <1>1, <1>2, <1>3, <1>4, <1>5, <1>6, <1>7, <1>8, <1>9, <1>10, <1>11, <1>12, <1>13, <1>14, <1>15,
     <1>16, <1>17, <1>18, <1>19, <1>20, <1>21, <1>22 DEF RunNext, Dispatcher, Step, Operator, Time,
     RunFaults, AtRest

\* A completed run has its result.
LEMMA HasResultKept == ASSUME RunAssumption, RunInv, RunNext PROVE CompletedHasResult'
<1>1. CASE AtRest
  BY <1>1, RestKeeps, Rests
<1>2. CASE Unrecorded
  BY <1>2, RowStays DEF RunInv, CompletedHasResult
<1>3. CASE Dispatch
  BY <1>3 DEF RunInv, Dispatch, CompletedHasResult, Completed, RunTypeOK, Runs
<1>4. CASE Do
  BY <1>4 DEF RunInv, Do, CompletedHasResult, Digest, api
<1>5. CASE Beat
  BY <1>5 DEF RunInv, Beat, CompletedHasResult, WorkerAt, Completed, PlaceSound, Working, Active, RunPlaces
<1>6. CASE Claim
  BY <1>6 DEF RunInv, Claim, CompletedHasResult, WorkerAt, Completed, PlaceSound, Working, Active, RunPlaces
<1>7. CASE Submit
  BY <1>7 DEF RunInv, Submit, CompletedHasResult, Unreached, Refused, api
<1>8. CASE Upload
  BY <1>8 DEF RunInv, Upload, CompletedHasResult, Halted, api, Completed, StopWanted
<1>9. CASE Finish
  BY <1>9, FinishCases DEF RunInv, PlaceSound, RestartSound, ResultSound, CompletedHasResult, Settles,
     DoneState, Completed
<1>10. CASE Reconcile
  BY <1>10, ReconcileCases DEF RunInv, CompletedHasResult, Settles, Verdict, Completed
<1>11. CASE Stop
  BY <1>11 DEF RunInv, Stop, CompletedHasResult, Completed
<1>12. CASE Resume
  BY <1>12 DEF RunInv, Resume, CompletedHasResult, Completed
<1>13. CASE Cleanup
  BY <1>13 DEF RunInv, Cleanup, CompletedHasResult, Completed, api
<1>14. CASE RunExpires
  BY <1>14 DEF RunInv, RunExpires, CompletedHasResult
<1>15. CASE CandidateLapses
  BY <1>15 DEF RunInv, CandidateLapses, CompletedHasResult
<1>16. CASE Others
  BY <1>16, OthersCases DEF RunInv, CompletedHasResult
<1> QED
  BY <1>1, <1>2, <1>3, <1>4, <1>5, <1>6, <1>7, <1>8, <1>9, <1>10, <1>11, <1>12, <1>13, <1>14, <1>15,
     <1>16 DEF RunNext, Dispatcher, Step, Operator, Time, RunFaults, AtRest, Unrecorded

\* A run completed without a warning has its image.
LEMMA ShownKept == ASSUME RunAssumption, RunInv, RunNext PROVE ImageShown'
<1>1. CASE AtRest
  BY <1>1, RestKeeps, Rests
<1>2. CASE Unrecorded
  BY <1>2, RowStays DEF RunInv, ImageShown
<1>3. CASE Dispatch
  BY <1>3 DEF RunInv, Dispatch, ImageShown, RunTypeOK, Runs
<1>4. CASE Do
  BY <1>4 DEF RunInv, Do, ImageShown, Digest, api
<1>5. CASE Beat
  BY <1>5 DEF RunInv, Beat, ImageShown, WorkerAt, PlaceSound, Working, Active, RunPlaces
<1>6. CASE Claim
  BY <1>6 DEF RunInv, Claim, ImageShown, WorkerAt, PlaceSound, Working, Active, RunPlaces
<1>7. CASE Submit
  BY <1>7 DEF RunInv, Submit, ImageShown, WorkerAt, PlaceSound, Working, Active, RunPlaces
<1>8. CASE Upload
  BY <1>8 DEF RunInv, Upload, ImageShown, Halted, api, StopWanted
<1>9. CASE Finish
  BY <1>9, FinishCases DEF RunInv, PlaceSound, RestartSound, ResultSound, ImageSound, ImageShown, Settles,
     DoneState, Kept, Closed, KnowsResult, KnowsImage
<1>10. CASE Reconcile
  BY <1>10, ReconcileCases DEF RunInv, ResultSound, ImageShown, Settles, Verdict, RunTypeOK, Candidates,
     Results
<1>11. CASE Stop
  BY <1>11 DEF RunInv, Stop, ImageShown
<1>12. CASE Resume
  BY <1>12 DEF RunInv, Resume, ImageShown
<1>13. CASE Cleanup
  BY <1>13 DEF RunInv, Cleanup, ImageShown, api
<1>14. CASE RunExpires
  BY <1>14 DEF RunInv, RunExpires, ImageShown
<1>15. CASE CandidateLapses
  BY <1>15 DEF RunInv, CandidateLapses, ImageShown
<1>16. CASE Others
  BY <1>16, OthersCases DEF RunInv, ImageShown
<1> QED
  BY <1>1, <1>2, <1>3, <1>4, <1>5, <1>6, <1>7, <1>8, <1>9, <1>10, <1>11, <1>12, <1>13, <1>14, <1>15,
     <1>16 DEF RunNext, Dispatcher, Step, Operator, Time, RunFaults, AtRest, Unrecorded

\* The invariant holds from the start, through every step, and says what the runs check.
LEMMA RunInvInit == ASSUME RunAssumption, RunInit PROVE RunInv
<1>1. RunTypeOK
  <2>1. core \in Candidates
    BY DEF RunInit, RunAssumption, Candidates, Versions, Results
  <2>2. run \in Runs
    BY DEF RunInit, Runs, Results
  <2>3. work \in [at : RunPlaces, outcome : Outcomes]
    BY DEF RunInit, Idle, RunPlaces, Outcomes
  <2>4. permit \in [Kinds -> {"none", "valid", "elapsed"}] /\ sent \in [Kinds -> 0..2]
    <3>1. permit = [k \in Kinds |-> "none"] /\ sent = [k \in Kinds |-> 0]
      BY DEF RunInit
    <3> QED
      BY <3>1
  <2>5. readable \in BOOLEAN /\ stopping \in BOOLEAN
    BY Zenon DEF RunInit
  <2>7. done \in 0..6 /\ file \in {"none", "kept", "old"}
    BY DEF RunInit
  <2>6. saved \in States /\ mem \in States
    BY EmptyTyped DEF RunInit
  <2> QED
    BY <2>1, <2>2, <2>3, <2>4, <2>5, <2>6, <2>7 DEF RunTypeOK
<1>2. PlaceSound /\ RestartSound /\ StateSound
  BY DEF RunInit, PlaceSound, RestartSound, StateSound, Idle, Working, Reading, RunPlaces, Active, Completed
<1>3. OnceSound
  BY DEF RunInit, OnceSound, KnowsSent, Idle, Fetching, Empty, Kinds
<1>4. ResultSound /\ ImageSound
  BY DEF RunInit, ResultSound, ImageSound, KnowsResult, KnowsImage, Idle, Empty
<1>5. CompletedHasResult /\ ImageShown
  BY DEF RunInit, CompletedHasResult, ImageShown, Completed
<1> QED
  BY <1>1, <1>2, <1>3, <1>4, <1>5 DEF RunInv

LEMMA RunInvRests == ASSUME RunInv, UNCHANGED runVars PROVE RunInv'
<1>1. RunTypeOK'
  BY DEF RunInv, RunTypeOK, runVars
<1> QED
  BY <1>1, RestKeeps DEF RunInv, runVars

LEMMA RunInvNext == ASSUME RunAssumption, RunInv, RunNext PROVE RunInv'
  BY TypesKept, PlaceKept, RestartKept, StateKept, OnceKept, ResultKept, ImageKept, HasResultKept,
     ShownKept DEF RunInv

LEMMA RunInvSafe ==
  ASSUME RunInv
  PROVE  RunTypeOK /\ SentOnce /\ CompletedHasResult /\ ImageShown /\ DigestKnown
  BY DEF RunInv, OnceSound, SentOnce, ResultSound, DigestKnown

LEMMA ActiveSends == ASSUME RunInv, RunNext, sent' # sent PROVE run.state \in Active
<1>1. Send
  BY DEF RunNext, Dispatcher, Step, Operator, Time, RunFaults, Dispatch, Launch, Enter, Check, Drop, Do,
     Fetch, Beat, Quota, Reserve, Permitted, Response, Claim, Submit, Upload, StepEnds, Finish,
     FinalClear, Reconcile, Starts, Stop, Resume, AskReconcile, Cleanup, RunExpires, ImageAges,
     PermitElapses, CandidateLapses, Others, Breaks, Crash, Shutdown
<1> QED
  BY <1>1 DEF Send, WorkerAt, RunInv, PlaceSound, Working, RunPlaces

\* Whatever is stopped, resumed, cleaned up, lost or left by a process that dies: a request goes out at most once and
\* for a run that is active; a run on record as completed has a result that the API accepted, and without a warning
\* its image; and the row knows the result that the API took (CollectionPipeline, RunRepository, ExpiredRecovery).
THEOREM RunIsSound ==
  ASSUME RunAssumption
  PROVE  RunSpec => RunSound
<1>1. RunInit => RunInv
  BY RunInvInit
<1>2. RunInv /\ [RunNext]_runVars => RunInv'
  BY RunInvNext, RunInvRests
<1>3. RunInv => RunTypeOK /\ SentOnce /\ CompletedHasResult /\ ImageShown /\ DigestKnown
  BY RunInvSafe
<1>4. RunInv /\ [RunNext]_runVars => [sent' # sent => run.state \in Active]_runVars
  BY ActiveSends DEF runVars
<1> QED
  BY <1>1, <1>2, <1>3, <1>4, PTL DEF RunSpec, RunSound, OnlyActiveSends

----------------------------------------------------------------------------
(* ReviewVote *)

\* Observations as decideReview gets them: the marks of the head and of each part.
Observation(o) ==
  /\ o = [age |-> o.age, expired |-> o.expired, headRead |-> o.headRead, partsRead |-> o.partsRead,
          others |-> o.others, marks |-> o.marks]
  /\ o.marks = [m \in Parts \cup {"head"} |-> o.marks[m]]
\* One mark apart.
Reacts(o, n) ==
  \E m \in DOMAIN o.marks : \E k :
    \/ n = [o EXCEPT !.marks[m] = @ \cup {k}]
    \/ n = [o EXCEPT !.marks[m] = @ \ {k}]

\* What an approval and a rejection rest on.
LEMMA DecideCases ==
  ASSUME NEW o
  PROVE  /\ Decide(o).action = "APPROVE_PUBLISH" =>
              /\ Complete(o) /\ ~Emptied(o) /\ Approvers(o) # {} /\ Rejecters(o) = {}
              /\ Decide(o) = Approve(Approvers(o), Excluded(o))
         /\ Decide(o).action = "REJECT" =>
              \/ Decide(o).reason = "HEAD_REJECTED" /\ Approvers(o) = {} /\ Rejecters(o) # {}
              \/ Decide(o).reason = "EXPIRED" /\ ~Emptied(o)
  BY DEF Decide, Hold, Reject, Approve, Opposed

LEMMA DecisionTyped == ASSUME VoteAssumption, NEW o PROVE Decide(o) \in Decisions
<1>1. Approvers(o) \subseteq Reviewers /\ Rejecters(o) \subseteq Reviewers
  BY DEF Approvers, Rejecters, HeadUsers, Human
<1>2. Excluded(o) \subseteq Units
  BY DEF Excluded, MarkedParts, VoteAssumption
<1> QED
  BY <1>1, <1>2 DEF Decide, Hold, Reject, Approve, Decisions

\* What is left out is what a reviewer marked.
LEMMA ExcludedAreBlamed ==
  ASSUME NEW o PROVE Excluded(o) = {UnitOf[p] : p \in {q \in Parts : Blames(o, q)}}
  BY DEF Excluded, MarkedParts, Blames, Human

LEMMA OnlyUnopposed == ASSUME NEW o PROVE PublishedUnopposed(o)
<1> SUFFICES ASSUME Decide(o).action = "APPROVE_PUBLISH"
             PROVE  /\ o.headRead /\ o.partsRead = Parts
                    /\ \E m \in o.marks["head"] : m.user \in Reviewers /\ m.emoji = Up
                    /\ \A m \in o.marks["head"] : m.user \in Reviewers => m.emoji # Down
                    /\ \A p \in Parts : Blames(o, p) => UnitOf[p] \in Decide(o).excluded
                    /\ \E u \in Units \ Blank : u \notin Decide(o).excluded
  BY DEF PublishedUnopposed
<1>1. /\ Complete(o) /\ ~Emptied(o) /\ Approvers(o) # {} /\ Rejecters(o) = {}
      /\ Decide(o).excluded = Excluded(o)
  BY DecideCases DEF Approve
<1>2. \E m \in o.marks["head"] : m.user \in Reviewers /\ m.emoji = Up
  BY <1>1 DEF Approvers, HeadUsers, Human
<1>3. \A m \in o.marks["head"] : m.user \in Reviewers => m.emoji # Down
  BY <1>1 DEF Rejecters, HeadUsers, Human
<1> QED
  BY <1>1, <1>2, <1>3, ExcludedAreBlamed DEF Complete, Emptied, NoBlocks, Selected

LEMMA EmptiedStays == ASSUME VoteAssumption, NEW o PROVE EmptiedIsLeft(o)
<1> SUFFICES ASSUME \A u \in Units \ Blank : \E p \in Parts : UnitOf[p] = u /\ Blames(o, p)
             PROVE  Decide(o).action = "HOLD" \/ Decide(o).reason = "HEAD_REJECTED"
  BY DEF EmptiedIsLeft
<1>1. Emptied(o)
  BY ExcludedAreBlamed DEF Emptied, NoBlocks, Selected
<1> QED
  BY <1>1 DEF Decide, Hold, Reject, Opposed

\* Only the marks of reviewers are looked at.
LEMMA ReviewersDecide ==
  ASSUME NEW o, NEW n, Observation(o), ByReviewers(o) = ByReviewers(n), [o EXCEPT !.marks = n.marks] = n
  PROVE  Decide(o) = Decide(n)
<1>1. o.age = n.age /\ o.expired = n.expired /\ Complete(o) = Complete(n)
  BY DEF Observation, Complete
<1>2. \A m \in Parts \cup {"head"} : Human(o.marks[m]) = Human(n.marks[m])
  <2>1. DOMAIN o.marks = Parts \cup {"head"}
    BY DEF Observation
  <2>2. DOMAIN n.marks = DOMAIN o.marks
    BY DEF ByReviewers
  <2> QED
    BY <2>1, <2>2 DEF ByReviewers
<1>3. Approvers(o) = Approvers(n) /\ Rejecters(o) = Rejecters(n)
  BY <1>2 DEF Approvers, Rejecters, HeadUsers
<1>4. Excluded(o) = Excluded(n)
  BY <1>2 DEF Excluded, MarkedParts
<1> QED
  BY <1>1, <1>3, <1>4 DEF Decide, Opposed, Emptied

\* A mark is for one side, so the other side stays as it was.
LEMMA OneMarkNoSwing ==
  ASSUME NEW o, NEW n, Observation(o), Reacts(o, n) PROVE NoSwing(o, n)
<1> DEFINE A(x) == Approvers(x) # {} /\ Rejecters(x) = {}
           R(x) == Approvers(x) = {} /\ Rejecters(x) # {}
<1>1. PICK m \in DOMAIN o.marks : \E k : \/ n = [o EXCEPT !.marks[m] = @ \cup {k}]
                                        \/ n = [o EXCEPT !.marks[m] = @ \ {k}]
  BY DEF Reacts
<1>2. PICK k : \/ n = [o EXCEPT !.marks[m] = @ \cup {k}]
               \/ n = [o EXCEPT !.marks[m] = @ \ {k}]
  BY <1>1
<1>3. \A j : j # k => (j \in o.marks["head"] <=> j \in n.marks["head"])
  BY <1>2 DEF Observation
<1>4. ~(A(o) /\ R(n)) /\ ~(R(o) /\ A(n))
  <2>1. CASE k.emoji = Up
    <3>1. Rejecters(o) = Rejecters(n)
      BY <1>3, <2>1 DEF Rejecters, HeadUsers, Human, Up, Down
    <3> QED
      BY <3>1
  <2>2. CASE k.emoji # Up
    <3>1. Approvers(o) = Approvers(n)
      BY <1>3, <2>2 DEF Approvers, HeadUsers, Human
    <3> QED
      BY <3>1
  <2> QED
    BY <2>1, <2>2
<1> QED
  BY <1>4, DecideCases DEF NoSwing

\* Of whatever an observation sees: what is published was approved by a reviewer and opposed by none, and leaves out
\* every unit that a reviewer marked; an item with nothing left waits for an administrator; the marks of others do not
\* count; and no single mark turns an approval into a rejection (decideReview, reviewSelection).
THEOREM VoteIsSound ==
  ASSUME VoteAssumption, NEW o, Observation(o)
  PROVE  /\ Decide(o) \in Decisions
         /\ PublishedUnopposed(o) /\ EmptiedIsLeft(o)
         /\ \A n : StrangersDoNotCount(o, n) /\ (Reacts(o, n) => NoSwing(o, n))
  BY DecisionTyped, OnlyUnopposed, EmptiedStays, ReviewersDecide, OneMarkNoSwing DEF StrangersDoNotCount
=============================================================================
