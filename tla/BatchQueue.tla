------------------------------ MODULE BatchQueue ------------------------------
(***************************************************************************)
(* How the URL of one post comes to be collected: requests of the web      *)
(* (the API's mailbox collect.web_collection_request) and of Discord       *)
(* (collect.batch_confirmation), the queue (collect.batch_queue) with the  *)
(* receipts that tell the API what became of it, and the worker processes  *)
(* that pull the mailbox and work on the queue.                            *)
(***************************************************************************)
EXTENDS Naturals, Sequences, FiniteSets, SequencesExt

CONSTANTS
  Urls,          \* canonical URLs
  Site,          \* the source of each URL
  NoUrl, NoSite, \* none of them
  Workers,       \* the processes of QueueMain
  Clicks,        \* the Discord interactions
  MaxRequests,   \* bounds: requests of the web,
  MaxTime,       \*   time,
  MaxDeaths,     \*   processes killed
  MaxAttempts,   \* runs of one row; 3 in the code
  Day,           \* 24 hours
  Changing,      \* the settings of a source may change
  Metadata       \* the retention pass cleans up the queue, too: its backup gate is open

QueueAssumption ==
  /\ MaxRequests \in Nat /\ MaxTime \in Nat /\ MaxDeaths \in Nat /\ MaxAttempts \in Nat \ {0}
  /\ Day \in Nat \ {0} /\ Metadata \in BOOLEAN /\ Changing \in BOOLEAN
  /\ NoUrl \notin Urls /\ \A u \in Urls : Site[u] # NoSite

VARIABLES
  now,        \* the time of the database
  web,        \* web_collection_request
  receipt,    \* batch_input_receipt, for each request of the web
  queue,      \* batch_queue, each row with the state of its active run
  conf,       \* batch_confirmation and its receipt, for each interaction
  checked,    \* confirmations whose handler has read them and goes on to confirm
  collected,  \* URLs with a key in batch_dedup_key
  lapsed,     \* requests whose failed item has come to the end of its time
  disabled,   \* sources that the settings do not let collect
  paused,     \* sources that blocked or refused us less than 15 minutes ago
  worker,     \* the processes
  deaths      \* how many were killed

vars == <<now, web, receipt, queue, conf, checked, collected, lapsed, disabled, paused, worker, deaths>>
inputs == <<conf, checked>>
facts == <<now, collected, lapsed, disabled, paused, deaths>>

Requests == 1..MaxRequests
Sites == {Site[u] : u \in Urls}
Active == {"QUEUED", "RUNNING"}
Ended == {"SUCCEEDED", "FAILED", "BLOCKED", "DUPLICATE", "EXPIRED"}
Rows == DOMAIN queue

TypeOK ==
  /\ now \in 0..MaxTime /\ deaths \in 0..MaxDeaths
  /\ web \in [Requests -> [state : {"none", "PENDING", "DUPLICATE", "EXPIRED"}, url : Urls \cup {NoUrl},
                           at : 0..MaxTime, prev : 0..MaxRequests, acked : BOOLEAN, closed : BOOLEAN]]
  /\ receipt \in [Requests -> [state : {"none", "ACCEPTED", "RUNNING"} \cup Ended, queue : Nat,
                               item : BOOLEAN, retryable : BOOLEAN]]
  /\ \A q \in Rows : queue[q] \in
       [url : Urls, created : 0..MaxTime, attempts : 0..MaxAttempts, wait : BOOLEAN,
        state : {"QUEUED", "RUNNING", "COMPLETED", "FAILED", "BLOCKED", "EXPIRED"},
        run : {"none", "RUNNING", "COMPLETED", "transient", "permanent", "BLOCKED", "lost"}, item : BOOLEAN]
  /\ conf \in [Clicks -> [state : {"none", "open", "late", "cancelled", "confirmed"},
                          url : Urls \cup {NoUrl}, request : Nat]]
  /\ checked \subseteq Clicks /\ collected \subseteq Urls /\ lapsed \subseteq Requests /\ disabled \subseteq Sites
  /\ paused \subseteq Sites
  /\ worker \in [Workers -> [at : {"down", "idle", "look", "claim", "attach", "run", "settle"},
                             todo : Seq(Sites), site : Sites \cup {NoSite}, row : Nat]]
  \* batch_queue_active_url and batch_queue_running_source
  /\ \A p, q \in Rows : p # q /\ queue[p].state \in Active /\ queue[q].state \in Active =>
       /\ queue[p].url # queue[q].url
       /\ queue[p].state = "RUNNING" /\ queue[q].state = "RUNNING" => Site[queue[p].url] # Site[queue[q].url]

Idle == [at |-> "idle", todo |-> <<>>, site |-> NoSite, row |-> 0]
Down == [Idle EXCEPT !.at = "down"]

Init ==
  /\ now = 0 /\ collected = {} /\ lapsed = {} /\ disabled = {} /\ paused = {} /\ deaths = 0 /\ queue = <<>> /\ checked = {}
  /\ web = [r \in Requests |-> [state |-> "none", url |-> NoUrl, at |-> 0, prev |-> 0,
                                acked |-> FALSE, closed |-> FALSE]]
  /\ receipt = [r \in Requests |-> [state |-> "none", queue |-> 0, item |-> FALSE, retryable |-> FALSE]]
  /\ conf = [c \in Clicks |-> [state |-> "none", url |-> NoUrl, request |-> 0]]
  /\ worker = [w \in Workers |-> Down]

Old(at) == at + Day <= now
ActiveRow(u) == {q \in Rows : queue[q].url = u /\ queue[q].state \in Active}
NewRow(u, at) == [url |-> u, created |-> at, attempts |-> 0, wait |-> FALSE, state |-> "QUEUED",
                  run |-> "none", item |-> FALSE]
\* web_retry_accessible: the item that the request is to collect again is still there.
Accessible(r) == web[r].prev \notin lapsed
Fenced(q) == \E r \in Requests : receipt[r].queue = q /\ ~Accessible(r)
\* The bound: whoever enqueues leaves the row the time to expire.
Early == now + Day <= MaxTime

-----------------------------------------------------------------------------
(* The API.                                                                  *)

\* cleanup_web_requests: a request that no batch took in its time.
Swept(table) == [r \in Requests |->
  IF table[r].state = "PENDING" /\ ~table[r].closed /\ ~table[r].acked /\ Old(table[r].at)
  THEN [table[r] EXCEPT !.state = "EXPIRED", !.closed = TRUE] ELSE table[r]]
Open(table, u) == {r \in Requests : table[r].state # "none" /\ ~table[r].closed /\ table[r].url = u}

\* DirectRequestService.submit, after the check of the key: an open request for the URL is joined.
Accept(u, prev) ==
  LET table == Swept(web) free == {r \in Requests : table[r].state = "none"} IN
  /\ Early
  /\ IF Open(table, u) # {} THEN web' = table
     ELSE /\ free # {}
          /\ web' = [table EXCEPT ![Min(free)] =
               [state |-> IF u \in collected THEN "DUPLICATE" ELSE "PENDING", url |-> u, at |-> now,
                prev |-> prev, acked |-> FALSE, closed |-> u \in collected]]
  /\ UNCHANGED <<receipt, queue, inputs, facts, worker>>

Create(u) == Accept(u, 0)

Retryable(r) == receipt[r].state = "FAILED" /\ receipt[r].retryable /\ receipt[r].item /\ r \notin lapsed
Retry(r) == Retryable(r) /\ web[r].url \notin collected /\ Accept(web[r].url, r)

\* What the API shows of a request: it tells the end of the time of a waiting request by itself.
Shown(r) ==
  IF r \in lapsed THEN "gone"
  ELSE IF receipt[r].state = "none"
       THEN IF web[r].state = "PENDING" /\ Old(web[r].at) THEN "EXPIRED" ELSE web[r].state
       ELSE IF receipt[r].state = "ACCEPTED" /\ Old(web[r].at) THEN "EXPIRED" ELSE receipt[r].state

-----------------------------------------------------------------------------
(* The trigger sync_queue_input_receipts: each change of a row goes to its   *)
(* receipts, and closes their requests when the row has ended.               *)

Outcome(row) ==
  CASE row.state = "QUEUED" -> "ACCEPTED"
    [] row.state = "COMPLETED" -> IF row.item THEN "SUCCEEDED" ELSE "DUPLICATE"
    [] OTHER -> row.state
Told(r) == receipt[r].queue # 0 /\ receipt[r].state \notin Ended /\ queue'[receipt[r].queue] # queue[receipt[r].queue]
Sync(table) ==
  /\ receipt' = [r \in Requests |->
       IF Told(r)
       THEN LET row == queue'[receipt[r].queue] IN
            [receipt[r] EXCEPT !.state = Outcome(row), !.item = @ \/ row.item,
                               !.retryable = row.state = "FAILED" /\ row.run \in {"none", "transient", "lost"}]
       ELSE receipt[r]]
  /\ web' = [r \in Requests |->
       IF Told(r) /\ queue'[receipt[r].queue].state \notin Active THEN [table[r] EXCEPT !.closed = TRUE]
       ELSE table[r]]

\* cleanup_input_receipts: rows with a receipt whose time is over.
Cleaned == [q \in Rows |->
  IF /\ queue[q].state \in Active /\ \E r \in Requests : receipt[r].queue = q
     /\ Old(queue[q].created) \/ Fenced(q)
  THEN [queue[q] EXCEPT !.state = "EXPIRED"] ELSE queue[q]]
Cleanup == queue' = Cleaned /\ Sync(Swept(web))

-----------------------------------------------------------------------------
(* Discord: a command prepares a confirmation, its buttons confirm or        *)
(* cancel it.                                                                *)

\* The gateway runs in the process of a worker.
Connected == \E w \in Workers : worker[w].at # "down"

Prepare(c, u) ==
  /\ Connected /\ conf[c].state = "none" /\ Early
  /\ conf' = [conf EXCEPT ![c].state = "open", ![c].url = u]
  /\ UNCHANGED <<web, receipt, queue, checked, facts, worker>>

\* 10 minutes
GetsLate(c) ==
  /\ conf[c].state = "open" /\ conf' = [conf EXCEPT ![c].state = "late"]
  /\ UNCHANGED <<web, receipt, queue, checked, facts, worker>>

Check(c) ==
  /\ Connected /\ conf[c].state = "open" /\ c \notin checked /\ checked' = checked \cup {c}
  /\ UNCHANGED <<web, receipt, queue, conf, facts, worker>>

Cancel(c) ==
  /\ Connected /\ conf[c].state = "open" /\ conf' = [conf EXCEPT ![c].state = "cancelled"]
  /\ UNCHANGED <<web, receipt, queue, checked, facts, worker>>

\* The row, the confirmation and its receipt are written together; a row at work is joined.
\* Bug: the transaction trusts what the handler has read.
ConfirmableAsRead(c) == conf[c].state \in {"open", "cancelled"}
Confirmable(c) == conf[c].state = "open"
Confirm(c) ==
  LET u == conf[c].url IN
  /\ Connected /\ c \in checked /\ Confirmable(c) /\ Early
  /\ IF ActiveRow(u) # {}
     THEN /\ conf' = [conf EXCEPT ![c].state = "confirmed", ![c].request = Max(ActiveRow(u))]
          /\ UNCHANGED queue
     ELSE /\ queue' = Append(queue, NewRow(u, now))
          /\ conf' = [conf EXCEPT ![c].state = "confirmed", ![c].request = Len(queue) + 1]
  /\ checked' = checked \ {c} /\ UNCHANGED <<web, receipt, facts, worker>>

-----------------------------------------------------------------------------
(* The mailbox: BatchMailbox.pull, one transaction for all requests.         *)

Locked(s) == \E w \in Workers : worker[w].site = s
Pulled(table) == {r \in Requests : table[r].state = "PENDING" /\ ~table[r].closed /\ ~table[r].acked
                                   /\ ~Locked(Site[table[r].url])}
\* guard_input_receipt: the row must not live longer than the request.
\* Bug: the request joins whatever row is at work.
OfAnyRow(r, q) == queue[q].url = web[r].url
OfRow(r, q) == queue[q].created <= web[r].at
Blocked(pulled) == {r \in pulled : ~Accessible(r) \/ Site[web[r].url] \in disabled}
Known(pulled) == {r \in pulled \ Blocked(pulled) : web[r].url \in collected}
Accepted(pulled) == pulled \ (Blocked(pulled) \cup Known(pulled))
\* The row that a request joins: cleanup_input_receipts came first.
Joined(u) == {q \in ActiveRow(u) : Cleaned[q].state \in Active}
\* One refusal rolls back the pull of all requests.
Refused == \E r \in Accepted(Pulled(Swept(web))) : \E q \in Joined(web[r].url) : ~OfRow(r, q)
Pull ==
  LET table == Swept(web)
      pulled == Pulled(table)
      blocked == Blocked(pulled) known == Known(pulled) accepted == Accepted(pulled)
      new == {r \in accepted : Joined(web[r].url) = {}}
      order == SetToSortSeq(new, LAMBDA a, b : web[a].at < web[b].at \/ (web[a].at = web[b].at /\ a < b))
      rowOf(r) == IF r \in new THEN Len(queue) + CHOOSE i \in DOMAIN order : order[i] = r
                  ELSE Max(Joined(web[r].url))
      ended(r) == Cleaned[receipt[r].queue].state = "EXPIRED"
  IN
  /\ ~Refused
  /\ queue' = Cleaned \o [i \in DOMAIN order |-> NewRow(web[order[i]].url, web[order[i]].at)]
  /\ receipt' = [r \in Requests |->
       CASE r \in blocked -> [receipt[r] EXCEPT !.state = "BLOCKED"]
         [] r \in known -> [receipt[r] EXCEPT !.state = "DUPLICATE"]
         [] r \in accepted -> [receipt[r] EXCEPT !.state = "ACCEPTED", !.queue = rowOf(r)]
         [] OTHER -> IF Told(r) THEN [receipt[r] EXCEPT !.state = "EXPIRED"] ELSE receipt[r]]
  /\ web' = [r \in Requests |->
       IF r \in pulled THEN [table[r] EXCEPT !.acked = TRUE, !.closed = r \notin accepted]
       ELSE IF Told(r) THEN [table[r] EXCEPT !.closed = TRUE] ELSE table[r]]
  /\ UNCHANGED <<inputs, facts>>

\* The process starts with a pull that must succeed, and repeats it every 30 seconds.
Start(w) ==
  /\ worker[w].at = "down" /\ worker' = [worker EXCEPT ![w] = Idle]
  /\ Pull
Refresh ==
  /\ Connected
  /\ Pull
  /\ UNCHANGED worker

-----------------------------------------------------------------------------
(* The worker: BatchQueueWorker.once.                                        *)

Leaves(w) == worker' = [worker EXCEPT ![w] = Idle]
\* An exception that once does not catch ends the process and its lock.
Crashes(w) == worker' = [worker EXCEPT ![w] = Down] /\ UNCHANGED <<web, receipt, queue, inputs, facts>>
Goes(w, at) == worker' = [worker EXCEPT ![w].at = at]
MyRow(w) == queue[worker[w].row]

\* Bug: a row that waits for its second attempt is not picked up.
WaitingFirst(row) == row.state = "QUEUED" /\ ~row.wait /\ row.attempts = 0
Waiting(row) == row.state = "QUEUED" /\ ~row.wait
OfSite(s) == {q \in Rows : Site[queue[q].url] = s}
Ready(s) == \E q \in OfSite(s) : queue'[q].state = "RUNNING" \/ (Waiting(queue'[q]) /\ s \notin paused)

Earliest(S) == CHOOSE q \in S : \A p \in S : queue[q].created < queue[p].created
                                             \/ (queue[q].created = queue[p].created /\ q <= p)
\* readySources
Read(w) ==
  /\ worker[w].at = "idle" /\ Cleanup
  /\ LET ready == {s \in Sites : Ready(s)}
         first(s) == Earliest({q \in OfSite(s) : queue'[q].state \in Active})
     IN /\ ready # {} \/ queue' # queue \/ web' # web
        /\ worker' = [worker EXCEPT ![w].at = IF ready = {} THEN "idle" ELSE "look",
             ![w].todo = SetToSortSeq(ready, LAMBDA s, t : Earliest({first(s), first(t)}) = first(s))]
  /\ UNCHANGED <<inputs, facts>>

\* The lock of the source, and next: a row whose owner is lost comes first.
Next(s) ==
  LET lost == {q \in OfSite(s) : queue[q].state = "RUNNING"}
      due == {q \in OfSite(s) : Waiting(queue[q])}
  IN IF lost # {} THEN lost ELSE due
Look(w) ==
  /\ worker[w].at = "look"
  /\ IF worker[w].todo = <<>> THEN Leaves(w)
     ELSE LET s == Head(worker[w].todo) IN
          IF Locked(s) \/ Next(s) = {} THEN worker' = [worker EXCEPT ![w].todo = Tail(@)]
          ELSE LET q == Earliest(Next(s)) IN
               worker' = [worker EXCEPT ![w] =
                 [at |-> IF queue[q].state = "RUNNING" THEN "settle" ELSE "claim",
                  todo |-> <<>>, site |-> s, row |-> q]]
  /\ UNCHANGED <<web, receipt, queue, inputs, facts>>

\* scrub_queue_terminal and fence_web_queue refuse each change of a row whose time is over, but its end.
Alive(q) == ~Old(queue[q].created) /\ ~Fenced(q)
Claim(w) ==
  /\ worker[w].at = "claim"
  /\ IF MyRow(w).state = "QUEUED" /\ Alive(worker[w].row)
     THEN /\ queue' = [queue EXCEPT ![worker[w].row] =
                [@ EXCEPT !.state = "RUNNING", !.attempts = @ + 1, !.run = "none", !.item = FALSE]]
          /\ Goes(w, "attach") /\ Sync(web) /\ UNCHANGED <<inputs, facts>>
     ELSE Crashes(w)

Mine(w) == MyRow(w).state = "RUNNING" /\ Alive(worker[w].row)

\* begin and attach; when the row is not the worker's any more, the run ends at once.
Attach(w) ==
  /\ worker[w].at = "attach"
  /\ IF Mine(w) THEN queue' = [queue EXCEPT ![worker[w].row].run = "RUNNING"] /\ Goes(w, "run")
     ELSE UNCHANGED queue /\ Goes(w, "settle")
  /\ Sync(web) /\ UNCHANGED <<inputs, facts>>

\* The run: it finds the URL collected, collects it, or fails before or after it has claimed an item.
RunEnds(w) ==
  /\ worker[w].at = "run" /\ Goes(w, "settle")
  /\ \E run \in {"COMPLETED", "transient", "permanent", "BLOCKED"}, item \in BOOLEAN :
       /\ MyRow(w).url \in collected => run = "COMPLETED" /\ ~item
       /\ run = "COMPLETED" /\ MyRow(w).url \notin collected => item
       /\ run \in {"permanent", "BLOCKED"} => ~item  \* nothing depends on an item that is not collected again
       /\ queue' = [queue EXCEPT ![worker[w].row].run = run, ![worker[w].row].item = item]
       /\ collected' = IF run = "COMPLETED" THEN collected \cup {MyRow(w).url} ELSE collected
  /\ UNCHANGED <<web, receipt, inputs, now, lapsed, disabled, paused, deaths>>

\* settle: the result of the run becomes that of the row, or the row waits for another attempt.
Result(row) == CASE row.run \in {"COMPLETED", "BLOCKED"} -> row.run [] OTHER -> "FAILED"
Again(row) == Result(row) = "FAILED" /\ row.attempts < MaxAttempts /\ row.run # "permanent"
Settled(row) == [row EXCEPT !.state = IF Again(row) THEN "QUEUED" ELSE Result(row), !.wait = Again(row),
                            !.run = IF @ = "RUNNING" THEN "lost" ELSE @]
Settle(w) ==
  /\ worker[w].at = "settle"
  /\ IF MyRow(w).state # "RUNNING"
     THEN Leaves(w) /\ UNCHANGED <<web, receipt, queue, inputs, facts>>
     ELSE IF Again(MyRow(w)) /\ ~Alive(worker[w].row)
     THEN Crashes(w)
     ELSE /\ queue' = [queue EXCEPT ![worker[w].row] = Settled(@)] /\ Sync(web) /\ Leaves(w)
          /\ \/ paused' = paused \cup (IF Result(MyRow(w)) = "BLOCKED" THEN {worker[w].site} ELSE {})
             \/ MyRow(w).run = "permanent" /\ paused' = paused \cup {worker[w].site}  \* SOURCE_RATE_LIMITED
          /\ UNCHANGED <<inputs, now, collected, lapsed, disabled, deaths>>

Dies(w) ==
  /\ worker[w].at # "down" /\ deaths < MaxDeaths /\ deaths' = deaths + 1
  /\ worker' = [worker EXCEPT ![w] = Down]
  /\ UNCHANGED <<web, receipt, queue, inputs, now, collected, lapsed, disabled, paused>>

-----------------------------------------------------------------------------
(* Time, and the retention pass.                                             *)

Tick ==
  /\ now < MaxTime /\ now' = now + 1
  /\ UNCHANGED <<web, receipt, queue, inputs, collected, lapsed, disabled, paused, worker, deaths>>
WaitEnds(q) ==
  /\ queue[q].wait /\ queue' = [queue EXCEPT ![q].wait = FALSE]
  /\ UNCHANGED <<web, receipt, inputs, facts, worker>>
PauseEnds(s) ==
  /\ s \in paused /\ paused' = paused \ {s}
  /\ UNCHANGED <<web, receipt, queue, inputs, now, collected, lapsed, disabled, worker, deaths>>
Configure(s) ==
  /\ Changing /\ disabled' = IF s \in disabled THEN disabled \ {s} ELSE disabled \cup {s}
  /\ UNCHANGED <<web, receipt, queue, inputs, now, collected, lapsed, paused, worker, deaths>>
\* The failed item of a request comes to the end of its time.
ItemLapses(r) ==
  /\ Retryable(r) /\ lapsed' = lapsed \cup {r}
  /\ UNCHANGED <<web, receipt, queue, inputs, now, collected, disabled, paused, worker, deaths>>

\* cleanup_retention_metadata: rows whose time is over, with a receipt or not.
MetadataPass ==
  /\ Metadata
  /\ queue' = [q \in Rows |-> IF Cleaned[q].state \in Active /\ Old(queue[q].created)
                              THEN [queue[q] EXCEPT !.state = "EXPIRED"] ELSE Cleaned[q]]
  /\ Sync(Swept(web)) /\ UNCHANGED <<inputs, facts, worker>>

Step(w) == Read(w) \/ Look(w) \/ Claim(w) \/ Attach(w) \/ RunEnds(w) \/ Settle(w)
Actions ==
  \/ \E u \in Urls : Create(u)
  \/ \E r \in Requests : Retry(r) \/ ItemLapses(r)
  \/ \E c \in Clicks, u \in Urls : Prepare(c, u)
  \/ \E c \in Clicks : GetsLate(c) \/ Check(c) \/ Cancel(c) \/ Confirm(c)
  \/ Refresh \/ \E w \in Workers : Start(w) \/ Step(w) \/ Dies(w)
  \/ Tick \/ MetadataPass \/ \E q \in Rows : WaitEnds(q)
  \/ \E s \in Sites : PauseEnds(s) \/ Configure(s)

Spec == Init /\ [][Actions]_vars

-----------------------------------------------------------------------------
(* Properties *)

\* A request that the API has shown as EXPIRED is never shown as anything else: the row that a request
\* joined does not outlive it (request of DirectRequestRepository, guard_input_receipt).
\* Only a run that its owner left behind may still be settled, by a worker that found it just in time.
Left(r) == receipt[r].queue # 0 /\ queue[receipt[r].queue].state = "RUNNING"
ExpiredStays ==
  [][\A r \in Requests : Shown(r) = "EXPIRED" /\ ~Left(r) => Shown(r)' \in {"EXPIRED", "gone"}]_vars

\* No run begins for a request that is shown as EXPIRED.
ExpiredIsNotRun ==
  [][\A r \in Requests : LET q == receipt[r].queue IN
       Shown(r) = "EXPIRED" /\ q # 0 => queue'[q].run = queue[q].run \/ queue'[q].run # "RUNNING"]_vars

\* A request is open exactly until its row has ended, and is told to have succeeded or to be a
\* duplicate only when its URL is collected (sync_queue_input_receipts, close_web_request).
OpenUntilTheEnd ==
  \A r \in Requests : LET q == receipt[r].queue IN
    /\ q # 0 => web[r].closed = (queue[q].state \notin Active)
    /\ receipt[r].state # "none" => web[r].closed = (receipt[r].state \in Ended)
    /\ receipt[r].state \in {"SUCCEEDED", "DUPLICATE"} => web[r].url \in collected

\* A confirmation that was confirmed stays with its one row, and a cancelled one is never confirmed,
\* whatever its handlers had read (BatchQueueStore.confirm, cancel_confirmation).
ConfirmedOrNot ==
  [][\A c \in Clicks : conf[c].state \in {"confirmed", "cancelled", "late"} => conf'[c] = conf[c]]_vars

\* What TLC checks of the queue, for every state and step.
QueueSound == [](TypeOK /\ OpenUntilTheEnd) /\ ExpiredStays /\ ExpiredIsNotRun /\ ConfirmedOrNot

\* A row that waits in the queue is taken, and a request of the web is pulled, before its day is over
\* and without the help of time; unless the processes are down and none can start, because the pull
\* it starts with finds a row that is younger than the request for its URL (QueueMain, BatchMailbox.pull).
Waits(q) == q \in Rows /\ queue[q].state = "QUEUED" /\ ~Old(queue[q].created)
Stuck == Refused /\ ~Connected
QueueMoves ==
  \/ <>[]Stuck
  \/ /\ \A q \in 1..(MaxRequests + Cardinality(Clicks)) : []<>~Waits(q)
     /\ \A r \in Requests : []<>(web[r].state = "PENDING" => web[r].acked \/ Old(web[r].at))
=============================================================================
