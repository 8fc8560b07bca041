---------------------------- MODULE PostSchedule ----------------------------
(***************************************************************************)
(* The posts:publish-due job: PostsService.publishDue and                  *)
(* ScheduleAlertsService.deliver, beside the administrator's commands.     *)
(* The job reads the list of due posts once and then works on it post by   *)
(* post, so a command may come between the list and each of its posts.     *)
(* Several jobs may run at once, and a job may die at any point.           *)
(*                                                                         *)
(* Posts are reduced to their schedule; PostPublication has their images.  *)
(* Time is a counter of the moments posts are scheduled for.               *)
(***************************************************************************)
EXTENDS Naturals

CONSTANTS
    Posts,
    Jobs,           \* runs of posts:publish-due
    MaxTime,        \* bound: moments
    MaxScheduled,   \* bound: lock_version of a post
    MaxFailures,    \* bound: attempt_count of an alert
    Nobody

ScheduleAssumption ==
    /\ MaxTime \in Nat /\ MaxScheduled \in Nat \ {0} /\ MaxFailures \in Nat
    /\ Nobody \notin Posts \cup Jobs

VARIABLES
    now,
    post,       \* [Posts -> status, lock_version, scheduled_at]
    alert,      \* [Groups -> attempt_count, notified_count of schedule_failure_alert]
    recent,     \* groups notified less than 15 minutes ago
    sent,       \* [Groups -> highest attemptCount among the events received]
    job,        \* [Jobs -> local state]
    alertLock   \* holder of the advisory lock 72498132, or Nobody

scheduleVars == <<now, post, alert, recent, sent, job, alertLock>>

----------------------------------------------------------------------------
(* Data *)

Times    == 1 .. MaxTime
Codes    == {"PINNED_ORDER_CONFLICT", "DEPENDENCY_UNAVAILABLE"}
Statuses == {"DRAFT", "SCHEDULED", "PUBLISHED"}
NoTime   == MaxTime + 1

\* The primary key of schedule_failure_alert.
Groups == Posts \X Times \X Codes

NoDue == [id |-> Nobody, version |-> 0, at |-> 0]
NoRow == [group |-> Nobody, count |-> 0]
Idle  == [pc |-> "idle", todo |-> {}, due |-> NoDue, code |-> "", rows |-> {}, row |-> NoRow]

ScheduleInit ==
    /\ now = 0
    /\ post = [p \in Posts |-> [status |-> "DRAFT", version |-> 1, at |-> NoTime]]
    /\ alert = [g \in Groups |-> [attempts |-> 0, notified |-> 0]]
    /\ recent = {}
    /\ sent = [g \in Groups |-> 0]
    /\ job = [j \in Jobs |-> Idle]
    /\ alertLock = Nobody

\* An update of the post: lock_version grows with each of them.
Write(p, status, at) ==
    post' = [post EXCEPT ![p] = [status |-> status, version |-> @.version + 1, at |-> at]]

----------------------------------------------------------------------------
(* The administrator's commands *)

Schedule(p, t) ==
    /\ post[p].status = "DRAFT" /\ t > now /\ post[p].version < MaxScheduled
    /\ Write(p, "SCHEDULED", t)
    /\ UNCHANGED <<now, alert, recent, sent, job, alertLock>>

Unschedule(p) ==
    /\ post[p].status = "SCHEDULED" /\ post[p].version < MaxScheduled
    /\ Write(p, "DRAFT", NoTime)
    /\ UNCHANGED <<now, alert, recent, sent, job, alertLock>>

Edit(p) ==
    /\ post[p].status \in {"DRAFT", "SCHEDULED"} /\ post[p].version < MaxScheduled
    /\ Write(p, post[p].status, post[p].at)
    /\ UNCHANGED <<now, alert, recent, sent, job, alertLock>>

PublishNow(p) ==
    /\ post[p].status \in {"DRAFT", "SCHEDULED"} /\ post[p].version < MaxScheduled
    /\ Write(p, "PUBLISHED", NoTime)
    /\ UNCHANGED <<now, alert, recent, sent, job, alertLock>>

----------------------------------------------------------------------------
(* publishDue *)

To(j, pc) == job' = [job EXCEPT ![j].pc = pc]

ListDue(j) ==
    /\ job[j].pc = "idle"
    /\ job' = [job EXCEPT ![j].pc = "next", ![j].todo =
           {[id |-> p, version |-> post[p].version, at |-> post[p].at] :
               p \in {q \in Posts : post[q].status = "SCHEDULED" /\ post[q].at <= now}}]
    /\ UNCHANGED <<now, post, alert, recent, sent, alertLock>>

Current(d) == post[d.id].version = d.version /\ post[d.id].status = "SCHEDULED"

\* ORDER BY scheduled_at: the first check of runCommand, and the promotion of the
\* images.  POST_VERSION_CONFLICT and POST_STATE_CONFLICT are nobody's failure.
TakeDue(j, d) ==
    /\ job[j].pc = "next" /\ d \in job[j].todo /\ \A e \in job[j].todo : d.at <= e.at
    /\ job' = [job EXCEPT ![j].pc = IF Current(d) THEN "promoted" ELSE "next",
                          ![j].todo = @ \ {d}, ![j].due = d]
    /\ UNCHANGED <<now, post, alert, recent, sent, alertLock>>

\* The transaction of runCommand, which checks the post again.
CommitUnchecked(j) ==                      \* Bug: the check before the promotion is enough
    LET d == job[j].due IN
    /\ job[j].pc = "promoted"
    /\ To(j, "next")
    /\ IF post[d.id].status = "SCHEDULED" THEN Write(d.id, "PUBLISHED", NoTime) ELSE UNCHANGED post
    /\ UNCHANGED <<now, alert, recent, sent, alertLock>>

CommitDue(j) ==
    LET d == job[j].due IN
    /\ job[j].pc = "promoted"
    /\ To(j, "next")
    /\ IF Current(d) THEN Write(d.id, "PUBLISHED", NoTime) ELSE UNCHANGED post
    /\ UNCHANGED <<now, alert, recent, sent, alertLock>>

\* A promotion or the transaction fails.  The index that raises PINNED_ORDER_CONFLICT
\* covers SCHEDULED posts too; the job is prepared for it all the same.
DueFails(j, c) ==
    LET d == job[j].due IN
    /\ job[j].pc = "promoted" /\ alert[<<d.id, d.at, c>>].attempts < MaxFailures
    /\ job' = [job EXCEPT ![j].pc = IF c = "PINNED_ORDER_CONFLICT" THEN "cancel" ELSE "record",
                          ![j].code = c]
    /\ UNCHANGED <<now, post, alert, recent, sent, alertLock>>

\* cancelConflictedSchedule, outside the lock of the post.

CancelConflicted(j) ==
    LET d == job[j].due IN
    /\ job[j].pc = "cancel"
    /\ To(j, "record")
    /\ IF Current(d) THEN Write(d.id, "DRAFT", NoTime) ELSE UNCHANGED post
    /\ UNCHANGED <<now, alert, recent, sent, alertLock>>

\* recordScheduleFailure: INSERT ... ON CONFLICT DO UPDATE attempt_count + 1.
RecordFailure(j) ==
    LET g == <<job[j].due.id, job[j].due.at, job[j].code>> IN
    /\ job[j].pc = "record" /\ alert[g].attempts < MaxFailures
    /\ alert' = [alert EXCEPT ![g].attempts = @ + 1]
    /\ To(j, "next")
    /\ UNCHANGED <<now, post, recent, sent, alertLock>>

\* The list is done, or an error ends publishDue; deliver runs either way (finally).
DueEnds(j) ==
    /\ \/ job[j].pc = "next" /\ job[j].todo = {}
       \/ job[j].pc \in {"cancel", "record"}
    /\ job' = [job EXCEPT ![j] = [Idle EXCEPT !.pc = "alerts"]]
    /\ UNCHANGED <<now, post, alert, recent, sent, alertLock>>

----------------------------------------------------------------------------
(* ScheduleAlertsService.deliver *)

PendingOnce(g) == alert[g].attempts > 0 /\ alert[g].notified = 0    \* Bug: a group is reported once

Pending(g) == alert[g].attempts > alert[g].notified /\ g \notin recent

\* The lock is not waited for: a job that finds it taken has nothing to do.
StartDeliver(j) ==
    /\ job[j].pc = "alerts"
    /\ IF alertLock = Nobody
       THEN /\ alertLock' = j
            /\ job' = [job EXCEPT ![j].pc = "deliver", ![j].rows =
                   {[group |-> g, count |-> alert[g].attempts] : g \in {h \in Groups : Pending(h)}}]
       ELSE /\ job' = [job EXCEPT ![j] = Idle]
            /\ UNCHANGED alertLock
    /\ UNCHANGED <<now, post, alert, recent, sent>>

Larger(m, n) == IF m > n THEN m ELSE n

\* The receiver has the event, and the job hears of it.
Send(j, r) ==
    /\ job[j].pc = "deliver" /\ r \in job[j].rows
    /\ sent' = [sent EXCEPT ![r.group] = Larger(@, r.count)]
    /\ job' = [job EXCEPT ![j].pc = "sent", ![j].rows = @ \ {r}, ![j].row = r]
    /\ UNCHANGED <<now, post, alert, recent, alertLock>>

\* The answer is an error; the receiver may have the event all the same.
SendFails(j, r) ==
    /\ job[j].pc = "deliver" /\ r \in job[j].rows
    /\ sent' \in {sent, [sent EXCEPT ![r.group] = Larger(@, r.count)]}
    /\ job' = [job EXCEPT ![j].rows = @ \ {r}]
    /\ UNCHANGED <<now, post, alert, recent, alertLock>>

\* delivered: notified_count becomes the count that was sent.
DeliveredNow(j) ==                         \* Bug: notified_count = attempt_count
    LET r == job[j].row IN
    /\ job[j].pc = "sent"
    /\ alert' = [alert EXCEPT ![r.group].notified = alert[r.group].attempts]
    /\ recent' = recent \cup {r.group}
    /\ job' = [job EXCEPT ![j].pc = "deliver", ![j].row = NoRow]
    /\ UNCHANGED <<now, post, sent, alertLock>>

Delivered(j) ==
    LET r == job[j].row IN
    /\ job[j].pc = "sent"
    /\ alert' = [alert EXCEPT ![r.group].notified = r.count]
    /\ recent' = recent \cup {r.group}
    /\ job' = [job EXCEPT ![j].pc = "deliver", ![j].row = NoRow]
    /\ UNCHANGED <<now, post, sent, alertLock>>

DeliverEnds(j) ==
    /\ job[j].pc = "deliver" /\ job[j].rows = {}
    /\ alertLock' = Nobody
    /\ job' = [job EXCEPT ![j] = Idle]
    /\ UNCHANGED <<now, post, alert, recent, sent>>

\* A job dies; its session ends and the lock with it.
JobDies(j) ==
    /\ job[j].pc # "idle"
    /\ job' = [job EXCEPT ![j] = Idle]
    /\ alertLock' = IF alertLock = j THEN Nobody ELSE alertLock
    /\ UNCHANGED <<now, post, alert, recent, sent>>

----------------------------------------------------------------------------
(* Time *)

Tick ==
    /\ now < MaxTime /\ now' = now + 1
    /\ UNCHANGED <<post, alert, recent, sent, job, alertLock>>

QuarterPasses(g) ==
    /\ g \in recent /\ recent' = recent \ {g}
    /\ UNCHANGED <<now, post, alert, sent, job, alertLock>>

----------------------------------------------------------------------------

Admin ==
    \E p \in Posts :
        \/ \E t \in Times : Schedule(p, t)
        \/ Unschedule(p) \/ Edit(p) \/ PublishNow(p)

JobWork(j) ==
    \/ ListDue(j) \/ CommitDue(j) \/ CancelConflicted(j) \/ RecordFailure(j) \/ DueEnds(j)
    \/ \E d \in job[j].todo : TakeDue(j, d)
    \/ \E c \in Codes : DueFails(j, c)
    \/ StartDeliver(j) \/ Delivered(j) \/ DeliverEnds(j)
    \/ \E r \in job[j].rows : Send(j, r) \/ SendFails(j, r)

ScheduleNext ==
    \/ Admin
    \/ \E j \in Jobs : JobWork(j) \/ JobDies(j)
    \/ Tick
    \/ \E g \in recent : QuarterPasses(g)

ScheduleSpec == ScheduleInit /\ [][ScheduleNext]_scheduleVars

\* A job that dies; storage, the database or the receiver of the events fails.
ScheduleFaults ==
    \E j \in Jobs :
        \/ JobDies(j) /\ ~StartDeliver(j) /\ ~DeliverEnds(j)
        \/ DueFails(j, "DEPENDENCY_UNAVAILABLE")
        \/ job[j].pc \in {"cancel", "record"} /\ DueEnds(j)
        \/ \E r \in job[j].rows : SendFails(j, r)

----------------------------------------------------------------------------
(* Properties *)

\* Every variable keeps its type, and notified_count <= attempt_count, the check
\* of V003__schedule_alert.sql.
ScheduleTypeOK ==
    /\ now \in 0 .. MaxTime
    /\ post \in [Posts -> [status : Statuses, version : 1 .. MaxScheduled + 1, at : Times \cup {NoTime}]]
    /\ \A p \in Posts : post[p].at = NoTime <=> post[p].status # "SCHEDULED"
    /\ alert \in [Groups -> [attempts : 0 .. MaxFailures, notified : 0 .. MaxFailures]]
    /\ \A g \in Groups : alert[g].notified <= alert[g].attempts
    /\ recent \subseteq Groups
    /\ sent \in [Groups -> 0 .. MaxFailures]
    /\ alertLock \in Jobs \cup {Nobody}
    /\ \A j \in Jobs : job[j].pc \in {"deliver", "sent"} <=> alertLock = j

\* Whatever an administrator decides after the list of due posts was read stands: a
\* job publishes or cancels a schedule only when that schedule's moment has come
\* (runCommand and cancelConflictedSchedule compare the version that was read).
NewScheduleStands ==
    [][\A p \in Posts :
        post[p].status = "SCHEDULED" /\ post'[p] # post[p] /\ job' # job => post[p].at <= now]_scheduleVars

\* What the table calls notified was received: a failure recorded while the event
\* before it was on its way is not taken for reported (delivered writes the count
\* that was sent).
NotifiedWasSent == \A g \in Groups : alert[g].notified <= sent[g]

\* Every recorded failure is reported in the end, though jobs die, the receiver
\* fails and failures go on being recorded.
FailureReported == \A g \in Groups : []<>(sent[g] >= alert[g].attempts)

\* A schedule whose moment has come, and that nobody changes, is published or
\* cancelled in the end: jobs that died or failed leave nothing behind that stops
\* the next one.
DueLeavesSchedule == \A p \in Posts : []<>~(post[p].status = "SCHEDULED" /\ post[p].at <= now)

\* Together: schedules are acted on, and failures reported, as they were read.
ScheduleSound == []ScheduleTypeOK /\ []NotifiedWasSent /\ NewScheduleStands

\* Together: a due post leaves the schedule and its failures are reported.
ScheduleEnds == DueLeavesSchedule /\ FailureReported

=============================================================================
