--------------------------- MODULE PostCommandProofs ---------------------------
(***************************************************************************)
(* Proofs about IdempotentCommand, what the page says of a save is what    *)
(* happened to it; and about PostSchedule, a job acts only on the schedule *)
(* that it read, and what is notified was received.                        *)
(***************************************************************************)
EXTENDS IdempotentCommand, PostSchedule, TLAPS

----------------------------------------------------------------------------
(* The schedule: its types, what a job has read, and its steps *)

\* What a job reads of a due post and of an alert, and its local state.
Dues    == [id : Posts, version : 1 .. MaxScheduled + 1, at : Times]
Rows    == [group : Groups, count : 0 .. MaxFailures]
JobType == [pc : {"idle", "next", "promoted", "cancel", "record", "alerts", "deliver", "sent"},
            todo : SUBSET Dues, due : Dues \cup {NoDue}, code : Codes \cup {""},
            rows : SUBSET Rows, row : Rows \cup {NoRow}]

\* A due post as a job has read it: its moment has come, and unless the post
\* has been written since, that is the moment it is scheduled for.
DueSound(d) ==
    /\ d.at <= now
    /\ d.version <= post[d.id].version
    /\ Current(d) => post[d.id].at = d.at

\* A job works on posts and alerts it has read; what it has sent was received.
JobSound(j) ==
    /\ job[j] \in JobType
    /\ \A d \in job[j].todo : DueSound(d)
    /\ job[j].pc \in {"promoted", "cancel", "record"} => job[j].due \in Dues /\ DueSound(job[j].due)
    /\ job[j].pc \in {"cancel", "record"} => job[j].code \in Codes
    /\ \A r \in job[j].rows : r.count <= alert[r.group].attempts
    /\ job[j].pc = "sent" =>
        /\ job[j].row \in Rows
        /\ job[j].row.count <= alert[job[j].row.group].attempts
        /\ job[j].row.count <= sent[job[j].row.group]

\* The inductive invariant.
ScheduleInv ==
    /\ ScheduleTypeOK /\ NotifiedWasSent
    /\ \A p \in Posts : post[p].status = "SCHEDULED" => post[p].version <= MaxScheduled
    /\ job \in [Jobs -> JobType]
    /\ \A j \in Jobs : JobSound(j)

----------------------------------------------------------------------------
LEMMA JobTyped ==
  ASSUME ScheduleInv, NEW j \in Jobs
  PROVE  /\ job[j] \in JobType /\ JobSound(j)
         /\ job[j].pc \in {"idle", "next", "promoted", "cancel", "record", "alerts", "deliver", "sent"}
         /\ job[j].todo \subseteq Dues /\ job[j].rows \subseteq Rows
  BY DEF ScheduleInv, JobType

\* The clock, the versions of the posts, the attempts and what was received only grow.
Grows ==
    /\ now <= now'
    /\ \A p \in Posts : post'[p] = post[p] \/ post[p].version < post'[p].version
    /\ \A g \in Groups : alert[g].attempts <= alert'[g].attempts /\ sent[g] <= sent'[g]

\* What a job has read stays true while others move.
LEMMA DueStays ==
  ASSUME ScheduleInv, ScheduleTypeOK', Grows, NEW d \in Dues, DueSound(d)
  PROVE  DueSound(d)'
<1>1. d.id \in Posts /\ d.at \in Nat /\ d.version \in Nat
  BY DEF Dues, Times
<1>2. now \in Nat /\ now' \in Nat /\ post[d.id].version \in Nat /\ post'[d.id].version \in Nat
  BY <1>1 DEF ScheduleInv, ScheduleTypeOK
<1>3. CASE post'[d.id] = post[d.id]
  BY <1>1, <1>2, <1>3 DEF Grows, DueSound, Current
<1>4. CASE post[d.id].version < post'[d.id].version
  BY <1>1, <1>2, <1>4 DEF Grows, DueSound, Current
<1> QED BY <1>1, <1>3, <1>4 DEF Grows

LEMMA RowStays ==
  ASSUME ScheduleInv, ScheduleTypeOK', Grows, NEW r \in Rows
  PROVE  /\ r.count <= alert[r.group].attempts => r.count <= alert'[r.group].attempts
         /\ r.count <= sent[r.group] => r.count <= sent'[r.group]
<1>1. r.group \in Groups /\ r.count \in Nat
  BY DEF Rows
<1>2. /\ alert[r.group].attempts \in Nat /\ alert'[r.group].attempts \in Nat
      /\ sent[r.group] \in Nat /\ sent'[r.group] \in Nat
  BY <1>1 DEF ScheduleInv, ScheduleTypeOK
<1> QED BY <1>1, <1>2 DEF Grows

LEMMA JobStays ==
  ASSUME ScheduleInv, ScheduleTypeOK', Grows, NEW k \in Jobs, job'[k] = job[k]
  PROVE  JobSound(k)'
<1>1. JobSound(k) /\ job[k] \in JobType
  BY DEF ScheduleInv
<1>2. \A d \in job[k].todo : d \in Dues /\ DueSound(d)'
  BY <1>1, DueStays DEF JobSound, JobType
<1>3. job[k].pc \in {"promoted", "cancel", "record"} => job[k].due \in Dues /\ DueSound(job[k].due)'
  BY <1>1, DueStays DEF JobSound
<1>4. \A r \in job[k].rows : r \in Rows /\ r.count <= alert'[r.group].attempts
  BY <1>1, RowStays DEF JobSound, JobType
<1>5. job[k].pc = "sent" => /\ job[k].row \in Rows
                           /\ job[k].row.count <= alert'[job[k].row.group].attempts
                           /\ job[k].row.count <= sent'[job[k].row.group]
  BY <1>1, RowStays DEF JobSound
<1> QED BY <1>1, <1>2, <1>3, <1>4, <1>5 DEF JobSound

\* What is left to show of a step of job j: the types, the growth, and what j itself knows.
LEMMA StepOf ==
  ASSUME ScheduleInv, NEW j \in Jobs, ScheduleTypeOK', NotifiedWasSent', Grows,
         \A p \in Posts : post'[p].status = "SCHEDULED" => post'[p].version <= MaxScheduled,
         NEW l \in JobType, job' = [job EXCEPT ![j] = l], JobSound(j)'
  PROVE  ScheduleInv'
<1>1. job' \in [Jobs -> JobType]
  BY DEF ScheduleInv
<1>2. ASSUME NEW k \in Jobs, k # j PROVE JobSound(k)'
  BY <1>2, JobStays DEF ScheduleInv
<1> QED BY <1>1, <1>2 DEF ScheduleInv

\* A post is written: by an administrator, or by a job that read it as it is.
LEMMA WriteTyped ==
  ASSUME ScheduleAssumption, ScheduleInv, NEW p \in Posts, NEW s \in Statuses, NEW a \in Times \cup {NoTime},
         a = NoTime <=> s # "SCHEDULED",
         post[p].version < MaxScheduled \/ (s # "SCHEDULED" /\ post[p].status = "SCHEDULED"),
         Write(p, s, a)
  PROVE  /\ post' \in [Posts -> [status : Statuses, version : 1 .. MaxScheduled + 1, at : Times \cup {NoTime}]]
         /\ \A q \in Posts : post'[q].at = NoTime <=> post'[q].status # "SCHEDULED"
         /\ \A q \in Posts : post'[q].status = "SCHEDULED" => post'[q].version <= MaxScheduled
         /\ \A q \in Posts : post'[q] = post[q] \/ post[q].version < post'[q].version
<1> DEFINE e == [status |-> s, version |-> post[p].version + 1, at |-> a]
<1>1. post \in [Posts -> [status : Statuses, version : 1 .. MaxScheduled + 1, at : Times \cup {NoTime}]]
  BY DEF ScheduleInv, ScheduleTypeOK
<1>2. post' = [post EXCEPT ![p] = e]
  BY <1>1 DEF Write
<1>3. post[p].version \in 1 .. MaxScheduled /\ MaxScheduled \in Nat
  BY <1>1 DEF ScheduleAssumption, ScheduleInv
<1>4. e \in [status : Statuses, version : 1 .. MaxScheduled + 1, at : Times \cup {NoTime}]
  BY <1>3
<1>5. ASSUME NEW q \in Posts
      PROVE  /\ post'[q].at = NoTime <=> post'[q].status # "SCHEDULED"
             /\ post'[q].status = "SCHEDULED" => post'[q].version <= MaxScheduled
             /\ post'[q] = post[q] \/ post[q].version < post'[q].version
  <2>1. CASE q = p
    <3>1. post'[q] = e
      BY <1>1, <1>2, <2>1
    <3>2. e.status = "SCHEDULED" => e.version <= MaxScheduled
      BY <1>3
    <3>3. post[p].version < e.version
      BY <1>3
    <3> QED BY <2>1, <3>1, <3>2, <3>3
  <2>2. CASE q # p
    <3>1. post'[q] = post[q]
      BY <1>1, <1>2, <2>2
    <3> QED BY <3>1 DEF ScheduleInv, ScheduleTypeOK
  <2> QED BY <2>1, <2>2
<1> QED BY <1>1, <1>2, <1>4, <1>5

LEMMA AdminStep == ASSUME ScheduleAssumption, ScheduleInv, Admin PROVE ScheduleInv'
<1>1. UNCHANGED <<now, alert, recent, sent, job, alertLock>>
  BY DEF Admin, Schedule, Unschedule, Edit, PublishNow
<1>2. PICK p \in Posts : \/ \E t \in Times : Schedule(p, t)
                         \/ Unschedule(p) \/ Edit(p) \/ PublishNow(p)
  BY DEF Admin
<1> DEFINE Written(s, a) ==
             (a = NoTime <=> s # "SCHEDULED") /\ post[p].version < MaxScheduled /\ Write(p, s, a)
<1>3. \E s \in Statuses, a \in Times \cup {NoTime} : Written(s, a)
  <2>1. ASSUME NEW t \in Times, Schedule(p, t)
        PROVE  \E s \in Statuses, a \in Times \cup {NoTime} : Written(s, a)
    <3>1. t # NoTime
      BY DEF ScheduleAssumption, Times, NoTime
    <3> QED BY <2>1, <3>1 DEF Schedule, Statuses
  <2>2. CASE Unschedule(p) \/ PublishNow(p)
    BY <2>2 DEF Unschedule, PublishNow, Statuses
  <2>3. CASE Edit(p)
    <3>1. /\ post[p].status \in Statuses /\ post[p].at \in Times \cup {NoTime}
          /\ post[p].at = NoTime <=> post[p].status # "SCHEDULED"
      BY DEF ScheduleInv, ScheduleTypeOK
    <3> QED BY <2>3, <3>1 DEF Edit
  <2> QED BY <1>2, <2>1, <2>2, <2>3
<1>4. /\ post' \in [Posts -> [status : Statuses, version : 1 .. MaxScheduled + 1, at : Times \cup {NoTime}]]
      /\ \A q \in Posts : post'[q].at = NoTime <=> post'[q].status # "SCHEDULED"
      /\ \A q \in Posts : post'[q].status = "SCHEDULED" => post'[q].version <= MaxScheduled
      /\ \A q \in Posts : post'[q] = post[q] \/ post[q].version < post'[q].version
  BY <1>3, WriteTyped
<1>5. ScheduleTypeOK' /\ NotifiedWasSent'
  BY <1>1, <1>4 DEF ScheduleInv, ScheduleTypeOK, NotifiedWasSent
<1>6. Grows
  BY <1>1, <1>4 DEF Grows, ScheduleInv, ScheduleTypeOK
<1>7. \A k \in Jobs : JobSound(k)'
  BY <1>1, <1>5, <1>6, JobStays
<1> QED BY <1>1, <1>4, <1>5, <1>7 DEF ScheduleInv

\* Steps that leave the posts and the alerts alone.
LEMMA QuietGrows ==
  ASSUME ScheduleInv, UNCHANGED <<now, post, alert>>,
         \/ sent' = sent
         \/ \E j \in Jobs : \E r \in job[j].rows :
               sent' = [sent EXCEPT ![r.group] = Larger(sent[r.group], r.count)]
  PROVE  /\ Grows
         /\ \A p \in Posts : post'[p].status = "SCHEDULED" => post'[p].version <= MaxScheduled
         /\ sent' \in [Groups -> 0 .. MaxFailures]
         /\ NotifiedWasSent'
<1>1. sent \in [Groups -> 0 .. MaxFailures] /\ now \in Nat
      /\ alert \in [Groups -> [attempts : 0 .. MaxFailures, notified : 0 .. MaxFailures]]
  BY DEF ScheduleInv, ScheduleTypeOK
<1>2. sent' \in [Groups -> 0 .. MaxFailures] /\ \A g \in Groups : sent[g] <= sent'[g]
  <2>1. CASE sent' = sent
    BY <1>1, <2>1
  <2>2. ASSUME NEW j \in Jobs, NEW r \in job[j].rows, sent' = [sent EXCEPT ![r.group] = Larger(sent[r.group], r.count)]
        PROVE  sent' \in [Groups -> 0 .. MaxFailures] /\ \A g \in Groups : sent[g] <= sent'[g]
    <3>1. r.group \in Groups /\ r.count \in 0 .. MaxFailures
      BY JobTyped DEF Rows
    <3>2. /\ Larger(sent[r.group], r.count) \in 0 .. MaxFailures
          /\ sent[r.group] <= Larger(sent[r.group], r.count)
      BY <1>1, <3>1 DEF Larger
    <3> QED BY <1>1, <2>2, <3>1, <3>2
  <2> QED BY <2>1, <2>2
<1>3. NotifiedWasSent'
  BY <1>1, <1>2 DEF ScheduleInv, NotifiedWasSent
<1>4. \A g \in Groups : alert[g].attempts <= alert'[g].attempts
  BY <1>1
<1> QED BY <1>1, <1>2, <1>3, <1>4 DEF Grows, ScheduleInv

LEMMA ListDueStep == ASSUME ScheduleAssumption, ScheduleInv, NEW j \in Jobs, ListDue(j) PROVE ScheduleInv'
<1> DEFINE due == {[id |-> p, version |-> post[p].version, at |-> post[p].at] :
                     p \in {q \in Posts : post[q].status = "SCHEDULED" /\ post[q].at <= now}}
           l == [job[j] EXCEPT !.pc = "next", !.todo = due]
<1>1. due \subseteq Dues /\ \A d \in due : DueSound(d)
  <2>1. ASSUME NEW p \in Posts, post[p].status = "SCHEDULED", post[p].at <= now
        PROVE  /\ [id |-> p, version |-> post[p].version, at |-> post[p].at] \in Dues
               /\ DueSound([id |-> p, version |-> post[p].version, at |-> post[p].at])
    <3>1. post[p].version \in 1 .. MaxScheduled + 1 /\ post[p].at \in Times
      BY <2>1 DEF ScheduleInv, ScheduleTypeOK
    <3> QED BY <2>1, <3>1 DEF Dues, DueSound, Current
  <2> QED BY <2>1
<1>2. UNCHANGED <<now, post, alert, recent, sent, alertLock>> /\ job[j].pc = "idle"
  BY DEF ListDue
<1>3. l \in JobType /\ job' = [job EXCEPT ![j] = l] /\ job'[j] = l
  <2>1. l \in JobType
    BY <1>1, JobTyped DEF JobType
  <2> QED BY <2>1 DEF ListDue, ScheduleInv
<1>4. ScheduleTypeOK'
  <2>1. \A k \in Jobs : job'[k].pc \in {"deliver", "sent"} <=> job[k].pc \in {"deliver", "sent"}
    BY <1>2, <1>3 DEF ScheduleInv
  <2> QED BY <1>2, <2>1 DEF ScheduleInv, ScheduleTypeOK
<1>5. JobSound(j)'
  <2> HIDE DEF due
  <2>1. l.todo = due /\ l.pc = "next" /\ l.rows = job[j].rows
    BY JobTyped DEF JobType
  <2> HIDE DEF l
  <2>2. job'[j].todo = due /\ job'[j].pc = "next" /\ job'[j].rows = job[j].rows
    BY <1>3, <2>1
  <2> QED BY <1>1, <1>2, <1>3, <2>2, JobTyped DEF JobSound, DueSound, Current
<1> QED BY <1>2, <1>3, <1>4, <1>5, QuietGrows, StepOf

LEMMA TakeDueStep ==
  ASSUME ScheduleAssumption, ScheduleInv, NEW j \in Jobs, NEW d \in job[j].todo, TakeDue(j, d)
  PROVE  ScheduleInv'
<1> DEFINE pc == IF Current(d) THEN "promoted" ELSE "next"
           l == [job[j] EXCEPT !.pc = pc, !.todo = job[j].todo \ {d}, !.due = d]
<1>1. d \in Dues /\ DueSound(d) /\ job[j] \in JobType /\ JobSound(j)
  BY JobTyped DEF JobSound
<1>2. UNCHANGED <<now, post, alert, recent, sent, alertLock>> /\ job[j].pc = "next"
  BY DEF TakeDue
<1>3. pc \in {"promoted", "next"}
  OBVIOUS
<1>4. job' = [job EXCEPT ![j] = l]
  BY DEF TakeDue, ScheduleInv
<1> HIDE DEF pc
<1>5. l \in JobType /\ job' = [job EXCEPT ![j] = l] /\ job'[j] = l
  BY <1>1, <1>3, <1>4 DEF JobType, ScheduleInv
<1>6. /\ job'[j].todo \subseteq job[j].todo /\ job'[j].due = d /\ job'[j].rows = job[j].rows
      /\ job'[j].pc \in {"promoted", "next"}
  <2>1. l.todo = job[j].todo \ {d} /\ l.due = d /\ l.rows = job[j].rows /\ l.pc = pc
    BY <1>1 DEF JobType
  <2>2. l.todo \subseteq job[j].todo
    BY <2>1
  <2> HIDE DEF l
  <2> QED BY <1>5, <1>3, <2>1, <2>2
<1>7. ScheduleTypeOK'
  <2>1. \A k \in Jobs : job'[k].pc \in {"deliver", "sent"} <=> job[k].pc \in {"deliver", "sent"}
    BY <1>2, <1>5, <1>6 DEF ScheduleInv
  <2> QED BY <1>2, <2>1 DEF ScheduleInv, ScheduleTypeOK
<1>8. JobSound(j)'
  BY <1>1, <1>2, <1>5, <1>6 DEF JobSound, DueSound, Current
<1> QED BY <1>2, <1>5, <1>7, <1>8, QuietGrows, StepOf

\* A job's attempt at a due post ends, and writes the post if it is as it was read.
LEMMA ActStep ==
  ASSUME ScheduleAssumption, ScheduleInv, NEW j \in Jobs, job[j].pc \in {"promoted", "cancel"},
         NEW pc \in {"next", "record"}, pc = "record" => job[j].code \in Codes,
         To(j, pc), NEW s \in {"PUBLISHED", "DRAFT"},
         IF Current(job[j].due) THEN Write(job[j].due.id, s, NoTime) ELSE UNCHANGED post,
         UNCHANGED <<now, alert, recent, sent, alertLock>>
  PROVE  ScheduleInv'
<1> DEFINE d == job[j].due
           l == [job[j] EXCEPT !.pc = pc]
<1>1. job[j] \in JobType /\ JobSound(j) /\ d \in Dues /\ DueSound(d) /\ d.id \in Posts
  BY JobTyped DEF JobSound, Dues
<1>2. l \in JobType /\ job' = [job EXCEPT ![j] = l] /\ job'[j] = l
  BY <1>1 DEF To, ScheduleInv, JobType
<1>3. /\ post' \in [Posts -> [status : Statuses, version : 1 .. MaxScheduled + 1, at : Times \cup {NoTime}]]
      /\ \A q \in Posts : post'[q].at = NoTime <=> post'[q].status # "SCHEDULED"
      /\ \A q \in Posts : post'[q].status = "SCHEDULED" => post'[q].version <= MaxScheduled
      /\ \A q \in Posts : post'[q] = post[q] \/ post[q].version < post'[q].version
  <2>1. CASE Current(d)
    BY <1>1, <2>1, WriteTyped DEF Current, Statuses
  <2>2. CASE ~Current(d)
    BY <2>2 DEF ScheduleInv, ScheduleTypeOK
  <2> QED BY <2>1, <2>2
<1>4. ScheduleTypeOK' /\ NotifiedWasSent'
  <2>1. \A k \in Jobs : job'[k].pc \in {"deliver", "sent"} <=> job[k].pc \in {"deliver", "sent"}
    BY <1>1, <1>2 DEF ScheduleInv, JobType
  <2> QED BY <1>3, <2>1 DEF ScheduleInv, ScheduleTypeOK, NotifiedWasSent
<1>5. Grows
  BY <1>3 DEF Grows, ScheduleInv, ScheduleTypeOK
<1>6. JobSound(j)'
  <2>1. /\ job'[j].pc = pc /\ job'[j].todo = job[j].todo /\ job'[j].due = d /\ job'[j].rows = job[j].rows
        /\ job'[j].code = job[j].code
    BY <1>1, <1>2 DEF JobType
  <2>2. \A e \in Dues : DueSound(e) => DueSound(e)'
    BY <1>4, <1>5, DueStays
  <2>3. \A e \in job[j].todo : e \in Dues /\ DueSound(e)'
    BY <1>1, <2>2 DEF JobType, JobSound
  <2>4. \A e \in Dues : e = job'[j].due => DueSound(e)'
    BY <1>1, <2>1, <2>2
  <2>5. \A r \in job[j].rows : r.count <= alert'[r.group].attempts
    BY <1>1 DEF JobSound
  <2>6. job'[j].due \in Dues /\ DueSound(job[j].due)'
    BY <1>1, <2>1, <2>4
  <2> QED BY <1>1, <1>2, <2>1, <2>3, <2>5, <2>6 DEF JobSound
<1> QED BY <1>2, <1>3, <1>4, <1>5, <1>6, StepOf

LEMMA DueFailsStep ==
  ASSUME ScheduleAssumption, ScheduleInv, NEW j \in Jobs, NEW c \in Codes, DueFails(j, c)
  PROVE  ScheduleInv'
<1> DEFINE pc == IF c = "PINNED_ORDER_CONFLICT" THEN "cancel" ELSE "record"
           l == [job[j] EXCEPT !.pc = pc, !.code = c]
<1>1. job[j] \in JobType /\ JobSound(j) /\ job[j].pc = "promoted"
  BY JobTyped DEF DueFails
<1>2. UNCHANGED <<now, post, alert, recent, sent, alertLock>>
  BY DEF DueFails
<1>3. pc \in {"cancel", "record"}
  OBVIOUS
<1>4. job' = [job EXCEPT ![j] = l]
  BY DEF DueFails, ScheduleInv
<1> HIDE DEF pc
<1>5. l \in JobType /\ job'[j] = l
  BY <1>1, <1>3, <1>4 DEF JobType, ScheduleInv
<1>6. /\ job'[j].pc = pc /\ job'[j].todo = job[j].todo /\ job'[j].due = job[j].due
      /\ job'[j].rows = job[j].rows /\ job'[j].code = c
  BY <1>1, <1>5 DEF JobType
<1>7. ScheduleTypeOK'
  <2>1. \A k \in Jobs : job'[k].pc \in {"deliver", "sent"} <=> job[k].pc \in {"deliver", "sent"}
    BY <1>1, <1>3, <1>4, <1>6 DEF ScheduleInv
  <2> QED BY <1>2, <2>1 DEF ScheduleInv, ScheduleTypeOK
<1>8. JobSound(j)'
  BY <1>1, <1>2, <1>3, <1>5, <1>6 DEF JobSound, DueSound, Current
<1> QED BY <1>2, <1>4, <1>5, <1>7, <1>8, QuietGrows, StepOf

LEMMA RecordFailureStep ==
  ASSUME ScheduleAssumption, ScheduleInv, NEW j \in Jobs, RecordFailure(j)
  PROVE  ScheduleInv'
<1> DEFINE g == <<job[j].due.id, job[j].due.at, job[j].code>>
           l == [job[j] EXCEPT !.pc = "next"]
<1>1. job[j] \in JobType /\ JobSound(j) /\ job[j].pc = "record" /\ g \in Groups
  BY JobTyped DEF RecordFailure, JobSound, Dues, Groups
<1>2. UNCHANGED <<now, post, recent, sent, alertLock>>
  BY DEF RecordFailure
<1>3. l \in JobType /\ job' = [job EXCEPT ![j] = l] /\ job'[j] = l
  BY <1>1 DEF RecordFailure, To, JobType, ScheduleInv
<1>4. /\ alert' \in [Groups -> [attempts : 0 .. MaxFailures, notified : 0 .. MaxFailures]]
      /\ \A h \in Groups : alert[h].attempts <= alert'[h].attempts /\ alert'[h].notified = alert[h].notified
  <2>1. alert \in [Groups -> [attempts : 0 .. MaxFailures, notified : 0 .. MaxFailures]]
    BY DEF ScheduleInv, ScheduleTypeOK
  <2>2. alert[g].attempts + 1 \in 0 .. MaxFailures /\ alert[g].attempts \in Nat
    BY <1>1, <2>1 DEF RecordFailure, ScheduleAssumption
  <2>3. alert' = [alert EXCEPT ![g] = [alert[g] EXCEPT !.attempts = alert[g].attempts + 1]]
    BY <1>1, <2>1 DEF RecordFailure
  <2>4. /\ [alert[g] EXCEPT !.attempts = alert[g].attempts + 1] \in [attempts : 0 .. MaxFailures, notified : 0 .. MaxFailures]
        /\ [alert[g] EXCEPT !.attempts = alert[g].attempts + 1].notified = alert[g].notified
        /\ [alert[g] EXCEPT !.attempts = alert[g].attempts + 1].attempts >= alert[g].attempts
    BY <1>1, <2>1, <2>2
  <2>5. ASSUME NEW h \in Groups
        PROVE  /\ alert'[h] \in [attempts : 0 .. MaxFailures, notified : 0 .. MaxFailures]
               /\ alert[h].attempts <= alert'[h].attempts /\ alert'[h].notified = alert[h].notified
    <3>1. CASE h = g
      BY <1>1, <2>1, <2>2, <2>3, <2>4, <3>1
    <3>2. CASE h # g
      BY <1>1, <2>1, <2>3, <3>2
    <3> QED BY <3>1, <3>2
  <2> QED BY <1>1, <2>1, <2>3, <2>5
<1>5. Grows
  BY <1>2, <1>4 DEF Grows, ScheduleInv, ScheduleTypeOK
<1>6. \A p \in Posts : post'[p].status = "SCHEDULED" => post'[p].version <= MaxScheduled
  BY <1>2 DEF ScheduleInv
<1>7. ScheduleTypeOK' /\ NotifiedWasSent'
  <2>1. \A k \in Jobs : job'[k].pc \in {"deliver", "sent"} <=> job[k].pc \in {"deliver", "sent"}
    BY <1>1, <1>3 DEF ScheduleInv, JobType
  <2>2. \A h \in Groups : alert'[h].notified <= alert'[h].attempts
    <3>1. \A h \in Groups : alert[h].notified <= alert[h].attempts
      BY DEF ScheduleInv, ScheduleTypeOK
    <3> QED BY <1>4, <3>1 DEF ScheduleInv, ScheduleTypeOK
  <2> QED BY <1>2, <1>4, <2>1, <2>2 DEF ScheduleInv, ScheduleTypeOK, NotifiedWasSent
<1>8. JobSound(j)'
  <2>1. /\ job'[j].pc = "next" /\ job'[j].todo = job[j].todo /\ job'[j].rows = job[j].rows
    BY <1>1, <1>3 DEF JobType
  <2>2. \A e \in job[j].todo : DueSound(e)'
    BY <1>1, <1>5, <1>7, DueStays DEF JobSound, JobType
  <2>3. \A r \in job[j].rows : r.count <= alert'[r.group].attempts
    BY <1>1, <1>5, <1>7, RowStays DEF JobSound, JobType
  <2> QED BY <1>3, <2>1, <2>2, <2>3 DEF JobSound
<1> QED BY <1>3, <1>5, <1>6, <1>7, <1>8, StepOf

LEMMA DueEndsStep == ASSUME ScheduleAssumption, ScheduleInv, NEW j \in Jobs, DueEnds(j) PROVE ScheduleInv'
<1> DEFINE l == [Idle EXCEPT !.pc = "alerts"]
<1>1. job[j] \in JobType /\ job[j].pc \in {"next", "cancel", "record"}
  BY JobTyped DEF DueEnds
<1>2. UNCHANGED <<now, post, alert, recent, sent, alertLock>>
  BY DEF DueEnds
<1>3. l \in JobType /\ l.pc = "alerts" /\ l.todo = {} /\ l.rows = {}
  BY DEF Idle, JobType
<1>4. job' = [job EXCEPT ![j] = l] /\ job'[j] = l
  BY DEF DueEnds, ScheduleInv
<1> HIDE DEF l
<1>5. ScheduleTypeOK'
  <2>1. \A k \in Jobs : job'[k].pc \in {"deliver", "sent"} <=> job[k].pc \in {"deliver", "sent"}
    BY <1>1, <1>3, <1>4 DEF ScheduleInv
  <2> QED BY <1>2, <2>1 DEF ScheduleInv, ScheduleTypeOK
<1>6. JobSound(j)'
  BY <1>3, <1>4 DEF JobSound
<1> QED BY <1>2, <1>3, <1>4, <1>5, <1>6, QuietGrows, StepOf

LEMMA StartDeliverStep ==
  ASSUME ScheduleAssumption, ScheduleInv, NEW j \in Jobs, StartDeliver(j)
  PROVE  ScheduleInv'
<1>1. job[j] \in JobType /\ job[j].pc = "alerts" /\ JobSound(j) /\ job \in [Jobs -> JobType]
  BY JobTyped DEF StartDeliver, ScheduleInv
<1>2. UNCHANGED <<now, post, alert, recent, sent>>
  BY DEF StartDeliver
<1>3. /\ alert \in [Groups -> [attempts : 0 .. MaxFailures, notified : 0 .. MaxFailures]]
      /\ alertLock \in Jobs \cup {Nobody} /\ Nobody \notin Jobs
      /\ \A k \in Jobs : job[k].pc \in {"deliver", "sent"} <=> alertLock = k
  BY DEF ScheduleInv, ScheduleTypeOK, ScheduleAssumption
<1>4. CASE alertLock = Nobody
  <2> DEFINE rows == {[group |-> g, count |-> alert[g].attempts] : g \in {h \in Groups : Pending(h)}}
             l == [job[j] EXCEPT !.pc = "deliver", !.rows = rows]
  <2>1. alertLock' = j /\ job' = [job EXCEPT ![j] = l]
    BY <1>1, <1>4 DEF StartDeliver
  <2>2. rows \subseteq Rows /\ \A r \in rows : r.count <= alert[r.group].attempts
    BY <1>3 DEF Rows
  <2> HIDE DEF rows
  <2>3. l \in JobType /\ l.pc = "deliver" /\ l.rows = rows /\ l.todo = job[j].todo
    BY <1>1, <2>2 DEF JobType
  <2> HIDE DEF l
  <2>4. job'[j] = l
    BY <1>1, <2>1
  <2>5. ScheduleTypeOK'
    <3>1. \A k \in Jobs : job'[k].pc \in {"deliver", "sent"} <=> alertLock' = k
      BY <1>1, <1>3, <1>4, <2>1, <2>3, <2>4
    <3> QED BY <1>2, <2>1, <3>1 DEF ScheduleInv, ScheduleTypeOK
  <2>6. JobSound(j)'
    <3>1. \A d \in job[j].todo : DueSound(d)'
      BY <1>1, <1>2 DEF JobSound, DueSound, Current
    <3> QED BY <1>2, <2>2, <2>3, <2>4, <3>1 DEF JobSound
  <2> QED BY <1>2, <2>1, <2>3, <2>5, <2>6, QuietGrows, StepOf
<1>5. CASE alertLock # Nobody
  <2>1. alertLock' = alertLock /\ job' = [job EXCEPT ![j] = Idle] /\ job'[j] = Idle
    BY <1>1, <1>5 DEF StartDeliver
  <2>2. Idle \in JobType /\ Idle.pc = "idle" /\ Idle.todo = {} /\ Idle.rows = {}
    BY DEF Idle, JobType
  <2>3. ScheduleTypeOK'
    <3>1. \A k \in Jobs : job'[k].pc \in {"deliver", "sent"} <=> job[k].pc \in {"deliver", "sent"}
      BY <1>1, <2>1, <2>2
    <3> QED BY <1>2, <2>1, <3>1 DEF ScheduleInv, ScheduleTypeOK
  <2>4. JobSound(j)'
    BY <2>1, <2>2 DEF JobSound
  <2> QED BY <1>2, <2>1, <2>2, <2>3, <2>4, QuietGrows, StepOf
<1> QED BY <1>4, <1>5

LEMMA SendStep ==
  ASSUME ScheduleAssumption, ScheduleInv, NEW j \in Jobs, NEW r \in job[j].rows, Send(j, r)
  PROVE  ScheduleInv'
<1> DEFINE l == [job[j] EXCEPT !.pc = "sent", !.rows = job[j].rows \ {r}, !.row = r]
<1>1. job[j] \in JobType /\ job[j].pc = "deliver" /\ JobSound(j) /\ r \in Rows /\ job \in [Jobs -> JobType]
  BY JobTyped DEF Send, ScheduleInv
<1>2. UNCHANGED <<now, post, alert, recent, alertLock>>
      /\ sent' = [sent EXCEPT ![r.group] = Larger(sent[r.group], r.count)]
  BY DEF Send
<1>3. job' = [job EXCEPT ![j] = l] /\ job'[j] = l
  BY <1>1 DEF Send
<1>4. l.pc = "sent" /\ l.rows = job[j].rows \ {r} /\ l.row = r /\ l.todo = job[j].todo
  BY <1>1 DEF JobType
<1>5. l \in JobType
  BY <1>1 DEF JobType
<1> HIDE DEF l
<1>6. l.rows \subseteq job[j].rows
  BY <1>4
<1>7. /\ Grows /\ sent' \in [Groups -> 0 .. MaxFailures] /\ NotifiedWasSent'
      /\ \A p \in Posts : post'[p].status = "SCHEDULED" => post'[p].version <= MaxScheduled
  BY <1>2, QuietGrows
<1>8. ScheduleTypeOK'
  <2>1. \A k \in Jobs : job'[k].pc \in {"deliver", "sent"} <=> job[k].pc \in {"deliver", "sent"}
    BY <1>1, <1>3, <1>4
  <2> QED BY <1>2, <1>7, <2>1 DEF ScheduleInv, ScheduleTypeOK
<1>9. JobSound(j)'
  <2>1. \A d \in job[j].todo : DueSound(d)'
    BY <1>1, <1>2 DEF JobSound, DueSound, Current
  <2>2. r.count <= sent'[r.group]
    <3>1. r.group \in Groups /\ r.count \in Nat /\ sent[r.group] \in Nat
      BY <1>1 DEF Rows, ScheduleInv, ScheduleTypeOK
    <3> QED BY <1>2, <3>1 DEF Larger, ScheduleInv, ScheduleTypeOK
  <2>3. \A s \in job[j].rows : s.count <= alert'[s.group].attempts
    BY <1>1, <1>2 DEF JobSound
  <2> QED BY <1>1, <1>3, <1>4, <1>5, <1>6, <2>1, <2>2, <2>3 DEF JobSound
<1> QED BY <1>3, <1>5, <1>7, <1>8, <1>9, StepOf

LEMMA SendFailsStep ==
  ASSUME ScheduleAssumption, ScheduleInv, NEW j \in Jobs, NEW r \in job[j].rows, SendFails(j, r)
  PROVE  ScheduleInv'
<1> DEFINE l == [job[j] EXCEPT !.rows = job[j].rows \ {r}]
<1>1. job[j] \in JobType /\ job[j].pc = "deliver" /\ JobSound(j) /\ job \in [Jobs -> JobType]
  BY JobTyped DEF SendFails, ScheduleInv
<1>2. UNCHANGED <<now, post, alert, recent, alertLock>>
      /\ sent' \in {sent, [sent EXCEPT ![r.group] = Larger(sent[r.group], r.count)]}
  BY DEF SendFails
<1>3. job' = [job EXCEPT ![j] = l] /\ job'[j] = l
  BY <1>1 DEF SendFails
<1>4. l.pc = "deliver" /\ l.rows = job[j].rows \ {r} /\ l.todo = job[j].todo
  BY <1>1 DEF JobType
<1>5. l \in JobType
  BY <1>1 DEF JobType
<1> HIDE DEF l
<1>6. l.rows \subseteq job[j].rows
  BY <1>4
<1>7. /\ Grows /\ sent' \in [Groups -> 0 .. MaxFailures] /\ NotifiedWasSent'
      /\ \A p \in Posts : post'[p].status = "SCHEDULED" => post'[p].version <= MaxScheduled
  BY <1>2, QuietGrows
<1>8. ScheduleTypeOK'
  <2>1. \A k \in Jobs : job'[k].pc \in {"deliver", "sent"} <=> job[k].pc \in {"deliver", "sent"}
    BY <1>1, <1>3, <1>4
  <2> QED BY <1>2, <1>7, <2>1 DEF ScheduleInv, ScheduleTypeOK
<1>9. JobSound(j)'
  <2>1. \A d \in job[j].todo : DueSound(d)'
    BY <1>1, <1>2 DEF JobSound, DueSound, Current
  <2>2. \A s \in job[j].rows : s.count <= alert'[s.group].attempts
    BY <1>1, <1>2 DEF JobSound
  <2> QED BY <1>1, <1>3, <1>4, <1>5, <1>6, <2>1, <2>2 DEF JobSound
<1> QED BY <1>3, <1>5, <1>7, <1>8, <1>9, StepOf

LEMMA DeliveredStep ==
  ASSUME ScheduleAssumption, ScheduleInv, NEW j \in Jobs, Delivered(j)
  PROVE  ScheduleInv'
<1> DEFINE r == job[j].row
           l == [job[j] EXCEPT !.pc = "deliver", !.row = NoRow]
<1>1. /\ job[j] \in JobType /\ job[j].pc = "sent" /\ JobSound(j) /\ job \in [Jobs -> JobType]
      /\ r \in Rows /\ r.count <= alert[r.group].attempts /\ r.count <= sent[r.group]
  BY JobTyped DEF Delivered, ScheduleInv, JobSound
<1>2. UNCHANGED <<now, post, sent, alertLock>> /\ recent' = recent \cup {r.group}
      /\ alert' = [alert EXCEPT ![r.group].notified = r.count]
  BY DEF Delivered
<1>3. job' = [job EXCEPT ![j] = l] /\ job'[j] = l
  BY <1>1 DEF Delivered
<1>4. l.pc = "deliver" /\ l.rows = job[j].rows /\ l.todo = job[j].todo
  BY <1>1 DEF JobType
<1>5. l \in JobType
  BY <1>1 DEF JobType
<1> HIDE DEF l
<1>6. r.group \in Groups /\ r.count \in 0 .. MaxFailures
  BY <1>1 DEF Rows
<1>7. alert \in [Groups -> [attempts : 0 .. MaxFailures, notified : 0 .. MaxFailures]]
  BY DEF ScheduleInv, ScheduleTypeOK
<1>8. ASSUME NEW g \in Groups
      PROVE  /\ alert'[g] \in [attempts : 0 .. MaxFailures, notified : 0 .. MaxFailures]
             /\ alert'[g].attempts = alert[g].attempts
             /\ alert'[g].notified <= alert'[g].attempts
             /\ alert'[g].notified <= sent'[g]
  <2>1. alert[g].notified <= alert[g].attempts /\ alert[g].notified <= sent[g]
    BY DEF ScheduleInv, ScheduleTypeOK, NotifiedWasSent
  <2>2. CASE g = r.group
    <3>1. alert'[g] = [alert[g] EXCEPT !.notified = r.count]
      BY <1>2, <1>7, <2>2
    <3> QED BY <1>1, <1>2, <1>6, <1>7, <2>2, <3>1
  <2>3. CASE g # r.group
    <3>1. alert'[g] = alert[g]
      BY <1>2, <1>7, <2>3
    <3> QED BY <1>2, <1>7, <2>1, <3>1
  <2> QED BY <2>2, <2>3
<1>9. alert' \in [Groups -> [attempts : 0 .. MaxFailures, notified : 0 .. MaxFailures]]
  <2>1. alert' = [g \in Groups |-> alert'[g]]
    BY <1>2, <1>7
  <2> QED BY <1>8, <2>1
<1>10. ScheduleTypeOK' /\ NotifiedWasSent'
  <2>1. \A k \in Jobs : job'[k].pc \in {"deliver", "sent"} <=> job[k].pc \in {"deliver", "sent"}
    BY <1>1, <1>3, <1>4
  <2>2. recent' \subseteq Groups
    BY <1>2, <1>6 DEF ScheduleInv, ScheduleTypeOK
  <2> QED BY <1>2, <1>8, <1>9, <2>1, <2>2 DEF ScheduleInv, ScheduleTypeOK, NotifiedWasSent
<1>11. Grows
  <2>1. \A g \in Groups : alert[g].attempts <= alert'[g].attempts
    BY <1>7, <1>8
  <2> QED BY <1>2, <2>1 DEF Grows, ScheduleInv, ScheduleTypeOK
<1>12. JobSound(j)'
  <2>1. \A d \in job[j].todo : DueSound(d)'
    BY <1>1, <1>2 DEF JobSound, DueSound, Current
  <2>2. \A s \in job[j].rows : s \in Rows /\ s.count <= alert'[s.group].attempts
    BY <1>1, <1>8 DEF JobSound, JobType, Rows
  <2> QED BY <1>1, <1>3, <1>4, <1>5, <2>1, <2>2 DEF JobSound
<1>13. \A p \in Posts : post'[p].status = "SCHEDULED" => post'[p].version <= MaxScheduled
  BY <1>2 DEF ScheduleInv
<1> QED BY <1>3, <1>5, <1>10, <1>11, <1>12, <1>13, StepOf

\* A job stops, and if it held the lock, the lock is free.
LEMMA StopStep ==
  ASSUME ScheduleAssumption, ScheduleInv, NEW j \in Jobs,
         job' = [job EXCEPT ![j] = Idle], alertLock' = IF alertLock = j THEN Nobody ELSE alertLock,
         UNCHANGED <<now, post, alert, recent, sent>>
  PROVE  ScheduleInv'
<1>1. Idle \in JobType /\ Idle.pc = "idle" /\ Idle.todo = {} /\ Idle.rows = {}
  BY DEF Idle, JobType
<1>2. job'[j] = Idle /\ \A k \in Jobs : k # j => job'[k] = job[k]
  BY DEF ScheduleInv
<1>3. ScheduleTypeOK'
  <2>1. /\ alertLock \in Jobs \cup {Nobody} /\ Nobody \notin Jobs
        /\ \A k \in Jobs : job[k].pc \in {"deliver", "sent"} <=> alertLock = k
    BY DEF ScheduleInv, ScheduleTypeOK, ScheduleAssumption
  <2>2. alertLock' \in Jobs \cup {Nobody} /\ \A k \in Jobs : job'[k].pc \in {"deliver", "sent"} <=> alertLock' = k
    BY <1>1, <1>2, <2>1
  <2> QED BY <2>2 DEF ScheduleInv, ScheduleTypeOK
<1>4. JobSound(j)'
  BY <1>1, <1>2 DEF JobSound
<1> QED BY <1>1, <1>3, <1>4, QuietGrows, StepOf

\* Time goes by.
LEMMA TimeStep ==
  ASSUME ScheduleAssumption, ScheduleInv, Tick \/ \E g \in recent : QuarterPasses(g)
  PROVE  ScheduleInv'
<1>1. UNCHANGED <<post, alert, sent, job, alertLock>> /\ recent' \subseteq recent
      /\ now' \in 0 .. MaxTime /\ now <= now'
  BY DEF Tick, QuarterPasses, ScheduleInv, ScheduleTypeOK, ScheduleAssumption
<1>2. ScheduleTypeOK' /\ NotifiedWasSent'
  BY <1>1 DEF ScheduleInv, ScheduleTypeOK, NotifiedWasSent
<1>3. Grows
  BY <1>1 DEF Grows, ScheduleInv, ScheduleTypeOK
<1>4. \A k \in Jobs : JobSound(k)'
  BY <1>1, <1>2, <1>3, JobStays
<1> QED BY <1>1, <1>2, <1>4 DEF ScheduleInv

----------------------------------------------------------------------------
LEMMA ScheduleBegins == ASSUME ScheduleAssumption, ScheduleInit PROVE ScheduleInv
<1>1. /\ now = 0 /\ recent = {} /\ alertLock = Nobody
      /\ post = [p \in Posts |-> [status |-> "DRAFT", version |-> 1, at |-> NoTime]]
      /\ alert = [g \in Groups |-> [attempts |-> 0, notified |-> 0]]
      /\ sent = [g \in Groups |-> 0] /\ job = [j \in Jobs |-> Idle]
  BY DEF ScheduleInit
<1>2. Idle \in JobType /\ Idle.pc = "idle" /\ Idle.todo = {} /\ Idle.rows = {}
  BY DEF Idle, JobType
<1>3. \A p \in Posts : post[p] = [status |-> "DRAFT", version |-> 1, at |-> NoTime]
  BY <1>1
<1>4. post \in [Posts -> [status : Statuses, version : 1 .. MaxScheduled + 1, at : Times \cup {NoTime}]]
  BY <1>1 DEF ScheduleAssumption, Statuses
<1>5. alert \in [Groups -> [attempts : 0 .. MaxFailures, notified : 0 .. MaxFailures]]
      /\ sent \in [Groups -> 0 .. MaxFailures]
      /\ \A g \in Groups : alert[g].notified <= alert[g].attempts /\ alert[g].notified <= sent[g]
  BY <1>1 DEF ScheduleAssumption
<1>6. job \in [Jobs -> JobType] /\ \A j \in Jobs : job[j] = Idle
  BY <1>1, <1>2
<1>7. now \in 0 .. MaxTime /\ Nobody \notin Jobs
  BY <1>1 DEF ScheduleAssumption
<1>8. ScheduleTypeOK /\ NotifiedWasSent
  BY <1>1, <1>2, <1>3, <1>4, <1>5, <1>6, <1>7 DEF ScheduleTypeOK, NotifiedWasSent
<1>9. \A j \in Jobs : JobSound(j)
  BY <1>2, <1>6 DEF JobSound
<1> QED BY <1>3, <1>6, <1>8, <1>9 DEF ScheduleInv

LEMMA JobWorkStep ==
  ASSUME ScheduleAssumption, ScheduleInv, NEW j \in Jobs, JobWork(j) \/ JobDies(j)
  PROVE  ScheduleInv'
<1>1. CASE CommitDue(j)
  BY <1>1, ActStep DEF CommitDue
<1>2. CASE CancelConflicted(j)
  <2>1. job[j].code \in Codes
    BY <1>2, JobTyped DEF CancelConflicted, JobSound
  <2> QED BY <1>2, <2>1, ActStep DEF CancelConflicted
<1>3. CASE DeliverEnds(j)
  <2>1. alertLock = j
    BY <1>3 DEF DeliverEnds, ScheduleInv, ScheduleTypeOK
  <2> QED BY <1>3, <2>1, StopStep DEF DeliverEnds
<1>4. CASE JobDies(j)
  BY <1>4, StopStep DEF JobDies
<1> QED BY <1>1, <1>2, <1>3, <1>4, ListDueStep, TakeDueStep, DueFailsStep, RecordFailureStep, DueEndsStep,
           StartDeliverStep, SendStep, SendFailsStep, DeliveredStep DEF JobWork

LEMMA ScheduleGoesOn == ASSUME ScheduleAssumption, ScheduleInv, [ScheduleNext]_scheduleVars PROVE ScheduleInv'
<1>1. CASE UNCHANGED scheduleVars
  <2>1. ScheduleTypeOK' /\ NotifiedWasSent'
    BY <1>1 DEF scheduleVars, ScheduleInv, ScheduleTypeOK, NotifiedWasSent
  <2>2. Grows
    BY <1>1 DEF scheduleVars, Grows, ScheduleInv, ScheduleTypeOK
  <2> QED BY <1>1, <2>1, <2>2, JobStays DEF scheduleVars, ScheduleInv
<1> QED BY <1>1, AdminStep, JobWorkStep, TimeStep DEF ScheduleNext

\* A job writes a post only under the schedule it has read, whose moment has come.
LEMMA JobsActOnDuePosts ==
  ASSUME ScheduleInv, [ScheduleNext]_scheduleVars, NEW p \in Posts, post[p].status = "SCHEDULED", post'[p] # post[p], job' # job
  PROVE  post[p].at <= now
<1>1. PICK j \in Jobs : /\ job[j].pc \in {"promoted", "cancel"}
                        /\ Current(job[j].due)
                        /\ \E s \in Statuses : Write(job[j].due.id, s, NoTime)
  BY DEF ScheduleNext, scheduleVars, Admin, Schedule, Unschedule, Edit, PublishNow, JobWork, ListDue,
     CommitDue,
         CancelConflicted, RecordFailure, DueEnds, TakeDue, DueFails, StartDeliver, Delivered, DeliverEnds,
         Send, SendFails, JobDies, Tick, QuarterPasses, Statuses
<1> DEFINE d == job[j].due
<1>2. d \in Dues /\ DueSound(d)
  BY <1>1, JobTyped DEF JobSound
<1>3. d.id = p
  <2>1. \A q \in Posts : q # d.id => post'[q] = post[q]
    BY <1>1 DEF Write, ScheduleInv, ScheduleTypeOK
  <2> QED BY <2>1
<1>4. post[p].at = d.at /\ d.at <= now
  BY <1>1, <1>2, <1>3 DEF DueSound
<1> QED BY <1>4

(***************************************************************************)
(* posts:publish-due acts on the schedule it read and on no later one, and *)
(* what schedule_failure_alert calls notified has been received.           *)
(***************************************************************************)
THEOREM ScheduleIsSound == ASSUME ScheduleAssumption PROVE ScheduleSpec => ScheduleSound
<1>1. ScheduleInit => ScheduleInv
  BY ScheduleBegins
<1>2. ScheduleInv /\ [ScheduleNext]_scheduleVars => ScheduleInv'
  BY ScheduleGoesOn
<1>3. ScheduleInv => ScheduleTypeOK /\ NotifiedWasSent
  BY DEF ScheduleInv
<1>4. ScheduleInv /\ [ScheduleNext]_scheduleVars =>
        [\A p \in Posts :
           post[p].status = "SCHEDULED" /\ post'[p] # post[p] /\ job' # job => post[p].at <= now]_scheduleVars
  BY JobsActOnDuePosts
<1> QED BY <1>1, <1>2, <1>3, <1>4, PTL DEF ScheduleSpec, ScheduleSound, NewScheduleStands

----------------------------------------------------------------------------
(* The commands: what was done for a key, and what the pages know of it *)

\* The local states of a page and of a try, and the body of a command.
PageType    == [pc : {"idle", "waiting", "uncertain", "reading"}, key : Keys \cup {None},
                slot : Slots \cup {None}, base : 1 .. MaxVersion,
                recovering : BOOLEAN, confirmed : BOOLEAN, done : BOOLEAN]
TryType     == [pc : {"free", "net", "begun", "end", "answer"}, answer : Answers \cup {""}]
CommandType == [of : Editors \cup {None}, version : 0 .. MaxVersion]

\* Something was done for the key, or may still be.
Live(k) == effects[k] > 0 \/ \E s \in Slots : try[<<k, s>>].pc \in {"net", "begun"}

\* What becomes of the key is certain, if its page takes a rejection for the outcome.
Certain(k) == k \notin doubtful \cup forgotten

Used(k) == command[k] # Unused

\* A key is carried out once for each receipt it had, an update only while the
\* post has the version in its body.
KeySound(k) ==
    /\ Used(k) => command[k].of \in Editors /\ command[k].version >= 1
    /\ ~Used(k) => effects[k] = 0 /\ \A s \in Slots : try[<<k, s>>].pc = "free"
    /\ effects[k] = (IF k \in forgotten THEN 1 ELSE 0) + (IF receipt[k] = "none" THEN 0 ELSE 1)
    /\ receipt[k] = "expired" => k \notin forgotten
    /\ Used(k) /\ KindOf(k) = "UPDATE" /\ effects[k] > 0 => command[k].version < version /\ effects[k] = 1

\* A try that has been answered tells the truth, to a page that waits for it.
TrySound(k, s) ==
    LET t == try[<<k, s>>] IN
    /\ t.pc \in {"end", "answer"} /\ t.answer = "OK" => effects[k] > 0
    /\ t.pc \in {"end", "answer"} /\ t.answer \in Refusals /\ Hears(command[k].of, k, s) /\ Certain(k) => ~Live(k)
    /\ t.pc \in {"end", "answer"} => t.answer # ""
    /\ t.pc = "end" => t.answer # "UNAUTHORIZED"
    /\ t.pc = "answer" => Hears(command[k].of, k, s)

\* A try that was not handled.
Untouched(t) == t.pc = "net" \/ (t.pc = "answer" /\ t.answer = "UNAUTHORIZED")

\* A page that works on a command has its key; while it has not tried again, its try
\* is the only one, and has no effect before it is handled.
PageSound(e) ==
    LET p == editor[e] IN
    /\ p.pc = "idle" => p.key = None
    /\ p.pc # "idle" => p.key \in Keys /\ command[p.key].of = e /\ ~p.done
    /\ p.pc = "waiting" => p.slot \in Slots
    /\ p.pc = "reading" => p.confirmed
    /\ p.pc = "waiting" /\ ~p.recovering =>
           /\ \A s \in Slots : s # p.slot => try[<<p.key, s>>].pc = "free"
           /\ Untouched(try[<<p.key, p.slot>>]) => effects[p.key] = 0

\* Nothing comes of the keys that a page has released, and of one of its keys at most
\* something is done.
Released == \A e \in Editors : \A k \in KeysOf(e) : ~editor[e].done /\ editor[e].key # k /\ Certain(k) => ~Live(k)

OneSave ==
    \A k, l \in Keys :
        (/\ Used(k) /\ Used(l) /\ command[k].of = command[l].of
         /\ Certain(k) /\ Certain(l) /\ Live(k) /\ Live(l))
        => k = l

\* No two updates are made to one version.
OneUpdate ==
    \A k, l \in Keys :
        (/\ Used(k) /\ Used(l) /\ KindOf(k) = "UPDATE" /\ KindOf(l) = "UPDATE"
         /\ effects[k] > 0 /\ effects[l] > 0 /\ command[k].version = command[l].version)
        => k = l

\* The inductive invariant.
CommandInv ==
    /\ TypeOK
    /\ lock \in [Keys -> Slots \cup {None}]
    /\ \A k \in Keys : KeySound(k)
    /\ \A k \in Keys, s \in Slots : TrySound(k, s)
    /\ \A e \in Editors : PageSound(e)
    /\ Released /\ OneSave /\ OneUpdate /\ SavedIsCarriedOut

----------------------------------------------------------------------------
(* What the types say *)

Held == \A k \in Keys, s \in Slots : try[<<k, s>>].pc \in {"begun", "end"} <=> lock[k] = s

LEMMA Typed ==
  ASSUME CommandInv
  PROVE  /\ editor \in [Editors -> PageType] /\ command \in [Keys -> CommandType]
         /\ try \in [Keys \X Slots -> TryType] /\ lock \in [Keys -> Slots \cup {None}]
         /\ receipt \in [Keys -> {"none", "fresh", "expired"}]
         /\ version \in 1 .. MaxVersion /\ taken \in BOOLEAN
         /\ effects \in [Keys -> 0 .. 2] /\ forgotten \subseteq Keys /\ doubtful \subseteq Keys
         /\ Held
  BY DEF CommandInv, TypeOK, PageType, CommandType, TryType, Held

LEMMA TypedNext ==
  ASSUME editor' \in [Editors -> PageType], command' \in [Keys -> CommandType],
         try' \in [Keys \X Slots -> TryType],
         receipt' \in [Keys -> {"none", "fresh", "expired"}],
         version' \in 1 .. MaxVersion, taken' \in BOOLEAN,
         effects' \in [Keys -> 0 .. 2], forgotten' \subseteq Keys, doubtful' \subseteq Keys,
         Held'
  PROVE  TypeOK'
  BY DEF TypeOK, PageType, CommandType, TryType, Held

\* A try is handled: the request goes on, is answered, or is gone.
LEMMA TryStep ==
  ASSUME CommandAssumption, CommandInv, NEW k \in Keys, NEW s \in Slots, NEW t \in TryType,
         try[<<k, s>>].pc # "free", try' = [try EXCEPT ![<<k, s>>] = t],
         lock' \in [Keys -> Slots \cup {None}], \A l \in Keys : l # k => lock'[l] = lock[l],
         \A r \in Slots : r # s => (lock'[k] = r <=> lock[k] = r),
         t.pc \in {"begun", "end"} <=> lock'[k] = s,
         UNCHANGED <<editor, command, receipt, version, taken, effects, forgotten>>,
         doubtful' \subseteq Keys, \A l \in Keys : l # k => (l \in doubtful' <=> l \in doubtful),
         Certain(k)' => Certain(k) \/ ~Live(k)',
         t.pc \in {"end", "answer"} /\ t.answer = "OK" => effects[k] > 0,
         t.pc \in {"end", "answer"} /\ t.answer \in Refusals /\ Hears(command[k].of, k, s) /\ Certain(k)' => ~Live(k)',
         t.pc \in {"net", "begun"} => try[<<k, s>>].pc \in {"net", "begun"},
         t.pc \in {"end", "answer"} => t.answer # "",
         t.pc = "end" => t.answer # "UNAUTHORIZED",
         t.pc = "answer" => Hears(command[k].of, k, s),
         Untouched(t) => Untouched(try[<<k, s>>])
  PROVE  CommandInv'
<1>1. /\ try' \in [Keys \X Slots -> TryType] /\ try'[<<k, s>>] = t
      /\ \A l \in Keys, r \in Slots : <<l, r>> # <<k, s>> => try'[<<l, r>>] = try[<<l, r>>]
  BY Typed
<1>2. Held'
  <2> SUFFICES ASSUME NEW l \in Keys, NEW r \in Slots
               PROVE  try'[<<l, r>>].pc \in {"begun", "end"} <=> lock'[l] = r
    BY DEF Held
  <2>1. CASE l = k /\ r = s
    BY <1>1, <2>1
  <2>2. CASE l # k \/ r # s
    <3>1. try'[<<l, r>>] = try[<<l, r>>]
      BY <1>1, <2>2
    <3>2. lock'[l] = r <=> lock[l] = r
      BY <2>2
    <3> QED BY <3>1, <3>2, Typed DEF Held
  <2> QED BY <2>1, <2>2
<1>3. TypeOK'
  BY <1>1, <1>2, Typed, TypedNext
<1>4. \A l \in Keys : Live(l)' => Live(l)
  BY <1>1 DEF Live
<1>5. \A l \in Keys : KeySound(l)'
  <2> SUFFICES ASSUME NEW l \in Keys PROVE KeySound(l)'
    OBVIOUS
  <2>1. KeySound(l)
    BY DEF CommandInv
  <2>2. ~Used(l) => \A r \in Slots : try'[<<l, r>>].pc = "free"
    BY <1>1, <2>1 DEF KeySound
  <2> QED BY <2>1, <2>2 DEF KeySound, Used, KindOf
<1>6. \A l \in Keys : Certain(l)' => Certain(l) \/ ~Live(l)'
  BY DEF Certain
<1>7. \A l \in Keys, r \in Slots : TrySound(l, r)'
  <2> SUFFICES ASSUME NEW l \in Keys, NEW r \in Slots PROVE TrySound(l, r)'
    OBVIOUS
  <2>1. CASE <<l, r>> = <<k, s>>
    <3>1. l = k /\ r = s /\ try'[<<l, r>>] = t
      BY <1>1, <2>1
    <3>2. Hears(command[k].of, k, s)' <=> Hears(command[k].of, k, s)
      BY DEF Hears
    <3> QED BY <3>1, <3>2 DEF TrySound
  <2>2. CASE <<l, r>> # <<k, s>>
    <3>1. TrySound(l, r) /\ try'[<<l, r>>] = try[<<l, r>>]
      BY <1>1, <2>2 DEF CommandInv
    <3> QED BY <1>4, <1>6, <3>1 DEF TrySound, Hears
  <2> QED BY <2>1, <2>2
<1>8. \A e \in Editors : PageSound(e)'
  <2> SUFFICES ASSUME NEW e \in Editors PROVE PageSound(e)'
    OBVIOUS
  <2>1. PageSound(e) /\ editor' = editor /\ command' = command /\ effects' = effects
    BY DEF CommandInv
  <2>2. ASSUME editor[e].pc = "waiting", ~editor[e].recovering, editor[e].key = k
        PROVE  editor[e].slot = s
    BY <2>1, <2>2 DEF PageSound
  <2>3. ASSUME editor[e].pc = "waiting", ~editor[e].recovering
        PROVE  /\ \A r \in Slots : r # editor[e].slot => try'[<<editor[e].key, r>>].pc = "free"
               /\ Untouched(try'[<<editor[e].key, editor[e].slot>>]) => effects[editor[e].key] = 0
    <3>1. editor[e].key \in Keys /\ editor[e].slot \in Slots
      BY <2>1, <2>3 DEF PageSound
    <3>2. CASE editor[e].key = k
      BY <1>1, <2>1, <2>2, <2>3, <3>1, <3>2 DEF PageSound
    <3>3. CASE editor[e].key # k
      BY <1>1, <2>1, <2>3, <3>1, <3>3 DEF PageSound
    <3> QED BY <3>2, <3>3
  <2> QED BY <2>1, <2>3 DEF PageSound, Untouched
<1>9. Released' /\ OneSave'
  <2>1. \A l \in Keys : Certain(l)' /\ Live(l)' => Certain(l) /\ Live(l)
    BY <1>4, <1>6
  <2>2. Released /\ OneSave /\ editor' = editor /\ command' = command
    BY DEF CommandInv
  <2> QED BY <2>1, <2>2 DEF Released, OneSave, KeysOf, Used
<1>10. OneUpdate' /\ SavedIsCarriedOut'
  BY DEF CommandInv, OneUpdate, SavedIsCarriedOut, KeysOf, Used, KindOf
<1> QED BY <1>3, <1>5, <1>7, <1>8, <1>9, <1>10 DEF CommandInv

\* A try is answered, if its page still waits for it, and lets go of the lock.
LEMMA ReplyStep ==
  ASSUME CommandAssumption, CommandInv, NEW k \in Keys, NEW s \in Slots, NEW a \in Answers,
         try[<<k, s>>].pc # "free", Replies(k, s, a),
         lock' \in [Keys -> Slots \cup {None}], \A l \in Keys : l # k => lock'[l] = lock[l],
         \A r \in Slots : r # s => (lock'[k] = r <=> lock[k] = r),
         lock'[k] # s,
         UNCHANGED <<editor, command, receipt, version, taken, effects, forgotten, doubtful>>,
         a = "OK" => effects[k] > 0,
         a \in Refusals => try[<<k, s>>].pc = "end" /\ try[<<k, s>>].answer = a,
         a = "UNAUTHORIZED" => try[<<k, s>>].pc = "net"
  PROVE  CommandInv'
<1>1. CASE Hears(command[k].of, k, s)
  <2> DEFINE t == [pc |-> "answer", answer |-> a]
  <2>1. t \in TryType /\ try' = [try EXCEPT ![<<k, s>>] = t]
    BY <1>1 DEF Replies, TryType
  <2>2. Untouched(t) => Untouched(try[<<k, s>>])
    BY DEF Untouched
  <2>3. t.pc = "answer" /\ t.answer = a /\ a # ""
    BY DEF Answers, Uncertain, Refusals
  <2> HIDE DEF t
  <2>4. Live(k)' => Live(k)
    BY <2>1, <2>3, Typed DEF Live
  <2>5. t.answer \in Refusals /\ Certain(k)' => ~Live(k)'
    <3>1. TrySound(k, s)
      BY DEF CommandInv
    <3> QED BY <1>1, <2>3, <2>4, <3>1 DEF TrySound, Certain
  <2>6. doubtful' \subseteq Keys /\ (Certain(k)' => Certain(k))
    BY Typed DEF Certain
  <2> QED BY <1>1, <2>1, <2>2, <2>3, <2>5, <2>6, TryStep
<1>2. CASE ~Hears(command[k].of, k, s)
  <2>1. Free \in TryType /\ try' = [try EXCEPT ![<<k, s>>] = Free] /\ Free.pc = "free" /\ ~Untouched(Free)
    BY <1>2 DEF Replies, TryType, Free, Untouched
  <2>2. doubtful' \subseteq Keys /\ (Certain(k)' => Certain(k))
    BY Typed DEF Certain
  <2> QED BY <2>1, <2>2, TryStep
<1> QED BY <1>1, <1>2

LEMMA UnauthorizedStep ==
  ASSUME CommandAssumption, CommandInv, NEW k \in Keys, NEW s \in Slots, Unauthorized(k, s) PROVE CommandInv'
<1>1. "UNAUTHORIZED" \in Answers /\ lock[k] # s /\ lock \in [Keys -> Slots \cup {None}]
  BY Typed DEF Answers, Held, Unauthorized
<1> QED BY <1>1, ReplyStep DEF Unauthorized, Refusals

LEMMA VanishStep ==
  ASSUME CommandAssumption, CommandInv, NEW k \in Keys, NEW s \in Slots, Vanish(k, s) \/ HandlerDies(k, s)
  PROVE  CommandInv'
<1>0. doubtful' \subseteq Keys /\ (Certain(k)' => Certain(k)) /\ \A l \in Keys : l \in doubtful' <=> l \in doubtful
  BY Typed DEF Vanish, HandlerDies, Certain
<1>1. Free \in TryType /\ Free.pc = "free" /\ ~Untouched(Free)
  BY DEF TryType, Free, Untouched
<1>2. /\ lock \in [Keys -> Slots \cup {None}] /\ None \notin Slots
      /\ try[<<k, s>>].pc \in {"begun", "end"} <=> lock[k] = s
  BY Typed DEF Held, CommandAssumption
<1>3. CASE Vanish(k, s)
  BY <1>0, <1>1, <1>2, <1>3, TryStep DEF Vanish
<1>4. CASE HandlerDies(k, s)
  <2>1. /\ lock' \in [Keys -> Slots \cup {None}] /\ \A l \in Keys : l # k => lock'[l] = lock[l]
        /\ \A r \in Slots : r # s => (lock'[k] = r <=> lock[k] = r)
        /\ lock'[k] # s
    BY <1>2, <1>4 DEF HandlerDies
  <2> QED BY <1>0, <1>1, <1>4, <2>1, TryStep DEF HandlerDies
<1> QED BY <1>3, <1>4

LEMMA BeginStep ==
  ASSUME CommandAssumption, CommandInv, NEW k \in Keys, NEW s \in Slots, Begin(k, s) PROVE CommandInv'
<1>1. /\ lock \in [Keys -> Slots \cup {None}] /\ None \notin Slots /\ try[<<k, s>>].pc = "net"
      /\ lock[k] # s /\ try[<<k, s>>] \in TryType /\ try \in [Keys \X Slots -> TryType]
  BY Typed DEF Held, CommandAssumption, Begin
<1>2. UNCHANGED <<editor, command, receipt, version, taken, effects, forgotten, doubtful>>
  BY DEF Begin
<1>3. CASE Replies(k, s, "IDEMPOTENCY_IN_PROGRESS") /\ UNCHANGED lock
  BY <1>1, <1>2, <1>3, ReplyStep DEF Answers, Uncertain, Refusals
<1>4. CASE receipt[k] # "none" /\ Replies(k, s, "OK") /\ UNCHANGED lock
  <2>1. effects[k] > 0
    BY <1>4, Typed DEF CommandInv, KeySound
  <2> QED BY <1>1, <1>2, <1>4, <2>1, ReplyStep DEF Answers, Refusals
<1>5. CASE lock[k] = None /\ try' = [try EXCEPT ![<<k, s>>].pc = "begun"] /\ lock' = [lock EXCEPT ![k] = s]
  <2> DEFINE t == [try[<<k, s>>] EXCEPT !.pc = "begun"]
  <2>1. t \in TryType /\ t.pc = "begun" /\ ~Untouched(t)
    BY <1>1 DEF TryType, Untouched
  <2>2. try' = [try EXCEPT ![<<k, s>>] = t]
    BY <1>1, <1>5
  <2> HIDE DEF t
  <2>3. /\ lock' \in [Keys -> Slots \cup {None}] /\ \A l \in Keys : l # k => lock'[l] = lock[l]
        /\ \A r \in Slots : r # s => (lock'[k] = r <=> lock[k] = r)
        /\ lock'[k] = s
    BY <1>1, <1>5
  <2>4. doubtful' \subseteq Keys /\ (Certain(k)' => Certain(k))
    BY <1>2, Typed DEF Certain
  <2> QED BY <1>1, <1>2, <2>1, <2>2, <2>3, <2>4, TryStep
<1> QED BY <1>3, <1>4, <1>5 DEF Begin

LEMMA CommandFailsStep ==
  ASSUME CommandAssumption, CommandInv, NEW k \in Keys, NEW s \in Slots, CommandFails(k, s) PROVE CommandInv'
<1> DEFINE t == [pc |-> "end", answer |-> "UNAVAILABLE"]
<1>1. lock \in [Keys -> Slots \cup {None}] /\ lock[k] = s /\ try[<<k, s>>].pc = "begun"
  BY Typed DEF Held, CommandFails
<1>2. t \in TryType /\ ~Untouched(t) /\ t.pc = "end" /\ t.answer = "UNAVAILABLE" /\ t.answer \notin Refusals
  BY DEF TryType, Answers, Uncertain, Refusals, Untouched
<1>3. try' = [try EXCEPT ![<<k, s>>] = t]
      /\ UNCHANGED <<editor, command, lock, receipt, version, taken, effects, forgotten, doubtful>>
  BY DEF CommandFails
<1> HIDE DEF t
<1>4. doubtful' \subseteq Keys /\ (Certain(k)' => Certain(k))
  BY <1>3, Typed DEF Certain
<1> QED BY <1>1, <1>2, <1>3, <1>4, TryStep

LEMMA UnlockStep ==
  ASSUME CommandAssumption, CommandInv, NEW k \in Keys, NEW s \in Slots, NEW a \in Answers, Unlock(k, s, a)
  PROVE  CommandInv'
<1>1. lock \in [Keys -> Slots \cup {None}] /\ None \notin Slots /\ lock[k] = s /\ try[<<k, s>>].pc = "end"
  BY Typed DEF Held, Unlock, CommandAssumption
<1>2. TrySound(k, s) /\ a \in {try[<<k, s>>].answer, "UNAVAILABLE"}
  BY DEF CommandInv, Unlock
<1>3. /\ a = "OK" => effects[k] > 0
      /\ a \in Refusals => try[<<k, s>>].answer = a
      /\ a # "UNAUTHORIZED"
  BY <1>1, <1>2 DEF TrySound, Refusals
<1>4. /\ lock' \in [Keys -> Slots \cup {None}] /\ \A l \in Keys : l # k => lock'[l] = lock[l]
      /\ \A r \in Slots : r # s => (lock'[k] = r <=> lock[k] = r)
      /\ lock'[k] # s
  BY <1>1 DEF Unlock
<1> QED BY <1>1, <1>3, <1>4, ReplyStep DEF Unlock

----------------------------------------------------------------------------
(* The page *)

\* A page moves that does not wait: nobody has an answer for it.
LEMMA PageStep ==
  ASSUME CommandAssumption, CommandInv, NEW e \in Editors, NEW p \in PageType,
         editor[e].pc # "waiting", p.pc # "waiting", editor' = [editor EXCEPT ![e] = p],
         UNCHANGED <<command, try, lock, receipt, version, taken, effects, forgotten, doubtful>>,
         p.pc = "idle" => p.key = None,
         p.pc # "idle" => editor[e].pc # "idle" /\ p.key = editor[e].key /\ ~p.done,
         p.pc = "reading" => p.confirmed,
         p.done \/ p.confirmed => editor[e].done \/ editor[e].confirmed,
         ~p.done => ~editor[e].done /\ p.key = editor[e].key
  PROVE  CommandInv'
<1>1. /\ editor' \in [Editors -> PageType] /\ editor'[e] = p
      /\ \A f \in Editors : f # e => editor'[f] = editor[f]
  BY Typed
<1>2. TypeOK'
  <2>1. Held'
    BY Typed DEF Held
  <2> QED BY <1>1, <2>1, Typed, TypedNext
<1>3. \A k \in Keys : KeySound(k)'
  BY DEF CommandInv, KeySound, Used, KindOf, Live
<1>4. \A k \in Keys, s \in Slots : TrySound(k, s)'
  <2> SUFFICES ASSUME NEW k \in Keys, NEW s \in Slots PROVE TrySound(k, s)'
    OBVIOUS
  <2>1. Hears(command[k].of, k, s)' <=> Hears(command[k].of, k, s)
    BY <1>1 DEF Hears
  <2>2. TrySound(k, s) /\ try' = try /\ command' = command /\ effects' = effects
    BY DEF CommandInv
  <2>3. (Live(k)' <=> Live(k)) /\ (Certain(k)' <=> Certain(k))
    BY <2>2 DEF Live, Certain
  <2> QED BY <2>1, <2>2, <2>3 DEF TrySound
<1>5. \A f \in Editors : PageSound(f)'
  <2> SUFFICES ASSUME NEW f \in Editors PROVE PageSound(f)'
    OBVIOUS
  <2>1. PageSound(f) /\ try' = try /\ command' = command /\ effects' = effects
    BY DEF CommandInv
  <2>2. CASE f = e
    BY <1>1, <2>1, <2>2 DEF PageSound
  <2>3. CASE f # e
    BY <1>1, <2>1, <2>3 DEF PageSound, Untouched
  <2> QED BY <2>2, <2>3
<1>6. Released' /\ OneSave' /\ OneUpdate'
  <2>1. \A f \in Editors : ~editor'[f].done => ~editor[f].done /\ editor'[f].key = editor[f].key
    BY <1>1
  <2>2. Released /\ OneSave /\ OneUpdate /\ try' = try /\ command' = command /\ effects' = effects
    BY DEF CommandInv
  <2>3. \A k \in Keys : (Live(k)' <=> Live(k)) /\ (Certain(k)' <=> Certain(k))
    BY <2>2 DEF Live, Certain
  <2>4. Released'
    BY <2>1, <2>2, <2>3 DEF Released, KeysOf
  <2>5. OneSave'
    BY <2>2, <2>3 DEF OneSave, Used
  <2>6. OneUpdate'
    BY <2>2 DEF OneUpdate, Used, KindOf
  <2> QED BY <2>4, <2>5, <2>6
<1>7. SavedIsCarriedOut'
  <2>1. \A f \in Editors : editor'[f].done \/ editor'[f].confirmed => editor[f].done \/ editor[f].confirmed
    BY <1>1
  <2> QED BY <2>1 DEF CommandInv, SavedIsCarriedOut, KeysOf
<1> QED BY <1>2, <1>3, <1>4, <1>5, <1>6, <1>7, Typed DEF CommandInv

LEMMA LoadStep ==
  ASSUME CommandAssumption, CommandInv, NEW e \in Editors, Load(e) PROVE CommandInv'
<1> DEFINE p == [editor[e] EXCEPT !.base = version]
<1>1. editor \in [Editors -> PageType] /\ editor[e].pc = "idle" /\ ~editor[e].done /\ version \in 1 .. MaxVersion
  BY Typed DEF Load
<1>2. p \in PageType /\ p.pc = "idle" /\ p.key = editor[e].key /\ p.done = editor[e].done
      /\ p.confirmed = editor[e].confirmed
  BY <1>1 DEF PageType
<1>3. editor' = [editor EXCEPT ![e] = p]
  BY <1>1 DEF Load
<1>4. editor[e].key = None
  BY <1>1 DEF CommandInv, PageSound
<1> HIDE DEF p
<1> QED BY <1>1, <1>2, <1>3, <1>4, PageStep DEF Load

LEMMA ReadStep ==
  ASSUME CommandAssumption, CommandInv, NEW e \in Editors, ReadDetail(e) \/ ReadFails(e) PROVE CommandInv'
<1>1. editor \in [Editors -> PageType] /\ editor[e].pc = "reading" /\ PageSound(e) /\ 1 \in 1 .. MaxVersion
  BY Typed DEF ReadDetail, ReadFails, CommandInv, CommandAssumption
<1>2. editor[e].confirmed /\ ~editor[e].done
  BY <1>1 DEF PageSound
<1>3. CASE ReadDetail(e)
  <2> DEFINE p == [Page EXCEPT !.done = TRUE]
  <2>1. p \in PageType /\ p.pc = "idle" /\ p.key = None /\ p.done = TRUE
    BY <1>1 DEF Page, PageType
  <2>2. editor' = [editor EXCEPT ![e] = p]
    BY <1>3 DEF ReadDetail
  <2> HIDE DEF p
  <2> QED BY <1>1, <1>2, <1>3, <2>1, <2>2, PageStep DEF ReadDetail
<1>4. CASE ReadFails(e)
  <2> DEFINE p == [editor[e] EXCEPT !.pc = "uncertain"]
  <2>1. p \in PageType /\ p.pc = "uncertain" /\ p.key = editor[e].key /\ p.done = editor[e].done
        /\ p.confirmed = editor[e].confirmed
    BY <1>1 DEF PageType
  <2>2. editor' = [editor EXCEPT ![e] = p]
    BY <1>1, <1>4 DEF ReadFails
  <2> HIDE DEF p
  <2> QED BY <1>1, <1>2, <1>4, <2>1, <2>2, PageStep DEF ReadFails
<1> QED BY <1>3, <1>4

\* A page that waits hears its answer, or gives up; its try is over unless it was under way.
LEMMA LeaveStep ==
  ASSUME CommandAssumption, CommandInv, NEW e \in Editors, NEW p \in PageType, NEW k \in Keys, NEW s \in Slots,
         editor[e].pc = "waiting", editor[e].key = k, editor[e].slot = s, command[k].of = e,
         p.pc # "waiting", editor' = [editor EXCEPT ![e] = p],
         try' = IF try[<<k, s>>].pc = "answer" THEN [try EXCEPT ![<<k, s>>] = Free] ELSE try,
         UNCHANGED <<command, lock, receipt, version, taken, effects, forgotten, doubtful>>,
         p.pc = "idle" => p.key = None /\ (Certain(k) => ~Live(k)'),
         p.pc # "idle" => p.key = k,
         p.pc = "reading" => p.confirmed,
         ~p.done, p.confirmed => editor[e].confirmed \/ effects[k] > 0
  PROVE  CommandInv'
<1>1. /\ editor' \in [Editors -> PageType] /\ editor'[e] = p
      /\ \A f \in Editors : f # e => editor'[f] = editor[f]
  BY Typed
<1>2. Free \in TryType /\ Free.pc = "free" /\ ~Untouched(Free)
  BY DEF TryType, Free, Untouched
<1>3. /\ try \in [Keys \X Slots -> TryType] /\ try' \in [Keys \X Slots -> TryType]
      /\ \A l \in Keys, r \in Slots : try'[<<l, r>>] = try[<<l, r>>] \/ try'[<<l, r>>] = Free
      /\ \A l \in Keys, r \in Slots : (l # k \/ r # s) => try'[<<l, r>>] = try[<<l, r>>]
      /\ try'[<<k, s>>].pc # "answer"
      /\ try'[<<k, s>>].pc \in {"begun", "end"} <=> try[<<k, s>>].pc \in {"begun", "end"}
  BY <1>2, Typed
<1>4. TypeOK'
  <2>1. Held'
    <3> SUFFICES ASSUME NEW l \in Keys, NEW r \in Slots
                 PROVE  try'[<<l, r>>].pc \in {"begun", "end"} <=> lock'[l] = r
      BY DEF Held
    <3>1. try'[<<l, r>>].pc \in {"begun", "end"} <=> try[<<l, r>>].pc \in {"begun", "end"}
      BY <1>3
    <3> QED BY <3>1, Typed DEF Held
  <2> QED BY <1>1, <1>3, <2>1, Typed, TypedNext
<1>5. \A l \in Keys : Live(l)' => Live(l)
  BY <1>2, <1>3 DEF Live
<1>6. \A l \in Keys : KeySound(l)'
  <2> SUFFICES ASSUME NEW l \in Keys PROVE KeySound(l)'
    OBVIOUS
  <2>1. KeySound(l)
    BY DEF CommandInv
  <2>2. ~Used(l) => \A r \in Slots : try'[<<l, r>>].pc = "free"
    BY <1>2, <1>3, <2>1 DEF KeySound
  <2> QED BY <2>1, <2>2 DEF KeySound, Used, KindOf
<1>7. \A l \in Keys, r \in Slots : TrySound(l, r)'
  <2> SUFFICES ASSUME NEW l \in Keys, NEW r \in Slots PROVE TrySound(l, r)'
    OBVIOUS
  <2>1. TrySound(l, r) /\ command' = command /\ effects' = effects
    BY DEF CommandInv
  <2>2. CASE try'[<<l, r>>] = Free
    BY <1>2, <2>2 DEF TrySound
  <2>3. CASE try'[<<l, r>>] = try[<<l, r>>]
    <3>1. try[<<l, r>>].pc = "answer" => Hears(command[l].of, l, r)'
      <4>1. SUFFICES ASSUME try[<<l, r>>].pc = "answer" PROVE Hears(command[l].of, l, r)'
        OBVIOUS
      <4>2. Hears(command[l].of, l, r)
        BY <2>1, <4>1 DEF TrySound
      <4>3. l # k \/ r # s
        BY <1>3, <2>3, <4>1
      <4>4. command[l].of # e
        BY <4>2, <4>3 DEF Hears
      <4> QED BY <1>1, <2>1, <4>2, <4>4 DEF Hears
    <3>2. Hears(command[l].of, l, r)' => Hears(command[l].of, l, r)
      BY <1>1, <2>1 DEF Hears
    <3>3. Certain(l)' => Certain(l)
      BY DEF Certain
    <3> QED BY <1>5, <2>1, <2>3, <3>1, <3>2, <3>3 DEF TrySound
  <2> QED BY <1>3, <2>2, <2>3
<1>8. \A f \in Editors : PageSound(f)'
  <2> SUFFICES ASSUME NEW f \in Editors PROVE PageSound(f)'
    OBVIOUS
  <2>1. PageSound(f) /\ command' = command /\ effects' = effects
    BY DEF CommandInv
  <2>2. CASE f = e
    BY <1>1, <2>1, <2>2 DEF PageSound
  <2>3. CASE f # e
    <3>1. editor'[f] = editor[f]
      BY <1>1, <2>3
    <3>2. ASSUME editor[f].pc = "waiting", ~editor[f].recovering
          PROVE  /\ \A r \in Slots : r # editor[f].slot => try'[<<editor[f].key, r>>].pc = "free"
                 /\ Untouched(try'[<<editor[f].key, editor[f].slot>>]) => effects[editor[f].key] = 0
      <4>1. editor[f].key \in Keys /\ editor[f].slot \in Slots
        BY <2>1, <3>2 DEF PageSound
      <4> QED BY <1>2, <1>3, <2>1, <3>2, <4>1 DEF PageSound
    <3> QED BY <2>1, <3>1, <3>2 DEF PageSound, Untouched
  <2> QED BY <2>2, <2>3
<1>9. Released' /\ OneSave' /\ OneUpdate'
  <2>1. Released /\ OneSave /\ OneUpdate /\ command' = command /\ effects' = effects
    BY DEF CommandInv
  <2>2. \A l \in Keys : Certain(l)' <=> Certain(l)
    BY DEF Certain
  <2>3. ASSUME NEW f \in Editors, NEW l \in KeysOf(f), ~editor'[f].done, editor'[f].key # l, Certain(l)
        PROVE  ~Live(l)'
    <3>1. CASE f = e /\ l = k
      BY <1>1, <2>3, <3>1
    <3>2. CASE f = e /\ l # k
      <4>1. ~editor[e].done /\ editor[e].key # l
        BY <3>2 DEF CommandInv, PageSound
      <4> QED BY <1>5, <2>1, <2>3, <3>2, <4>1 DEF Released, KeysOf
    <3>3. CASE f # e
      BY <1>1, <1>5, <2>1, <2>3, <3>3 DEF Released, KeysOf
    <3> QED BY <3>1, <3>2, <3>3
  <2>4. Released'
    BY <2>1, <2>2, <2>3 DEF Released, KeysOf
  <2>5. OneSave'
    BY <1>5, <2>1, <2>2 DEF OneSave, Used
  <2>6. OneUpdate'
    BY <2>1 DEF OneUpdate, Used, KindOf
  <2> QED BY <2>4, <2>5, <2>6
<1>10. SavedIsCarriedOut'
  <2>1. k \in KeysOf(e)
    BY DEF KeysOf
  <2> QED BY <1>1, <2>1 DEF CommandInv, SavedIsCarriedOut, KeysOf
<1> QED BY <1>4, <1>6, <1>7, <1>8, <1>9, <1>10, Typed DEF CommandInv

LEMMA GiveUpStep ==
  ASSUME CommandAssumption, CommandInv, NEW e \in Editors, GiveUpWaiting(e) PROVE CommandInv'
<1> DEFINE p == [editor[e] EXCEPT !.pc = "uncertain", !.slot = None]
<1>1. editor \in [Editors -> PageType] /\ editor[e].pc = "waiting" /\ PageSound(e)
  BY Typed DEF GiveUpWaiting, CommandInv
<1>2. editor[e].key \in Keys /\ editor[e].slot \in Slots /\ command[editor[e].key].of = e /\ ~editor[e].done
  BY <1>1 DEF PageSound
<1>3. p \in PageType /\ p.pc = "uncertain" /\ p.key = editor[e].key /\ p.done = editor[e].done
      /\ p.confirmed = editor[e].confirmed
  BY <1>1 DEF PageType
<1>4. /\ editor' = [editor EXCEPT ![e] = p]
      /\ UNCHANGED <<command, lock, receipt, version, taken, effects, forgotten, doubtful>>
  BY <1>1 DEF GiveUpWaiting
<1> DEFINE k == editor[e].key
           s == editor[e].slot
<1>5. try' = IF try[<<k, s>>].pc = "answer" THEN [try EXCEPT ![<<k, s>>] = Free] ELSE try
  BY DEF GiveUpWaiting
<1> HIDE DEF p
<1> QED BY <1>1, <1>2, <1>3, <1>4, <1>5, LeaveStep

LEMMA AnswerStep ==
  ASSUME CommandAssumption, CommandInv, NEW k \in Keys, NEW s \in Slots, Answer(k, s) PROVE CommandInv'
<1> DEFINE e == command[k].of
           a == try[<<k, s>>].answer
           q == editor[e]
<1>1. try[<<k, s>>].pc = "answer" /\ Told(e, a) /\ try' = [try EXCEPT ![<<k, s>>] = Free]
      /\ UNCHANGED <<command, lock, receipt, version, taken, effects, forgotten, doubtful>>
  BY DEF Answer
<1>2. TrySound(k, s) /\ try \in [Keys \X Slots -> TryType] /\ editor \in [Editors -> PageType]
      /\ Free.pc = "free" /\ effects \in [Keys -> 0 .. 2]
  BY Typed DEF CommandInv, Free
<1>3. e \in Editors /\ q.pc = "waiting" /\ q.key = k /\ q.slot = s
  BY <1>1, <1>2 DEF TrySound, Hears
<1>4. q \in PageType /\ PageSound(e) /\ 1 \in 1 .. MaxVersion /\ ~q.done
  BY <1>2, <1>3 DEF CommandInv, CommandAssumption, PageSound
<1>5. CASE a = "OK"
  <2> DEFINE p == [q EXCEPT !.pc = "reading", !.slot = None, !.confirmed = TRUE]
  <2>1. p \in PageType /\ p.pc = "reading" /\ p.key = k /\ ~p.done /\ p.confirmed
    BY <1>3, <1>4 DEF PageType
  <2>2. editor' = [editor EXCEPT ![e] = p]
    BY <1>1, <1>2, <1>3, <1>5 DEF Told
  <2>3. effects[k] > 0
    BY <1>1, <1>2, <1>5 DEF TrySound
  <2> HIDE DEF p
  <2> QED BY <1>1, <1>3, <2>1, <2>2, <2>3, LeaveStep
<1>6. CASE a # "OK" /\ Settles(e, a)
  <2> DEFINE p == [Page EXCEPT !.base = q.base]
  <2>1. p \in PageType /\ p.pc = "idle" /\ p.key = None /\ ~p.done /\ ~p.confirmed
    BY <1>4 DEF Page, PageType
  <2>2. editor' = [editor EXCEPT ![e] = p]
    BY <1>1, <1>2, <1>3, <1>6 DEF Told
  <2>3. ASSUME Certain(k) PROVE ~Live(k)'
    <3>1. a \in Answers /\ a # "" /\ Hears(command[k].of, k, s)
      BY <1>1, <1>2, <1>3 DEF TrySound, TryType, Hears
    <3>2. Live(k)' => Live(k)
      BY <1>1, <1>2 DEF Live
    <3>3. CASE a \in Refusals
      BY <1>1, <1>2, <2>3, <3>1, <3>2, <3>3 DEF TrySound
    <3>4. CASE a = "UNAUTHORIZED"
      <4>1. effects[k] = 0 /\ \A r \in Slots : r # s => try[<<k, r>>].pc = "free"
        BY <1>1, <1>3, <1>4, <1>6, <3>4 DEF PageSound, Untouched, Settles
      <4>2. ~(effects'[k] > 0)
        BY <1>1, <4>1
      <4>3. \A r \in Slots : try'[<<k, r>>].pc = "free"
        BY <1>1, <1>2, <4>1
      <4> QED BY <4>2, <4>3 DEF Live
    <3> QED BY <1>6, <3>1, <3>3, <3>4 DEF Settles, Answers
  <2> HIDE DEF p
  <2> QED BY <1>1, <1>3, <2>1, <2>2, <2>3, LeaveStep
<1>7. CASE a # "OK" /\ ~Settles(e, a)
  <2> DEFINE p == [q EXCEPT !.pc = "uncertain", !.slot = None]
  <2>1. p \in PageType /\ p.pc = "uncertain" /\ p.key = k /\ ~p.done /\ p.confirmed = q.confirmed
    BY <1>3, <1>4 DEF PageType
  <2>2. editor' = [editor EXCEPT ![e] = p]
    BY <1>1, <1>2, <1>3, <1>7 DEF Told
  <2> HIDE DEF p
  <2> QED BY <1>1, <1>3, <2>1, <2>2, LeaveStep
<1> QED BY <1>5, <1>6, <1>7

\* A page sends a try: of a new key, or of the one it holds.
LEMMA SaveStep ==
  ASSUME CommandAssumption, CommandInv, NEW e \in Editors, NEW k \in Keys, NEW s \in Slots, Save(e, k, s)
  PROVE  CommandInv'
<1> DEFINE p == [editor[e] EXCEPT !.pc = "waiting", !.key = k, !.slot = s]
           t == [pc |-> "net", answer |-> ""]
           c == [of |-> e, version |-> editor[e].base]
<1>1. /\ editor[e].pc = "idle" /\ ~editor[e].done /\ command[k] = Unused
      /\ try[<<k, s>>].pc = "free" /\ try' = [try EXCEPT ![<<k, s>>] = t]
      /\ command' = [command EXCEPT ![k] = c]
      /\ UNCHANGED <<lock, receipt, version, taken, effects, forgotten, doubtful>>
  BY DEF Save, Sends
<1>2. /\ editor \in [Editors -> PageType] /\ command \in [Keys -> CommandType]
      /\ try \in [Keys \X Slots -> TryType] /\ None \notin Editors /\ effects \in [Keys -> 0 .. 2]
  BY Typed DEF CommandAssumption
<1>3. p \in PageType /\ p.pc = "waiting" /\ p.key = k /\ p.slot = s /\ p.done = editor[e].done
      /\ p.confirmed = editor[e].confirmed /\ editor[e].base \in 1 .. MaxVersion
  BY <1>2 DEF PageType
<1>4. editor' = [editor EXCEPT ![e] = p]
  BY <1>2 DEF Save
<1>5. t \in TryType /\ t.pc = "net"
  BY DEF TryType
<1>6. c \in CommandType /\ c.of = e /\ c.version >= 1 /\ c # Unused
  BY <1>2, <1>3 DEF CommandType, Unused
<1> HIDE DEF p, t, c
<1>7. editor[e].key = None /\ KeySound(k)
  BY <1>1 DEF CommandInv, PageSound
<1>8. effects[k] = 0 /\ \A r \in Slots : try[<<k, r>>].pc = "free"
  BY <1>1, <1>7 DEF KeySound, Used
<1>9. /\ editor' \in [Editors -> PageType] /\ editor'[e] = p
      /\ \A f \in Editors : f # e => editor'[f] = editor[f]
  BY <1>2, <1>3, <1>4
<1>10. /\ try' \in [Keys \X Slots -> TryType] /\ try'[<<k, s>>] = t
       /\ \A l \in Keys, r \in Slots : (l # k \/ r # s) => try'[<<l, r>>] = try[<<l, r>>]
  BY <1>1, <1>2, <1>5
<1>11. /\ command' \in [Keys -> CommandType] /\ command'[k] = c
       /\ \A l \in Keys : l # k => command'[l] = command[l]
  BY <1>1, <1>2, <1>6
<1>12. TypeOK'
  <2>1. Held'
    <3> SUFFICES ASSUME NEW l \in Keys, NEW r \in Slots
                 PROVE  try'[<<l, r>>].pc \in {"begun", "end"} <=> lock'[l] = r
      BY DEF Held
    <3>1. try'[<<l, r>>].pc \in {"begun", "end"} <=> try[<<l, r>>].pc \in {"begun", "end"}
      BY <1>5, <1>8, <1>10
    <3> QED BY <1>1, <3>1, Typed DEF Held
  <2> QED BY <1>1, <1>9, <1>10, <1>11, <2>1, Typed, TypedNext
<1>13. \A l \in Keys : /\ l # k => (Live(l)' <=> Live(l)) /\ (Used(l)' <=> Used(l)) /\ KindOf(l)' = KindOf(l)
                       /\ Certain(l)' <=> Certain(l)
  BY <1>1, <1>10, <1>11 DEF Live, Used, KindOf, Certain
<1>14. \A l \in Keys : KeySound(l)'
  <2> SUFFICES ASSUME NEW l \in Keys PROVE KeySound(l)'
    OBVIOUS
  <2>1. CASE l = k
    BY <1>1, <1>6, <1>7, <1>8, <1>11, <2>1 DEF KeySound, Used
  <2>2. CASE l # k
    <3>1. \A r \in Slots : try'[<<l, r>>] = try[<<l, r>>]
      BY <1>10, <2>2
    <3> QED BY <1>1, <1>11, <1>13, <2>2, <3>1 DEF CommandInv, KeySound
  <2> QED BY <2>1, <2>2
<1>15. \A l \in Keys, r \in Slots : TrySound(l, r)'
  <2> SUFFICES ASSUME NEW l \in Keys, NEW r \in Slots PROVE TrySound(l, r)'
    OBVIOUS
  <2>1. TrySound(l, r) /\ effects' = effects
    BY <1>1 DEF CommandInv
  <2>2. CASE l = k
    <3>1. try'[<<l, r>>].pc \notin {"end", "answer"}
      BY <1>5, <1>8, <1>10, <2>2
    <3> QED BY <3>1 DEF TrySound
  <2>3. CASE l # k
    <3>1. try'[<<l, r>>] = try[<<l, r>>] /\ command'[l] = command[l] /\ KindOf(l)' = KindOf(l)
      BY <1>10, <1>11, <1>13, <2>3
    <3>2. Hears(command[l].of, l, r)' <=> Hears(command[l].of, l, r)
      BY <1>1, <1>3, <1>9, <2>3, <3>1 DEF Hears
    <3> QED BY <1>13, <2>1, <2>3, <3>1, <3>2 DEF TrySound
  <2> QED BY <2>2, <2>3
<1>16. \A f \in Editors : PageSound(f)'
  <2> SUFFICES ASSUME NEW f \in Editors PROVE PageSound(f)'
    OBVIOUS
  <2>1. PageSound(f) /\ effects' = effects
    BY <1>1 DEF CommandInv
  <2>2. CASE f = e
    <3>1. \A r \in Slots : r # s => try'[<<k, r>>].pc = "free"
      BY <1>8, <1>10
    <3> QED BY <1>1, <1>3, <1>6, <1>8, <1>9, <1>11, <2>1, <2>2, <3>1 DEF PageSound
  <2>3. CASE f # e
    <3>1. editor'[f] = editor[f]
      BY <1>9, <2>3
    <3>2. editor[f].pc # "idle" => editor[f].key \in Keys /\ editor[f].key # k
      BY <1>1, <1>2, <2>1 DEF PageSound, Unused
    <3>3. editor[f].pc # "idle" => /\ command'[editor[f].key] = command[editor[f].key]
                                   /\ \A r \in Slots : try'[<<editor[f].key, r>>] = try[<<editor[f].key, r>>]
      BY <1>10, <1>11, <3>2
    <3> QED BY <2>1, <3>1, <3>3 DEF PageSound, Untouched
  <2> QED BY <2>2, <2>3
<1>17. Released' /\ OneSave'
  <2>1. ASSUME NEW l \in Keys, l # k, command[l].of = e, Certain(l) PROVE ~Live(l)
    <3>1. editor[e].key # l
      BY <1>7, <1>2, <2>1 DEF CommandAssumption
    <3> QED BY <1>1, <2>1, <3>1 DEF CommandInv, Released, KeysOf
  <2>2. ASSUME NEW f \in Editors, NEW l \in Keys, command'[l].of = f, ~editor'[f].done, editor'[f].key # l, Certain(l)
        PROVE  ~Live(l)'
    <3>1. l # k
      BY <1>3, <1>6, <1>9, <1>11, <2>2
    <3>2. command[l].of = f
      BY <1>11, <2>2, <3>1
    <3>3. CASE f = e
      BY <1>13, <2>1, <2>2, <3>1, <3>2, <3>3
    <3>4. CASE f # e
      BY <1>9, <1>13, <2>2, <3>1, <3>2, <3>4 DEF CommandInv, Released, KeysOf
    <3> QED BY <3>3, <3>4
  <2>3. ASSUME NEW l \in Keys, NEW m \in Keys, Used(l)', Used(m)', command'[l].of = command'[m].of,
               Certain(l), Certain(m), Live(l)', Live(m)'
        PROVE  l = m
    <3>1. CASE l # k /\ m # k
      BY <1>11, <1>13, <2>3, <3>1 DEF CommandInv, OneSave
    <3>2. CASE l = k /\ m # k
      BY <1>6, <1>11, <1>13, <2>1, <2>3, <3>2
    <3>3. CASE l # k /\ m = k
      BY <1>6, <1>11, <1>13, <2>1, <2>3, <3>3
    <3> QED BY <3>1, <3>2, <3>3
  <2> QED BY <1>13, <2>2, <2>3 DEF Released, OneSave, KeysOf
<1>18. OneUpdate'
  <2>1. effects' = effects /\ ~(effects[k] > 0)
    BY <1>1, <1>8
  <2> QED BY <1>11, <1>13, <2>1 DEF CommandInv, OneUpdate
<1>19. SavedIsCarriedOut'
  <2> SUFFICES ASSUME NEW f \in Editors, editor'[f].done \/ editor'[f].confirmed
               PROVE  \E l \in Keys : command'[l].of = f /\ effects'[l] > 0
    BY DEF SavedIsCarriedOut, KeysOf
  <2>1. editor[f].done \/ editor[f].confirmed
    BY <1>3, <1>9
  <2>2. PICK l \in Keys : command[l].of = f /\ effects[l] > 0
    BY <2>1 DEF CommandInv, SavedIsCarriedOut, KeysOf
  <2>3. l # k
    BY <1>8, <2>2
  <2> QED BY <1>1, <1>11, <2>2, <2>3
<1> QED BY <1>1, <1>12, <1>14, <1>15, <1>16, <1>17, <1>18, <1>19, Typed DEF CommandInv

LEMMA RetryStep ==
  ASSUME CommandAssumption, CommandInv, NEW e \in Editors, NEW s \in Slots, Retry(e, s)
  PROVE  CommandInv'
<1> DEFINE k == editor[e].key
           p == [editor[e] EXCEPT !.pc = "waiting", !.slot = s, !.recovering = TRUE]
           t == [pc |-> "net", answer |-> ""]
<1>1. /\ editor[e].pc = "uncertain" /\ try[<<k, s>>].pc = "free" /\ try' = [try EXCEPT ![<<k, s>>] = t]
      /\ UNCHANGED <<command, lock, receipt, version, taken, effects, forgotten, doubtful>>
  BY DEF Retry, Sends
<1>2. /\ editor \in [Editors -> PageType] /\ try \in [Keys \X Slots -> TryType] /\ PageSound(e)
  BY Typed DEF CommandInv
<1>3. k \in Keys /\ command[k].of = e /\ ~editor[e].done
  BY <1>1, <1>2 DEF PageSound
<1>4. p \in PageType /\ p.pc = "waiting" /\ p.key = k /\ p.slot = s /\ p.done = editor[e].done
      /\ p.confirmed = editor[e].confirmed /\ p.recovering
  BY <1>2 DEF PageType
<1>5. editor' = [editor EXCEPT ![e] = p]
  BY <1>2 DEF Retry
<1>6. t \in TryType /\ t.pc = "net"
  BY DEF TryType
<1> HIDE DEF p, t
<1>7. /\ editor' \in [Editors -> PageType] /\ editor'[e] = p
      /\ \A f \in Editors : f # e => editor'[f] = editor[f]
  BY <1>2, <1>4, <1>5
<1>8. /\ try' \in [Keys \X Slots -> TryType] /\ try'[<<k, s>>] = t
      /\ \A l \in Keys, r \in Slots : (l # k \/ r # s) => try'[<<l, r>>] = try[<<l, r>>]
  BY <1>1, <1>2, <1>3, <1>6
<1> HIDE DEF k
<1>9. Used(k)
  BY <1>3 DEF Used, Unused, CommandAssumption
<1>10. TypeOK'
  <2>1. Held'
    <3> SUFFICES ASSUME NEW l \in Keys, NEW r \in Slots
                 PROVE  try'[<<l, r>>].pc \in {"begun", "end"} <=> lock'[l] = r
      BY DEF Held
    <3>1. try'[<<l, r>>].pc \in {"begun", "end"} <=> try[<<l, r>>].pc \in {"begun", "end"}
      BY <1>1, <1>6, <1>8
    <3> QED BY <1>1, <3>1, Typed DEF Held
  <2> QED BY <1>1, <1>7, <1>8, <2>1, Typed, TypedNext
<1>11. \A l \in Keys : /\ l # k => (Live(l)' <=> Live(l))
                       /\ (Used(l)' <=> Used(l)) /\ KindOf(l)' = KindOf(l) /\ (Certain(l)' <=> Certain(l))
  BY <1>1, <1>8 DEF Live, Used, KindOf, Certain
<1>12. \A l \in Keys : KeySound(l)'
  <2> SUFFICES ASSUME NEW l \in Keys PROVE KeySound(l)'
    OBVIOUS
  <2>1. ~Used(l) => \A r \in Slots : try'[<<l, r>>] = try[<<l, r>>]
    BY <1>8, <1>9
  <2> QED BY <1>1, <1>11, <2>1 DEF CommandInv, KeySound
<1>13. \A l \in Keys, r \in Slots : TrySound(l, r)'
  <2> SUFFICES ASSUME NEW l \in Keys, NEW r \in Slots PROVE TrySound(l, r)'
    OBVIOUS
  <2>1. TrySound(l, r) /\ effects' = effects /\ command' = command
    BY <1>1 DEF CommandInv
  <2>2. CASE l = k /\ r = s
    BY <1>6, <1>8, <2>2 DEF TrySound
  <2>3. CASE l # k \/ r # s
    <3>1. try'[<<l, r>>] = try[<<l, r>>]
      BY <1>8, <2>3
    <3>2. Hears(command[l].of, l, r) => Hears(command[l].of, l, r)'
      BY <1>1, <1>7, <2>1 DEF Hears
    <3>3. Hears(command[l].of, l, r)' => l # k /\ Hears(command[l].of, l, r)
      BY <1>3, <1>4, <1>7, <2>1, <2>3 DEF Hears
    <3> QED BY <1>11, <2>1, <3>1, <3>2, <3>3 DEF TrySound
  <2> QED BY <2>2, <2>3
<1>14. \A f \in Editors : PageSound(f)'
  <2> SUFFICES ASSUME NEW f \in Editors PROVE PageSound(f)'
    OBVIOUS
  <2>1. PageSound(f) /\ effects' = effects /\ command' = command
    BY <1>1 DEF CommandInv
  <2>2. CASE f = e
    BY <1>3, <1>4, <1>7, <2>1, <2>2 DEF PageSound
  <2>3. CASE f # e
    <3>1. editor'[f] = editor[f]
      BY <1>7, <2>3
    <3>2. editor[f].pc # "idle" => editor[f].key \in Keys /\ editor[f].key # k
      BY <1>3, <2>1, <2>3 DEF PageSound
    <3>3. editor[f].pc # "idle" => \A r \in Slots : try'[<<editor[f].key, r>>] = try[<<editor[f].key, r>>]
      BY <1>8, <3>2
    <3> QED BY <2>1, <3>1, <3>3 DEF PageSound, Untouched
  <2> QED BY <2>2, <2>3
<1>15. Released' /\ OneSave'
  <2>1. Released /\ OneSave /\ command' = command
    BY <1>1 DEF CommandInv
  <2>2. ASSUME NEW f \in Editors, NEW l \in Keys, command[l].of = f, ~editor'[f].done, editor'[f].key # l, Certain(l)
        PROVE  ~Live(l)'
    <3>1. l # k
      BY <1>3, <1>4, <1>7, <2>2
    <3>2. ~editor[f].done /\ editor[f].key # l
      BY <1>3, <1>4, <1>7, <2>2, <3>1 DEF k
    <3> QED BY <1>11, <2>1, <2>2, <3>1, <3>2 DEF Released, KeysOf
  <2>3. ASSUME NEW l \in Keys, command[l].of = e, l # k, Certain(l) PROVE ~Live(l)'
    <3>1. editor[e].key # l
      BY <2>3 DEF k
    <3> QED BY <1>3, <1>11, <2>1, <2>3, <3>1 DEF Released, KeysOf
  <2>4. ASSUME NEW l \in Keys, NEW m \in Keys, Used(l), Used(m), command[l].of = command[m].of,
               Certain(l), Certain(m), Live(l)', Live(m)'
        PROVE  l = m
    <3>1. CASE l # k /\ m # k
      BY <1>11, <2>1, <2>4, <3>1 DEF OneSave
    <3>2. CASE l = k \/ m = k
      BY <1>3, <2>3, <2>4, <3>2
    <3> QED BY <3>1, <3>2
  <2> QED BY <1>11, <2>1, <2>2, <2>4 DEF Released, OneSave, KeysOf
<1>16. OneUpdate'
  BY <1>1 DEF CommandInv, OneUpdate, Used, KindOf
<1>17. SavedIsCarriedOut'
  <2>1. \A f \in Editors : editor'[f].done \/ editor'[f].confirmed => editor[f].done \/ editor[f].confirmed
    BY <1>4, <1>7
  <2> QED BY <1>1, <2>1 DEF CommandInv, SavedIsCarriedOut, KeysOf
<1> QED BY <1>1, <1>10, <1>12, <1>13, <1>14, <1>15, <1>16, <1>17, Typed DEF CommandInv

----------------------------------------------------------------------------
(* The transaction, the receipts *)

LEMMA CommitStep ==
  ASSUME CommandAssumption, CommandInv, NEW k \in Keys, NEW s \in Slots, Commit(k, s)
  PROVE  CommandInv'
<1> DEFINE a == IF Verdict(k) = "REPLAY" THEN "OK" ELSE Verdict(k)
           t == [pc |-> "end", answer |-> a]
<1>1. /\ lock \in [Keys -> Slots \cup {None}] /\ lock[k] = s /\ try[<<k, s>>].pc = "begun"
      /\ try \in [Keys \X Slots -> TryType] /\ effects \in [Keys -> 0 .. 2] /\ version \in 1 .. MaxVersion
      /\ MaxVersion \in Nat
  BY Typed DEF Held, Commit, CommandAssumption
<1>2. KeySound(k) /\ Live(k) /\ Used(k)
  BY <1>1 DEF CommandInv, Live, KeySound
<1>3. UNCHANGED <<editor, command, lock, taken, forgotten>> /\ try' = [try EXCEPT ![<<k, s>>] = t]
  BY DEF Commit
<1>4. /\ a \in Answers \ Uncertain /\ a # "UNAUTHORIZED"
      /\ a # "OK" => a = Verdict(k) /\ a \in Refusals
      /\ a \in Refusals => a = Verdict(k) /\ receipt[k] = "none"
      /\ Verdict(k) \notin {"OK", "REPLAY"} => a # "OK"
      /\ Verdict(k) = "OK" => receipt[k] = "none" /\ (KindOf(k) = "UPDATE" => command[k].version = version)
      /\ Verdict(k) = "REPLAY" => receipt[k] # "none"
  BY DEF Verdict, Answers, Uncertain, Refusals
<1>5. t \in TryType /\ t.pc = "end" /\ t.answer = a /\ ~Untouched(t) /\ a # ""
  BY <1>4 DEF TryType, Untouched, Answers, Uncertain, Refusals
<1> HIDE DEF t, a
<1>6. CASE Verdict(k) # "OK"
  <2>1. UNCHANGED <<editor, command, receipt, version, taken, effects, forgotten>>
    BY <1>3, <1>6 DEF Commit
  <2>2. a = "OK" => effects[k] > 0
    BY <1>1, <1>2, <1>4, <1>6 DEF KeySound
  <2>3. doubtful' \subseteq Keys /\ \A l \in Keys : l # k => (l \in doubtful' <=> l \in doubtful)
    BY Typed DEF Commit, Decides
  <2>4. a \in Refusals /\ Certain(k)' => ~Live(k)'
    <3> SUFFICES ASSUME a \in Refusals, Certain(k)' PROVE ~Live(k)'
      OBVIOUS
    <3>1. k \notin doubtful' /\ k \notin forgotten /\ Verdict(k) \in Refusals /\ receipt[k] = "none"
      BY <1>3, <1>4 DEF Certain
    <3>2. \A r \in Slots : try[<<k, r>>].pc # "net"
      BY <3>1 DEF Commit, Decides
    <3>3. \A r \in Slots : try[<<k, r>>].pc = "begun" => r = s
      BY <1>1, Typed DEF Held
    <3>4. \A r \in Slots : try'[<<k, r>>].pc \notin {"net", "begun"}
      BY <1>1, <1>3, <1>5, <3>2, <3>3
    <3>5. effects'[k] = 0
      BY <1>1, <1>2, <2>1, <3>1 DEF KeySound
    <3>6. ~(effects'[k] > 0)
      BY <3>5
    <3> QED BY <3>4, <3>6, Zenon DEF Live
  <2>5. Certain(k)' => Certain(k) \/ ~Live(k)'
    <3>1. CASE a \in Refusals
      BY <2>4, <3>1
    <3>2. CASE a \notin Refusals
      <4>1. Verdict(k) \notin Refusals
        BY <1>4, <1>6, <3>2 DEF Refusals, Verdict
      <4> QED BY <1>3, <4>1 DEF Commit, Decides, Certain
    <3> QED BY <3>1, <3>2
  <2> QED BY <1>1, <1>3, <1>4, <1>5, <2>1, <2>2, <2>3, <2>4, <2>5, TryStep
<1>7. CASE Verdict(k) = "OK"
  <2>1. /\ receipt' = [receipt EXCEPT ![k] = "fresh"] /\ effects' = [effects EXCEPT ![k] = effects[k] + 1]
        /\ version' = IF KindOf(k) = "UPDATE" THEN version + 1 ELSE version
        /\ version < MaxVersion
    BY <1>7 DEF Commit, CarryOut
  <2>2. effects[k] = IF k \in forgotten THEN 1 ELSE 0
    BY <1>2, <1>4, <1>7 DEF KeySound
  <2>3. KindOf(k) = "UPDATE" => effects[k] = 0 /\ command[k].version = version
    <3>1. SUFFICES ASSUME KindOf(k) = "UPDATE", effects[k] > 0 PROVE FALSE
      BY <1>1, <1>4, <1>7
    <3>2. command[k].version < version /\ command[k].version = version
      BY <1>2, <1>4, <1>7, <3>1 DEF KeySound
    <3> QED BY <1>1, <3>2
  <2>4. /\ effects' \in [Keys -> 0 .. 2] /\ effects'[k] = effects[k] + 1
        /\ \A l \in Keys : l # k => effects'[l] = effects[l]
    BY <1>1, <2>1, <2>2
  <2>5. /\ receipt' \in [Keys -> {"none", "fresh", "expired"}] /\ receipt'[k] = "fresh"
        /\ \A l \in Keys : l # k => receipt'[l] = receipt[l]
    BY <2>1, Typed
  <2>6. version' \in 1 .. MaxVersion /\ version <= version' /\ (KindOf(k) = "UPDATE" => version' = version + 1)
    BY <1>1, <2>1
  <2>7. /\ try' \in [Keys \X Slots -> TryType] /\ try'[<<k, s>>] = t
        /\ \A l \in Keys, r \in Slots : (l # k \/ r # s) => try'[<<l, r>>] = try[<<l, r>>]
    BY <1>1, <1>3, <1>5
  <2>8. TypeOK'
    <3>1. Held'
      <4> SUFFICES ASSUME NEW l \in Keys, NEW r \in Slots
                   PROVE  try'[<<l, r>>].pc \in {"begun", "end"} <=> lock'[l] = r
        BY DEF Held
      <4>1. try'[<<l, r>>].pc \in {"begun", "end"} <=> try[<<l, r>>].pc \in {"begun", "end"}
        BY <1>1, <1>5, <2>7
      <4> QED BY <1>3, <4>1, Typed DEF Held
    <3>2. doubtful' \subseteq Keys
      BY <1>7, Typed DEF Commit, Decides, Refusals
    <3> QED BY <1>3, <2>4, <2>5, <2>6, <2>7, <3>1, <3>2, Typed, TypedNext
  <2>9. /\ doubtful' = doubtful
        /\ \A l \in Keys : (Live(l)' => Live(l)) /\ (Used(l)' <=> Used(l)) /\ KindOf(l)' = KindOf(l)
        /\ \A l \in Keys : Certain(l)' <=> Certain(l)
    <3>1. doubtful' = doubtful
      BY <1>7 DEF Commit, Decides, Refusals
    <3>2. ASSUME NEW l \in Keys PROVE Live(l)' => Live(l)
      <4>1. CASE l = k
        BY <1>2, <4>1
      <4>2. CASE l # k
        BY <2>4, <2>7, <4>2 DEF Live
      <4> QED BY <4>1, <4>2
    <3> QED BY <1>3, <3>1, <3>2 DEF Used, KindOf, Certain
  <2>10. \A l \in Keys : KeySound(l)'
    <3> SUFFICES ASSUME NEW l \in Keys PROVE KeySound(l)'
      OBVIOUS
    <3>1. KeySound(l) /\ command' = command /\ forgotten' = forgotten
      BY <1>3 DEF CommandInv
    <3>2. command[l].version \in Nat /\ version \in Nat /\ version' \in Nat
      BY <1>1, <2>6, Typed DEF CommandType
    <3>3. CASE l = k
      <4>1. effects'[l] = (IF l \in forgotten' THEN 1 ELSE 0) + (IF receipt'[l] = "none" THEN 0 ELSE 1)
        BY <2>2, <2>4, <2>5, <3>1, <3>3
      <4>2. KindOf(l) = "UPDATE" => command[l].version < version' /\ effects'[l] = 1
        BY <2>3, <2>4, <2>6, <3>2, <3>3
      <4> QED BY <1>2, <2>5, <2>9, <3>1, <3>3, <4>1, <4>2 DEF KeySound
    <3>4. CASE l # k
      <4>1. effects'[l] = effects[l] /\ receipt'[l] = receipt[l]
        BY <2>4, <2>5, <3>4
      <4>2. command[l].version < version => command[l].version < version'
        BY <2>6, <3>2
      <4>3. \A r \in Slots : try'[<<l, r>>] = try[<<l, r>>]
        BY <2>7, <3>4
      <4> QED BY <2>9, <3>1, <4>1, <4>2, <4>3 DEF KeySound
    <3> QED BY <3>3, <3>4
  <2>11. \A l \in Keys : effects[l] > 0 => effects'[l] > 0
    BY <1>1, <2>4
  <2>12. \A l \in Keys, r \in Slots : TrySound(l, r)'
    <3> SUFFICES ASSUME NEW l \in Keys, NEW r \in Slots PROVE TrySound(l, r)'
      OBVIOUS
    <3>1. TrySound(l, r) /\ editor' = editor /\ command' = command
      BY <1>3 DEF CommandInv
    <3>2. CASE l = k /\ r = s
      <4>1. effects'[k] > 0
        BY <2>2, <2>4
      <4>2. a = "OK" /\ a \notin Refusals
        BY <1>4, <1>7 DEF Refusals
      <4> QED BY <1>5, <2>7, <3>2, <4>1, <4>2 DEF TrySound
    <3>3. CASE l # k \/ r # s
      <4>1. try'[<<l, r>>] = try[<<l, r>>]
        BY <2>7, <3>3
      <4> QED BY <2>9, <2>11, <3>1, <4>1 DEF TrySound, Hears
    <3> QED BY <3>2, <3>3
  <2>13. \A f \in Editors : PageSound(f)'
    <3> SUFFICES ASSUME NEW f \in Editors PROVE PageSound(f)'
      OBVIOUS
    <3>1. PageSound(f) /\ editor' = editor /\ command' = command
      BY <1>3 DEF CommandInv
    <3>2. ASSUME editor[f].pc = "waiting", ~editor[f].recovering
          PROVE  /\ \A r \in Slots : r # editor[f].slot => try'[<<editor[f].key, r>>].pc = "free"
                 /\ Untouched(try'[<<editor[f].key, editor[f].slot>>]) => effects'[editor[f].key] = 0
      <4>1. editor[f].key \in Keys /\ editor[f].slot \in Slots
        BY <3>1, <3>2 DEF PageSound
      <4>2. CASE editor[f].key = k
        <5>1. editor[f].slot = s
          BY <1>1, <3>1, <3>2, <4>2 DEF PageSound
        <5> QED BY <1>5, <2>7, <3>1, <3>2, <4>2, <5>1 DEF PageSound
      <4>3. CASE editor[f].key # k
        BY <2>4, <2>7, <3>1, <3>2, <4>1, <4>3 DEF PageSound
      <4> QED BY <4>2, <4>3
    <3> QED BY <3>1, <3>2 DEF PageSound, Untouched
  <2>14. Released' /\ OneSave'
    BY <1>3, <2>9 DEF CommandInv, Released, OneSave, KeysOf
  <2>15. OneUpdate'
    <3> SUFFICES ASSUME NEW l \in Keys, NEW m \in Keys, Used(l), Used(m), KindOf(l) = "UPDATE", KindOf(m) = "UPDATE",
                        effects'[l] > 0, effects'[m] > 0, command[l].version = command[m].version
                 PROVE  l = m
      BY <1>3, <2>9 DEF OneUpdate
    <3>1. \A n \in Keys : n # k /\ effects'[n] > 0 => effects[n] > 0
      BY <2>4
    <3>2. ASSUME NEW n \in Keys, n # k, effects[n] > 0, Used(n), KindOf(n) = "UPDATE", KindOf(k) = "UPDATE"
          PROVE  command[n].version # command[k].version
      <4>1. command[n].version < version /\ command[k].version = version /\ command[n].version \in Nat
        BY <2>3, <3>2, Typed DEF CommandInv, KeySound, CommandType
      <4> QED BY <1>1, <4>1
    <3>3. CASE l # k /\ m # k
      BY <3>1, <3>3 DEF CommandInv, OneUpdate
    <3>4. CASE l = k \/ m = k
      BY <3>1, <3>2, <3>4
    <3> QED BY <3>3, <3>4
  <2>16. SavedIsCarriedOut'
    BY <1>3, <2>11 DEF CommandInv, SavedIsCarriedOut, KeysOf
  <2> QED BY <1>1, <1>3, <2>8, <2>10, <2>12, <2>13, <2>14, <2>15, <2>16 DEF CommandInv
<1> QED BY <1>6, <1>7

\* Receipts expire and are deleted, and others pin posts.
LEMMA AroundStep ==
  ASSUME CommandAssumption, CommandInv,
         UNCHANGED vars \/ OthersAct \/ \E k \in Keys : ExpireReceipt(k) \/ CleanupReceipt(k)
  PROVE  CommandInv'
<1>1. /\ UNCHANGED <<editor, command, try, lock, version, effects, doubtful>>
      /\ effects \in [Keys -> 0 .. 2] /\ receipt \in [Keys -> {"none", "fresh", "expired"}]
  BY Typed DEF OthersAct, ExpireReceipt, CleanupReceipt, vars
<1>2. /\ receipt' \in [Keys -> {"none", "fresh", "expired"}] /\ forgotten' \subseteq Keys /\ taken' \in BOOLEAN
      /\ forgotten \subseteq forgotten'
      /\ \A l \in Keys :
           /\ receipt'[l] = "expired" => l \notin forgotten'
           /\ effects[l] = (IF l \in forgotten' THEN 1 ELSE 0) + (IF receipt'[l] = "none" THEN 0 ELSE 1)
  <2>1. \A l \in Keys :
           /\ receipt[l] = "expired" => l \notin forgotten
           /\ effects[l] = (IF l \in forgotten THEN 1 ELSE 0) + (IF receipt[l] = "none" THEN 0 ELSE 1)
    BY DEF CommandInv, KeySound
  <2>2. CASE OthersAct \/ UNCHANGED vars
    BY <1>1, <2>1, <2>2, Typed DEF OthersAct, vars
  <2>3. ASSUME NEW k \in Keys, ExpireReceipt(k)
        PROVE  /\ receipt' \in [Keys -> {"none", "fresh", "expired"}] /\ forgotten' \subseteq Keys /\ taken' \in BOOLEAN
               /\ forgotten \subseteq forgotten'
               /\ \A l \in Keys :
                    /\ receipt'[l] = "expired" => l \notin forgotten'
                    /\ effects[l] = (IF l \in forgotten' THEN 1 ELSE 0) + (IF receipt'[l] = "none" THEN 0 ELSE 1)
    <3>1. receipt'[k] = "expired" /\ \A l \in Keys : l # k => receipt'[l] = receipt[l]
      BY <1>1, <2>3 DEF ExpireReceipt
    <3> QED BY <1>1, <2>1, <2>3, <3>1, Typed DEF ExpireReceipt
  <2>4. ASSUME NEW k \in Keys, CleanupReceipt(k)
        PROVE  /\ receipt' \in [Keys -> {"none", "fresh", "expired"}] /\ forgotten' \subseteq Keys /\ taken' \in BOOLEAN
               /\ forgotten \subseteq forgotten'
               /\ \A l \in Keys :
                    /\ receipt'[l] = "expired" => l \notin forgotten'
                    /\ effects[l] = (IF l \in forgotten' THEN 1 ELSE 0) + (IF receipt'[l] = "none" THEN 0 ELSE 1)
    <3>1. receipt'[k] = "none" /\ \A l \in Keys : l # k => receipt'[l] = receipt[l]
      BY <1>1, <2>4 DEF CleanupReceipt
    <3> QED BY <1>1, <2>1, <2>4, <3>1, Typed DEF CleanupReceipt
  <2> QED BY <2>2, <2>3, <2>4
<1>3. TypeOK'
  <2>1. Held'
    BY <1>1, Typed DEF Held
  <2> QED BY <1>1, <1>2, <2>1, Typed, TypedNext
<1>4. \A l \in Keys : KeySound(l)'
  BY <1>1, <1>2 DEF CommandInv, KeySound, Used, KindOf
<1>5. \A l \in Keys, r \in Slots : TrySound(l, r)'
  <2> SUFFICES ASSUME NEW l \in Keys, NEW r \in Slots PROVE TrySound(l, r)'
    OBVIOUS
  <2>1. TrySound(l, r)
    BY DEF CommandInv
  <2>2. (Live(l)' <=> Live(l)) /\ (Certain(l)' => Certain(l))
    BY <1>1, <1>2 DEF Live, Certain
  <2> QED BY <1>1, <2>1, <2>2 DEF TrySound, Hears
<1>6. \A f \in Editors : PageSound(f)'
  BY <1>1 DEF CommandInv, PageSound, Untouched
<1>7. Released' /\ OneSave' /\ OneUpdate' /\ SavedIsCarriedOut'
  <2>1. \A l \in Keys : /\ (Live(l)' <=> Live(l)) /\ (Used(l)' <=> Used(l)) /\ KindOf(l)' = KindOf(l)
                        /\ Certain(l)' => Certain(l)
    BY <1>1, <1>2 DEF Live, Used, KindOf, Certain
  <2>2. Released' /\ OneSave'
    <3>1. /\ Released /\ OneSave /\ UNCHANGED <<editor, command>>
          /\ \A l \in Keys : Certain(l)' /\ Live(l)' => Certain(l) /\ Live(l)
      BY <1>1, <2>1 DEF CommandInv
    <3> QED BY <3>1 DEF Released, OneSave, KeysOf, Used
  <2>3. OneUpdate'
    BY <1>1, <2>1 DEF CommandInv, OneUpdate
  <2>4. SavedIsCarriedOut'
    BY <1>1 DEF CommandInv, SavedIsCarriedOut, KeysOf
  <2> QED BY <2>2, <2>3, <2>4
<1> QED BY <1>1, <1>3, <1>4, <1>5, <1>6, <1>7, Typed DEF CommandInv

----------------------------------------------------------------------------
LEMMA CommandInit == ASSUME CommandAssumption, Init PROVE CommandInv
<1>1. /\ editor = [e \in Editors |-> Page] /\ command = [k \in Keys |-> Unused]
      /\ try = [t \in Keys \X Slots |-> Free] /\ lock = [k \in Keys |-> None]
      /\ receipt = [k \in Keys |-> "none"] /\ version = 1 /\ taken = FALSE
      /\ effects = [k \in Keys |-> 0] /\ forgotten = {} /\ doubtful = {}
      /\ MaxVersion \in Nat \ {0} /\ None \notin Slots /\ None \notin Editors
  BY DEF Init, CommandAssumption
<1>2. Page \in PageType /\ Page.pc = "idle" /\ Page.key = None /\ ~Page.done /\ ~Page.confirmed
  BY <1>1 DEF Page, PageType
<1>3. Free \in TryType /\ Free.pc = "free" /\ Unused \in CommandType
  <2>1. Free \in TryType /\ Free.pc = "free"
    BY DEF Free, TryType
  <2>2. 0 \in 0 .. MaxVersion
    BY <1>1
  <2> QED BY <2>1, <2>2 DEF Unused, CommandType
<1>4. \A k \in Keys, s \in Slots : try[<<k, s>>] = Free
  BY <1>1
<1>5. /\ editor \in [Editors -> PageType] /\ command \in [Keys -> CommandType]
      /\ try \in [Keys \X Slots -> TryType] /\ lock \in [Keys -> Slots \cup {None}]
  BY <1>1, <1>2, <1>3
<1>6. TypeOK
  <2>1. \A k \in Keys, s \in Slots : try[<<k, s>>].pc \in {"begun", "end"} <=> lock[k] = s
    BY <1>1, <1>3, <1>4
  <2>2. /\ receipt \in [Keys -> {"none", "fresh", "expired"}] /\ version \in 1 .. MaxVersion
        /\ taken \in BOOLEAN /\ effects \in [Keys -> 0 .. 2] /\ forgotten \subseteq Keys /\ doubtful \subseteq Keys
    <3>1. version \in 1 .. MaxVersion
      BY <1>1
    <3>2. receipt \in [Keys -> {"none", "fresh", "expired"}] /\ forgotten \subseteq Keys /\ doubtful \subseteq Keys
      BY <1>1
    <3>3. effects \in [Keys -> 0 .. 2]
      BY <1>1
    <3>4. taken \in BOOLEAN
      BY <1>1
    <3> QED BY <3>1, <3>2, <3>3, <3>4
  <2> QED BY <1>5, <2>1, <2>2 DEF TypeOK, PageType, CommandType, TryType
<1>7. \A k \in Keys : ~Used(k) /\ ~Live(k) /\ effects[k] = 0 /\ \A s \in Slots : try[<<k, s>>].pc = "free"
  <2> SUFFICES ASSUME NEW k \in Keys
               PROVE  ~Used(k) /\ ~Live(k) /\ effects[k] = 0 /\ \A s \in Slots : try[<<k, s>>].pc = "free"
    OBVIOUS
  <2>1. command[k] = Unused /\ effects[k] = 0 /\ \A s \in Slots : try[<<k, s>>].pc = "free"
    BY <1>1, <1>3, <1>4
  <2>2. ~(effects[k] > 0)
    BY <2>1
  <2> QED BY <2>1, <2>2, Zenon DEF Used, Live
<1>8. \A k \in Keys : KeySound(k)
  BY <1>1, <1>7 DEF KeySound
<1>9. \A k \in Keys, s \in Slots : TrySound(k, s)
  BY <1>3, <1>4 DEF TrySound
<1>10. \A e \in Editors : PageSound(e)
  BY <1>1, <1>2 DEF PageSound
<1>11. Released /\ OneSave /\ OneUpdate /\ SavedIsCarriedOut
  BY <1>1, <1>2, <1>7 DEF Released, OneSave, OneUpdate, SavedIsCarriedOut, KeysOf
<1> QED BY <1>5, <1>6, <1>8, <1>9, <1>10, <1>11 DEF CommandInv

LEMMA CommandNext == ASSUME CommandAssumption, CommandInv, [Next]_vars PROVE CommandInv'
<1>1. CASE UNCHANGED vars
  BY <1>1, AroundStep
<1>2. ASSUME NEW k \in Keys, NEW s \in Slots, Handle(k, s) \/ Fails(k, s) PROVE CommandInv'
  BY <1>2, BeginStep, CommitStep, AnswerStep, UnlockStep, UnauthorizedStep, VanishStep, CommandFailsStep
     DEF Handle, Fails
<1>3. ASSUME NEW e \in Editors,
             \/ \E s \in Slots : Retry(e, s) \/ (\E k \in Keys : Save(e, k, s))
             \/ Load(e) \/ GiveUpWaiting(e) \/ ReadDetail(e) \/ ReadFails(e)
      PROVE  CommandInv'
  BY <1>3, RetryStep, SaveStep, LoadStep, GiveUpStep, ReadStep
<1> QED BY <1>1, <1>2, <1>3, AroundStep DEF Next

LEMMA InvSound == ASSUME CommandAssumption, CommandInv PROVE CommandSound
<1>1. TypeOK /\ SavedIsCarriedOut /\ effects \in [Keys -> 0 .. 2]
  BY Typed DEF CommandInv
<1>2. RejectedHasNoEffect
  <2> SUFFICES ASSUME NEW e \in Editors, NEW k \in KeysOf(e), Certain(k), ~editor[e].done, editor[e].key # k
               PROVE  effects[k] = 0
    BY DEF RejectedHasNoEffect, Certain
  <2>1. ~Live(k) /\ k \in Keys
    BY DEF CommandInv, Released, KeysOf
  <2> QED BY <1>1, <2>1 DEF Live
<1>3. OnceForEachSave
  <2> SUFFICES ASSUME NEW k \in Keys, NEW l \in Keys, Used(k), Used(l), SameSave(k, l)
               PROVE  \/ effects[k] + (IF k = l THEN 0 ELSE effects[l]) <= 1
                      \/ KindOf(k) = "CREATE" /\ {k, l} \cap (forgotten \cup doubtful) # {}
    BY DEF OnceForEachSave, Used
  <2>1. /\ effects[k] = (IF k \in forgotten THEN 1 ELSE 0) + (IF receipt[k] = "none" THEN 0 ELSE 1)
        /\ effects[l] = (IF l \in forgotten THEN 1 ELSE 0) + (IF receipt[l] = "none" THEN 0 ELSE 1)
        /\ KindOf(k) = "UPDATE" /\ effects[k] > 0 => effects[k] = 1
        /\ KindOf(l) = "UPDATE" /\ effects[l] > 0 => effects[l] = 1
    BY DEF CommandInv, KeySound
  <2>2. KindOf(k) \in {"CREATE", "UPDATE"}
    BY DEF CommandInv, KeySound, KindOf, CommandAssumption
  <2>3. effects[k] \in 0 .. 2 /\ effects[l] \in 0 .. 2
    BY <1>1
  <2>4. CASE KindOf(k) = "CREATE"
    <3>1. k # l /\ Certain(k) /\ Certain(l) => effects[k] = 0 \/ effects[l] = 0
      BY <2>3, <2>4 DEF CommandInv, OneSave, SameSave, Live
    <3> QED BY <2>1, <2>3, <2>4, <3>1 DEF Certain
  <2>5. CASE KindOf(k) = "UPDATE"
    <3>1. KindOf(l) = "UPDATE" /\ command[k].version = command[l].version
      BY <2>5 DEF SameSave
    <3>2. k # l => effects[k] = 0 \/ effects[l] = 0
      BY <2>3, <2>5, <3>1 DEF CommandInv, OneUpdate
    <3> QED BY <2>1, <2>3, <2>5, <3>1, <3>2
  <2> QED BY <2>2, <2>4, <2>5
<1> QED BY <1>1, <1>2, <1>3 DEF CommandSound

(***************************************************************************)
(* What the page of the administration says of a save is what happened to  *)
(* it (execute in admin.vue, PostsService.command): a save is carried out  *)
(* at most once, "saved" is true, and a rejected command is never carried  *)
(* out; except for what the page can not know when it takes the rejection  *)
(* of a retry for the outcome, or comes after the 24 hours of the receipt. *)
(***************************************************************************)
THEOREM CommandIsSound == ASSUME CommandAssumption PROVE Spec => []CommandSound
<1>1. Init => CommandInv
  BY CommandInit
<1>2. CommandInv /\ [Next]_vars => CommandInv'
  BY CommandNext
<1>3. CommandInv => CommandSound
  BY InvSound
<1> QED BY <1>1, <1>2, <1>3, PTL DEF Spec
=============================================================================
