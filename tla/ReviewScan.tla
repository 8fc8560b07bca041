------------------------------ MODULE ReviewScan ------------------------------
(***************************************************************************)
(* The scans of the review messages: at each slot of the day a run         *)
(* (collect.discord_review_scan_run) goes through the deliveries that were *)
(* READY, reads the reactions of one after the other and has each decided  *)
(* (scan of DiscordReviewWorker, startScan to finishObservation of         *)
(* TypeOrmDiscordReviewRepository, finish of DiscordReviewService).        *)
(*                                                                         *)
(* A call of finish goes on in the API when its worker has died.           *)
(***************************************************************************)
EXTENDS ReviewVote, Sequences

CONSTANTS
  Deliveries,   \* the review messages
  MaxSlot,      \* bounds: slots of the day,
  MaxDeaths,    \*   times that a process dies or is too slow,
  MaxVotes      \*   reactions that come or go

ScanAssumption == MaxSlot \in Nat /\ MaxDeaths \in Nat /\ MaxVotes \in Nat

VARIABLES
  slot,     \* the most recent slot that is due
  run,      \* the run of each slot
  row,      \* the deliveries, with the control row and the command of their item
  worker,   \* the worker
  fin,      \* the call of finish of each claim
  marks,    \* the reactions in Discord
  votes,    \* how many came or went
  claims,   \* claims of a run so far
  deaths,   \* how often a process died or was too slow
  since     \* history: for each claim, the marks since its last observation began, those that
            \*   stayed and all

vars == <<slot, run, row, worker, fin, marks, votes, claims, deaths, since>>

Slots == 1..MaxSlot
\* A claim ends with the run, or with a process that dies.
Tokens == 1..(MaxSlot + MaxDeaths)
Ranks == 0..Cardinality(Deliveries)
Order == <<"head", "p1">>
Messages == {Order[i] : i \in DOMAIN Order}
Mark == [emoji : {Up, Down}, user : Reviewers]
NoObservation == [scan |-> 0, fresh |-> FALSE, expired |-> FALSE, chunks |-> <<>>]
NoFin == [at |-> "none", d |-> CHOOSE d \in Deliveries : TRUE, s |-> 0, fresh |-> FALSE, expired |-> FALSE,
          read |-> <<>>, version |-> 0, decision |-> Hold("UNAPPROVED")]
Idle == [at |-> "idle", s |-> 0, token |-> 0, d |-> CHOOSE d \in Deliveries : TRUE, read |-> <<>>, sent |-> 0]

\* The rows, and what relates them.
TypeOK ==
  /\ slot \in 0..MaxSlot /\ claims \in {0} \cup Tokens /\ votes \in 0..MaxVotes /\ deaths \in 0..MaxDeaths
  /\ \A s \in Slots :
       /\ run[s].state \in {"none", "RUNNING", "COMPLETED"} /\ run[s].live \in BOOLEAN
       /\ run[s].cutoff \in Ranks /\ run[s].cursor \in 0..run[s].cutoff /\ run[s].token \in 0..claims
  /\ \A d \in Deliveries :
       /\ row[d].state \in {"EXPORTING", "READY", "CANCELLED"} /\ row[d].rank \in Ranks
       /\ row[d].state = "READY" => row[d].rank > 0
       /\ row[d].command \in {"none", "active", "ended"} /\ row[d].admin \in BOOLEAN
       /\ row[d].examined \subseteq Slots /\ row[d].taken <= claims /\ row[d].expired \in BOOLEAN
       /\ row[d].keys \subseteq Slots \X (Reviewers \cup {"system"}) /\ row[d].overlap \in BOOLEAN
       /\ row[d].obs.scan \in 0..MaxSlot /\ Len(row[d].obs.chunks) <= 2
       /\ marks[d] \in [Messages -> SUBSET Mark]
  /\ worker.at \in {"idle", "next", "read", "send", "finish", "waiting"}
  /\ worker.at # "idle" => worker.s \in Slots /\ worker.token \in Tokens
  /\ \A t \in Tokens : fin[t].at \in {"none", "observe", "decide", "accept", "record"}

Init ==
  /\ slot = 0 /\ claims = 0 /\ votes = 0 /\ deaths = 0
  /\ run = [s \in Slots |-> [state |-> "none", cutoff |-> 0, cursor |-> 0, token |-> 0, live |-> FALSE]]
  /\ row = [d \in Deliveries |->
              [state |-> "EXPORTING", rank |-> 0, expired |-> FALSE, command |-> "none", admin |-> FALSE,
               version |-> 0, keys |-> {}, taken |-> 0, overlap |-> FALSE, examined |-> {}, obs |-> NoObservation]]
  /\ worker = Idle
  /\ fin = [t \in Tokens |-> NoFin]
  /\ marks = [d \in Deliveries |-> [m \in Messages |-> {}]]
  /\ since = [t \in Tokens |-> [d |-> NoFin.d, stayed |-> {}, all |-> {}]]

Present(d) == {<<m, k>> \in Messages \X Mark : k \in marks[d][m]}
ReadySoFar == Cardinality({d \in Deliveries : row[d].rank > 0})
Dies == deaths < MaxDeaths /\ deaths' = deaths + 1
Lives == deaths' = deaths

----------------------------------------------------------------------------
(* The run of a slot *)

\* Bug: a run that was left is not taken up.
OwnRuns(r, token) == {s \in Slots : r[s].state = "RUNNING" /\ r[s].token = token}
Claimable(r, token) == {s \in Slots : r[s].state = "RUNNING" /\ (r[s].token = token \/ ~r[s].live)}
Earliest(ss) == CHOOSE s \in ss : \A o \in ss : s <= o

StartScan ==
  /\ worker.at = "idle" /\ slot > 0
  /\ LET token == claims + 1
         r == IF run[slot].state = "none"
              THEN [run EXCEPT ![slot] = [state |-> "RUNNING", cutoff |-> ReadySoFar, cursor |-> 0,
                                          token |-> token, live |-> TRUE]]
              ELSE run
         ss == Claimable(r, token)
     IN /\ ss # {}
        /\ claims' = token
        /\ run' = [r EXCEPT ![Earliest(ss)].token = token, ![Earliest(ss)].live = TRUE]
        /\ \/ Lives /\ worker' = [Idle EXCEPT !.at = "next", !.s = Earliest(ss), !.token = token]
           \/ Dies /\ UNCHANGED worker
  /\ UNCHANGED <<slot, row, fin, marks, votes, since>>

Leased(s, token) == run[s].state = "RUNNING" /\ run[s].token = token /\ run[s].live
LeaseLost == ~Leased(worker.s, worker.token)
\* Bug: a delivery whose command has ended is looked at again.
OpenAgain(d) == row[d].state = "READY" /\ ~row[d].admin /\ row[d].command # "active"
Open(d) == row[d].state = "READY" /\ ~row[d].admin /\ row[d].command = "none"
Left(s) == {d \in Deliveries : Open(d) /\ run[s].cursor < row[d].rank /\ row[d].rank <= run[s].cutoff}
First(ds) == CHOOSE d \in ds : \A o \in ds : row[d].rank <= row[o].rank

\* Bug: the chunks of an observation that was left stay.
Resume(s, d) == [row EXCEPT ![d].obs.scan = s, ![d].obs.fresh = TRUE, ![d].obs.expired = row[d].expired]
Observe(s, d) ==
  [row EXCEPT ![d].obs = [scan |-> s, fresh |-> TRUE, expired |-> row[d].expired, chunks |-> <<>>]]

NextScan ==
  /\ worker.at = "next" /\ ~LeaseLost
  /\ LET s == worker.s
         ds == Left(s)
     IN IF ds = {}
        THEN /\ run' = [run EXCEPT ![s].state = "COMPLETED"] /\ worker' = Idle
             /\ Lives /\ UNCHANGED <<row, since>>
        ELSE /\ row' = Observe(s, First(ds))
             /\ since' = [since EXCEPT ![worker.token] = [d |-> First(ds), stayed |-> Present(First(ds)),
                                                          all |-> Present(First(ds))]]
             /\ \/ Lives /\ worker' = [worker EXCEPT !.at = "read", !.d = First(ds), !.read = <<>>, !.sent = 0]
                \/ Dies /\ worker' = Idle
             /\ UNCHANGED run
  /\ UNCHANGED <<slot, fin, marks, votes, claims>>

\* The messages one after the other; a failure leaves nothing of what was read.
ReadMessage ==
  /\ worker.at = "read"
  /\ LET m == Order[Len(worker.read) + 1]
     IN \/ worker' = [worker EXCEPT !.read = Append(@, [message |-> m, marks |-> marks[worker.d][m]]),
                                    !.at = IF m = Order[Len(Order)] THEN "send" ELSE "read"]
        \/ worker' = [worker EXCEPT !.read = <<>>, !.at = "finish"]
  /\ UNCHANGED <<slot, run, row, fin, marks, votes, claims, since, deaths>>

\* Each message is a chunk here.
Chunk(i) == worker.read[i + 1]
SendChunk ==
  /\ worker.at = "send" /\ ~LeaseLost
  /\ LET d == worker.d
         i == worker.sent
         kept == row[d].obs.chunks
         taken == row[d].obs.scan = worker.s /\ (i = Len(kept) \/ (i < Len(kept) /\ kept[i + 1] = Chunk(i)))
     IN /\ row' = IF taken /\ i = Len(kept) THEN [row EXCEPT ![d].obs.chunks = Append(@, Chunk(i))] ELSE row
        /\ worker' = IF ~taken THEN Idle
                     ELSE [worker EXCEPT !.sent = i + 1,
                                         !.at = IF i + 1 < Len(worker.read) THEN "send" ELSE "finish"]
  /\ UNCHANGED <<slot, run, fin, marks, votes, claims, since, deaths>>

CallFinish ==
  /\ worker.at = "finish"
  /\ fin' = [fin EXCEPT ![worker.token] = [NoFin EXCEPT !.at = "observe", !.d = worker.d, !.s = worker.s]]
  /\ worker' = [worker EXCEPT !.at = "waiting"]
  /\ UNCHANGED <<slot, run, row, marks, votes, claims, since, deaths>>

\* The worker stops at a lease that is lost, as at any call that fails.
WorkerStops ==
  /\ worker.at # "idle" /\ worker' = Idle
  /\ IF LeaseLost THEN Lives ELSE Dies
  /\ UNCHANGED <<slot, run, row, fin, marks, votes, claims, since>>

----------------------------------------------------------------------------
(* finish, in the API *)

Answered(t) == worker.at = "waiting" /\ worker.token = t
Fails(t) ==
  /\ fin' = [fin EXCEPT ![t] = NoFin]
  /\ worker' = IF Answered(t) THEN Idle ELSE worker

\* The observation is read under the lease.
ReadObservation(t) ==
  /\ fin[t].at = "observe"
  /\ LET d == fin[t].d
         o == row[d].obs
     IN IF Leased(fin[t].s, t) /\ o.scan = fin[t].s
        THEN /\ fin' = [fin EXCEPT ![t].at = IF row[d].state = "READY" THEN "decide" ELSE "record",
                                   ![t].fresh = o.fresh, ![t].expired = o.expired,
                                   ![t].read = o.chunks]
             /\ UNCHANGED worker
        ELSE Fails(t)
  /\ UNCHANGED <<slot, run, row, marks, votes, claims, since, deaths>>

ReadOf(t, m) == UNION {fin[t].read[i].marks : i \in {j \in DOMAIN fin[t].read : fin[t].read[j].message = m}}
WereRead(t) == {fin[t].read[i].message : i \in DOMAIN fin[t].read}
Observation(t) ==
  [age |-> IF fin[t].fresh THEN "fresh" ELSE "stale", expired |-> fin[t].expired,
   headRead |-> "head" \in WereRead(t), partsRead |-> WereRead(t) \ {"head"}, others |-> FALSE,
   marks |-> [m \in Messages |-> ReadOf(t, m)]]

\* The item is read, then its reactions are judged; accept has the version that was read.
DecideCall(t) ==
  /\ fin[t].at = "decide"
  /\ LET o == Decide(Observation(t))
     IN fin' = [fin EXCEPT ![t].version = row[fin[t].d].version, ![t].decision = o,
                           ![t].at = IF o.action = "HOLD" THEN "record" ELSE "accept"]
  /\ UNCHANGED <<slot, run, row, worker, marks, votes, claims, since, deaths>>

\* A key of the scan and the delivery, for each actor.
Actor(decision) == IF decision.by = {} THEN "system" ELSE CHOOSE r \in decision.by : TRUE
Undecided(f) == ~row[f.d].admin /\ row[f.d].command # "active" /\ row[f.d].version = f.version
\* Another claim looks at the message.
LookedAt(t) ==
  \/ worker.at \notin {"idle", "next"} /\ worker.token # t /\ worker.d = fin[t].d
  \/ \E u \in Tokens \ {t} : fin[u].at # "none" /\ fin[u].d = fin[t].d
Accept(t) ==
  /\ fin[t].at = "accept"
  /\ LET f == fin[t]
         key == <<f.s, Actor(f.decision)>>
     IN row' = IF ~Undecided(f) \/ key \in row[f.d].keys THEN row
               ELSE [row EXCEPT ![f.d].command = IF f.decision.action = "REJECT" THEN "ended" ELSE "active",
                                ![f.d].state = IF f.decision.action = "REJECT" THEN "CANCELLED" ELSE @,
                                ![f.d].version = @ + 1, ![f.d].keys = @ \cup {key}, ![f.d].taken = @ + 1,
                                ![f.d].overlap = @ \/ LookedAt(t)]
  /\ fin' = [fin EXCEPT ![t].at = "record"]
  /\ UNCHANGED <<slot, run, worker, marks, votes, claims, since, deaths>>

Record(t) ==
  /\ fin[t].at = "record"
  /\ LET f == fin[t]
     IN IF Leased(f.s, t) /\ row[f.d].obs.scan = f.s
        THEN /\ row' = [row EXCEPT ![f.d].obs = NoObservation, ![f.d].examined = @ \cup {f.s}]
             /\ run' = [run EXCEPT ![f.s].cursor = row[f.d].rank]
             /\ fin' = [fin EXCEPT ![t] = NoFin]
             /\ worker' = IF Answered(t) THEN [worker EXCEPT !.at = "next", !.read = <<>>] ELSE worker
        ELSE Fails(t) /\ UNCHANGED <<row, run>>
  /\ UNCHANGED <<slot, marks, votes, claims, since, deaths>>

ApiDies(t) ==
  /\ fin[t].at # "none" /\ Fails(t) /\ Dies
  /\ UNCHANGED <<slot, run, row, marks, votes, claims, since>>

----------------------------------------------------------------------------
(* Time, reviewers, administrators and the command *)

SlotComes ==
  /\ slot < MaxSlot /\ slot' = slot + 1
  /\ UNCHANGED <<run, row, worker, fin, marks, votes, claims, since, deaths>>
BecomesReady(d) ==
  /\ row[d].state = "EXPORTING"
  /\ row' = [row EXCEPT ![d].state = "READY", ![d].rank = ReadySoFar + 1]
  /\ UNCHANGED <<slot, run, worker, fin, marks, votes, claims, since, deaths>>
Expires(d) ==
  /\ row[d].state = "READY" /\ ~row[d].expired /\ row' = [row EXCEPT ![d].expired = TRUE]
  /\ UNCHANGED <<slot, run, worker, fin, marks, votes, claims, since, deaths>>
\* 120 seconds since the observation began; a lease is 180.
Ages(d) ==
  /\ row[d].obs.fresh \/ \E t \in Tokens : fin[t].fresh /\ fin[t].d = d
  /\ row' = [row EXCEPT ![d].obs.fresh = FALSE]
  /\ fin' = [t \in Tokens |-> IF fin[t].d = d THEN [fin[t] EXCEPT !.fresh = FALSE] ELSE fin[t]]
  /\ UNCHANGED <<slot, run, worker, marks, votes, claims, since, deaths>>
LeaseLapses(s) ==
  /\ run[s].live /\ IF worker.at # "idle" /\ worker.s = s THEN Dies ELSE Lives
  /\ \A d \in Deliveries : row[d].obs.scan = s => ~row[d].obs.fresh
  /\ \A t \in Tokens : fin[t].s = s => ~fin[t].fresh
  /\ run' = [run EXCEPT ![s].live = FALSE]
  /\ UNCHANGED <<slot, row, worker, fin, marks, votes, claims, since>>

Vote(d, m, k) ==
  /\ votes < MaxVotes /\ row[d].state = "READY" /\ votes' = votes + 1
  /\ marks' = [marks EXCEPT ![d][m] = IF k \in @ THEN @ \ {k} ELSE @ \cup {k}]
  /\ since' = [t \in Tokens |->
               IF since[t].d # d THEN since[t]
               ELSE [since[t] EXCEPT !.stayed = @ \ {<<m, k>>}, !.all = @ \cup {<<m, k>>}]]
  /\ UNCHANGED <<slot, run, row, worker, fin, claims, deaths>>
AdminDecides(d) ==
  /\ ~row[d].admin
  /\ row' = [row EXCEPT ![d].admin = TRUE, ![d].command = "ended", ![d].state = "CANCELLED",
                        ![d].version = @ + 1]
  /\ UNCHANGED <<slot, run, worker, fin, marks, votes, claims, since, deaths>>
\* A command that published leaves the message to be removed, one that failed does not.
CommandEnds(d) ==
  /\ row[d].command = "active"
  /\ \E s \in {"READY", "CANCELLED"} : row' = [row EXCEPT ![d].command = "ended", ![d].state = s]
  /\ UNCHANGED <<slot, run, worker, fin, marks, votes, claims, since, deaths>>

Works ==
  \/ StartScan \/ NextScan \/ ReadMessage \/ SendChunk \/ CallFinish
  \/ WorkerStops
Api == \E t \in Tokens : ReadObservation(t) \/ DecideCall(t) \/ Accept(t) \/ Record(t)
Next ==
  \/ Works \/ Api \/ SlotComes
  \/ \E t \in Tokens : ApiDies(t)
  \/ \E s \in Slots : LeaseLapses(s)
  \/ \E d \in Deliveries :
       \/ BecomesReady(d) \/ Expires(d) \/ Ages(d) \/ AdminDecides(d) \/ CommandEnds(d)
       \/ \E m \in Messages : \E k \in Mark : Vote(d, m, k)

Spec == Init /\ [][Next]_vars

----------------------------------------------------------------------------
(* Properties *)

\* A run is over when each delivery that was READY at its cutoff and still waits for a
\* decision was examined in it, whoever died in between and whatever late calls wrote.
AllExamined ==
  [][\A s \in Slots : run[s].state # "COMPLETED" /\ run'[s].state = "COMPLETED" =>
       \A d \in Deliveries : Open(d) /\ row[d].rank <= run[s].cutoff => s \in row[d].examined]_vars

\* The reviewers decide an item once, however many scans look at its message, whether the
\* answer of finish is lost and also when the command fails: unless a call of finish whose
\* worker had died went on after the next worker had begun to look at the message.
DecidedOnce == \A d \in Deliveries : row[d].taken <= 1 \/ row[d].overlap

\* A decision rests on marks that were in Discord since its observation began, and every
\* mark that has stayed in Discord since then was seen.
DecidedAsSeen ==
  [][\A t \in Tokens : fin[t].at = "decide" /\ fin'[t].at = "accept" =>
       LET read == {<<m, k>> \in Messages \X Mark : k \in ReadOf(t, m)}
       IN read \subseteq since[t].all /\ since[t].stayed \subseteq read]_vars

\* What TLC checks of the scans, for every state and step.
ScanSound == [](TypeOK /\ DecidedOnce) /\ AllExamined /\ DecidedAsSeen

\* A run that was begun ends, whoever dies in the middle of it.
ScanEnds == \A s \in Slots : []<>(run[s].state # "RUNNING")
=============================================================================
