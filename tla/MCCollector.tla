----------------------------- MODULE MCCollector -----------------------------
(***************************************************************************)
(* Five parts of the collector's side that share no state, side by side    *)
(* for TLC: in each behaviour one of them moves, the part and the constants *)
(* that its scene names, and the others rest in their initial states.      *)
(* The collector run and the delivery are extended, the others are         *)
(* instances.                                                              *)
(***************************************************************************)
EXTENDS DiscordDelivery, CollectorRun, TLC, Integers, FiniteSets

CONSTANTS
    w1, w2, c1, NoUrl, NoSite,      \* BatchQueue
    Scenes,                         \* the scenes to be played
    QueueUrls, QueueWorkers, QueueRequests, QueueTime, QueueDeaths,
    ScanSlots, ScanDeaths

VARIABLES
    scene,
    now, web, receipt, queue, conf, checked, collected, lapsed, disabled, paused, process, queueDeaths,
    slot, scanRun, reviewRow, scanWorker, fin, marks, votes, claims, scanDeaths, since,
    seen                            \* what an observation that is taken now would see

----------------------------------------------------------------------------
\* Every URL has a source of its own.
OwnSites == [u \in QueueUrls |-> u]
Settings == INSTANCE BatchQueue WITH
    Urls <- QueueUrls, Site <- OwnSites, Workers <- QueueWorkers, Clicks <- {c1}, MaxRequests <- QueueRequests,
    MaxTime <- QueueTime, MaxDeaths <- 0, MaxAttempts <- 1, Day <- 2, Changing <- TRUE, Metadata <- TRUE,
    worker <- process, deaths <- queueDeaths
Queue == INSTANCE BatchQueue WITH
    Urls <- QueueUrls, Site <- OwnSites, Workers <- QueueWorkers, Clicks <- {c1}, MaxRequests <- QueueRequests,
    MaxTime <- QueueTime, MaxDeaths <- QueueDeaths, MaxAttempts <- 2, Day <- 2, Changing <- FALSE, Metadata <- TRUE,
    worker <- process, deaths <- queueDeaths

\* One unit in one part, beside the head.
Scan == INSTANCE ReviewScan WITH
    Units <- {"u1"}, Blank <- {}, Parts <- {"p1"}, UnitOf <- [p \in {"p1"} |-> "u1"], Reviewers <- {"r1"},
    Deliveries <- {"d1", "d2"}, MaxSlot <- ScanSlots, MaxDeaths <- ScanDeaths, MaxVotes <- 1,
    run <- scanRun, row <- reviewRow, worker <- scanWorker, deaths <- scanDeaths

\* A unit in two parts, and one that is white space.
Vote == INSTANCE ReviewVote WITH
    Units <- {"u1", "u2"}, Blank <- {"u2"}, Parts <- {"p1", "p2", "p3"},
    UnitOf <- ("p1" :> "u1") @@ ("p2" :> "u1") @@ ("p3" :> "u2"), Reviewers <- {"r1", "r2"}

ASSUME RunAssumption
ASSUME Settings!QueueAssumption /\ Queue!QueueAssumption
ASSUME Scan!VoteAssumption /\ Scan!ScanAssumption /\ Vote!VoteAssumption
ASSUME DeliveryAssumption

----------------------------------------------------------------------------
queueVars    == <<now, web, receipt, queue, conf, checked, collected, lapsed, disabled, paused, process,
                  queueDeaths>>
scanVars     == <<slot, scanRun, reviewRow, scanWorker, fin, marks, votes, claims, scanDeaths, since>>
sceneVars    == <<scene, runVars, queueVars, scanVars, seen, vars>>

\* An observation of a message as it was sent, or of one that could not be read, or is too
\* early or too old; then reactions come and go, one at a time.
Unmarked ==
    [age |-> "fresh", expired |-> FALSE, headRead |-> TRUE, partsRead |-> {"p1", "p2", "p3"}, others |-> FALSE,
     marks |-> [m \in {"p1", "p2", "p3", "head"} |-> {}]]
Observations ==
    {Unmarked, [Unmarked EXCEPT !.expired = TRUE], [Unmarked EXCEPT !.age = "early"],
     [Unmarked EXCEPT !.age = "stale"], [Unmarked EXCEPT !.headRead = FALSE],
     [Unmarked EXCEPT !.partsRead = @ \ {"p2"}, !.expired = TRUE], [Unmarked EXCEPT !.others = TRUE]}
MarksOn(m) ==
    IF m = "head" THEN [emoji : {Vote!Up, Vote!Down}, user : {"r1", "r2", "stranger"}]
    ELSE [emoji : {"other"}, user : {"r1", "stranger"}]
            \cup (IF m = "p1" THEN {[emoji |-> Vote!Up, user |-> "r1"]} ELSE {})
React ==
    \E m \in DOMAIN seen.marks : \E k \in MarksOn(m) :
        seen' = [seen EXCEPT !.marks[m] = IF k \in @ THEN @ \ {k} ELSE @ \cup {k}]

SceneInit ==
    /\ scene \in Scenes
    /\ RunInit /\ (scene # "run" => run.candidate)
    /\ Queue!Init /\ Scan!Init /\ Init
    /\ seen \in IF scene = "votes" THEN Observations ELSE {Unmarked}

\* What the other parts do.
Rest(part) ==
    /\ part # "run" => UNCHANGED runVars
    /\ part # "queue" => UNCHANGED queueVars
    /\ part # "scan" => UNCHANGED scanVars
    /\ part # "vote" => UNCHANGED seen
    /\ part # "delivery" => UNCHANGED vars
    /\ UNCHANGED scene

\* One process while the settings change, or two that may die and one request of the web; or that
\* and a command of Discord.  The URLs are alike: the request is for a certain one of them, and a
\* process may die as long as the command is not for another.
OneProcess  == Settings!Actions /\ \A w \in QueueWorkers \ {w1} : process'[w] = process[w]
OneRequest  == Queue!Actions /\ conf' = conf /\ \A r \in Queue!Requests \ {1} : web'[r] = web[r]
OneUrl      == {NoUrl, CHOOSE u \in QueueUrls : TRUE}
TwoInputs   == Queue!Actions /\ conf'[c1].state \in {"none", "open", "confirmed"} /\ web'[1].url \in OneUrl
                             /\ (queueDeaths' = 0 \/ conf'[c1].url \in OneUrl)

\* One message in two slots, or two messages in one slot, that the administrator may decide, with no
\* reactions and time enough.
OneMessage  == Scan!Next /\ reviewRow'["d2"] = reviewRow["d2"] /\ marks'["d2"] = marks["d2"]
                         /\ ~reviewRow'["d1"].admin
TwoMessages == Scan!Next /\ slot' < 2 /\ votes' = 0 /\ \A d \in {"d1", "d2"} : ~reviewRow'[d].expired

SceneNext ==
    \/ scene = "run" /\ RunNext /\ Rest("run")
    \/ scene = "settings" /\ OneProcess /\ Rest("queue")
    \/ scene = "processes" /\ OneRequest /\ Rest("queue")
    \/ scene = "inputs" /\ TwoInputs /\ Rest("queue")
    \/ scene = "one message" /\ OneMessage /\ Rest("scan")
    \/ scene = "two messages" /\ TwoMessages /\ Rest("scan")
    \/ scene = "votes" /\ React /\ Rest("vote")
    \/ scene = "delivery" /\ Next /\ Rest("delivery")

SceneSpec == SceneInit /\ [][SceneNext]_sceneVars

----------------------------------------------------------------------------
(* Fairness.  Timers start the dispatcher, the cleanups and the workers      *)
(* again and again, a process that ended is started again, and the API       *)
(* answers.  Time passes, but nothing obliges the day of a request to end.    *)

FairRun ==
    /\ WF_runVars(scene = "run" /\ (Dispatcher \/ Starts))
    /\ WF_runVars(scene = "run" /\ Cleanup)
    /\ WF_runVars(scene = "run" /\ RunExpires)
    /\ WF_runVars(scene = "run" /\ ImageAges)

FairQueue ==
    /\ \A w \in QueueWorkers :
        /\ WF_queueVars(scene = "inputs" /\ Queue!Start(w))
        /\ WF_queueVars(scene = "inputs" /\ Queue!Step(w))
    /\ WF_queueVars(scene = "inputs" /\ Queue!Refresh)
    /\ WF_queueVars(scene = "inputs" /\ Queue!MetadataPass)
    /\ \A q \in 1..(QueueRequests + 1) :
        WF_queueVars(scene = "inputs" /\ q \in Queue!Rows /\ Queue!WaitEnds(q))
    /\ \A s \in QueueUrls : WF_queueVars(scene = "inputs" /\ Queue!PauseEnds(s))

FairScan ==
    /\ WF_scanVars(scene = "two messages" /\ Scan!Works)
    /\ WF_scanVars(scene = "two messages" /\ Scan!Api)
    /\ WF_scanVars(scene = "two messages" /\ \E s \in Scan!Slots : Scan!LeaseLapses(s))
    /\ WF_scanVars(scene = "two messages" /\ \E d \in {"d1", "d2"} : Scan!Ages(d))

FairDelivery ==
    /\ WF_vars(scene = "delivery" /\ (Worker \/ CallFails))
    /\ WF_vars(scene = "delivery" /\ Due)
    /\ WF_vars(scene = "delivery" /\ LeaseLapses)
    /\ WF_vars(scene = "delivery" /\ clean["api"].at # "idle" /\ Cleans("api"))

FairSpec ==
    /\ SceneSpec
    /\ FairRun /\ FairQueue /\ FairScan /\ FairDelivery
    /\ <>[][~Disturbed]_runVars /\ <>[][~Faults]_vars

----------------------------------------------------------------------------
\* What TLC checks of each part is stated in its module.
QueueSound    == Queue!QueueSound
ScanSound     == Scan!ScanSound

\* What the reactions decide: nobody but the reviewers counts, all that they approved and
\* nothing that one of them marked or opposed is published, and no mark turns the decision
\* round (decideReview).
VoteSound ==
    /\ [](/\ Vote!Decide(seen) \in Vote!Decisions
          /\ Vote!PublishedUnopposed(seen) /\ Vote!EmptiedIsLeft(seen))
    /\ [][Vote!StrangersDoNotCount(seen, seen') /\ Vote!NoSwing(seen, seen')]_seen

\* A run that was queued comes to an end, and its files do not stay in the spool
\* (CollectionPipeline, SpoolCleanup).
RunEnds    == []<>(scene = "run" => Ended) /\ []<>~Spooled
QueueMoves == Queue!QueueMoves
ScanEnds   == Scan!ScanEnds

\* The parts that rest do not tell two states apart.
Moving ==
    CASE scene = "run" -> <<scene, runVars>>
      [] scene \in {"settings", "processes", "inputs"} -> <<scene, queueVars>>
      [] scene \in {"one message", "two messages"} -> <<scene, scanVars>>
      [] scene = "votes" -> <<scene, seen>>
      [] scene = "delivery" -> <<scene, vars>>
=============================================================================
