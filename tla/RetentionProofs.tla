--------------------------- MODULE RetentionProofs ---------------------------
(* Proofs about BatchRetention: what the workers delete is what they may       *)
(* delete, and all of it, for every number of runs, workers and deaths.        *)
EXTENDS BatchRetention, TLAPS

ItemStates   == {"none", "FETCHING", "FETCHED", "FAILED", "SKIPPED_POLICY", "gone"}
RowType      == [state : ItemStates, run : 0..MaxRuns, raw : BOOLEAN, media : BOOLEAN, image : BOOLEAN]
LifeStates   == {"none", "LIVE", "PURGE_PENDING", "PURGE_FAILED", "PURGED", "removed"}
LifeType     == [state : LifeStates, run : 0..MaxRuns, expired : BOOLEAN, owner : Workers \cup {NoOne},
                 leased : BOOLEAN, waiting : BOOLEAN, old : BOOLEAN]
Places       == {"none", "claim", "fetch", "raw", "parse", "media", "store", "complete"}
ProcType     == [run : 0..MaxRuns, at : Places]
Marks        == {"none", "PENDING", "FAILED", "DELETED"}
Stages       == {"idle", "images", "cleaning", "inventory", "claim", "list", "purge", "delete", "record"}
WorkerType   == [at : Stages, jobs : SUBSET Runs, job : 0..MaxRuns, todo : SUBSET Keys, key : Keys \cup {NoKey}]

(* The types, variable by variable. *)
ItemTyped ==
  /\ row \in RowType /\ dedup \in BOOLEAN /\ retried \in BOOLEAN /\ failures \subseteq Runs
  /\ cleanup \in [Runs -> {"none", "noted", "open", "done"}]
LifeTyped ==
  /\ life \in LifeType
  /\ life.owner # NoOne <=> life.state = "PURGE_PENDING"
  /\ life.leased => life.owner # NoOne
ProcTyped ==
  /\ proc \in ProcType /\ running \in 0..MaxRuns
  /\ proc.at # "none" => running \in {0, proc.run} /\ proc.run \in Runs
StoreTyped ==
  /\ store \subseteq Keys /\ inflight \subseteq Keys /\ late \subseteq Keys /\ deaths \in 0..MaxDeaths
  /\ manifest \in [Keys -> Marks]
WorkersTyped == worker \in [Workers -> WorkerType]

\* The row, its retention and the run that works on it.
RowSound ==
  /\ row.state = "none" <=> life.state = "none"
  /\ row.state # "none" => row.run \in Runs
  /\ row.raw \/ row.media => row.run \in Runs /\ row.state # "gone"
  /\ life.state \in {"PURGED", "removed"} => row.state = "gone"
  /\ row.run <= proc.run
  /\ proc.at = "claim" => row.run < proc.run
  /\ proc.at \notin {"none", "claim"} => row.run = proc.run /\ (row.state = "gone" => ~Live) /\ row.state # "none"

\* The object is not stored yet, and may still be.
Upcoming(k) ==
  \/ k[1] > proc.run
  \/ k[1] = proc.run /\ k[2] = "raw" /\ proc.at \in {"claim", "fetch"}
  \/ k[1] = proc.run /\ k[2] = "media" /\ proc.at \in {"claim", "fetch", "raw", "parse", "media", "store"}
Settled(k) == k \notin inflight /\ ~Upcoming(k)

\* An object that a row names, and one that came into the manifest from a row, is not put again.
PutsSound ==
  /\ life.state = "none" => \A k \in Keys : manifest[k] = "none"
  /\ \A k \in Recorded : Settled(k)
  /\ \A k \in Keys : manifest[k] # "none" /\ k[1] # life.run => Settled(k)

\* What the manifest calls deleted is gone, but for a late PUT of the item's first run.
DeletedSound == \A k \in store : manifest[k] = "DELETED" => k[1] = life.run

\* Objects of the item that were there when its purge was claimed.
Remains(k) == k \in store \ late /\ (k[1] = life.run \/ manifest[k] # "none")

\* The worker with the lease has all of them before it.
PurgeSound(w) ==
  /\ worker[w].at \in {"list", "purge", "delete", "record"} => life.expired
  /\ worker[w].at \in {"delete", "record"} => worker[w].key \in Keys
  /\ HasLease(w) /\ worker[w].at \in {"purge", "delete", "record"} =>
       /\ \A k \in Keys : Remains(k) => manifest[k] \in {"PENDING", "FAILED"}
       /\ \A k \in worker[w].todo : manifest[k] # "none"
       /\ worker[w].at # "purge" => manifest[worker[w].key] # "none"
       /\ worker[w].at = "record" =>
            /\ worker[w].key \in store => worker[w].key \in late
            /\ worker[w].key[1] # life.run => worker[w].key \notin store

\* The inductive invariant.
RetentionInv ==
  /\ ItemTyped /\ LifeTyped /\ ProcTyped /\ StoreTyped /\ WorkersTyped
  /\ RowSound /\ PutsSound /\ DeletedSound
  /\ \A w \in Workers : PurgeSound(w)
  /\ LiveKeepsObjects /\ PurgedIsGone

----------------------------------------------------------------------------
(* Frames: what a step leaves alone *)

LEMMA RecordedKeys ==
  ASSUME RowSound PROVE Recorded \subseteq Keys
BY DEF RowSound, Recorded, Keys, Kinds

\* A step of the collector that puts nothing.
LEMMA Moves ==
  ASSUME RetentionInv, UNCHANGED <<life, manifest, store, inflight, worker, late>>, deaths' \in 0..MaxDeaths,
         ItemTyped', ProcTyped', RowSound',
         \A k \in Keys : Upcoming(k)' => Upcoming(k),
         \A k \in Recorded' : k \in Recorded \/ (k \in store /\ k \notin inflight /\ ~Upcoming(k)')
  PROVE  RetentionInv'
<1>1. LifeTyped' /\ StoreTyped' /\ WorkersTyped'
  BY DEF RetentionInv, LifeTyped, StoreTyped, WorkersTyped
<1>2. Recorded' \subseteq Keys /\ Recorded \subseteq Keys
  <2>1. Recorded \subseteq Keys
    BY RecordedKeys DEF RetentionInv
  <2> QED BY <2>1 DEF RetentionInv, StoreTyped
<1>3. PutsSound'
  BY <1>2 DEF RetentionInv, PutsSound, Settled
<1>4. DeletedSound' /\ PurgedIsGone'
  BY DEF RetentionInv, DeletedSound, PurgedIsGone
<1>5. \A w \in Workers : PurgeSound(w)'
  BY DEF RetentionInv, PurgeSound, HasLease, Remains
<1>6. LiveKeepsObjects'
  BY DEF RetentionInv, LiveKeepsObjects
<1> QED BY <1>1, <1>3, <1>4, <1>5, <1>6 DEF RetentionInv

\* A step of a worker that leaves the retention and the manifest alone.
LEMMA WorkerMoves ==
  ASSUME RetentionInv, NEW w \in Workers, NEW l \in WorkerType, worker' = [worker EXCEPT ![w] = l],
         UNCHANGED <<row, dedup, retried, failures, life, manifest, late, running, proc, inflight>>,
         deaths' \in 0..MaxDeaths, cleanup' \in [Runs -> {"none", "noted", "open", "done"}],
         store' \subseteq store, store' = store \/ life.expired \/ row.state = "gone",
         PurgeSound(w)'
  PROVE  RetentionInv'
<1>1. ItemTyped' /\ LifeTyped' /\ ProcTyped' /\ StoreTyped' /\ WorkersTyped'
  BY DEF RetentionInv, ItemTyped, LifeTyped, ProcTyped, StoreTyped, WorkersTyped
<1>2. RowSound' /\ PutsSound'
  BY DEF RetentionInv, RowSound, Live, PutsSound, Recorded, Settled, Upcoming
<1>3. DeletedSound' /\ PurgedIsGone'
  BY DEF RetentionInv, DeletedSound, PurgedIsGone
<1>4. ASSUME NEW v \in Workers, v # w PROVE PurgeSound(v)'
  <2>1. worker'[v] = worker[v] /\ PurgeSound(v)
    BY <1>4 DEF RetentionInv, WorkersTyped
  <2>2. \A k \in Keys : Remains(k)' => Remains(k)
    BY DEF Remains
  <2> QED BY <2>1, <2>2 DEF PurgeSound, HasLease
<1>5. LiveKeepsObjects'
  BY DEF RetentionInv, LiveKeepsObjects, Recorded, RowSound
<1> QED BY <1>1, <1>2, <1>3, <1>4, <1>5 DEF RetentionInv

\* A step of time or of a worker that leaves the rows, the runs and the PUTs alone.
LEMMA LifeMoves ==
  ASSUME RetentionInv, UNCHANGED <<item, running, proc, inflight>>, store' = store,
         LifeTyped', life'.run = life.run, life'.state = "none" <=> life.state = "none",
         life'.state \in {"PURGED", "removed"} => life.state \in {"PURGED", "removed"},
         Live' => Live, life.expired => life'.expired,
         StoreTyped',
         \A k \in Keys : manifest'[k] # "none" =>
             manifest[k] # "none" \/ (life.state # "none" /\ (k \in Recorded \/ k[1] = life.run))
  PROVE  ItemTyped' /\ ProcTyped' /\ RowSound' /\ PutsSound' /\ LiveKeepsObjects'
<1>1. ItemTyped' /\ ProcTyped'
  BY DEF RetentionInv, ItemTyped, ProcTyped, item
<1>2. RowSound'
  BY DEF RetentionInv, RowSound, item
<1>3. Recorded' = Recorded /\ \A k \in Keys : Settled(k)' <=> Settled(k)
  BY DEF Recorded, Settled, Upcoming, item
<1>4. \A k \in Recorded : Settled(k)
  BY DEF RetentionInv, PutsSound
<1>5. Recorded \subseteq Keys
  BY RecordedKeys DEF RetentionInv
<1>6. PutsSound'
  <2>1. life'.state = "none" => \A k \in Keys : manifest'[k] = "none"
    BY DEF RetentionInv, PutsSound, StoreTyped, Marks
  <2>2. \A k \in Keys : manifest'[k] # "none" /\ k[1] # life'.run => Settled(k)'
    BY <1>3, <1>4 DEF RetentionInv, PutsSound
  <2> QED BY <1>3, <1>4, <1>5, <2>1, <2>2 DEF PutsSound
<1>7. LiveKeepsObjects'
  BY <1>3 DEF RetentionInv, LiveKeepsObjects
<1> QED BY <1>1, <1>2, <1>6, <1>7

----------------------------------------------------------------------------
(* The collector *)

LEMMA BeginKeeps ==
  ASSUME RetentionAssumption, RetentionInv, Begin PROVE RetentionInv'
<1>1. UNCHANGED <<life, manifest, store, inflight, worker, late>> /\ deaths' \in 0..MaxDeaths
  BY DEF RetentionInv, StoreTyped, Begin, Kept
<1>2. ItemTyped'
  BY DEF RetentionInv, ItemTyped, item, Begin
<1>3. ProcTyped'
  BY DEF RetentionInv, ProcTyped, ProcType, Places, Runs, RetentionAssumption, Begin
<1>4. RowSound'
  BY DEF RetentionInv, RowSound, ItemTyped, ProcTyped, RowType, ProcType, item, Begin, Kept
<1>5. \A k \in Keys : Upcoming(k)' => Upcoming(k)
  BY DEF RetentionInv, Upcoming, Keys, Runs, ProcTyped, ProcType, Begin
<1>6. \A k \in Recorded' : k \in Recorded \/ (k \in store /\ k \notin inflight /\ ~Upcoming(k)')
  BY DEF Recorded, item, Begin
<1> QED BY <1>1, <1>2, <1>3, <1>4, <1>5, <1>6, Moves

LEMMA ClaimNothingKeeps ==
  ASSUME RetentionAssumption, RetentionInv, ClaimNothing PROVE RetentionInv'
<1>1. UNCHANGED <<life, manifest, store, inflight, worker, late>> /\ deaths' \in 0..MaxDeaths
  BY DEF RetentionInv, StoreTyped, ClaimNothing, Kept
<1>2. ItemTyped'
  BY DEF RetentionInv, ItemTyped, item, ClaimNothing
<1>3. ProcTyped'
  BY DEF RetentionInv, ProcTyped, ProcType, Places, RetentionAssumption, ClaimNothing, Ends
<1>4. RowSound'
  BY DEF RetentionInv, RowSound, item, ClaimNothing, Kept, Ends
<1>5. \A k \in Keys : Upcoming(k)' => Upcoming(k)
  BY DEF Upcoming, ClaimNothing, Ends
<1>6. \A k \in Recorded' : k \in Recorded \/ (k \in store /\ k \notin inflight /\ ~Upcoming(k)')
  BY DEF Recorded, item, ClaimNothing
<1> QED BY <1>1, <1>2, <1>3, <1>4, <1>5, <1>6, Moves

LEMMA RawStoredKeeps ==
  ASSUME RetentionAssumption, RetentionInv, RawStored PROVE RetentionInv'
<1>1. UNCHANGED <<life, manifest, store, inflight, worker, late>> /\ deaths' \in 0..MaxDeaths
  BY DEF RetentionInv, StoreTyped, RawStored, Kept
<1>2. ItemTyped'
  BY DEF RetentionInv, ItemTyped, RowType, RawStored
<1>3. ProcTyped'
  BY DEF RetentionInv, ProcTyped, ProcType, Places, RawStored, Goes
<1>4. RowSound'
  BY DEF RetentionInv, RowSound, RawStored, Kept, Goes
<1>5. \A k \in Keys : Upcoming(k)' => Upcoming(k)
  BY DEF Upcoming, RawStored, Goes
<1>6. \A k \in Recorded' : k \in Recorded \/ (k \in store /\ k \notin inflight /\ ~Upcoming(k)')
  BY DEF RetentionInv, Recorded, Upcoming, ProcTyped, ProcType, RowSound, RawStored, Answered, Goes
<1> QED BY <1>1, <1>2, <1>3, <1>4, <1>5, <1>6, Moves

LEMMA MediaStoredKeeps ==
  ASSUME RetentionAssumption, RetentionInv, MediaStored PROVE RetentionInv'
<1>1. UNCHANGED <<life, manifest, store, inflight, worker, late>> /\ deaths' \in 0..MaxDeaths
  BY DEF RetentionInv, StoreTyped, MediaStored, Kept
<1>2. ItemTyped'
  BY DEF RetentionInv, ItemTyped, RowType, MediaStored
<1>3. ProcTyped'
  BY DEF RetentionInv, ProcTyped, ProcType, Places, MediaStored, Goes
<1>4. RowSound'
  BY DEF RetentionInv, RowSound, MediaStored, Kept, Goes
<1>5. \A k \in Keys : Upcoming(k)' => Upcoming(k)
  BY DEF Upcoming, MediaStored, Goes
<1>6. \A k \in Recorded' : k \in Recorded \/ (k \in store /\ k \notin inflight /\ ~Upcoming(k)')
  BY DEF RetentionInv, Recorded, Upcoming, ProcTyped, ProcType, RowSound, MediaStored, Answered, Goes
<1> QED BY <1>1, <1>2, <1>3, <1>4, <1>5, <1>6, Moves

LEMMA ParsedKeeps ==
  ASSUME RetentionAssumption, RetentionInv, Parsed PROVE RetentionInv'
<1>1. UNCHANGED <<life, manifest, store, inflight, worker, late>> /\ deaths' \in 0..MaxDeaths
  BY DEF RetentionInv, StoreTyped, Parsed, Kept
<1>2. ItemTyped'
  BY DEF RetentionInv, ItemTyped, item, Parsed
<1>3. ProcTyped'
  BY DEF RetentionInv, ProcTyped, ProcType, Places, Parsed, Goes
<1>4. RowSound'
  BY DEF RetentionInv, RowSound, Live, item, Parsed, Kept, Goes
<1>5. \A k \in Keys : Upcoming(k)' => Upcoming(k)
  BY DEF Upcoming, Parsed, Goes
<1>6. \A k \in Recorded' : k \in Recorded \/ (k \in store /\ k \notin inflight /\ ~Upcoming(k)')
  BY DEF Recorded, item, Parsed
<1> QED BY <1>1, <1>2, <1>3, <1>4, <1>5, <1>6, Moves

LEMMA SkipItemKeeps ==
  ASSUME RetentionAssumption, RetentionInv, SkipItem PROVE RetentionInv'
<1>1. UNCHANGED <<life, manifest, store, inflight, worker, late>> /\ deaths' \in 0..MaxDeaths
  BY DEF RetentionInv, StoreTyped, SkipItem, Kept
<1>2. ItemTyped'
  BY DEF RetentionInv, ItemTyped, RowType, ItemStates, SkipItem
<1>3. ProcTyped'
  BY DEF RetentionInv, ProcTyped, ProcType, Places, RetentionAssumption, SkipItem, Ends
<1>4. RowSound'
  BY DEF RetentionInv, RowSound, SkipItem, Kept, Ends
<1>5. \A k \in Keys : Upcoming(k)' => Upcoming(k)
  BY DEF Upcoming, SkipItem, Ends
<1>6. \A k \in Recorded' : k \in Recorded \/ (k \in store /\ k \notin inflight /\ ~Upcoming(k)')
  BY DEF Recorded, SkipItem
<1> QED BY <1>1, <1>2, <1>3, <1>4, <1>5, <1>6, Moves

LEMMA RetryImageKeeps ==
  ASSUME RetentionAssumption, RetentionInv, RetryImage PROVE RetentionInv'
<1>1. UNCHANGED <<life, manifest, store, inflight, worker, late>> /\ deaths' \in 0..MaxDeaths
  BY DEF RetentionInv, StoreTyped, RetryImage, Kept
<1>2. ItemTyped'
  BY DEF RetentionInv, ItemTyped, RetryImage
<1>3. ProcTyped'
  BY DEF RetentionInv, ProcTyped, ProcType, Places, RetryImage, Goes
<1>4. RowSound'
  BY DEF RetentionInv, RowSound, RetryImage, Kept, Goes
<1>5. \A k \in Keys : Upcoming(k)' => Upcoming(k)
  BY DEF Upcoming, RetryImage, Goes
<1>6. \A k \in Recorded' : k \in Recorded \/ (k \in store /\ k \notin inflight /\ ~Upcoming(k)')
  BY DEF Recorded, RetryImage
<1> QED BY <1>1, <1>2, <1>3, <1>4, <1>5, <1>6, Moves

LEMMA FailKeeps ==
  ASSUME RetentionAssumption, RetentionInv, NEW image \in BOOLEAN, Fail(image) PROVE RetentionInv'
<1>1. UNCHANGED <<life, manifest, store, inflight, worker, late>> /\ deaths' \in 0..MaxDeaths
  BY DEF RetentionInv, StoreTyped, Fail, Kept
<1>2. ItemTyped'
  <2>1. proc.run \in Runs /\ failures' \subseteq Runs
    BY DEF RetentionInv, ItemTyped, ProcTyped, Fail
  <2>2. row' \in RowType /\ dedup' \in BOOLEAN /\ retried' \in BOOLEAN
    BY DEF RetentionInv, ItemTyped, RowType, ItemStates, Fail, Drops
  <2>3. cleanup' \in [Runs -> {"none", "noted", "open", "done"}]
    BY DEF RetentionInv, ItemTyped, Fail, Drops
  <2> QED BY <2>1, <2>2, <2>3 DEF ItemTyped
<1>3. ProcTyped'
  BY DEF RetentionInv, ProcTyped, ProcType, Places, RetentionAssumption, Fail, Ends
<1>4. RowSound'
  BY DEF RetentionInv, RowSound, Live, ItemTyped, ProcTyped, RowType, ProcType, Places, Runs, Fail, Drops,
     Kept, Ends
<1>5. \A k \in Keys : Upcoming(k)' => Upcoming(k)
  BY DEF Upcoming, Fail, Ends
<1>6. \A k \in Recorded' : k \in Recorded \/ (k \in store /\ k \notin inflight /\ ~Upcoming(k)')
  BY DEF RetentionInv, Recorded, ItemTyped, RowType, Fail, Drops
<1> QED BY <1>1, <1>2, <1>3, <1>4, <1>5, <1>6, Moves

LEMMA CompleteKeeps ==
  ASSUME RetentionAssumption, RetentionInv, Complete PROVE RetentionInv'
<1>1. UNCHANGED <<life, manifest, store, inflight, worker, late>> /\ deaths' \in 0..MaxDeaths
  BY DEF RetentionInv, StoreTyped, Complete, Kept
<1>2. ItemTyped'
  BY DEF RetentionInv, ItemTyped, RowType, ItemStates, Complete
<1>3. ProcTyped'
  BY DEF RetentionInv, ProcTyped, ProcType, Places, RetentionAssumption, Complete, Ends
<1>4. RowSound'
  BY DEF RetentionInv, RowSound, Complete, Kept, Ends
<1>5. \A k \in Keys : Upcoming(k)' => Upcoming(k)
  BY DEF Upcoming, Complete, Ends
<1>6. \A k \in Recorded' : k \in Recorded \/ (k \in store /\ k \notin inflight /\ ~Upcoming(k)')
  BY DEF Recorded, Complete
<1> QED BY <1>1, <1>2, <1>3, <1>4, <1>5, <1>6, Moves

LEMMA ExpiresKeeps ==
  ASSUME RetentionAssumption, RetentionInv, Expires PROVE RetentionInv'
<1>1. UNCHANGED <<life, manifest, store, inflight, worker, late>> /\ deaths' \in 0..MaxDeaths
  BY DEF RetentionInv, StoreTyped, Expires, Kept
<1>2. ItemTyped'
  BY DEF RetentionInv, ItemTyped, item, Expires
<1>3. ProcTyped'
  BY DEF RetentionInv, ProcTyped, ProcType, Places, Expires, Ends
<1>4. RowSound'
  BY DEF RetentionInv, RowSound, item, Expires, Kept, Ends
<1>5. \A k \in Keys : Upcoming(k)' => Upcoming(k)
  BY DEF Upcoming, Expires, Ends
<1>6. \A k \in Recorded' : k \in Recorded \/ (k \in store /\ k \notin inflight /\ ~Upcoming(k)')
  BY DEF Recorded, item, Expires
<1> QED BY <1>1, <1>2, <1>3, <1>4, <1>5, <1>6, Moves

LEMMA CollectorDiesKeeps ==
  ASSUME RetentionAssumption, RetentionInv, CollectorDies PROVE RetentionInv'
<1>1. UNCHANGED <<life, manifest, store, inflight, worker, late>> /\ deaths' \in 0..MaxDeaths
  BY DEF RetentionInv, StoreTyped, RetentionAssumption, CollectorDies
<1>2. ItemTyped'
  BY DEF RetentionInv, ItemTyped, item, CollectorDies
<1>3. ProcTyped'
  BY DEF RetentionInv, ProcTyped, ProcType, Places, CollectorDies, Ends
<1>4. RowSound'
  BY DEF RetentionInv, RowSound, item, CollectorDies, Ends
<1>5. \A k \in Keys : Upcoming(k)' => Upcoming(k)
  BY DEF Upcoming, CollectorDies, Ends
<1>6. \A k \in Recorded' : k \in Recorded \/ (k \in store /\ k \notin inflight /\ ~Upcoming(k)')
  BY DEF Recorded, item, CollectorDies
<1> QED BY <1>1, <1>2, <1>3, <1>4, <1>5, <1>6, Moves

LEMMA DeleteFailedItemKeeps ==
  ASSUME RetentionAssumption, RetentionInv, DeleteFailedItem PROVE RetentionInv'
<1>1. UNCHANGED <<life, manifest, store, inflight, worker, late>> /\ deaths' \in 0..MaxDeaths
  BY DEF RetentionInv, StoreTyped, DeleteFailedItem, Kept
<1>2. ItemTyped'
  BY DEF RetentionInv, ItemTyped, RowType, ItemStates, DeleteFailedItem, Drops
<1>3. ProcTyped'
  BY DEF RetentionInv, ProcTyped, DeleteFailedItem
<1>4. RowSound'
  BY DEF RetentionInv, RowSound, DeleteFailedItem, Drops, Kept
<1>5. \A k \in Keys : Upcoming(k)' => Upcoming(k)
  BY DEF Upcoming, DeleteFailedItem
<1>6. \A k \in Recorded' : k \in Recorded \/ (k \in store /\ k \notin inflight /\ ~Upcoming(k)')
  BY DEF Recorded, DeleteFailedItem, Drops
<1> QED BY <1>1, <1>2, <1>3, <1>4, <1>5, <1>6, Moves

LEMMA ClaimItemKeeps ==
  ASSUME RetentionAssumption, RetentionInv, ClaimItem PROVE RetentionInv'
<1>1. UNCHANGED <<manifest, dedup, failures, running, store, inflight, worker, deaths, late>>
      /\ proc' = [proc EXCEPT !.at = "fetch"] /\ proc.at = "claim"
      /\ row' = [state |-> "FETCHING", run |-> proc.run, raw |-> FALSE, media |-> FALSE, image |-> FALSE]
  BY DEF ClaimItem, Goes
<1>2. proc.run \in Runs /\ proc' \in ProcType /\ proc'.run = proc.run /\ proc'.at = "fetch"
  BY <1>1 DEF RetentionInv, ProcTyped, ProcType, Places
<1>3. ProcTyped'
  BY <1>1, <1>2 DEF RetentionInv, ProcTyped
<1>4. ItemTyped'
  <2>1. row' \in RowType
    BY <1>1, <1>2 DEF RowType, ItemStates, Runs
  <2>2. retried' \in BOOLEAN /\ cleanup' \in [Runs -> {"none", "noted", "open", "done"}]
    BY DEF RetentionInv, ItemTyped, ClaimItem, PrepareRetry
  <2> QED BY <1>1, <2>1, <2>2 DEF RetentionInv, ItemTyped
<1>5. Recorded' = {}
  BY <1>1 DEF Recorded
<1>6. CASE row.state # "none"
  <2>1. Live /\ life' = life
    BY <1>6 DEF ClaimItem
  <2>2. RowSound'
    BY <1>1, <1>2, <2>1 DEF RetentionInv, RowSound, Live, ProcTyped, ProcType, Runs
  <2>3. \A k \in Keys : Upcoming(k)' => Upcoming(k)
    BY <1>1, <1>2 DEF Upcoming
  <2>4. deaths' \in 0..MaxDeaths
    BY <1>1 DEF RetentionInv, StoreTyped
  <2> QED BY <1>1, <1>3, <1>4, <1>5, <2>1, <2>2, <2>3, <2>4, Moves
<1>7. CASE row.state = "none"
  <2>1. life' = [life EXCEPT !.state = "LIVE", !.run = proc.run] /\ life.state = "none"
    BY <1>7 DEF ClaimItem, RetentionInv, RowSound
  <2>2. \A k \in Keys : manifest[k] = "none"
    BY <2>1 DEF RetentionInv, PutsSound
  <2>3. life.owner = NoOne /\ ~life.leased /\ life \in LifeType
    BY <2>1 DEF RetentionInv, LifeTyped, LifeType
  <2>4. life' \in LifeType /\ life'.state = "LIVE" /\ life'.run = proc.run /\ life'.expired = life.expired
        /\ life'.owner = NoOne /\ ~life'.leased
    <3>0. proc.run \in 0..MaxRuns /\ "LIVE" \in LifeStates
      BY <1>2 DEF LifeStates, Runs
    <3>1. life' \in LifeType
      BY <2>1, <2>3, <3>0 DEF LifeType
    <3>2. life'.state = "LIVE" /\ life'.run = proc.run
      BY <2>1, <2>3 DEF LifeType
    <3>3. life'.expired = life.expired /\ life'.owner = life.owner /\ life'.leased = life.leased
      BY <2>1, <2>3 DEF LifeType
    <3> QED BY <2>3, <3>1, <3>2, <3>3
  <2>5. LifeTyped' /\ StoreTyped' /\ WorkersTyped'
    BY <1>1, <2>4 DEF RetentionInv, LifeTyped, StoreTyped, WorkersTyped
  <2>6. RowSound'
    BY <1>1, <1>2, <2>4 DEF RetentionInv, RowSound, ProcTyped, ProcType, Runs
  <2>7. PutsSound' /\ DeletedSound' /\ PurgedIsGone' /\ LiveKeepsObjects'
    BY <1>1, <1>5, <2>2, <2>4 DEF RetentionInv, PutsSound, DeletedSound, PurgedIsGone, LiveKeepsObjects,
       StoreTyped
  <2>8. \A w \in Workers : PurgeSound(w)'
    BY <1>1, <2>4 DEF RetentionInv, PurgeSound, HasLease
  <2> QED BY <1>3, <1>4, <2>5, <2>6, <2>7, <2>8 DEF RetentionInv
<1> QED BY <1>6, <1>7

LEMMA PutKeeps ==
  ASSUME RetentionAssumption, RetentionInv, PutRaw \/ PutMedia PROVE RetentionInv'
<1>1. PICK kind \in Kinds :
        /\ inflight' = inflight \cup {<<proc.run, kind>>} /\ Upcoming(<<proc.run, kind>>)
        /\ \E at \in Places : proc' = [proc EXCEPT !.at = at] /\ at \notin {"none", "claim"}
                              /\ \A k \in Keys : Upcoming(k)' => Upcoming(k)
        /\ proc.at \notin {"none", "claim"}
        /\ UNCHANGED <<item, life, manifest, running, store, worker, deaths, late>>
  <2>1. CASE PutRaw
    BY <2>1 DEF PutRaw, Put, Goes, Upcoming, Kinds, Places, RetentionInv, ProcTyped, ProcType
  <2>2. CASE PutMedia
    BY <2>2 DEF PutMedia, Put, Goes, Upcoming, Kinds, Places, RetentionInv, ProcTyped, ProcType
  <2> QED BY <2>1, <2>2
<1>2. proc.run \in Runs /\ proc' \in ProcType /\ proc'.run = proc.run /\ proc'.at \notin {"none", "claim"}
      /\ \A k \in Keys : Upcoming(k)' => Upcoming(k)
  BY <1>1 DEF RetentionInv, ProcTyped, ProcType
<1>3. ItemTyped' /\ LifeTyped' /\ ProcTyped' /\ WorkersTyped'
  BY <1>1, <1>2 DEF RetentionInv, ItemTyped, LifeTyped, ProcTyped, WorkersTyped, item
<1>4. StoreTyped'
  BY <1>1, <1>2 DEF RetentionInv, StoreTyped, Keys
<1>5. RowSound'
  BY <1>1, <1>2 DEF RetentionInv, RowSound, Live, item
<1>6. \A k \in Keys : Settled(k) => Settled(k)'
  BY <1>1, <1>2 DEF Settled
<1>7. Recorded' = Recorded /\ Recorded \subseteq Keys
  BY <1>1, RecordedKeys DEF Recorded, item, RetentionInv
<1>8. PutsSound'
  BY <1>1, <1>6, <1>7 DEF RetentionInv, PutsSound
<1>9. DeletedSound' /\ PurgedIsGone' /\ LiveKeepsObjects'
  BY <1>1, <1>7 DEF RetentionInv, DeletedSound, PurgedIsGone, LiveKeepsObjects
<1>10. \A w \in Workers : PurgeSound(w)'
  BY <1>1 DEF RetentionInv, PurgeSound, HasLease, Remains
<1> QED BY <1>3, <1>4, <1>5, <1>8, <1>9, <1>10 DEF RetentionInv

----------------------------------------------------------------------------
(* The store answers *)

\* A PUT that lands brings an object that no row names yet.
LEMMA PutEndsKeeps ==
  ASSUME RetentionInv, NEW k \in Keys, PutLands(k) \/ PutLost(k) PROVE RetentionInv'
<1>1. /\ k \in inflight /\ inflight' = inflight \ {k}
      /\ \/ store' = store /\ late' = late
         \/ store' = store \cup {k} /\ late' = late \cup {k}
      /\ UNCHANGED <<item, life, manifest, running, proc, worker, deaths>>
  BY DEF PutLands, PutLost
<1>2. manifest[k] # "none" => k[1] = life.run
  BY <1>1 DEF RetentionInv, PutsSound, Settled
<1>3. ItemTyped' /\ LifeTyped' /\ ProcTyped' /\ StoreTyped' /\ WorkersTyped'
  BY <1>1 DEF RetentionInv, ItemTyped, LifeTyped, ProcTyped, StoreTyped, WorkersTyped, item
<1>4. RowSound'
  BY <1>1 DEF RetentionInv, RowSound, Live, item
<1>5. PutsSound'
  <2>1. \A j : Settled(j) => Settled(j)'
    BY <1>1 DEF Settled, Upcoming
  <2>2. Recorded' = Recorded
    BY <1>1 DEF Recorded, item
  <2> QED BY <1>1, <2>1, <2>2 DEF RetentionInv, PutsSound
<1>6. DeletedSound' /\ PurgedIsGone'
  BY <1>1, <1>2 DEF RetentionInv, DeletedSound, PurgedIsGone
<1>7. LiveKeepsObjects'
  BY <1>1 DEF RetentionInv, LiveKeepsObjects, Recorded, item
<1>8. ASSUME NEW w \in Workers PROVE PurgeSound(w)'
  <2>1. \A j \in Keys : Remains(j)' => Remains(j)
    BY <1>1 DEF Remains
  <2>2. HasLease(w)' <=> HasLease(w)
    BY <1>1 DEF HasLease
  <2>3. PurgeSound(w) /\ UNCHANGED <<life, worker, manifest>>
    BY <1>1 DEF RetentionInv
  <2>4. HasLease(w) /\ worker[w].at = "record" =>
           /\ worker[w].key \in store' => worker[w].key \in late'
           /\ worker[w].key[1] # life.run => worker[w].key \notin store'
    BY <1>1, <1>2, <2>3 DEF PurgeSound
  <2> QED BY <2>1, <2>2, <2>3, <2>4 DEF PurgeSound
<1> QED BY <1>3, <1>4, <1>5, <1>6, <1>7, <1>8 DEF RetentionInv

----------------------------------------------------------------------------
(* The workers, where they claim nothing *)

Calmly == {"idle", "images", "cleaning", "inventory", "claim"}

LEMMA FreshTyped ==
  ASSUME RetentionAssumption, NEW at \in Stages PROVE Fresh(at) \in WorkerType /\ Fresh(at).at = at
BY DEF Fresh, WorkerType, RetentionAssumption

\* A worker that works on no item that it has claimed.
LEMMA Wanders ==
  ASSUME RetentionInv, NEW w \in Workers, NEW l \in WorkerType, worker' = [worker EXCEPT ![w] = l],
         l.at \in Calmly,
         UNCHANGED <<row, dedup, retried, failures, life, manifest, late, running, proc, inflight>>,
         deaths' \in 0..MaxDeaths, cleanup' \in [Runs -> {"none", "noted", "open", "done"}],
         store' \subseteq store, store' = store \/ row.state = "gone"
  PROVE  RetentionInv'
<1>1. worker'[w] = l
  BY DEF RetentionInv, WorkersTyped
<1>2. PurgeSound(w)'
  BY <1>1 DEF PurgeSound, Calmly
<1> QED BY <1>2, WorkerMoves

LEMMA PassKeeps ==
  ASSUME RetentionAssumption, RetentionInv, NEW w \in Workers, Pass(w) PROVE RetentionInv'
<1> DEFINE l == [worker[w] EXCEPT !.at = "images", !.jobs = {r \in Runs : cleanup[r] = "open"}]
<1>1. UNCHANGED <<row, dedup, retried, failures, life, manifest, late, running, proc, inflight>>
      /\ deaths' \in 0..MaxDeaths
  BY DEF Pass, At, Calm, OwnStep, item, RetentionInv, StoreTyped
<1>2. store' \subseteq store /\ (store' = store \/ row.state = "gone")
  BY DEF Pass, At, Calm, OwnStep, item, Allowed
<1>3. cleanup' \in [Runs -> {"none", "noted", "open", "done"}]
  BY DEF Pass, At, Calm, OwnStep, item, RetentionInv, ItemTyped, Keys
<1>4. worker[w] \in WorkerType
  BY DEF RetentionInv, WorkersTyped
<1>5. l \in WorkerType /\ l.at \in Calmly
  BY <1>4 DEF Pass, At, WorkerType, Stages, Calmly, RetentionAssumption, RetentionInv, StoreTyped
<1>6. worker' = [worker EXCEPT ![w] = l]
  BY DEF Pass, At, RetentionInv, WorkersTyped, WorkerType
<1> HIDE DEF l
<1> QED BY <1>1, <1>2, <1>3, <1>5, <1>6, Wanders

LEMMA CleanupListsKeeps ==
  ASSUME RetentionAssumption, RetentionInv, NEW w \in Workers, NEW r \in worker[w].jobs, worker' = [worker EXCEPT ![w].at = "cleaning", ![w].job = r, ![w].jobs = @ \ {r},
                                      ![w].todo = (store \cap Of(r)) \cup {<<r, "raw">>}],
         Calm, store' = store PROVE RetentionInv'
<1> DEFINE l == [worker[w] EXCEPT !.at = "cleaning", !.job = r, !.jobs = @ \ {r}, !.todo = (store \cap Of(r)) \cup {<<r, "raw">>}]
<1>1. UNCHANGED <<row, dedup, retried, failures, life, manifest, late, running, proc, inflight>>
      /\ deaths' \in 0..MaxDeaths
  BY DEF At, Calm, OwnStep, item, RetentionInv, StoreTyped
<1>2. store' \subseteq store /\ (store' = store \/ row.state = "gone")
  BY DEF At, Calm, OwnStep, item, Allowed
<1>3. cleanup' \in [Runs -> {"none", "noted", "open", "done"}]
  BY DEF At, Calm, OwnStep, item, RetentionInv, ItemTyped, Keys
<1>4. worker[w] \in WorkerType
  BY DEF RetentionInv, WorkersTyped
<1>5. l \in WorkerType /\ l.at \in Calmly
  <2>1. r \in Runs /\ r \in 0..MaxRuns
    BY <1>4 DEF WorkerType, Runs
  <2>2. (store \cap Of(r)) \cup {<<r, "raw">>} \in SUBSET Keys
    BY <2>1 DEF RetentionInv, StoreTyped, Keys, Kinds
  <2>3. "cleaning" \in Stages /\ "cleaning" \in Calmly
    BY DEF Stages, Calmly
  <2> QED BY <1>4, <2>1, <2>2, <2>3 DEF WorkerType
<1>6. worker' = [worker EXCEPT ![w] = l]
  BY DEF At, RetentionInv, WorkersTyped, WorkerType
<1> HIDE DEF l
<1> QED BY <1>1, <1>2, <1>3, <1>5, <1>6, Wanders

LEMMA CleanupDeletesKeeps ==
  ASSUME RetentionAssumption, RetentionInv, NEW w \in Workers, NEW k \in Keys, CleanupDeletes(w, k) PROVE RetentionInv'
<1> DEFINE l == [worker[w] EXCEPT !.todo = @ \ {k}]
<1>1. UNCHANGED <<row, dedup, retried, failures, life, manifest, late, running, proc, inflight>>
      /\ deaths' \in 0..MaxDeaths
  BY DEF CleanupDeletes, At, Calm, OwnStep, item, RetentionInv, StoreTyped
<1>2. store' \subseteq store /\ (store' = store \/ row.state = "gone")
  BY DEF CleanupDeletes, At, Calm, OwnStep, item, Allowed
<1>3. cleanup' \in [Runs -> {"none", "noted", "open", "done"}]
  BY DEF CleanupDeletes, At, Calm, OwnStep, item, RetentionInv, ItemTyped, Keys
<1>4. worker[w] \in WorkerType
  BY DEF RetentionInv, WorkersTyped
<1>5. l \in WorkerType /\ l.at \in Calmly
  BY <1>4 DEF CleanupDeletes, At, WorkerType, Stages, Calmly, RetentionAssumption, RetentionInv, StoreTyped
<1>6. worker' = [worker EXCEPT ![w] = l]
  BY DEF CleanupDeletes, At, RetentionInv, WorkersTyped, WorkerType
<1> HIDE DEF l
<1> QED BY <1>1, <1>2, <1>3, <1>5, <1>6, Wanders

LEMMA CleanupFailsKeeps ==
  ASSUME RetentionAssumption, RetentionInv, NEW w \in Workers, CleanupFails(w) PROVE RetentionInv'
<1> DEFINE l == [worker[w] EXCEPT !.at = "images", !.job = 0, !.todo = {}]
<1>1. UNCHANGED <<row, dedup, retried, failures, life, manifest, late, running, proc, inflight>>
      /\ deaths' \in 0..MaxDeaths
  BY DEF CleanupFails, BackToJobs, At, Calm, OwnStep, item, RetentionInv, StoreTyped
<1>2. store' \subseteq store /\ (store' = store \/ row.state = "gone")
  BY DEF CleanupFails, BackToJobs, At, Calm, OwnStep, item, Allowed
<1>3. cleanup' \in [Runs -> {"none", "noted", "open", "done"}]
  BY DEF CleanupFails, BackToJobs, At, Calm, OwnStep, item, RetentionInv, ItemTyped, Keys
<1>4. worker[w] \in WorkerType
  BY DEF RetentionInv, WorkersTyped
<1>5. l \in WorkerType /\ l.at \in Calmly
  <2>1. 0 \in 0..MaxRuns /\ {} \in SUBSET Keys /\ "images" \in Stages /\ "images" \in Calmly
    BY DEF RetentionAssumption, Stages, Calmly
  <2> QED BY <1>4, <2>1 DEF WorkerType
<1>6. worker' = [worker EXCEPT ![w] = l]
  BY DEF CleanupFails, BackToJobs, At, RetentionInv, WorkersTyped, WorkerType
<1> HIDE DEF l
<1> QED BY <1>1, <1>2, <1>3, <1>5, <1>6, Wanders

LEMMA CleanupDoneKeeps ==
  ASSUME RetentionAssumption, RetentionInv, NEW w \in Workers, CleanupDone(w) PROVE RetentionInv'
<1> DEFINE l == [worker[w] EXCEPT !.at = "images", !.job = 0, !.todo = {}]
<1>1. UNCHANGED <<row, dedup, retried, failures, life, manifest, late, running, proc, inflight>>
      /\ deaths' \in 0..MaxDeaths
  BY DEF CleanupDone, BackToJobs, At, Calm, OwnStep, item, RetentionInv, StoreTyped
<1>2. store' \subseteq store /\ (store' = store \/ row.state = "gone")
  BY DEF CleanupDone, BackToJobs, At, Calm, OwnStep, item, Allowed
<1>3. cleanup' \in [Runs -> {"none", "noted", "open", "done"}]
  BY DEF CleanupDone, BackToJobs, At, Calm, OwnStep, item, RetentionInv, ItemTyped, Keys
<1>4. worker[w] \in WorkerType
  BY DEF RetentionInv, WorkersTyped
<1>5. l \in WorkerType /\ l.at \in Calmly
  <2>1. 0 \in 0..MaxRuns /\ {} \in SUBSET Keys /\ "images" \in Stages /\ "images" \in Calmly
    BY DEF RetentionAssumption, Stages, Calmly
  <2> QED BY <1>4, <2>1 DEF WorkerType
<1>6. worker' = [worker EXCEPT ![w] = l]
  BY DEF CleanupDone, BackToJobs, At, RetentionInv, WorkersTyped, WorkerType
<1> HIDE DEF l
<1> QED BY <1>1, <1>2, <1>3, <1>5, <1>6, Wanders

LEMMA InventoryKeeps ==
  ASSUME RetentionAssumption, RetentionInv, NEW w \in Workers, Inventory(w) PROVE RetentionInv'
<1> DEFINE l == [worker[w] EXCEPT !.at = "inventory", !.todo = store]
<1>1. UNCHANGED <<row, dedup, retried, failures, life, manifest, late, running, proc, inflight>>
      /\ deaths' \in 0..MaxDeaths
  BY DEF Inventory, At, Calm, OwnStep, item, RetentionInv, StoreTyped
<1>2. store' \subseteq store /\ (store' = store \/ row.state = "gone")
  BY DEF Inventory, At, Calm, OwnStep, item, Allowed
<1>3. cleanup' \in [Runs -> {"none", "noted", "open", "done"}]
  BY DEF Inventory, At, Calm, OwnStep, item, RetentionInv, ItemTyped, Keys
<1>4. worker[w] \in WorkerType
  BY DEF RetentionInv, WorkersTyped
<1>5. l \in WorkerType /\ l.at \in Calmly
  BY <1>4 DEF Inventory, At, WorkerType, Stages, Calmly, RetentionAssumption, RetentionInv, StoreTyped
<1>6. worker' = [worker EXCEPT ![w] = l]
  BY DEF Inventory, At, RetentionInv, WorkersTyped, WorkerType
<1> HIDE DEF l
<1> QED BY <1>1, <1>2, <1>3, <1>5, <1>6, Wanders

LEMMA LooksUpKeeps ==
  ASSUME RetentionAssumption, RetentionInv, NEW w \in Workers, NEW k \in worker[w].todo, At(w, "inventory"), ReopensCleanup(w, k) \/ LeavesAlone(w, k) PROVE RetentionInv'
<1> DEFINE l == [worker[w] EXCEPT !.todo = @ \ {k}]
<1>1. UNCHANGED <<row, dedup, retried, failures, life, manifest, late, running, proc, inflight>>
      /\ deaths' \in 0..MaxDeaths
  BY DEF ReopensCleanup, LeavesAlone, At, Calm, OwnStep, item, RetentionInv, StoreTyped
<1>2. store' \subseteq store /\ (store' = store \/ row.state = "gone")
  BY DEF ReopensCleanup, LeavesAlone, At, Calm, OwnStep, item, Allowed
<1>3. cleanup' \in [Runs -> {"none", "noted", "open", "done"}]
  BY DEF ReopensCleanup, LeavesAlone, At, Calm, OwnStep, item, RetentionInv, ItemTyped, Keys
<1>4. worker[w] \in WorkerType
  BY DEF RetentionInv, WorkersTyped
<1>5. l \in WorkerType /\ l.at \in Calmly
  BY <1>4 DEF ReopensCleanup, LeavesAlone, At, WorkerType, Stages, Calmly, RetentionAssumption,
     RetentionInv, StoreTyped
<1>6. worker' = [worker EXCEPT ![w] = l]
  BY DEF ReopensCleanup, LeavesAlone, At, RetentionInv, WorkersTyped, WorkerType
<1> HIDE DEF l
<1> QED BY <1>1, <1>2, <1>3, <1>5, <1>6, Wanders

LEMMA UnknownKeeps ==
  ASSUME RetentionAssumption, RetentionInv, NEW w \in Workers, NEW k, Unknown(w, k) PROVE RetentionInv'
<1>1. UNCHANGED <<row, dedup, retried, failures, life, manifest, late, running, proc, inflight>>
      /\ store' = store /\ worker' = [worker EXCEPT ![w] = Fresh("idle")]
      /\ deaths' \in 0..MaxDeaths /\ cleanup' = cleanup
  BY DEF Unknown, Turns, Calm, OwnStep, item, RetentionInv, StoreTyped, RetentionAssumption
<1> QED BY <1>1, FreshTyped, Wanders DEF RetentionInv, ItemTyped, Stages, Calmly

LEMMA ObservedKeeps ==
  ASSUME RetentionAssumption, RetentionInv, NEW w \in Workers, Observed(w) PROVE RetentionInv'
<1>1. UNCHANGED <<row, dedup, retried, failures, life, manifest, late, running, proc, inflight>>
      /\ store' = store /\ worker' = [worker EXCEPT ![w] = Fresh("claim")]
      /\ deaths' \in 0..MaxDeaths /\ cleanup' = cleanup
  BY DEF Observed, Turns, Calm, OwnStep, item, RetentionInv, StoreTyped, RetentionAssumption
<1> QED BY <1>1, FreshTyped, Wanders DEF RetentionInv, ItemTyped, Stages, Calmly

LEMMA LateOwnerKeeps ==
  ASSUME RetentionAssumption, RetentionInv, NEW w \in Workers, LateOwner(w) PROVE RetentionInv'
<1>1. UNCHANGED <<row, dedup, retried, failures, life, manifest, late, running, proc, inflight>>
      /\ store' = store /\ worker' = [worker EXCEPT ![w] = Fresh("claim")]
      /\ deaths' \in 0..MaxDeaths /\ cleanup' = cleanup
  BY DEF LateOwner, Turns, Calm, OwnStep, item, RetentionInv, StoreTyped, RetentionAssumption
<1> QED BY <1>1, FreshTyped, Wanders DEF RetentionInv, ItemTyped, Stages, Calmly

LEMMA WorkerDiesKeeps ==
  ASSUME RetentionAssumption, RetentionInv, NEW w \in Workers, WorkerDies(w) PROVE RetentionInv'
<1>1. UNCHANGED <<row, dedup, retried, failures, life, manifest, late, running, proc, inflight>>
      /\ store' = store /\ worker' = [worker EXCEPT ![w] = Fresh("idle")]
      /\ deaths' \in 0..MaxDeaths /\ cleanup' = cleanup
  BY DEF WorkerDies, Turns, Calm, OwnStep, item, RetentionInv, StoreTyped, RetentionAssumption
<1> QED BY <1>1, FreshTyped, Wanders DEF RetentionInv, ItemTyped, Stages, Calmly

----------------------------------------------------------------------------
(* The worker that has claimed the item *)

\* A heartbeat: what it has before it is still all there is.
LEMMA BeatsKeeps ==
  ASSUME RetentionAssumption, RetentionInv, NEW w \in Workers, Beats(w) PROVE RetentionInv'
<1>1. PICK k \in worker[w].todo :
        worker' = [worker EXCEPT ![w].at = "delete", ![w].key = k, ![w].todo = @ \ {k}]
  BY DEF Beats
<1> DEFINE l == [worker[w] EXCEPT !.at = "delete", !.key = k, !.todo = @ \ {k}]
<1>2. worker[w] \in WorkerType /\ worker[w].at = "purge" /\ HasLease(w)
  BY DEF RetentionInv, WorkersTyped, Beats, At
<1>3. l \in WorkerType /\ l.at = "delete" /\ l.key = k /\ l.todo \subseteq worker[w].todo /\ k \in Keys
  BY <1>2 DEF WorkerType, Stages
<1>4. worker' = [worker EXCEPT ![w] = l]
  BY <1>1 DEF RetentionInv, WorkersTyped, WorkerType
<1> HIDE DEF l
<1>5. UNCHANGED <<item, life, manifest, late, running, proc, inflight, deaths, store>>
  BY DEF Beats, Calm, OwnStep
<1>6. worker'[w] = l
  BY <1>4 DEF RetentionInv, WorkersTyped
<1>7. PurgeSound(w)
  BY DEF RetentionInv
<1>8. PurgeSound(w)'
  BY <1>2, <1>3, <1>5, <1>6, <1>7 DEF PurgeSound, HasLease, Remains
<1> QED BY <1>3, <1>4, <1>5, <1>8, WorkerMoves DEF item, RetentionInv, ItemTyped, StoreTyped

LEMMA DeletesKeeps ==
  ASSUME RetentionAssumption, RetentionInv, NEW w \in Workers, Deletes(w) PROVE RetentionInv'
<1> DEFINE l == [worker[w] EXCEPT !.at = "record"]
<1>1. worker[w] \in WorkerType /\ worker[w].at = "delete"
  BY DEF RetentionInv, WorkersTyped, Deletes, At
<1>2. l \in WorkerType /\ l.at = "record" /\ l.key = worker[w].key /\ l.todo = worker[w].todo
  BY <1>1 DEF WorkerType, Stages
<1>3. worker' = [worker EXCEPT ![w] = l]
  BY DEF RetentionInv, WorkersTyped, Deletes, GoesOn
<1> HIDE DEF l
<1>4. UNCHANGED <<item, life, manifest, late, running, proc, inflight, deaths>>
      /\ store' = store \ {worker[w].key}
  BY DEF Deletes, Calm, OwnStep
<1>5. worker'[w] = l
  BY <1>3 DEF RetentionInv, WorkersTyped
<1>6. PurgeSound(w)
  BY DEF RetentionInv
<1>7. PurgeSound(w)'
  BY <1>1, <1>2, <1>4, <1>5, <1>6 DEF PurgeSound, HasLease, Remains
<1>8. life.expired
  BY <1>1, <1>6 DEF PurgeSound
<1> QED BY <1>2, <1>3, <1>4, <1>7, <1>8, WorkerMoves DEF item, RetentionInv, ItemTyped, StoreTyped

\* Time passes: nobody gets a lease by it.
LEMMA TimeKeeps ==
  ASSUME RetentionAssumption, RetentionInv, Expire \/ WaitEnds \/ LeaseEnds \/ LedgerAges PROVE RetentionInv'
<1>1. UNCHANGED <<item, manifest, running, proc, store, inflight, worker, late>> /\ deaths' \in 0..MaxDeaths
  BY DEF Expire, WaitEnds, LeaseEnds, LedgerAges, RetentionInv, StoreTyped, RetentionAssumption
<1>2. /\ life' \in LifeType
      /\ life'.run = life.run /\ life'.state = life.state /\ life'.owner = life.owner
  BY DEF Expire, WaitEnds, LeaseEnds, LedgerAges, RetentionInv, LifeTyped, LifeType
<1>3. (life'.leased => life.leased) /\ (life.expired => life'.expired)
  BY DEF Expire, WaitEnds, LeaseEnds, LedgerAges, RetentionInv, LifeTyped, LifeType
<1>4. LifeTyped' /\ StoreTyped' /\ WorkersTyped'
  BY <1>1, <1>2, <1>3 DEF RetentionInv, LifeTyped, StoreTyped, WorkersTyped
<1>5. Live' => Live
  BY <1>2, <1>3 DEF Live
<1>6. ItemTyped' /\ ProcTyped' /\ RowSound' /\ PutsSound' /\ LiveKeepsObjects'
  BY <1>1, <1>2, <1>3, <1>4, <1>5, LifeMoves
<1>7. DeletedSound' /\ PurgedIsGone'
  BY <1>1, <1>2 DEF RetentionInv, DeletedSound, PurgedIsGone
<1>8. ASSUME NEW w \in Workers PROVE PurgeSound(w)'
  <2>1. PurgeSound(w)
    BY DEF RetentionInv
  <2> QED BY <1>1, <1>2, <1>3, <2>1 DEF PurgeSound, HasLease, Remains
<1> QED BY <1>4, <1>6, <1>7, <1>8 DEF RetentionInv

----------------------------------------------------------------------------
(* The manifest and the lease *)

LEMMA ReopensManifestKeeps ==
  ASSUME RetentionInv, NEW w \in Workers, NEW k \in worker[w].todo, At(w, "inventory"), ReopensManifest(w, k)
  PROVE  RetentionInv'
<1> DEFINE l == [worker[w] EXCEPT !.todo = @ \ {k}]
<1>1. UNCHANGED <<item, running, proc, inflight, deaths, store, late>>
      /\ manifest' = [manifest EXCEPT ![k] = "PENDING"] /\ life.expired /\ OfItem(k)
  BY DEF ReopensManifest, OwnStep
<1>2. worker[w] \in WorkerType /\ k \in Keys
  BY DEF RetentionInv, WorkersTyped, WorkerType
<1>3. l \in WorkerType /\ l.at = "inventory"
  BY <1>2 DEF WorkerType, At
<1>4. worker' = [worker EXCEPT ![w] = l]
  BY DEF ReopensManifest, RetentionInv, WorkersTyped
<1> HIDE DEF l
<1>5. life' \in LifeType /\ life'.run = life.run /\ life'.owner = life.owner /\ life'.leased = life.leased
      /\ life'.expired
  BY <1>1 DEF ReopensManifest, RetentionInv, LifeTyped, LifeType, LifeStates
<1>6. \/ life.state = "PURGED" /\ life'.state = "PURGE_FAILED"
      \/ life.state # "PURGED" /\ life'.state = life.state
  BY DEF ReopensManifest, RetentionInv, LifeTyped, LifeType
<1>7. LifeTyped' /\ StoreTyped' /\ WorkersTyped'
  <2>1. LifeTyped'
    BY <1>5, <1>6 DEF RetentionInv, LifeTyped
  <2>2. StoreTyped'
    BY <1>1 DEF RetentionInv, StoreTyped, Marks
  <2> QED BY <1>3, <1>4, <2>1, <2>2 DEF RetentionInv, WorkersTyped
<1>8. \A j \in Keys : manifest'[j] = IF j = k THEN "PENDING" ELSE manifest[j]
  BY <1>1 DEF RetentionInv, StoreTyped
<1>9. life.state \notin {"none", "removed"} /\ (k \in Recorded \/ manifest[k] # "none" \/ k[1] = life.run)
  BY <1>1 DEF OfItem
<1>10. ItemTyped' /\ ProcTyped' /\ RowSound' /\ PutsSound' /\ LiveKeepsObjects'
  <2>1. ~Live'
    BY <1>5 DEF Live
  <2> QED BY <1>1, <1>5, <1>6, <1>7, <1>8, <1>9, <2>1, LifeMoves
<1>11. DeletedSound'
  BY <1>1, <1>5, <1>8 DEF RetentionInv, DeletedSound, StoreTyped
<1>12. PurgedIsGone'
  BY <1>6, <1>9 DEF PurgedIsGone
<1>13. ASSUME NEW v \in Workers PROVE PurgeSound(v)'
  <2>1. CASE v = w
    BY <1>3, <1>4, <2>1 DEF PurgeSound, RetentionInv, WorkersTyped
  <2>2. CASE v # w
    <3>1. worker'[v] = worker[v] /\ PurgeSound(v) /\ worker[v] \in WorkerType
      BY <1>4, <2>2 DEF RetentionInv, WorkersTyped
    <3>2. HasLease(v)' => HasLease(v)
      BY <1>5, <1>6 DEF HasLease
    <3>3. \A j \in Keys : Remains(j)' => Remains(j) \/ j = k
      BY <1>1, <1>5, <1>8 DEF Remains
    <3> QED BY <1>1, <1>5, <1>8, <3>1, <3>2, <3>3 DEF PurgeSound, WorkerType
  <2> QED BY <2>1, <2>2
<1> QED BY <1>7, <1>10, <1>11, <1>12, <1>13 DEF RetentionInv

LEMMA ClaimKeeps ==
  ASSUME RetentionAssumption, RetentionInv, NEW w \in Workers, Claim(w) PROVE RetentionInv'
<1>1. UNCHANGED <<item, running, proc, inflight, deaths, store>> /\ late' = {}
      /\ worker' = [worker EXCEPT ![w] = Fresh("list")] /\ life.expired /\ life.state \notin {"none", "PURGED", "removed"}
  BY DEF Claim, Claimable, Turns, OwnStep
<1>2. manifest' = [k \in Keys |-> IF k \in Recorded /\ manifest[k] = "none" THEN "PENDING" ELSE manifest[k]]
  BY DEF Claim
<1>3. life' \in LifeType
  BY DEF Claim, RetentionInv, LifeTyped, LifeType, LifeStates
<1>4. life'.run = life.run /\ life'.owner = w /\ life'.expired = life.expired /\ life'.state = "PURGE_PENDING"
  BY DEF Claim, RetentionInv, LifeTyped, LifeType
<1>5. Fresh("list") \in WorkerType /\ Fresh("list").at = "list"
  BY FreshTyped DEF Stages
<1>6. LifeTyped' /\ StoreTyped' /\ WorkersTyped'
  <2>1. LifeTyped'
    BY <1>3, <1>4 DEF LifeTyped, RetentionAssumption
  <2>2. StoreTyped'
    BY <1>1, <1>2 DEF RetentionInv, StoreTyped, Marks
  <2> QED BY <1>1, <1>5, <2>1, <2>2 DEF RetentionInv, WorkersTyped
<1>7. ItemTyped' /\ ProcTyped' /\ RowSound' /\ PutsSound' /\ LiveKeepsObjects'
  <2>1. ~Live'
    BY <1>4 DEF Live
  <2>2. \A k \in Keys : manifest'[k] # "none" => manifest[k] # "none" \/ k \in Recorded
    BY <1>2
  <2> QED BY <1>1, <1>4, <1>6, <2>1, <2>2, LifeMoves
<1>8. DeletedSound'
  BY <1>1, <1>2, <1>4 DEF RetentionInv, DeletedSound, StoreTyped
<1>9. PurgedIsGone'
  BY <1>4 DEF PurgedIsGone
<1>10. ASSUME NEW v \in Workers PROVE PurgeSound(v)'
  <2>1. CASE v = w
    BY <1>1, <1>4, <1>5, <2>1 DEF PurgeSound, RetentionInv, WorkersTyped
  <2>2. CASE v # w
    <3>1. worker'[v] = worker[v] /\ PurgeSound(v)
      BY <1>1, <2>2 DEF RetentionInv, WorkersTyped
    <3>2. ~HasLease(v)'
      BY <1>4, <2>2 DEF HasLease
    <3> QED BY <1>4, <3>1, <3>2 DEF PurgeSound
  <2> QED BY <2>1, <2>2
<1> QED BY <1>6, <1>7, <1>8, <1>9, <1>10 DEF RetentionInv

\* A claim that ends, with the result of a deletion or without: nobody has the lease.
LEMMA ReleasedKeeps ==
  ASSUME RetentionAssumption, RetentionInv, NEW w \in Workers, HasLease(w), Released, Turns(w, "claim"), OwnStep,
         UNCHANGED <<item, store, late>>,
         \/ manifest' = manifest
         \/ \E k \in Keys : manifest[k] # "none" /\ manifest' = [manifest EXCEPT ![k] = "FAILED"]
  PROVE  RetentionInv'
<1>1. UNCHANGED <<item, running, proc, inflight, deaths, store, late>>
      /\ worker' = [worker EXCEPT ![w] = Fresh("claim")] /\ life.state = "PURGE_PENDING"
  BY DEF HasLease, Turns, OwnStep
<1>2. manifest' \in [Keys -> Marks]
      /\ \A k \in Keys : manifest'[k] = manifest[k] \/ (manifest'[k] = "FAILED" /\ manifest[k] # "none")
  BY DEF RetentionInv, StoreTyped, Marks
<1>3. life' \in LifeType
  BY DEF Released, RetentionInv, LifeTyped, LifeType, LifeStates
<1>4. life'.run = life.run /\ life'.owner = NoOne /\ life'.expired = life.expired
      /\ life'.state = "PURGE_FAILED" /\ ~life'.leased
  BY DEF Released, RetentionInv, LifeTyped, LifeType
<1>5. Fresh("claim") \in WorkerType /\ Fresh("claim").at = "claim"
  BY FreshTyped DEF Stages
<1>6. LifeTyped' /\ StoreTyped' /\ WorkersTyped'
  BY <1>1, <1>2, <1>3, <1>4, <1>5 DEF RetentionInv, LifeTyped, StoreTyped, WorkersTyped
<1>7. ItemTyped' /\ ProcTyped' /\ RowSound' /\ PutsSound' /\ LiveKeepsObjects'
  <2>1. ~Live'
    BY <1>4 DEF Live
  <2> QED BY <1>1, <1>2, <1>4, <1>6, <2>1, LifeMoves
<1>8. DeletedSound'
  BY <1>1, <1>2, <1>4 DEF RetentionInv, DeletedSound, StoreTyped
<1>9. PurgedIsGone'
  BY <1>4 DEF PurgedIsGone
<1>10. ASSUME NEW v \in Workers PROVE PurgeSound(v)'
  <2>1. CASE v = w
    BY <1>1, <1>5, <2>1 DEF PurgeSound, RetentionInv, WorkersTyped
  <2>2. CASE v # w
    <3>1. worker'[v] = worker[v] /\ PurgeSound(v)
      BY <1>1, <2>2 DEF RetentionInv, WorkersTyped
    <3> QED BY <1>4, <3>1 DEF PurgeSound, HasLease
  <2> QED BY <2>1, <2>2
<1> QED BY <1>6, <1>7, <1>8, <1>9, <1>10 DEF RetentionInv

LEMMA PassEndsKeeps ==
  ASSUME RetentionAssumption, RetentionInv, NEW w \in Workers, PassEnds(w) PROVE RetentionInv'
<1>1. UNCHANGED <<item, running, proc, inflight, deaths, store, late>>
      /\ worker' = [worker EXCEPT ![w] = Fresh("idle")]
  BY DEF PassEnds, Turns, OwnStep
<1>2. CASE life.state = "PURGED" /\ life.old
  <2>1. life' = [life EXCEPT !.state = "removed"] /\ manifest' = [k \in Keys |-> "none"]
    BY <1>2 DEF PassEnds
  <2>2. life' \in LifeType
    BY <2>1 DEF RetentionInv, LifeTyped, LifeType, LifeStates
  <2>3. life'.run = life.run /\ life'.owner = life.owner /\ life'.expired = life.expired
        /\ life'.state = "removed" /\ life'.leased = life.leased
    BY <2>1 DEF RetentionInv, LifeTyped, LifeType
  <2>4. Fresh("idle") \in WorkerType /\ Fresh("idle").at = "idle"
    BY FreshTyped DEF Stages
  <2>5. LifeTyped' /\ StoreTyped' /\ WorkersTyped'
    <3>1. LifeTyped'
      BY <1>2, <2>2, <2>3 DEF RetentionInv, LifeTyped
    <3>2. StoreTyped'
      BY <1>1, <2>1 DEF RetentionInv, StoreTyped, Marks
    <3> QED BY <1>1, <2>4, <3>1, <3>2 DEF RetentionInv, WorkersTyped
  <2>6. ItemTyped' /\ ProcTyped' /\ RowSound' /\ PutsSound' /\ LiveKeepsObjects'
    <3>1. ~Live'
      BY <2>3 DEF Live
    <3>2. \A k \in Keys : manifest'[k] = "none"
      BY <2>1
    <3> QED BY <1>1, <1>2, <2>3, <2>5, <3>1, <3>2, LifeMoves
  <2>7. DeletedSound' /\ PurgedIsGone'
    BY <1>1, <1>2, <2>1, <2>3 DEF RetentionInv, DeletedSound, PurgedIsGone, StoreTyped
  <2>8. ASSUME NEW v \in Workers PROVE PurgeSound(v)'
    <3>1. CASE v = w
      BY <1>1, <2>4, <3>1 DEF PurgeSound, RetentionInv, WorkersTyped
    <3>2. CASE v # w
      <4>1. worker'[v] = worker[v] /\ PurgeSound(v)
        BY <1>1, <3>2 DEF RetentionInv, WorkersTyped
      <4> QED BY <2>3, <4>1 DEF PurgeSound, HasLease
    <3> QED BY <3>1, <3>2
  <2> QED BY <2>5, <2>6, <2>7, <2>8 DEF RetentionInv
<1>3. CASE ~(life.state = "PURGED" /\ life.old)
  <2>1. UNCHANGED <<life, manifest>>
    BY <1>3 DEF PassEnds
  <2> QED BY <1>1, <2>1, FreshTyped, Wanders DEF RetentionInv, ItemTyped, StoreTyped, Stages, Calmly, item
<1> QED BY <1>2, <1>3

\* What the worker lists is all that the item has.
LEMMA ListsKeeps ==
  ASSUME RetentionInv, NEW w \in Workers, Lists(w) PROVE RetentionInv'
<1> DEFINE l == [worker[w] EXCEPT !.at = "purge", !.todo = {k \in Keys : manifest'[k] \in {"PENDING", "FAILED"}}]
<1>1. UNCHANGED <<item, life, running, proc, inflight, deaths, store, late>> /\ HasLease(w)
      /\ worker[w].at = "list" /\ worker[w] \in WorkerType
      /\ manifest' = [k \in Keys |-> IF k \in store \cap Of(life.run) THEN "PENDING" ELSE manifest[k]]
  BY DEF Lists, At, OwnStep, RetentionInv, WorkersTyped
<1>2. l \in WorkerType /\ l.at = "purge" /\ l.todo = {k \in Keys : manifest'[k] \in {"PENDING", "FAILED"}}
  BY <1>1 DEF WorkerType, Stages
<1>3. worker' = [worker EXCEPT ![w] = l]
  BY DEF Lists, RetentionInv, WorkersTyped, WorkerType
<1> HIDE DEF l
<1>4. \A k \in Keys : manifest'[k] = IF k \in store /\ k[1] = life.run THEN "PENDING" ELSE manifest[k]
  BY <1>1 DEF Of, Keys
<1>5. LifeTyped' /\ StoreTyped' /\ WorkersTyped'
  <2>1. StoreTyped'
    BY <1>1 DEF RetentionInv, StoreTyped, Marks
  <2> QED BY <1>1, <1>2, <1>3, <2>1 DEF RetentionInv, LifeTyped, WorkersTyped
<1>6. ItemTyped' /\ ProcTyped' /\ RowSound' /\ PutsSound' /\ LiveKeepsObjects'
  <2>1. \A k \in Keys : manifest'[k] # "none" => manifest[k] # "none" \/ k[1] = life.run
    BY <1>4
  <2>2. life.state # "none" /\ (Live' => Live)
    BY <1>1 DEF HasLease, Live
  <2> QED BY <1>1, <1>5, <2>1, <2>2, LifeMoves
<1>7. DeletedSound' /\ PurgedIsGone'
  BY <1>1, <1>4 DEF RetentionInv, DeletedSound, PurgedIsGone, HasLease, StoreTyped
<1>8. ASSUME NEW v \in Workers PROVE PurgeSound(v)'
  <2>1. CASE v = w
    <3>1. worker'[w] = l /\ life.expired
      BY <1>1, <1>3 DEF RetentionInv, WorkersTyped, PurgeSound
    <3>2. ASSUME NEW k \in Keys, Remains(k)' PROVE manifest'[k] \in {"PENDING", "FAILED"}
      BY <1>1, <1>4, <3>2 DEF Remains, RetentionInv, DeletedSound, StoreTyped, Marks
    <3> QED BY <1>1, <1>2, <2>1, <3>1, <3>2 DEF PurgeSound
  <2>2. CASE v # w
    <3>1. worker'[v] = worker[v] /\ PurgeSound(v)
      BY <1>3, <2>2 DEF RetentionInv, WorkersTyped
    <3> QED BY <1>1, <2>2, <3>1 DEF PurgeSound, HasLease
  <2> QED BY <2>1, <2>2
<1> QED BY <1>5, <1>6, <1>7, <1>8 DEF RetentionInv

LEMMA RecordsKeeps ==
  ASSUME RetentionInv, NEW w \in Workers, Records(w) PROVE RetentionInv'
<1> DEFINE l == [worker[w] EXCEPT !.at = "purge", !.key = NoKey]
<1>1. UNCHANGED <<item, life, running, proc, inflight, deaths, store, late>> /\ HasLease(w)
      /\ worker[w].at = "record" /\ worker[w] \in WorkerType
      /\ manifest' = [manifest EXCEPT ![worker[w].key] = "DELETED"]
  BY DEF Records, At, OwnStep, RetentionInv, WorkersTyped
<1>2. l \in WorkerType /\ l.at = "purge" /\ l.todo = worker[w].todo
  BY <1>1 DEF WorkerType, Stages
<1>3. worker' = [worker EXCEPT ![w] = l]
  BY DEF Records, RetentionInv, WorkersTyped, WorkerType
<1> HIDE DEF l
<1>4. PurgeSound(w)
  BY DEF RetentionInv
<1>5. PICK key \in Keys : key = worker[w].key /\ manifest[key] # "none" /\ (key \in store => key \in late)
                          /\ (key[1] # life.run => key \notin store)
  BY <1>1, <1>4 DEF PurgeSound
<1>6. \A k \in Keys : manifest'[k] = IF k = key THEN "DELETED" ELSE manifest[k]
  BY <1>1, <1>5 DEF RetentionInv, StoreTyped
<1>7. LifeTyped' /\ StoreTyped' /\ WorkersTyped'
  <2>1. StoreTyped'
    BY <1>1 DEF RetentionInv, StoreTyped, Marks
  <2> QED BY <1>1, <1>2, <1>3, <2>1 DEF RetentionInv, LifeTyped, WorkersTyped
<1>8. ItemTyped' /\ ProcTyped' /\ RowSound' /\ PutsSound' /\ LiveKeepsObjects'
  <2>1. \A k \in Keys : manifest'[k] # "none" => manifest[k] # "none"
    BY <1>5, <1>6
  <2>2. Live' => Live
    BY <1>1 DEF Live
  <2> QED BY <1>1, <1>7, <2>1, <2>2, LifeMoves
<1>9. DeletedSound' /\ PurgedIsGone'
  BY <1>1, <1>5, <1>6 DEF RetentionInv, DeletedSound, PurgedIsGone, HasLease, StoreTyped
<1>10. ASSUME NEW v \in Workers PROVE PurgeSound(v)'
  <2>1. CASE v = w
    <3>1. worker'[w] = l /\ life.expired
      BY <1>1, <1>3, <1>4 DEF RetentionInv, WorkersTyped, PurgeSound
    <3>2. ASSUME NEW k \in Keys, Remains(k)' PROVE manifest'[k] \in {"PENDING", "FAILED"}
      <4>1. k # key /\ Remains(k)
        BY <1>1, <1>5, <1>6, <3>2 DEF Remains
      <4> QED BY <1>1, <1>4, <1>6, <4>1 DEF PurgeSound
    <3>3. \A k \in l.todo : manifest'[k] # "none"
      BY <1>1, <1>2, <1>4, <1>6 DEF PurgeSound, WorkerType
    <3> QED BY <1>1, <1>2, <2>1, <3>1, <3>2, <3>3 DEF PurgeSound
  <2>2. CASE v # w
    <3>1. worker'[v] = worker[v] /\ PurgeSound(v)
      BY <1>3, <2>2 DEF RetentionInv, WorkersTyped
    <3> QED BY <1>1, <2>2, <3>1 DEF PurgeSound, HasLease
  <2> QED BY <2>1, <2>2
<1> QED BY <1>7, <1>8, <1>9, <1>10 DEF RetentionInv

LEMMA DeleteFailsKeeps ==
  ASSUME RetentionAssumption, RetentionInv, NEW w \in Workers, DeleteFails(w) PROVE RetentionInv'
<1>1. worker[w].key \in Keys /\ manifest[worker[w].key] # "none"
  <2>1. PurgeSound(w) /\ HasLease(w) /\ worker[w].at = "delete"
    BY DEF RetentionInv, DeleteFails, At
  <2> QED BY <2>1 DEF PurgeSound
<1> QED BY <1>1, ReleasedKeeps DEF DeleteFails

LEMMA FinishFailsKeeps ==
  ASSUME RetentionAssumption, RetentionInv, NEW w \in Workers, FinishFails(w) PROVE RetentionInv'
BY ReleasedKeeps DEF FinishFails

\* The rows go when nothing of the item is left that was there when its purge was claimed.
LEMMA FinishKeeps ==
  ASSUME RetentionAssumption, RetentionInv, NEW w \in Workers, Finish(w) PROVE RetentionInv'
<1>1. UNCHANGED <<manifest, dedup, retried, failures, cleanup, proc, store, inflight, deaths, late>>
      /\ worker' = [worker EXCEPT ![w] = Fresh("claim")] /\ HasLease(w) /\ worker[w].at = "purge"
      /\ ~Remain /\ life.state = "PURGE_PENDING" /\ running' \in {0, running}
  BY DEF Finish, At, Turns, HasLease
<1>2. row' \in RowType /\ row'.state = "gone" /\ row'.run = row.run /\ ~row'.raw /\ ~row'.media
  BY DEF Finish, RetentionInv, ItemTyped, RowType, ItemStates
<1>3. life' \in LifeType
  BY DEF Finish, RetentionInv, LifeTyped, LifeType, LifeStates
<1>4. life'.run = life.run /\ life'.owner = NoOne /\ life'.expired = life.expired
      /\ life'.state = "PURGED" /\ ~life'.leased
  BY DEF Finish, RetentionInv, LifeTyped, LifeType
<1>5. Fresh("claim") \in WorkerType /\ Fresh("claim").at = "claim"
  BY FreshTyped DEF Stages
<1>6. ItemTyped' /\ LifeTyped' /\ StoreTyped' /\ WorkersTyped'
  BY <1>1, <1>2, <1>3, <1>4, <1>5 DEF RetentionInv, ItemTyped, LifeTyped, StoreTyped, WorkersTyped
<1>7. ProcTyped'
  BY <1>1 DEF RetentionInv, ProcTyped, RetentionAssumption
<1>8. RowSound'
  BY <1>1, <1>2, <1>4 DEF RetentionInv, RowSound, Live
<1>9. Recorded' = {}
  BY <1>2 DEF Recorded
<1>10. PutsSound' /\ LiveKeepsObjects'
  BY <1>1, <1>4, <1>9 DEF RetentionInv, PutsSound, LiveKeepsObjects, Settled, Upcoming
<1>11. DeletedSound'
  BY <1>1, <1>4 DEF RetentionInv, DeletedSound
<1>12. PurgedIsGone'
  <2>1. \A k \in Keys : ~Remains(k)
    BY <1>1 DEF RetentionInv, PurgeSound, Remain
  <2> QED BY <1>1, <1>4, <2>1 DEF PurgedIsGone, Remains, RetentionInv, StoreTyped
<1>13. ASSUME NEW v \in Workers PROVE PurgeSound(v)'
  <2>1. CASE v = w
    BY <1>1, <1>5, <2>1 DEF PurgeSound, RetentionInv, WorkersTyped
  <2>2. CASE v # w
    <3>1. worker'[v] = worker[v] /\ PurgeSound(v)
      BY <1>1, <2>2 DEF RetentionInv, WorkersTyped
    <3> QED BY <1>4, <3>1 DEF PurgeSound, HasLease
  <2> QED BY <2>1, <2>2
<1> QED BY <1>6, <1>7, <1>8, <1>10, <1>11, <1>12, <1>13 DEF RetentionInv

----------------------------------------------------------------------------
(* The invariant *)

LEMMA InitSound ==
  ASSUME RetentionAssumption, Init PROVE RetentionInv
<1>1. ItemTyped /\ ProcTyped /\ StoreTyped
  <2>1. 0 \in 0..MaxRuns /\ 0 \in 0..MaxDeaths
    BY DEF RetentionAssumption
  <2>2. ItemTyped
    BY <2>1 DEF Init, ItemTyped, RowType, ItemStates
  <2>3. ProcTyped
    BY <2>1 DEF Init, ProcTyped, ProcType, Places
  <2>4. StoreTyped
    BY <2>1 DEF Init, StoreTyped, Marks
  <2> QED BY <2>2, <2>3, <2>4
<1>2. LifeTyped
  BY DEF Init, LifeTyped, LifeType, LifeStates, RetentionAssumption
<1>3. WorkersTyped
  BY DEF Init, WorkersTyped, WorkerType, Stages, RetentionAssumption
<1>4. RowSound
  BY DEF Init, RowSound
<1>5. Recorded = {}
  BY DEF Init, Recorded
<1>6. PutsSound /\ DeletedSound /\ LiveKeepsObjects /\ PurgedIsGone
  BY <1>5 DEF Init, PutsSound, DeletedSound, LiveKeepsObjects, PurgedIsGone
<1>7. \A w \in Workers : PurgeSound(w)
  BY DEF Init, PurgeSound
<1> QED BY <1>1, <1>2, <1>3, <1>4, <1>6, <1>7 DEF RetentionInv

LEMMA WorkerKeeps ==
  ASSUME RetentionAssumption, RetentionInv, NEW w \in Workers,
         WorkerStep(w) \/ CleanupFails(w) \/ DeleteFails(w) \/ WorkerDies(w)
  PROVE  RetentionInv'
<1>1. CASE Pass(w)
  BY <1>1, PassKeeps
<1>2. CASE CleanupLists(w)
  BY <1>2, CleanupListsKeeps DEF CleanupLists
<1>3. CASE \E k \in Keys : CleanupDeletes(w, k)
  BY <1>3, CleanupDeletesKeeps
<1>4. CASE CleanupDone(w) \/ CleanupFails(w) \/ Inventory(w)
  BY <1>4, CleanupDoneKeeps, CleanupFailsKeeps, InventoryKeeps
<1>5. CASE Observe(w)
  <2>1. PICK k \in worker[w].todo :
          At(w, "inventory") /\ (\/ ReopensCleanup(w, k) \/ ReopensManifest(w, k)
                                 \/ LeavesAlone(w, k) \/ Unknown(w, k))
    BY <1>5 DEF Observe
  <2> QED BY <2>1, LooksUpKeeps, ReopensManifestKeeps, UnknownKeeps
<1>6. CASE Observed(w) \/ Claim(w) \/ PassEnds(w)
  BY <1>6, ObservedKeeps, ClaimKeeps, PassEndsKeeps
<1>7. CASE Lists(w) \/ Beats(w) \/ Deletes(w) \/ Records(w) \/ DeleteFails(w)
  BY <1>7, ListsKeeps, BeatsKeeps, DeletesKeeps, RecordsKeeps, DeleteFailsKeeps
<1>8. CASE Finish(w) \/ FinishFails(w)
  BY <1>8, FinishKeeps, FinishFailsKeeps
<1>9. CASE LateOwner(w) \/ WorkerDies(w)
  BY <1>9, LateOwnerKeeps, WorkerDiesKeeps
<1> QED BY <1>1, <1>2, <1>3, <1>4, <1>5, <1>6, <1>7, <1>8, <1>9 DEF WorkerStep

LEMMA StutterKeeps ==
  ASSUME RetentionInv, UNCHANGED vars PROVE RetentionInv'
<1>1. UNCHANGED <<item, life, manifest, running, proc, store, inflight, worker, deaths, late>>
  BY DEF vars, item
<1>2. ItemTyped' /\ LifeTyped' /\ ProcTyped' /\ StoreTyped' /\ WorkersTyped'
  BY <1>1 DEF RetentionInv, ItemTyped, LifeTyped, ProcTyped, StoreTyped, WorkersTyped, item
<1>3. RowSound' /\ PutsSound' /\ DeletedSound' /\ LiveKeepsObjects' /\ PurgedIsGone'
  BY <1>1 DEF RetentionInv, RowSound, Live, PutsSound, Settled, Upcoming, Recorded, DeletedSound,
     LiveKeepsObjects,
              PurgedIsGone, item
<1>4. \A w \in Workers : PurgeSound(w)'
  BY <1>1 DEF RetentionInv, PurgeSound, HasLease, Remains
<1> QED BY <1>2, <1>3, <1>4 DEF RetentionInv

LEMMA NextKeeps ==
  ASSUME RetentionAssumption, RetentionInv, Next PROVE RetentionInv'
<1>1. CASE Collector
  <2>1. CASE Begin \/ ClaimItem \/ ClaimNothing \/ PutRaw \/ PutMedia
    BY <2>1, BeginKeeps, ClaimItemKeeps, ClaimNothingKeeps, PutKeeps
  <2>2. CASE RawStored \/ MediaStored \/ Parsed \/ SkipItem \/ RetryImage
    BY <2>2, RawStoredKeeps, MediaStoredKeeps, ParsedKeeps, SkipItemKeeps, RetryImageKeeps
  <2>3. CASE (\E image \in BOOLEAN : Fail(image)) \/ Complete \/ Expires \/ CollectorDies
    BY <2>3, FailKeeps, CompleteKeeps, ExpiresKeeps, CollectorDiesKeeps
  <2> QED BY <1>1, <2>1, <2>2, <2>3 DEF Collector
<1>2. CASE DeleteFailedItem
  BY <1>2, DeleteFailedItemKeeps
<1>3. CASE \E k \in Keys : PutLands(k) \/ PutLost(k)
  BY <1>3, PutEndsKeeps
<1>4. CASE Expire \/ WaitEnds \/ LeaseEnds \/ LedgerAges
  BY <1>4, TimeKeeps
<1>5. CASE \E w \in Workers : WorkerStep(w) \/ CleanupFails(w) \/ DeleteFails(w) \/ WorkerDies(w)
  BY <1>5, WorkerKeeps
<1> QED BY <1>1, <1>2, <1>3, <1>4, <1>5 DEF Next

LEMMA RetentionInvariant ==
  ASSUME RetentionAssumption PROVE Spec => []RetentionInv
<1>1. Init => RetentionInv
  BY InitSound
<1>2. RetentionInv /\ [Next]_vars => RetentionInv'
  BY NextKeeps, StutterKeeps
<1> QED BY <1>1, <1>2, PTL DEF Spec

\* The types of the run are those of the invariant.
LEMMA InvTypes ==
  ASSUME RetentionInv PROVE TypeOK
BY DEF RetentionInv, TypeOK, ItemTyped, LifeTyped, ProcTyped, StoreTyped, WorkersTyped, RowType, ItemStates,
       LifeType, LifeStates, ProcType, Places, Marks, WorkerType, Stages

\* For every number of runs, workers and deaths: an item whose time is not over keeps the objects its rows
\* name, and of one that counts as purged nothing is left but what came after the claim of its purge
\* (claim_retention, finish_retention, ImageFailureCleanup).
THEOREM RetentionIsSafe ==
  ASSUME RetentionAssumption PROVE Spec => []RetentionSafe
<1>1. RetentionInv => RetentionSafe
  BY InvTypes DEF RetentionInv, RetentionSafe
<1> QED BY <1>1, RetentionInvariant, PTL

\* A step that takes the lease from its owner while it lasts is a step of the owner.
LEMMA OwnersStep ==
  ASSUME RetentionAssumption, RetentionInv, [Next]_vars, life.leased, life'.owner # life.owner
  PROVE  worker'[life.owner] # worker[life.owner]
<1>1. life \in LifeType /\ worker \in [Workers -> WorkerType]
  BY DEF RetentionInv, LifeTyped, WorkersTyped
<1>2. ASSUME NEW w \in Workers, HasLease(w), worker' = [worker EXCEPT ![w] = Fresh("claim")],
             worker[w].at \in {"delete", "purge"}
      PROVE  worker'[life.owner] # worker[life.owner]
  BY <1>1, <1>2 DEF HasLease, Fresh
<1>3. ~UNCHANGED vars /\ ~UNCHANGED life
  BY DEF vars
<1>4. CASE Collector
  <2>1. CASE ClaimItem
    BY <1>1, <1>3, <2>1 DEF ClaimItem, LifeType
  <2> QED BY <1>3, <1>4, <2>1 DEF Collector, Begin, ClaimNothing, PutRaw, PutMedia, Put, RawStored,
             MediaStored, Parsed,
          SkipItem, RetryImage, Fail, Complete, Expires, CollectorDies, Kept
<1>5. CASE DeleteFailedItem \/ \E k \in Keys : PutLands(k) \/ PutLost(k)
  BY <1>3, <1>5 DEF DeleteFailedItem, PutLands, PutLost, Kept
<1>6. CASE Expire \/ WaitEnds \/ LeaseEnds \/ LedgerAges
  BY <1>1, <1>6 DEF Expire, WaitEnds, LeaseEnds, LedgerAges, LifeType
<1>7. ASSUME NEW w \in Workers, WorkerStep(w) \/ CleanupFails(w) \/ DeleteFails(w) \/ WorkerDies(w)
      PROVE  worker'[life.owner] # worker[life.owner]
  <2>1. CASE Claim(w)
    BY <2>1 DEF Claim, Claimable
  <2>2. CASE DeleteFails(w) \/ Finish(w) \/ FinishFails(w)
    BY <1>2, <2>2 DEF DeleteFails, Finish, FinishFails, Turns, At
  <2>3. CASE Observe(w)
    BY <1>1, <1>3, <2>3 DEF Observe, ReopensCleanup, ReopensManifest, LeavesAlone, Unknown, Calm, LifeType
  <2>4. CASE PassEnds(w)
    BY <1>1, <1>3, <2>4 DEF PassEnds, LifeType
  <2> QED BY <1>3, <1>7, <2>1, <2>2, <2>3, <2>4 DEF WorkerStep, Pass, CleanupLists, CleanupDeletes,
             CleanupFails,
          CleanupDone, Inventory, Observed, Lists, Beats, Deletes, Records, LateOwner, WorkerDies, Calm
<1> QED BY <1>3, <1>4, <1>5, <1>6, <1>7 DEF Next

\* For every number of runs, workers and deaths: the lease of a purge that is not over ends with a step of
\* its owner (assert_purge_lease).
THEOREM LeasesAreOwners ==
  ASSUME RetentionAssumption PROVE Spec => LeaseIsOwners
<1>1. RetentionInv /\ [Next]_vars =>
        [life.leased /\ life'.owner # life.owner => worker'[life.owner] # worker[life.owner]]_vars
  BY OwnersStep
<1> QED BY <1>1, RetentionInvariant, PTL DEF Spec, LeaseIsOwners

====
