-------------------------- MODULE MCPostPublication --------------------------
(* PostPublication with small sets for TLC.  A scene is what may happen in a      *)
(* behaviour, so that each kind of interference has all its interleavings.       *)
EXTENDS PostPublication, TLC

CONSTANTS p1, p2, i1, i2, c1, c2, w1, w2,
    Scenes      \* the scenes to be played

VARIABLE scene

\* Every image belongs in the editor of one post / may move between all posts.
HomeFirst == [i \in Images |-> {p1}]
HomeAny   == [i \in Images |-> Posts]

OneSlot  == [k \in Kinds |-> {1}]
Compensations == [k \in Kinds |-> IF k = "COMPENSATE" THEN {1, 2} ELSE {1}]
TwoSlots == [k \in Kinds |-> IF k \in {"COMPENSATE", "CACHE_PURGE"} THEN {1, 2} ELSE {1}]

----------------------------------------------------------------------------
OneImage   == image'[i2] = image[i2]
OneCommand == cmd'[c2] = IdleCmd
OneWorker  == worker'[w2] = IdleWorker
Absent(p)  == post'[p].status = "ABSENT"
\* A bound: requests for version n are the last.
UpTo(n)    == \A c \in Cmds : cmd'[c].version < n
NoReaders  == cached' = {}
OneCompensation == \A m \in Messages : m.kind = "COMPENSATE" /\ m.slot = 2 => task'[m] = NoTask
NoOrphans  == cleaner' = IdleClean
Only(actions) == \A c \in Cmds : cmd'[c].pc # "idle" => cmd'[c].action \in actions
\* No task is tried again: none fails, and none loses its claim, while it has attempts left.
NoRetries  == \A m \in Messages : task'[m].status # "FAILED"

\* Two workers and the readers of an image; two requests; two images of one post; a post
\* with no image, its page and two workers.
Withdrawals == Absent(p2) /\ OneImage /\ OneCommand /\ NoOrphans /\ UpTo(5)
                          /\ Only({"publish", "hide", "republish", "remove"})
                          /\ OneCompensation
Requests    == Absent(p2) /\ OneImage /\ OneWorker /\ NoReaders /\ NoOrphans /\ NoRetries /\ UpTo(4)
                          /\ Only({"update", "publish", "hide", "republish", "remove"})
Orphans     == Absent(p2) /\ OneImage /\ OneWorker /\ NoReaders /\ NoRetries /\ UpTo(4)
                          /\ Only({"publish", "hide", "republish"})
TwoImages   == Absent(p2) /\ OneCommand /\ OneWorker /\ NoReaders /\ NoOrphans /\ NoRetries /\ UpTo(3)
                          /\ Only({"update", "publish", "schedule", "due"}) /\ OneCompensation
Pages       == Absent(p1) /\ image' = image /\ OneCommand

MCInit == Init /\ scene \in Scenes
MCNext ==
    \/ scene = "withdrawals" /\ Next /\ Withdrawals /\ UNCHANGED scene
    \/ scene = "requests" /\ Next /\ Requests /\ UNCHANGED scene
    \/ scene = "orphans" /\ Next /\ Orphans /\ UNCHANGED scene
    \/ scene = "two images" /\ Next /\ TwoImages /\ UNCHANGED scene
    \/ scene = "pages" /\ Next /\ Pages /\ UNCHANGED scene
MCSpec == MCInit /\ [][MCNext]_<<vars, scene>>

\* No restriction, with the scheduling the code gives and without it.
MCFreeSpec == MCInit /\ [][Next /\ UNCHANGED scene]_<<vars, scene>>
MCFairSpec == MCFreeSpec /\ Fairness

Symmetric == Permutations(Cmds) \cup Permutations(Workers) \cup Permutations(Images)

\* Where to look for a deletion under the wrong lock: drafts and publications only,
\* no orphan cleaning.
DraftsAndPublications ==
    /\ \A p \in Posts : post[p].status \in {"ABSENT", "DRAFT", "PUBLISHED"}
    /\ cleaner = IdleClean

=============================================================================
