--------------------------- MODULE MCReviewCommand ---------------------------
(* ReviewCommand with small sets for TLC.  A scene is who asks for decisions in a *)
(* behaviour, so that each encounter has all its interleavings.                   *)
EXTENDS ReviewCommand, TLC

CONSTANTS i1, i2, d1, d2, a1, a2, s1, u1, x1, w1, w2,
    Scenes      \* the scenes to be played

VARIABLE scene

\* Two administrators, a scan, an automatic publication, a scan that finds an expiry.
OriginByAuthor == [c \in Commands |-> CASE c \in {a1, a2} -> "ADMIN"
                                        [] c = s1 -> "DISCORD"
                                        [] c = u1 -> "AUTO"
                                        [] c = x1 -> "SYSTEM"]

\* Every item has the same source.
OneSource == [i \in Items |-> "page"]

NoLegacyDraft == [i \in {} |-> d1]
FirstIsLegacy == [i \in {i1} |-> d1]

----------------------------------------------------------------------------
By(authors) == \A c \in Commands \ authors :
                  request'[c] = NoRequest /\ command'[c] = NoCommand /\ c \notin revoked'
OneItem     == /\ delivery'[i2] = "NONE" /\ i2 \notin expired' /\ post'[d2].status = "ABSENT"
               /\ \A c \in Commands : request'[c].item # i2
               /\ \A w \in Workers : worker'[w].draft # d2
Authority   == revoked' = {}
Originals   == expired' = {}
Receipts    == receipts \subseteq receipts'
\* A draft is changed or published once; and nobody but the commands works on the posts.
OneChange   == \A d \in Drafts : post'[d].version <= 2
NoEditors   == \A d \in Drafts : post'[d].version <= IF post'[d].status = "PUBLISHED" THEN 2 ELSE 1

\* One approval, whatever happens around it; administrators overrule each other and Discord;
\* two items of one source; an automatic publication, an administrator and an expiry.
Alone      == By({s1}) /\ OneItem
Preemption == By({a1, a2, s1}) /\ OneItem /\ Authority /\ Originals /\ Receipts /\ OneChange
SameSource == By({s1, u1}) /\ Authority /\ Originals /\ Receipts /\ NoEditors
Automatic  == By({a1, u1, x1}) /\ OneItem /\ Receipts /\ NoEditors

MCInit == Init /\ scene \in Scenes
MCNext ==
    \/ scene = "alone" /\ Next /\ Alone /\ UNCHANGED scene
    \/ scene = "preemption" /\ Next /\ Preemption /\ UNCHANGED scene
    \/ scene = "same source" /\ Next /\ SameSource /\ UNCHANGED scene
    \/ scene = "automatic" /\ Next /\ Automatic /\ UNCHANGED scene
MCSpec == MCInit /\ [][MCNext]_<<vars, scene>>

\* No restriction, with the scheduling the code gives and without it.
MCFreeSpec == MCInit /\ [][Next /\ UNCHANGED scene]_<<vars, scene>>
MCFairSpec == MCFreeSpec /\ Fairness

Symmetric == Permutations(Workers) \cup Permutations({a1, a2}) \cup Permutations(Drafts)

=============================================================================
