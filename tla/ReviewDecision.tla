---------------------------- MODULE ReviewDecision ----------------------------
(***************************************************************************)
(* What reviewing promises about a collected item, with no command, worker *)
(* or message: there is one verdict at a time, an article is drafted and   *)
(* published only while the verdict is approval, an article that has been  *)
(* published is beyond rejection, and items with the same source have one  *)
(* article between them.                                                   *)
(***************************************************************************)
CONSTANTS Items, Source

VARIABLES
    verdict,     \* [Items -> the decision in force]
    article      \* [Items -> state of the post made of an item]

vars == <<verdict, article>>

Init == /\ verdict = [i \in Items |-> "OPEN"]
        /\ article = [i \in Items |-> "NONE"]

\* A new decision replaces the one in force.
Decide(i, v) ==
    /\ article[i] \in {"NONE", "DRAFT"}
    /\ verdict' = [verdict EXCEPT ![i] = v]
    /\ UNCHANGED article

\* An approval that cannot be carried out leaves the item to an administrator.
GiveUp(i) ==
    /\ verdict[i] = "APPROVED"
    /\ verdict' = [verdict EXCEPT ![i] = "OPEN"]
    /\ UNCHANGED article

Become(i, state) == article' = [article EXCEPT ![i] = state] /\ UNCHANGED verdict

Draft(i) ==
    /\ verdict[i] = "APPROVED"
    /\ \A j \in Items : Source[j] = Source[i] => article[j] = "NONE"
    /\ Become(i, "DRAFT")

Publish(i) == verdict[i] = "APPROVED" /\ article[i] = "DRAFT" /\ Become(i, "PUBLIC")

\* Hiding, removing and showing again are editorial and need no verdict.
Withdraw(i) == article[i] = "PUBLIC" /\ Become(i, "WITHDRAWN")
Restore(i) == article[i] = "WITHDRAWN" /\ Become(i, "PUBLIC")

Next == \E i \in Items :
    \/ \E v \in {"APPROVED", "REJECTED"} : Decide(i, v)
    \/ GiveUp(i) \/ Draft(i) \/ Publish(i) \/ Withdraw(i) \/ Restore(i)

Spec == Init /\ [][Next]_vars

=============================================================================
