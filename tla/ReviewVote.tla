------------------------------ MODULE ReviewVote ------------------------------
(***************************************************************************)
(* What the reactions on a review message decide (decideReview,            *)
(* reviewSelection in discord-review-policy.ts).                           *)
(*                                                                         *)
(* The text of an item is cut into units; a long unit is sent in several   *)
(* parts, each a message in the thread of the head.  A mark is a reaction  *)
(* of a user on a message.                                                 *)
(***************************************************************************)
EXTENDS FiniteSets, Integers

CONSTANTS
  Units,      \* the units of the text
  Blank,      \* those that are white space only
  Parts,      \* the messages in the thread
  UnitOf,     \* the unit a part belongs to
  Reviewers   \* the registered reviewers

VoteAssumption ==
  /\ Blank \subseteq Units /\ Units # Blank
  /\ UnitOf \in [Parts -> Units] /\ \A u \in Units : \E p \in Parts : UnitOf[p] = u

Up == "up"
Down == "down"

\* An observation o: its age, whether the message had been ready for 48 hours when it began,
\* whether the head was read, the parts that were read, whether other messages or one twice,
\* and the marks on each.
Complete(o) == o.headRead /\ o.partsRead = Parts /\ ~o.others

Human(marks) == {m \in marks : m.user \in Reviewers}
HeadUsers(o, emoji) == {m.user : m \in {k \in Human(o.marks["head"]) : k.emoji = emoji}}
Approvers(o) == HeadUsers(o, Up)
Rejecters(o) == HeadUsers(o, Down)

\* Bug: only a cross excludes.
CrossedParts(o) == {p \in Parts : \E m \in Human(o.marks[p]) : m.emoji = Down}
MarkedParts(o) == {p \in Parts : \E m \in Human(o.marks[p]) : m.emoji # Up}
\* A mark on one part excludes the whole unit.
Excluded(o) == {UnitOf[p] : p \in MarkedParts(o)}
\* reviewSelection: text that is white space only is no block.
Selected(excluded) == Units \ excluded
NoBlocks(excluded) == Selected(excluded) \subseteq Blank

Hold(reason) == [action |-> "HOLD", reason |-> reason, by |-> {}, excluded |-> {}]
Reject(reason, by) == [action |-> "REJECT", reason |-> reason, by |-> by, excluded |-> {}]
Approve(by, excluded) == [action |-> "APPROVE_PUBLISH", reason |-> "none", by |-> by, excluded |-> excluded]
Decisions ==
  [action : {"HOLD", "REJECT", "APPROVE_PUBLISH"},
   reason : {"STALE_OBSERVATION", "READ_INCOMPLETE", "NEEDS_ADMIN", "UNAPPROVED",
             "HEAD_REJECTED", "EXPIRED", "none"},
   by : SUBSET Reviewers, excluded : SUBSET Units]

\* Bug: one cross on the head is enough.
Crossed(o) == Rejecters(o) # {}
Opposed(o) == Rejecters(o) # {} /\ Approvers(o) = {}

Emptied(o) == NoBlocks(Excluded(o))

Decide(o) ==
  IF o.age # "fresh" THEN Hold("STALE_OBSERVATION")
  ELSE IF ~Complete(o) THEN Hold("READ_INCOMPLETE")
  ELSE IF Opposed(o) THEN Reject("HEAD_REJECTED", Rejecters(o))
  ELSE IF Emptied(o) THEN Hold("NEEDS_ADMIN")
  ELSE IF Approvers(o) # {} /\ Rejecters(o) = {} THEN Approve(Approvers(o), Excluded(o))
  ELSE IF o.expired THEN Reject("EXPIRED", {})
  ELSE Hold("UNAPPROVED")

----------------------------------------------------------------------------
(* Properties *)

ByReviewers(o) == [m \in DOMAIN o.marks |-> Human(o.marks[m])]
Blames(o, p) == \E m \in o.marks[p] : m.user \in Reviewers /\ m.emoji # Up

\* What is published was approved by a reviewer and opposed by none, on an observation of
\* every message, and carries no unit that a reviewer marked in any of its parts.
PublishedUnopposed(o) ==
  Decide(o).action = "APPROVE_PUBLISH" =>
    /\ o.headRead /\ o.partsRead = Parts
    /\ \E m \in o.marks["head"] : m.user \in Reviewers /\ m.emoji = Up
    /\ \A m \in o.marks["head"] : m.user \in Reviewers => m.emoji # Down
    /\ \A p \in Parts : Blames(o, p) => UnitOf[p] \in Decide(o).excluded
    /\ \E u \in Units \ Blank : u \notin Decide(o).excluded

\* An item of which the reviewers excluded everything is left to an administrator also
\* when it has expired, unless they reject it.
EmptiedIsLeft(o) ==
  (\A u \in Units \ Blank : \E p \in Parts : UnitOf[p] = u /\ Blames(o, p)) =>
    Decide(o).action = "HOLD" \/ Decide(o).reason = "HEAD_REJECTED"

\* Two observations that differ in the marks of others only are decided alike.
StrangersDoNotCount(o, n) ==
  ByReviewers(o) = ByReviewers(n) /\ [o EXCEPT !.marks = n.marks] = n => Decide(o) = Decide(n)

\* From one observation to the next, one mark apart, an approval does not turn into a
\* rejection by a reviewer, or the reverse.
NoSwing(o, n) ==
  {Decide(o).action, Decide(n).action} = {"REJECT", "APPROVE_PUBLISH"} =>
    "EXPIRED" \in {Decide(o).reason, Decide(n).reason}
=============================================================================
