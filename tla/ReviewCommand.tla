---------------------------- MODULE ReviewCommand ----------------------------
(***************************************************************************)
(* Review decisions on collected items, and the commands that carry them   *)
(* out: ReviewCommandService and its repository, the fence they put around *)
(* publication (review-publication.guard.ts), and the readers that ask for *)
(* decisions (the administrator's page, the Discord scan, the automatic    *)
(* publication of a source).                                               *)
(*                                                                         *)
(* An item has one control row: who decided last, the decision epoch, the  *)
(* command in force.  An administrator may overrule a decision that a      *)
(* worker is carrying out.  A worker holds a command by a lease of 180     *)
(* seconds and may lose it in the middle of anything.                      *)
(*                                                                         *)
(* Every transaction of this component begins by locking the control row   *)
(* (SELECT ... FOR UPDATE), so it is one step.  What is read outside of    *)
(* those transactions is a step of its own.                                *)
(*                                                                         *)
(* Not modelled: what is selected of an item (excluded units, titles), the *)
(* minute a retried command waits, item versions (a FETCHED item is never  *)
(* written again, it can only expire), and the stages PREPARING and        *)
(* FAILED, which the code declares and never sets.                         *)
(***************************************************************************)
EXTENDS Naturals, FiniteSets

CONSTANTS
    Items,             \* rows of collect.batch_item in state FETCHED
    Commands,          \* requests; each is one (actor, request_key), one command
    Origin,            \* Origin[c]: who makes request c
    Workers,           \* callers of advance
    Drafts,            \* posts, and the images prepared for them
    Source,            \* Source[i]: the canonical URL of item i
    Revocable,         \* requests whose operator or policy may be withdrawn
    LegacyItems,       \* items drafted before review commands were switched on
    LegacyDraft,       \* LegacyDraft[i]: the draft of such an item
    None,              \* SQL NULL
    MaxPostVersion     \* bound on board_post.lock_version

Origins == {"ADMIN", "DISCORD", "SYSTEM", "AUTO"}

ASSUME ConstantsAssumption ==
    /\ None \notin Items \cup Commands \cup Workers \cup Drafts
    /\ Origin \in [Commands -> Origins]
    /\ DOMAIN Source = Items
    /\ Revocable \subseteq Commands
    /\ \A c \in Revocable : Origin[c] # "SYSTEM"
    /\ LegacyItems \subseteq Items
    /\ LegacyDraft \in [LegacyItems -> Drafts]
    /\ \A i, j \in LegacyItems :
          LegacyDraft[i] = LegacyDraft[j] \/ Source[i] = Source[j] => i = j
    /\ MaxPostVersion \in Nat \ {0}

VARIABLES
    request,      \* [Commands -> what the author of a request has read so far]
    control,      \* [Items -> [authority, epoch, active]]  batch_review_control
    command,      \* [Commands -> row of batch_review_command], stage NONE: no row
    review,       \* [Items -> [status, version, post]]     batch_review
    post,         \* [Drafts -> [status, version, item]]    board_post
    images,       \* [Drafts -> state of the images prepared for a draft]
    delivery,     \* [Items -> state of the Discord message about an item]
    receipts,     \* commands whose publication left an idempotency receipt
    expired,      \* items whose retention is over
    revoked,      \* requests whose author may no longer decide
    worker        \* [Workers -> local state of advance]

reviewVars == <<control, command, review>>
outside    == <<delivery, receipts, expired, revoked>>
vars == <<request, control, command, review, post, images, delivery, receipts,
          expired, revoked, worker>>

----------------------------------------------------------------------------
(* Data *)

Verdicts   == {"APPROVE_PUBLISH", "REJECT"}
Unfinished == {"APPROVED", "DRAFTED"}
Finished   == {"PUBLISHED", "REJECTED", "CANCELLED", "NEEDS_ADMIN"}
Stages     == {"NONE"} \cup Unfinished \cup Finished
PostStatus == {"ABSENT", "DRAFT", "SCHEDULED", "PUBLISHED", "HIDDEN_REVIEW", "REMOVED"}
Publishable == {"DRAFT", "SCHEDULED"}

NoRequest == [pc |-> "none", item |-> None, review |-> 0, epoch |-> 0, postVersion |-> 0]
NoCommand == [stage |-> "NONE", item |-> None, action |-> "REJECT", epoch |-> 0,
              reviewVersion |-> 0, post |-> None, postVersion |-> 0,
              lease |-> None, live |-> FALSE]
Idle      == [pc |-> "idle", command |-> None, stage |-> "NONE", post |-> None,
              version |-> 0, reviewed |-> 0, draft |-> None, error |-> "none"]

InForce(c) == /\ control[command[c].item].active = c
              /\ control[command[c].item].epoch = command[c].epoch

\* assertActive: still in force, still leased to this caller of advance.
HoldsInForce(w, c) == InForce(c)                    \* Bug: whoever had the lease

Holds(w, c) == /\ command[c].stage \in Unfinished
               /\ InForce(c)
               /\ command[c].lease = w /\ command[c].live

\* The version of the post linked to item i, as its editor reads it; 0 without one.
LinkedVersion(i) == IF review[i].post = None THEN 0 ELSE post[review[i].post].version

Released(row) == [row EXCEPT !.lease = None, !.live = FALSE]

\* enqueueCleanup: the Discord message of item i is to be deleted.
Cleaned(i) == [delivery EXCEPT ![i] = IF @ = "OPEN" THEN "CANCELLED" ELSE @]

----------------------------------------------------------------------------
(* Initially nothing is decided with a command.  The draft of a legacy item *)
(* was made by BatchReviewService.promote and its review approved.          *)

Init ==
    /\ request = [c \in Commands |-> NoRequest]
    /\ control = [i \in Items |-> [authority |-> "DISCORD", epoch |-> 0, active |-> None]]
    /\ command = [c \in Commands |-> NoCommand]
    /\ review = [i \in Items |->
                    IF i \in LegacyItems
                    THEN [status |-> "APPROVED", version |-> 2, post |-> LegacyDraft[i]]
                    ELSE [status |-> "UNREVIEWED", version |-> 0, post |-> None]]
    /\ post = [d \in Drafts |->
                    IF \E i \in LegacyItems : LegacyDraft[i] = d
                    THEN [status |-> "DRAFT", version |-> 1,
                          item |-> CHOOSE i \in LegacyItems : LegacyDraft[i] = d]
                    ELSE [status |-> "ABSENT", version |-> 0, item |-> None]]
    /\ images = [d \in Drafts |->
                    IF \E i \in LegacyItems : LegacyDraft[i] = d THEN "LINKED" ELSE "NONE"]
    /\ delivery = [i \in Items |-> "NONE"]
    /\ receipts = {} /\ expired = {} /\ revoked = {}
    /\ worker = [w \in Workers |-> Idle]

----------------------------------------------------------------------------
(* Asking for a decision *)

\* DiscordReviewRepository.create, and the export of the message it asks for.
Deliver(i) ==
    /\ control[i].authority = "DISCORD" /\ control[i].active = None
    /\ delivery[i] = "NONE" /\ i \notin expired /\ review[i].status = "UNREVIEWED"
    /\ delivery' = [delivery EXCEPT ![i] = "OPEN"]
    /\ UNCHANGED <<request, reviewVars, post, images, receipts, expired, revoked, worker>>

\* What scans and automatic publication select: nextScan, candidates.
Selectable(c, i) ==
    CASE Origin[c] \in {"DISCORD", "SYSTEM"} ->
            delivery[i] = "OPEN" /\ control[i].authority = "DISCORD" /\ control[i].active = None
      [] Origin[c] = "AUTO" ->
            /\ review[i].status = "UNREVIEWED" /\ delivery[i] = "NONE"
            /\ \A d \in Commands : command[d].item # i
            /\ c \notin revoked /\ i \notin expired
      [] OTHER -> FALSE

Select(c, i) ==
    /\ command[c].stage = "NONE" /\ request[c].pc = "none" /\ Selectable(c, i)
    /\ request' = [request EXCEPT ![c] = [NoRequest EXCEPT !.pc = "selected", !.item = i]]
    /\ UNCHANGED <<reviewVars, post, images, outside, worker>>

\* BatchReviewService.detail: the item, its review and the draft linked to it.  An
\* administrator looks at any item, the others at the one they have selected.
\* Automatic publication sends review version 0 and epoch 0 whatever it has read.
Look(c, i) ==
    /\ command[c].stage = "NONE" /\ i \notin expired
    /\ \/ Origin[c] = "ADMIN" /\ request[c].pc = "none"
       \/ request[c].pc = "selected" /\ request[c].item = i
    /\ request' = [request EXCEPT ![c] =
          [pc |-> IF Origin[c] \in {"DISCORD", "SYSTEM"} THEN "looked" ELSE "ready",
           item |-> i,
           review |-> IF Origin[c] = "AUTO" THEN 0 ELSE review[i].version,
           epoch |-> 0,
           postVersion |-> IF Origin[c] = "ADMIN" THEN LinkedVersion(i) ELSE 0]]
    /\ UNCHANGED <<reviewVars, post, images, outside, worker>>

\* DiscordReviewService.finish reads the epoch after the review, in another query.
ReadEpoch(c) ==
    /\ request[c].pc = "looked"
    /\ request' = [request EXCEPT ![c].pc = "ready", ![c].epoch = control[request[c].item].epoch]
    /\ UNCHANGED <<reviewVars, post, images, outside, worker>>

\* The request is refused, or its author gives up; it may be made again.
Abandon(c) ==
    /\ request[c].pc # "none"
    /\ request' = [request EXCEPT ![c] = NoRequest]
    /\ UNCHANGED <<reviewVars, post, images, outside, worker>>

----------------------------------------------------------------------------
(* ReviewCommandService.accept, one transaction *)

\* Bug: a command under way is not looked at
HasPrecedenceUnfinished(c, i) ==
    Origin[c] = "ADMIN" \/ (control[i].authority # "ADMIN" /\ control[i].epoch = request[c].epoch)

\* Who may decide now: anybody but an administrator must find the epoch it has read,
\* no administrator's decision and no command under way; automatic publication must
\* be the first to decide.
HasPrecedence(c, i) ==
    \/ Origin[c] = "ADMIN"
    \/ /\ control[i].authority # "ADMIN"
       /\ control[i].epoch = request[c].epoch
       /\ control[i].active # None => command[control[i].active].stage \in Finished
       /\ Origin[c] = "AUTO" => delivery[i] = "NONE" /\ control[i].active = None

\* An administrator may have missed a decision from Discord or a source, no other one.
SawReview(c, i) ==
    \/ request[c].review = review[i].version
    \/ /\ Origin[c] = "ADMIN" /\ request[c].review < review[i].version
       /\ \E d \in Commands : /\ control[i].active = d
                              /\ Origin[d] \in {"DISCORD", "AUTO"}
                              /\ command[d].reviewVersion = review[i].version

\* Bug: the state of the post is not looked at
FitsAnyPost(c, i, verdict) == review[i].post # None => Origin[c] = "ADMIN"

\* A draft that exists already is taken over as it is, or stays a draft.
FitsLinkedDraft(c, i, verdict) ==
    review[i].post # None =>
        /\ Origin[c] = "ADMIN" /\ post[review[i].post].status = "DRAFT"
        /\ verdict = "APPROVE_PUBLISH" => request[c].postVersion = post[review[i].post].version

Possible(c) == CASE Origin[c] = "AUTO"   -> {"APPROVE_PUBLISH"}
                 [] Origin[c] = "SYSTEM" -> {"REJECT"}
                 [] OTHER                -> Verdicts

\* Bug: the draft taken over is not named
DecidedUnlinked(c, i, verdict) ==
    [NoCommand EXCEPT
        !.stage = IF verdict = "REJECT" THEN "REJECTED"
                  ELSE IF review[i].post # None THEN "DRAFTED" ELSE "APPROVED",
        !.item = i, !.action = verdict, !.epoch = control[i].epoch + 1,
        !.reviewVersion = review[i].version + 1]

\* The row a decision inserts, after its claim and progress steps.
Decided(c, i, verdict) ==
    LET linked == verdict = "APPROVE_PUBLISH" /\ review[i].post # None
    IN [stage |-> IF verdict = "REJECT" THEN "REJECTED" ELSE IF linked THEN "DRAFTED" ELSE "APPROVED",
        item |-> i, action |-> verdict, epoch |-> control[i].epoch + 1,
        reviewVersion |-> review[i].version + 1,
        post |-> IF linked THEN review[i].post ELSE None,
        postVersion |-> IF linked THEN post[review[i].post].version ELSE 0,
        lease |-> None, live |-> FALSE]

\* Bug: an administrator's own command is left alone
CancelsOthers(c, d) == /\ Origin[c] = "ADMIN" /\ Origin[d] # "ADMIN"
                       /\ command[d].item = request[c].item /\ command[d].stage \in Unfinished

\* An administrator's decision cancels what is under way on the item.
Cancels(c, d) == /\ Origin[c] = "ADMIN"
                 /\ command[d].item = request[c].item /\ command[d].stage \in Unfinished

ClosesRejected(c, verdict) == verdict = "REJECT"         \* Bug: only rejections clean up

\* The message about an item is closed at once, except when Discord's approval is to be
\* carried out first.
Closes(c, verdict) == Origin[c] \in {"ADMIN", "AUTO"} \/ verdict = "REJECT"

Accept(c, verdict) ==
    LET i == request[c].item IN
    /\ request[c].pc = "ready" /\ command[c].stage = "NONE" /\ verdict \in Possible(c)
    /\ HasPrecedence(c, i) /\ SawReview(c, i) /\ FitsLinkedDraft(c, i, verdict)
    /\ c \notin revoked /\ i \notin expired
    /\ command' = [d \in Commands |->
          IF d = c THEN Decided(c, i, verdict)
          ELSE IF Cancels(c, d)
          THEN [Released(command[d]) EXCEPT !.stage = "CANCELLED"]
          ELSE command[d]]
    /\ control' = [control EXCEPT ![i] =
          [authority |-> Origin[c], epoch |-> @.epoch + 1, active |-> c]]
    /\ review' = [review EXCEPT
          ![i].status = IF verdict = "REJECT" THEN "REJECTED" ELSE "APPROVED",
          ![i].version = @ + 1]
    /\ delivery' = IF Closes(c, verdict) THEN Cleaned(i) ELSE delivery
    /\ request' = [request EXCEPT ![c] = NoRequest]
    /\ UNCHANGED <<post, images, receipts, expired, revoked, worker>>

----------------------------------------------------------------------------
(* The publication fence, TypeOrmReviewPublicationGuard.assertAllowed: whether *)
(* post p may be published or scheduled by the command that worker w holds,    *)
(* or, for w = None, by an administrator's post command.                       *)

ItemsOf(p) == {command[c].item : c \in {d \in Commands : command[d].post = p}}

Standing(c) == command[c].action = "APPROVE_PUBLISH" /\ command[c].stage \in {"DRAFTED", "PUBLISHED"}

Fenced(w, c) == /\ worker[w].command = c /\ InForce(c)
                /\ command[c].lease = w /\ command[c].live

Allowed(p, w) ==
    \/ ItemsOf(p) = {} /\ w = None
    \/ \E i \in ItemsOf(p), c \in Commands :
          /\ control[i].active = c /\ Standing(c)
          /\ IF w = None THEN control[i].authority = "ADMIN" ELSE Fenced(w, c)
          /\ Origin[c] = "AUTO" => c \notin revoked
          /\ i \notin expired

----------------------------------------------------------------------------
(* ReviewCommandService.advance: a worker carries one command one stage on.  A *)
(* commit may succeed without its acknowledgement, which leads to the catch    *)
(* block with a dependency error.                                              *)

Working  == {"claimed", "preparing", "drafting", "drafted", "publish", "publishing", "record"}
Settling == {"failed", "discard", "settle"}

At(w, pc)   == worker[w].pc = pc
Go(w, pc)   == worker' = [worker EXCEPT ![w].pc = pc]
Fail(w, e)  == worker' = [worker EXCEPT ![w].pc = "failed", ![w].error = e]
Quit(w)     == worker' = [worker EXCEPT ![w] = Idle]
Acked(w)    == Quit(w) \/ Fail(w, "dependency")
Cmd(w)      == worker[w].command
Item(w)     == command[Cmd(w)].item

\* authorize: the author may still decide, and so may the source's policy.
Authorized(c) == /\ c \notin revoked
                 /\ Origin[c] = "AUTO" => command[c].item \notin expired

\* Bug: a lease that has expired is not taken over
ClaimableUnleased(c) == command[c].stage \in Unfinished /\ InForce(c) /\ command[c].lease = None

Claimable(c) == command[c].stage \in Unfinished /\ InForce(c) /\ ~command[c].live

Claim(w, c) ==
    /\ At(w, "idle") /\ Claimable(c)
    /\ command' = [command EXCEPT ![c].lease = w, ![c].live = TRUE]
    /\ worker' = [worker EXCEPT ![w] =
          [Idle EXCEPT !.pc = "claimed", !.command = c, !.stage = command[c].stage,
                       !.post = command[c].post, !.version = command[c].postVersion,
                       !.reviewed = command[c].reviewVersion]]
    /\ UNCHANGED <<request, control, review, post, images, outside>>

Authorize(w) ==
    /\ At(w, "claimed") /\ Authorized(Cmd(w))
    /\ Go(w, IF worker[w].stage = "APPROVED" THEN "preparing" ELSE "drafted")
    /\ UNCHANGED <<request, reviewVars, post, images, outside>>

\* prepareSelectedDraft: the images of the selection are uploaded for a new draft.
Prepare(w, d) ==
    /\ At(w, "preparing") /\ Item(w) \notin expired
    /\ post[d].status = "ABSENT" /\ images[d] = "NONE"
    /\ \A v \in Workers : worker[v].draft # d
    /\ images' = [images EXCEPT ![d] = "STAGED"]
    /\ worker' = [worker EXCEPT ![w].pc = "drafting", ![w].draft = d]
    /\ UNCHANGED <<request, reviewVars, post, outside>>

DraftedItself(i) == \E p \in Drafts : post[p].item = i     \* Bug: looks at the item only

\* existingPost: some post, in whatever state, has the source of item i.
Drafted(i) == \E p \in Drafts : post[p].item # None /\ Source[post[p].item] = Source[i]

MayDraft(w) ==
    LET i == Item(w) IN
    /\ Holds(w, Cmd(w)) /\ Authorized(Cmd(w)) /\ i \notin expired
    /\ review[i].status = "APPROVED" /\ review[i].version = worker[w].reviewed
    /\ review[i].post = None /\ ~Drafted(i) /\ images[worker[w].draft] = "STAGED"

CommitDraft(w) ==
    LET i == Item(w)  d == worker[w].draft IN
    /\ At(w, "drafting") /\ MayDraft(w)
    /\ post' = [post EXCEPT ![d] = [status |-> "DRAFT", version |-> 1, item |-> i]]
    /\ images' = [images EXCEPT ![d] = "LINKED"]
    /\ review' = [review EXCEPT ![i].post = d, ![i].version = @ + 1]
    /\ command' = [command EXCEPT ![Cmd(w)] =
          [Released(@) EXCEPT !.stage = "DRAFTED", !.post = d, !.postVersion = 1,
                              !.reviewVersion = review[i].version + 1]]
    /\ Acked(w)
    /\ UNCHANGED <<request, control, outside>>

CheckPost(w) ==
    /\ At(w, "drafted")
    /\ Go(w, IF post[worker[w].post].status = "PUBLISHED" THEN "record" ELSE "publish")
    /\ UNCHANGED <<request, reviewVars, post, images, outside>>

\* PostsService.command under its request key, up to the copies of the images.
Current(w) == LET p == worker[w].post IN
    post[p].version = worker[w].version /\ post[p].status \in Publishable

Busy(w) == \E v \in Workers \ {w} : At(v, "publishing") /\ Cmd(v) = Cmd(w)

StartPublish(w) ==
    /\ At(w, "publish") /\ ~Busy(w)
    /\ \/ Cmd(w) \in receipts /\ Go(w, "record")
       \/ Cmd(w) \notin receipts /\ Current(w) /\ Go(w, "publishing")
    /\ UNCHANGED <<request, reviewVars, post, images, outside>>

MayPublishUnfenced(w) == Authorized(Cmd(w)) /\ Current(w)   \* Bug: no fence at the commit

MayPublish(w) == Authorized(Cmd(w)) /\ Allowed(worker[w].post, w) /\ Current(w)

CommitPublish(w) ==
    LET p == worker[w].post IN
    /\ At(w, "publishing") /\ MayPublish(w)
    /\ post' = [post EXCEPT ![p].status = "PUBLISHED", ![p].version = @ + 1]
    /\ receipts' = receipts \cup {Cmd(w)}
    /\ Go(w, "record") \/ Fail(w, "dependency")
    /\ UNCHANGED <<request, reviewVars, images, delivery, expired, revoked>>

MayRecord(w) == Holds(w, Cmd(w)) /\ post[worker[w].post].status = "PUBLISHED"

RecordPublished(w) ==
    LET c == Cmd(w) IN
    /\ At(w, "record") /\ MayRecord(w)
    /\ command' = [command EXCEPT ![c] =
          [Released(@) EXCEPT !.stage = "PUBLISHED", !.postVersion = post[worker[w].post].version]]
    /\ delivery' = Cleaned(command[c].item)
    /\ Acked(w)
    /\ UNCHANGED <<request, control, review, post, images, receipts, expired, revoked>>

\* What throws an error that a retry would not remove.
Refuse(w) ==
    /\ \/ At(w, "claimed") /\ ~Authorized(Cmd(w))
       \/ At(w, "preparing")                       \* the item is expired or its content invalid
       \/ At(w, "drafting") /\ ~MayDraft(w)
       \/ At(w, "publish") /\ (Busy(w) \/ (Cmd(w) \notin receipts /\ ~Current(w)))
       \/ At(w, "publishing") /\ ~MayPublish(w)
       \/ At(w, "record") /\ ~MayRecord(w)
    /\ Fail(w, "client")
    /\ UNCHANGED <<request, reviewVars, post, images, outside>>

\* Storage or database out of order; the transaction, if any, is rolled back.
Outage(w) ==
    /\ worker[w].pc \in Working
    /\ Fail(w, "dependency")
    /\ UNCHANGED <<request, reviewVars, post, images, outside>>

\* The catch block: first it finds out whether the commit it heard nothing of succeeded.
Committed(w) == /\ command[Cmd(w)].stage \in {"DRAFTED", "PUBLISHED"}
                /\ command[Cmd(w)].post # None /\ worker[w].stage # "DRAFTED"

Recover(w) ==
    /\ At(w, "failed")
    /\ IF Committed(w) THEN Quit(w)
       ELSE Go(w, IF worker[w].draft = None THEN "settle" ELSE "discard")
    /\ UNCHANGED <<request, reviewVars, post, images, outside>>

DiscardableAlways(d) == images[d] # "NONE"          \* Bug: linked or not

\* ImagesService.discard throws unless the image is staged and linked to no post.
Discardable(d) == images[d] = "STAGED"

DiscardPrepared(w) ==
    LET d == worker[w].draft IN
    /\ At(w, "discard")
    /\ IF Discardable(d)
       THEN images' = [images EXCEPT ![d] = "NONE"] /\ Go(w, "settle")
       ELSE Quit(w) /\ UNCHANGED images
    /\ UNCHANGED <<request, reviewVars, post, outside>>

Settle(w) ==
    LET c == Cmd(w) IN
    /\ At(w, "settle") /\ Quit(w)
    /\ command' = IF ~Holds(w, c) THEN command
                  ELSE [command EXCEPT ![c] =
                           [Released(@) EXCEPT !.stage =
                               IF worker[w].error = "client" THEN "NEEDS_ADMIN"
                               ELSE command[c].stage]]
    /\ UNCHANGED <<request, control, review, post, images, outside>>

WorkerDies(w) ==
    /\ ~At(w, "idle") /\ Quit(w)
    /\ UNCHANGED <<request, reviewVars, post, images, outside>>

LeaseExpires(c) ==
    /\ command[c].live
    /\ command' = [command EXCEPT ![c].live = FALSE]
    /\ UNCHANGED <<request, control, review, post, images, outside, worker>>

----------------------------------------------------------------------------
(* Around the commands: staged images and originals expire, authority is given *)
(* and taken, and administrators (or the schedule) work on posts.              *)

\* Staged images live for a day, or as long as the original; a draft is committed within
\* 120 seconds of its preparation (checkDeadline), or not at all.
ExpireStaged(d) ==
    /\ \A w \in Workers : At(w, "drafting") /\ worker[w].draft = d => Item(w) \in expired
    /\ images[d] = "STAGED" /\ images' = [images EXCEPT ![d] = "NONE"]
    /\ UNCHANGED <<request, reviewVars, post, outside, worker>>

ExpireOriginal(i) ==
    /\ i \notin expired /\ expired' = expired \cup {i}
    /\ UNCHANGED <<request, reviewVars, post, images, delivery, receipts, revoked, worker>>

ReconcileExpired(i) ==
    /\ i \in expired /\ delivery[i] = "OPEN" /\ delivery' = Cleaned(i)
    /\ UNCHANGED <<request, reviewVars, post, images, receipts, expired, revoked, worker>>

\* An operator or reviewer is deactivated, or the source's policy or rules change.
Revoke(c) ==
    /\ c \in Revocable \ revoked /\ revoked' = revoked \cup {c}
    /\ UNCHANGED <<request, reviewVars, post, images, delivery, receipts, expired, worker>>

\* Changes of a policy and of the rules count versions, they are never undone.
Reinstate(c) ==
    /\ c \in revoked /\ Origin[c] # "AUTO" /\ revoked' = revoked \ {c}
    /\ UNCHANGED <<request, reviewVars, post, images, delivery, receipts, expired, worker>>

ReceiptExpires(c) ==
    /\ c \in receipts /\ receipts' = receipts \ {c}
    /\ UNCHANGED <<request, reviewVars, post, images, delivery, expired, revoked, worker>>

\* PostsService.command without a fence: <<from, to>> for publish, schedule and due
\* publication, which the fence must allow, and for the others, which it does not see.
Releases  == {<<"DRAFT", "PUBLISHED">>, <<"DRAFT", "SCHEDULED">>, <<"SCHEDULED", "PUBLISHED">>}
Editorial == {<<"DRAFT", "DRAFT">>, <<"SCHEDULED", "SCHEDULED">>, <<"SCHEDULED", "DRAFT">>,
              <<"PUBLISHED", "HIDDEN_REVIEW">>, <<"HIDDEN_REVIEW", "HIDDEN_REVIEW">>,
              <<"HIDDEN_REVIEW", "PUBLISHED">>, <<"HIDDEN_REVIEW", "REMOVED">>}

ChangePost(p, change) ==
    /\ post[p].status = change[1] /\ post[p].version < MaxPostVersion
    /\ change \in Releases => Allowed(p, None)
    /\ post' = [post EXCEPT ![p].status = change[2], ![p].version = @ + 1]
    /\ UNCHANGED <<request, reviewVars, images, outside, worker>>

----------------------------------------------------------------------------
(* Specification *)

Ask == \/ \E i \in Items : Deliver(i)
       \/ \E c \in Commands, i \in Items : Select(c, i) \/ Look(c, i)
       \/ \E c \in Commands : ReadEpoch(c) \/ Abandon(c) \/ \E v \in Verdicts : Accept(c, v)

\* Whatever worker w does of its own at its place in advance.
Works(w) == \/ Authorize(w) \/ \E d \in Drafts : Prepare(w, d)
            \/ CommitDraft(w) \/ CheckPost(w) \/ StartPublish(w) \/ CommitPublish(w)
            \/ RecordPublished(w) \/ Refuse(w)
            \/ Recover(w) \/ DiscardPrepared(w) \/ Settle(w)

Advance(w) == (\E c \in Commands : Claim(w, c)) \/ Works(w) \/ Outage(w) \/ WorkerDies(w)

Around == \/ \E d \in Drafts : ExpireStaged(d)
          \/ \E i \in Items : ExpireOriginal(i) \/ ReconcileExpired(i)
          \/ \E c \in Commands : LeaseExpires(c) \/ Revoke(c) \/ Reinstate(c) \/ ReceiptExpires(c)
          \/ \E p \in Drafts, change \in Releases \cup Editorial : ChangePost(p, change)

Next == Ask \/ (\E w \in Workers : Advance(w)) \/ Around

Spec == Init /\ [][Next]_vars

\* Maintenance runs every minute and advances every command that is due, so commands are
\* claimed again and again, and a worker goes on; a lease expires, and a staged image.
\* Outages, deaths of workers and leases that are too short may go on for ever, but they do
\* not meet the holder of the lease at the same place every time.
Fairness ==
    /\ SF_vars(\E w \in Workers, c \in Commands : Claim(w, c))
    /\ \A pc \in Working : SF_vars(\E w \in Workers :
          At(w, pc) /\ Holds(w, Cmd(w)) /\ Works(w))
    /\ \A pc \in Settling : SF_vars(\E w \in Workers :
          At(w, pc) /\ worker[w].error = "client" /\ Holds(w, Cmd(w)) /\ Works(w))
    /\ \A w \in Workers : WF_vars(Works(w))
    /\ \A c \in Commands : WF_vars(LeaseExpires(c))
    /\ \A d \in Drafts : WF_vars(ExpireStaged(d))

FairSpec == Spec /\ Fairness

----------------------------------------------------------------------------
(* Properties *)

RequestPcs == {"none", "selected", "looked", "ready"}
WorkerPcs == {"idle", "claimed", "preparing", "drafting", "drafted", "publish", "publishing",
              "record", "failed", "discard", "settle"}

RequestState ==
    {r \in [pc : RequestPcs, item : Items \cup {None}, review : Nat, epoch : Nat, postVersion : Nat] :
        r.pc # "none" => r.item # None}

CommandFields == [stage : Stages, item : Items \cup {None}, action : Verdicts, epoch : Nat,
                  reviewVersion : Nat, post : Drafts \cup {None}, postVersion : Nat,
                  lease : Workers \cup {None}, live : BOOLEAN]

\* A command that has reached a draft names it (CHECK constraints of V014).
CommandRow == {r \in CommandFields :
                  /\ r.stage # "NONE" => r.item # None
                  /\ r.stage \in {"DRAFTED", "PUBLISHED"} => r.post # None}

\* A review with a post is decided (CHECK constraints of V008).
ReviewRow ==
    {r \in [status : {"UNREVIEWED", "APPROVED", "REJECTED"}, version : Nat, post : Drafts \cup {None}] :
        r.post # None => r.status # "UNREVIEWED"}

WorkerFields == [pc : WorkerPcs, command : Commands \cup {None}, stage : {"NONE"} \cup Unfinished,
                 post : Drafts \cup {None}, version : Nat, reviewed : Nat,
                 draft : Drafts \cup {None}, error : {"none", "client", "dependency"}]

WorkerState ==
    {s \in WorkerFields :
        /\ s.pc # "idle" => s.command # None
        /\ s.pc = "idle" <=> s.stage = "NONE"
        /\ s.pc = "drafting" => s.draft # None
        /\ s.pc \in {"drafted", "publish", "publishing", "record"} => s.stage = "DRAFTED"
        /\ s.stage = "DRAFTED" => s.post # None}

\* Types, and what a row, a request and a worker have at their stage.
TypeOK ==
    /\ request \in [Commands -> RequestState]
    /\ control \in [Items -> [authority : Origins, epoch : Nat, active : Commands \cup {None}]]
    /\ command \in [Commands -> CommandRow]
    /\ review \in [Items -> ReviewRow]
    /\ post \in [Drafts -> [status : PostStatus, version : Nat, item : Items \cup {None}]]
    /\ images \in [Drafts -> {"NONE", "STAGED", "LINKED"}]
    /\ delivery \in [Items -> {"NONE", "OPEN", "CANCELLED"}]
    /\ receipts \subseteq Commands /\ expired \subseteq Items /\ revoked \subseteq Commands
    /\ worker \in [Workers -> WorkerState]

\* A draft whose item is rejected stays a draft: nobody publishes or schedules it, not the
\* command that was carrying out the approval, nor an administrator through the post commands.
RejectedStaysDraft ==
    \A i \in Items : review[i].status = "REJECTED" /\ review[i].post # None
                     => post[review[i].post].status = "DRAFT"

\* A command that is not finished is the one in force on its item, so that maintenance, which
\* lists unfinished commands, can claim it; an item has one at a time.
UnfinishedInForce == \A c \in Commands : command[c].stage \in Unfinished => InForce(c)

\* The images of a post are linked to it: no failed, superseded or late worker discards them,
\* whatever it has heard of the commit that linked them.
DraftKeepsImages == \A d \in Drafts : post[d].status # "ABSENT" => images[d] = "LINKED"

\* Two posts are never made of one source, nor of one item by two workers.
OneDraftPerSource ==
    \A d, e \in Drafts : post[d].item # None /\ post[e].item # None
                         /\ Source[post[d].item] = Source[post[e].item] => d = e

\* A message stays open for voting only while Discord has the say, and the item is undecided
\* or its approval not yet carried out.
OpenMessageIsUndecided ==
    \A i \in Items : delivery[i] = "OPEN" =>
        /\ control[i].authority = "DISCORD"
        /\ \A c \in Commands : control[i].active = c =>
              command[c].action = "APPROVE_PUBLISH" /\ command[c].stage # "PUBLISHED"

\* Once finished, cancelled by an administrator above all, a command changes no more: a late
\* worker neither revives it nor rewrites its outcome.
FinishedIsFinal ==
    [][\A c \in Commands : command[c].stage \in Finished => command'[c] = command[c]]_vars

CommandLinks(c) == /\ command[c].stage = "NONE" => command[c] = NoCommand
                   /\ command[c].live => command[c].stage \in Unfinished
                   /\ command[c].post # None => post[command[c].post].item = command[c].item

DraftLinks(d) == /\ post[d].status = "ABSENT" <=> post[d].item = None
                 /\ post[d].item # None => review[post[d].item].post = d

ItemLinks(i) == /\ review[i].post # None => post[review[i].post].item = i
                /\ control[i].active # None => LET c == control[i].active IN
                       /\ command[c].stage # "NONE" /\ command[c].item = i
                       /\ review[i].status = "REJECTED" => command[c].action = "REJECT"

WorkerLinks(w) == /\ ~At(w, "idle") => command[Cmd(w)].stage # "NONE"
                  /\ worker[w].stage = "DRAFTED" => command[Cmd(w)].post = worker[w].post
                  /\ At(w, "drafting") => post[worker[w].draft].status = "ABSENT"
                  /\ \A v \in Workers \ {w} : worker[w].draft # None => worker[v].draft # worker[w].draft

\* Commands, reviews, posts and workers refer to each other in agreement, whatever a late
\* worker or a second decision does in between.
DecisionLinks == /\ \A c \in Commands : CommandLinks(c)
                 /\ \A d \in Drafts : DraftLinks(d)
                 /\ \A i \in Items : ItemLinks(i)
                 /\ \A w \in Workers : WorkerLinks(w)

\* Every draft has the command that made it, by which the publication fence finds the decision
\* about it.  Drafts of legacy items have none.
DraftsHaveCommands ==
    \A i \in Items : review[i].post # None =>
        \E c \in Commands : command[c].item = i /\ command[c].post = review[i].post

\* Every accepted command ends: published, rejected, cancelled or left to an administrator.
CommandEnds == \A c \in Commands : command[c].stage \in Unfinished ~> command[c].stage \in Finished

\* The service implements ReviewDecision, in which neither workers nor leases exist.
VerdictOn(i) ==
    LET c == control[i].active IN
    IF c = None THEN "OPEN"
    ELSE IF command[c].stage = "REJECTED" THEN "REJECTED"
    ELSE IF command[c].stage \in {"APPROVED", "DRAFTED", "PUBLISHED"} THEN "APPROVED"
    ELSE "OPEN"

ArticleOf(i) ==
    LET made == {d \in Drafts : post[d].item = i}
        is(status) == \E d \in made : post[d].status \in status
    IN IF is({"PUBLISHED"}) THEN "PUBLIC"
       ELSE IF is({"HIDDEN_REVIEW", "REMOVED"}) THEN "WITHDRAWN"
       ELSE IF is(Publishable) THEN "DRAFT"
       ELSE "NONE"

Decision == INSTANCE ReviewDecision WITH
    verdict <- [i \in Items |-> VerdictOn(i)],
    article <- [i \in Items |-> ArticleOf(i)]

ImplementsDecision == Decision!Spec

=============================================================================
