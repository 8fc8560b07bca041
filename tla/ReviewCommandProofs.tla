------------------------- MODULE ReviewCommandProofs -------------------------
(* Theorems about ReviewCommand, for every value of its constants. *)
EXTENDS ReviewCommand, TLAPS

LEMMA InitTyped == Init => TypeOK
  BY ConstantsAssumption DEF Init, TypeOK, RequestState, CommandRow, CommandFields, ReviewRow, WorkerState, WorkerFields,
     NoRequest, NoCommand, Idle, RequestPcs, WorkerPcs, Origins,
     Stages, Verdicts, Unfinished, Finished, PostStatus

----------------------------------------------------------------------------
(* Asking for a decision *)

\* Reading for a request changes nothing but the request.
LEMMA ReadTyped ==
    ASSUME TypeOK, NEW c \in Commands, UNCHANGED <<reviewVars, post, images, outside, worker>>,
           NEW r \in RequestState, request' = [request EXCEPT ![c] = r]
    PROVE  TypeOK'
  BY DEF TypeOK, reviewVars, outside

\* A command that is given back at a stage other than PUBLISHED, or with its draft.
LEMMA ReleasedTyped ==
    ASSUME NEW r \in CommandRow, r.stage # "NONE", NEW s \in Unfinished \cup Finished,
           s \in {"DRAFTED", "PUBLISHED"} => r.post # None
    PROVE  [Released(r) EXCEPT !.stage = s] \in CommandRow
  <1>1. r \in CommandFields
    BY DEF CommandRow
  <1>2. /\ Released(r) \in CommandFields
        /\ Released(r).item = r.item /\ Released(r).post = r.post
    BY <1>1 DEF Released, CommandFields
  <1>. DEFINE q == [Released(r) EXCEPT !.stage = s]
  <1>3. q \in CommandFields /\ q.stage = s /\ q.item = r.item /\ q.post = r.post
    BY <1>2 DEF CommandFields, Stages
  <1>4. r.item # None
    BY DEF CommandRow
  <1>. QED
    BY <1>3, <1>4 DEF CommandRow

\* The fields that no constraint is about may take any value.
LEMMA FieldTyped ==
    ASSUME NEW r \in CommandRow
    PROVE  /\ \A n \in Nat : [r EXCEPT !.postVersion = n] \in CommandRow
           /\ [r EXCEPT !.live = FALSE] \in CommandRow
  BY DEF CommandRow, CommandFields

LEMMA AcceptTyped ==
    ASSUME TypeOK, NEW c \in Commands, NEW v \in Verdicts, Accept(c, v)
    PROVE  TypeOK'
  <1>. DEFINE i == request[c].item
  <1>1. i \in Items /\ review[i] \in ReviewRow
    BY DEF Accept, TypeOK, RequestState
  <1>2. /\ request' \in [Commands -> RequestState]
        /\ delivery' \in [Items -> {"NONE", "OPEN", "CANCELLED"}]
    BY <1>1 DEF Accept, TypeOK, RequestState, RequestPcs, NoRequest, Cleaned
  <1>3. control' \in [Items -> [authority : Origins, epoch : Nat, active : Commands \cup {None}]]
    <2>1. control' = [control EXCEPT ![i] =
                        [authority |-> Origin[c], epoch |-> control[i].epoch + 1, active |-> c]]
      BY DEF Accept
    <2>2. control[i].epoch + 1 \in Nat
      BY <1>1 DEF TypeOK
    <2>. QED
      BY <2>1, <2>2, <1>1, ConstantsAssumption DEF TypeOK
  <1>4. review' \in [Items -> ReviewRow]
    BY <1>1 DEF Accept, TypeOK, ReviewRow
  <1>5. Decided(c, i, v) \in CommandRow
    <2>1. review[i].post # None => post[review[i].post].version \in Nat
      BY <1>1 DEF TypeOK, ReviewRow
    <2>. QED
      BY <2>1, <1>1, ConstantsAssumption
      DEF TypeOK, ReviewRow, Decided, CommandRow, CommandFields, Stages, Unfinished, Finished, Verdicts
  <1>6. \A d \in Commands : command[d].stage \in Unfinished =>
            [Released(command[d]) EXCEPT !.stage = "CANCELLED"] \in CommandRow
    BY ReleasedTyped DEF TypeOK, Finished, Unfinished
  <1>7. command' \in [Commands -> CommandRow]
    BY <1>5, <1>6 DEF Accept, TypeOK, Cancels
  <1>. QED
    BY <1>2, <1>3, <1>4, <1>7 DEF Accept, TypeOK

LEMMA AskTyped == TypeOK /\ Ask => TypeOK'
  <1>. SUFFICES ASSUME TypeOK, Ask PROVE TypeOK'
    OBVIOUS
  <1>1. ASSUME NEW i \in Items, Deliver(i) PROVE TypeOK'
    BY <1>1 DEF Deliver, reviewVars, TypeOK
  <1>2. ASSUME NEW c \in Commands, NEW i \in Items, Select(c, i) PROVE TypeOK'
    BY <1>2, ReadTyped, ConstantsAssumption DEF Select, NoRequest, RequestState, RequestPcs
  <1>3. ASSUME NEW c \in Commands, NEW i \in Items, Look(c, i) PROVE TypeOK'
    <2>1. LinkedVersion(i) \in Nat /\ review[i].version \in Nat
      BY DEF LinkedVersion, TypeOK, ReviewRow
    <2>. DEFINE r == [pc |-> IF Origin[c] \in {"DISCORD", "SYSTEM"} THEN "looked" ELSE "ready",
                      item |-> i,
                      review |-> IF Origin[c] = "AUTO" THEN 0 ELSE review[i].version,
                      epoch |-> 0,
                      postVersion |-> IF Origin[c] = "ADMIN" THEN LinkedVersion(i) ELSE 0]
    <2>2. r \in RequestState
      BY <2>1, ConstantsAssumption DEF RequestState, RequestPcs
    <2>3. request' = [request EXCEPT ![c] = r]
      BY <1>3 DEF Look
    <2>4. UNCHANGED <<reviewVars, post, images, outside, worker>>
      BY <1>3 DEF Look
    <2>. HIDE DEF r
    <2>. QED
      BY <2>2, <2>3, <2>4, ReadTyped
  <1>4. ASSUME NEW c \in Commands, ReadEpoch(c) PROVE TypeOK'
    <2>1. /\ control[request[c].item].epoch \in Nat
          /\ request[c] \in RequestState /\ request[c].pc # "none"
      BY <1>4 DEF ReadEpoch, TypeOK, RequestState
    <2>2. [request[c] EXCEPT !.pc = "ready", !.epoch = control[request[c].item].epoch]
            \in RequestState
      BY <2>1 DEF RequestState, RequestPcs
    <2>. QED
      BY <1>4, <2>2, ReadTyped DEF ReadEpoch
  <1>5. ASSUME NEW c \in Commands, Abandon(c) PROVE TypeOK'
    BY <1>5, ReadTyped DEF Abandon, NoRequest, RequestState, RequestPcs
  <1>6. ASSUME NEW c \in Commands, NEW v \in Verdicts, Accept(c, v) PROVE TypeOK'
    BY <1>6, AcceptTyped
  <1>. QED
    BY <1>1, <1>2, <1>3, <1>4, <1>5, <1>6 DEF Ask

----------------------------------------------------------------------------
(* Carrying a command out *)

\* Wherever a worker goes, it keeps what it has taken from its command.
LEMMA WorkerTyped ==
    ASSUME TypeOK, NEW w \in Workers, NEW s \in WorkerState, worker' = [worker EXCEPT ![w] = s]
    PROVE  worker' \in [Workers -> WorkerState]
  BY DEF TypeOK

LEMMA GoTyped ==
    ASSUME TypeOK, NEW w \in Workers, NEW pc \in WorkerPcs \ {"idle"}, Go(w, pc),
           worker[w].pc # "idle",
           pc = "drafting" => worker[w].draft # None,
           pc \in {"drafted", "publish", "publishing", "record"} => worker[w].stage = "DRAFTED"
    PROVE  worker' \in [Workers -> WorkerState]
  <1>. DEFINE s == [worker[w] EXCEPT !.pc = pc]
  <1>1. worker[w] \in WorkerState
    BY DEF TypeOK
  <1>2. s \in WorkerFields
    BY <1>1 DEF WorkerState, WorkerFields
  <1>3. s \in WorkerState
    BY <1>1, <1>2 DEF WorkerState, WorkerFields
  <1>. QED
    BY <1>3 DEF TypeOK, Go

LEMMA FailTyped ==
    ASSUME TypeOK, NEW w \in Workers, NEW e \in {"client", "dependency"}, Fail(w, e),
           worker[w].pc # "idle"
    PROVE  worker' \in [Workers -> WorkerState]
  <1>. DEFINE s == [worker[w] EXCEPT !.pc = "failed", !.error = e]
  <1>1. worker[w] \in WorkerState
    BY DEF TypeOK
  <1>2. s \in WorkerFields
    BY <1>1 DEF WorkerState, WorkerFields, WorkerPcs
  <1>3. s \in WorkerState
    BY <1>1, <1>2 DEF WorkerState, WorkerFields
  <1>. QED
    BY <1>3 DEF TypeOK, Fail

LEMMA QuitTyped ==
    ASSUME TypeOK, NEW w \in Workers, Quit(w)
    PROVE  worker' \in [Workers -> WorkerState]
  BY DEF TypeOK, Quit, Idle, WorkerState, WorkerFields, WorkerPcs

LEMMA AckedTyped ==
    ASSUME TypeOK, NEW w \in Workers, Acked(w), worker[w].pc # "idle"
    PROVE  worker' \in [Workers -> WorkerState]
  BY QuitTyped, FailTyped DEF Acked

\* The row of the command of a worker that is not idle.
LEMMA WorkersRow ==
    ASSUME TypeOK, NEW w \in Workers, ~At(w, "idle")
    PROVE  /\ Cmd(w) \in Commands
           /\ command[Cmd(w)] \in CommandRow
           /\ worker[w] \in WorkerState
           /\ command[Cmd(w)].stage # "NONE" => Item(w) \in Items
  BY DEF TypeOK, WorkerState, WorkerFields, CommandRow, CommandFields, At, Cmd, Item

LEMMA AdvanceTyped ==
    ASSUME TypeOK, DecisionLinks, NEW w \in Workers, Advance(w)
    PROVE  TypeOK'
  <1>1. ASSUME NEW c \in Commands, Claim(w, c) PROVE TypeOK'
    <2>1. command[c] \in CommandRow /\ command[c].stage \in Unfinished
      BY <1>1 DEF TypeOK, Claim, Claimable
    <2>2. [command[c] EXCEPT !.lease = w, !.live = TRUE] \in CommandRow
      BY <2>1 DEF CommandRow, CommandFields
    <2>3. [Idle EXCEPT !.pc = "claimed", !.command = c, !.stage = command[c].stage,
                       !.post = command[c].post, !.version = command[c].postVersion,
                       !.reviewed = command[c].reviewVersion] \in WorkerState
      BY <2>1, ConstantsAssumption DEF CommandRow, CommandFields, WorkerState, WorkerFields, Idle, WorkerPcs, Unfinished
    <2>. QED
      BY <1>1, <2>2, <2>3 DEF Claim, TypeOK, outside
  <1>2. ASSUME Authorize(w) PROVE TypeOK'
    <2>1. worker[w] \in WorkerState
      BY DEF TypeOK
    <2>2. worker' \in [Workers -> WorkerState]
      BY <1>2, <2>1, GoTyped DEF Authorize, At, WorkerState, WorkerFields, Unfinished, WorkerPcs
    <2>. QED
      BY <1>2, <2>2 DEF Authorize, TypeOK, reviewVars, outside
  <1>3. ASSUME NEW d \in Drafts, Prepare(w, d) PROVE TypeOK'
    <2>1. [worker[w] EXCEPT !.pc = "drafting", !.draft = d] \in WorkerState
      BY <1>3, ConstantsAssumption DEF Prepare, At, TypeOK, WorkerState, WorkerFields, WorkerPcs
    <2>. QED
      BY <1>3, <2>1 DEF Prepare, TypeOK, reviewVars, outside
  <1>4. ASSUME CommitDraft(w) PROVE TypeOK'
    <2>. DEFINE i == Item(w)  d == worker[w].draft
    <2>1. /\ Cmd(w) \in Commands /\ command[Cmd(w)] \in CommandRow /\ i \in Items
          /\ d \in Drafts /\ d # None
      BY <1>4, WorkersRow, ConstantsAssumption
      DEF CommitDraft, MayDraft, Holds, At, Unfinished, TypeOK, WorkerState, WorkerFields
    <2>2. worker' \in [Workers -> WorkerState]
      BY <1>4, AckedTyped DEF CommitDraft, At
    <2>3. review' \in [Items -> ReviewRow]
      BY <1>4, <2>1 DEF CommitDraft, MayDraft, TypeOK, ReviewRow
    <2>4. review[i].version + 1 \in Nat
      BY <2>1 DEF TypeOK, ReviewRow
    <2>5. [Released(command[Cmd(w)]) EXCEPT
              !.stage = "DRAFTED", !.post = d, !.postVersion = 1,
              !.reviewVersion = review[i].version + 1] \in CommandRow
      BY <1>4, <2>1, <2>4
      DEF CommitDraft, MayDraft, Holds, Released, CommandRow, CommandFields, Stages, Unfinished
    <2>6. command' \in [Commands -> CommandRow]
      BY <1>4, <2>5 DEF CommitDraft, TypeOK
    <2>7. /\ post' \in [Drafts -> [status : PostStatus, version : Nat, item : Items \cup {None}]]
          /\ images' \in [Drafts -> {"NONE", "STAGED", "LINKED"}]
      BY <1>4, <2>1 DEF CommitDraft, TypeOK, PostStatus
    <2>. QED
      BY <1>4, <2>2, <2>3, <2>6, <2>7 DEF CommitDraft, TypeOK, outside
  <1>5. ASSUME CheckPost(w) PROVE TypeOK'
    <2>1. worker' \in [Workers -> WorkerState]
      BY <1>5, GoTyped DEF CheckPost, At, TypeOK, WorkerState, WorkerFields, WorkerPcs
    <2>. QED
      BY <1>5, <2>1 DEF CheckPost, TypeOK, reviewVars, outside
  <1>6. ASSUME StartPublish(w) PROVE TypeOK'
    <2>1. worker' \in [Workers -> WorkerState]
      BY <1>6, GoTyped DEF StartPublish, At, TypeOK, WorkerState, WorkerFields, WorkerPcs
    <2>. QED
      BY <1>6, <2>1 DEF StartPublish, TypeOK, reviewVars, outside
  <1>7. ASSUME CommitPublish(w) PROVE TypeOK'
    <2>0. worker[w].stage = "DRAFTED" /\ worker[w].pc # "idle"
      BY <1>7 DEF CommitPublish, At, TypeOK, WorkerState
    <2>1. worker[w].post \in Drafts /\ worker[w].post # None /\ Cmd(w) \in Commands
      BY <1>7, WorkersRow, ConstantsAssumption DEF CommitPublish, At, TypeOK, WorkerState, WorkerFields
    <2>2. worker' \in [Workers -> WorkerState]
      BY <1>7, <2>0, GoTyped, FailTyped DEF CommitPublish, WorkerPcs
    <2>3. post' \in [Drafts -> [status : PostStatus, version : Nat, item : Items \cup {None}]]
      BY <1>7, <2>1 DEF CommitPublish, TypeOK, PostStatus
    <2>. QED
      BY <1>7, <2>1, <2>2, <2>3 DEF CommitPublish, TypeOK, reviewVars
  <1>8. ASSUME RecordPublished(w) PROVE TypeOK'
    <2>. DEFINE c == Cmd(w)
    <2>1. /\ c \in Commands /\ command[c] \in CommandRow /\ Item(w) \in Items
          /\ worker[w].post \in Drafts
      BY <1>8, WorkersRow, ConstantsAssumption
      DEF RecordPublished, MayRecord, Holds, At, Unfinished, TypeOK, WorkerState, WorkerFields
    <2>2. worker' \in [Workers -> WorkerState]
      BY <1>8, AckedTyped DEF RecordPublished, At
    <2>3. post[worker[w].post].version \in Nat
      BY <2>1 DEF TypeOK
    <2>4. command[c].post # None
      BY <1>8 DEF RecordPublished, At, DecisionLinks, WorkerLinks, TypeOK, WorkerState, WorkerFields
    <2>5. [Released(command[c]) EXCEPT
              !.stage = "PUBLISHED", !.postVersion = post[worker[w].post].version] \in CommandRow
      <3>1. [Released(command[c]) EXCEPT !.stage = "PUBLISHED"] \in CommandRow
        BY <1>8, <2>1, <2>4, ReleasedTyped DEF RecordPublished, MayRecord, Holds, Finished, Unfinished
      <3>. QED
        BY <3>1, <2>3, FieldTyped
    <2>6. delivery' \in [Items -> {"NONE", "OPEN", "CANCELLED"}]
      BY <1>8, <2>1 DEF RecordPublished, Cleaned, Item, TypeOK
    <2>. QED
      BY <1>8, <2>2, <2>5, <2>6 DEF RecordPublished, TypeOK
  <1>9. ASSUME Refuse(w) PROVE TypeOK'
    <2>1. worker' \in [Workers -> WorkerState]
      BY <1>9, FailTyped DEF Refuse, At
    <2>. QED
      BY <1>9, <2>1 DEF Refuse, TypeOK, reviewVars, outside
  <1>10. ASSUME Outage(w) PROVE TypeOK'
    <2>1. worker' \in [Workers -> WorkerState]
      BY <1>10, FailTyped DEF Outage, Working
    <2>. QED
      BY <1>10, <2>1 DEF Outage, TypeOK, reviewVars, outside
  <1>11. ASSUME Recover(w) PROVE TypeOK'
    <2>1. worker' \in [Workers -> WorkerState]
      BY <1>11, QuitTyped, GoTyped DEF Recover, At, WorkerPcs
    <2>. QED
      BY <1>11, <2>1 DEF Recover, TypeOK, reviewVars, outside
  <1>12. ASSUME DiscardPrepared(w) PROVE TypeOK'
    <2>1. worker' \in [Workers -> WorkerState]
      BY <1>12, QuitTyped, GoTyped DEF DiscardPrepared, At, WorkerPcs
    <2>2. images' \in [Drafts -> {"NONE", "STAGED", "LINKED"}]
      BY <1>12 DEF DiscardPrepared, TypeOK
    <2>. QED
      BY <1>12, <2>1, <2>2 DEF DiscardPrepared, TypeOK, reviewVars, outside
  <1>13. ASSUME Settle(w) PROVE TypeOK'
    <2>. DEFINE c == Cmd(w)
    <2>1. c \in Commands /\ command[c] \in CommandRow
      BY <1>13, WorkersRow DEF Settle, At
    <2>2. worker' \in [Workers -> WorkerState]
      BY <1>13, QuitTyped DEF Settle
    <2>3. Holds(w, c) =>
            [Released(command[c]) EXCEPT !.stage = IF worker[w].error = "client" THEN "NEEDS_ADMIN"
                                                   ELSE command[c].stage] \in CommandRow
      BY <2>1, ReleasedTyped DEF Holds, Finished, Unfinished, CommandRow, CommandFields
    <2>4. command' \in [Commands -> CommandRow]
      <3>1. CASE Holds(w, c)
        <4>1. command' = [command EXCEPT ![c] =
                            [Released(command[c]) EXCEPT
                                !.stage = IF worker[w].error = "client" THEN "NEEDS_ADMIN"
                                          ELSE command[c].stage]]
          BY <1>13, <3>1 DEF Settle
        <4>. QED
          BY <4>1, <2>3, <3>1 DEF TypeOK
      <3>2. CASE ~Holds(w, c)
        BY <1>13, <3>2 DEF Settle, TypeOK
      <3>. QED
        BY <3>1, <3>2
    <2>. QED
      BY <1>13, <2>2, <2>4 DEF Settle, TypeOK, outside
  <1>14. ASSUME WorkerDies(w) PROVE TypeOK'
    <2>1. worker' \in [Workers -> WorkerState]
      BY <1>14, QuitTyped DEF WorkerDies
    <2>. QED
      BY <1>14, <2>1 DEF WorkerDies, TypeOK, reviewVars, outside
  <1>. QED
    BY <1>1, <1>2, <1>3, <1>4, <1>5, <1>6, <1>7, <1>8, <1>9, <1>10, <1>11, <1>12, <1>13, <1>14
    DEF Advance, Works

----------------------------------------------------------------------------
(* Around the commands *)

LEMMA AroundTyped == TypeOK /\ Around => TypeOK'
  <1>. SUFFICES ASSUME TypeOK, Around PROVE TypeOK'
    OBVIOUS
  <1>1. ASSUME NEW d \in Drafts, ExpireStaged(d) PROVE TypeOK'
    BY <1>1 DEF ExpireStaged, TypeOK, reviewVars, outside
  <1>2. ASSUME NEW i \in Items, ExpireOriginal(i) \/ ReconcileExpired(i) PROVE TypeOK'
    BY <1>2 DEF ExpireOriginal, ReconcileExpired, Cleaned, TypeOK, reviewVars
  <1>3. ASSUME NEW c \in Commands, LeaseExpires(c) PROVE TypeOK'
    <2>1. [command[c] EXCEPT !.live = FALSE] \in CommandRow
      BY FieldTyped DEF TypeOK
    <2>. QED
      BY <1>3, <2>1 DEF LeaseExpires, TypeOK, outside
  <1>4. ASSUME NEW c \in Commands, Revoke(c) \/ Reinstate(c) \/ ReceiptExpires(c) PROVE TypeOK'
    BY <1>4 DEF Revoke, Reinstate, ReceiptExpires, TypeOK, reviewVars
  <1>5. ASSUME NEW p \in Drafts, NEW change \in Releases \cup Editorial, ChangePost(p, change)
        PROVE  TypeOK'
    <2>1. change[2] \in PostStatus
      BY DEF Releases, Editorial, PostStatus
    <2>. QED
      BY <1>5, <2>1 DEF ChangePost, TypeOK, reviewVars, outside
  <1>. QED
    BY <1>1, <1>2, <1>3, <1>4, <1>5 DEF Around

LEMMA NextTyped == TypeOK /\ DecisionLinks /\ [Next]_vars => TypeOK'
  <1>. SUFFICES ASSUME TypeOK, DecisionLinks, [Next]_vars PROVE TypeOK'
    OBVIOUS
  <1>1. CASE UNCHANGED vars
    BY <1>1 DEF vars, TypeOK
  <1>. QED
    BY <1>1, AskTyped, AdvanceTyped, AroundTyped DEF Next

----------------------------------------------------------------------------
(* Commands, reviews, posts and workers refer to each other in agreement *)

LEMMA InitLinked == Init => DecisionLinks
  <1>. SUFFICES ASSUME Init PROVE DecisionLinks
    OBVIOUS
  <1>1. \A c \in Commands : CommandLinks(c)
    BY DEF Init, CommandLinks, NoCommand
  <1>2. \A d \in Drafts : DraftLinks(d)
    BY ConstantsAssumption DEF Init, DraftLinks
  <1>3. \A i \in Items : ItemLinks(i)
    BY ConstantsAssumption DEF Init, ItemLinks
  <1>4. \A w \in Workers : WorkerLinks(w)
    BY DEF Init, WorkerLinks, Idle, At
  <1>. QED
    BY <1>1, <1>2, <1>3, <1>4 DEF DecisionLinks

LEMMA LinksStay ==
    ASSUME DecisionLinks, UNCHANGED <<control, command, review, post, worker>>
    PROVE  DecisionLinks'
  BY DEF DecisionLinks, CommandLinks, DraftLinks, ItemLinks, WorkerLinks, At, Cmd

\* What a decision leaves of the commands there were, and what it adds.
AcceptEffect(c, v, i) ==
    /\ i \in Items /\ i # None
    /\ command[c] = NoCommand /\ command'[c] = Decided(c, i, v)
    /\ control'[i] = [authority |-> Origin[c], epoch |-> control[i].epoch + 1, active |-> c]
    /\ \A j \in Items \ {i} : control'[j] = control[j] /\ review'[j] = review[j]
    /\ \A d \in Commands \ {c} :
          /\ command'[d].stage \in {command[d].stage, "CANCELLED"}
          /\ command'[d].stage = "CANCELLED" => command[d].stage # "NONE"
          /\ command'[d].item = command[d].item /\ command'[d].post = command[d].post
          /\ command'[d].action = command[d].action
          /\ command'[d].epoch = command[d].epoch
          /\ command'[d].live => command'[d] = command[d]
          /\ command[d].stage \notin Unfinished => command'[d] = command[d]

LEMMA AcceptRows ==
    ASSUME TypeOK, DecisionLinks, NEW c \in Commands, NEW v \in Verdicts, Accept(c, v)
    PROVE  AcceptEffect(c, v, request[c].item)
  <1>. DEFINE i == request[c].item
  <1>1. i \in Items /\ i # None /\ control[i] \in [authority : Origins, epoch : Nat, active : Commands \cup {None}]
    BY ConstantsAssumption DEF Accept, TypeOK, RequestState
  <1>2. command[c] = NoCommand /\ command'[c] = Decided(c, i, v)
    BY DEF Accept, DecisionLinks, CommandLinks
  <1>3. /\ control'[i] = [authority |-> Origin[c], epoch |-> control[i].epoch + 1, active |-> c]
        /\ \A j \in Items \ {i} : control'[j] = control[j] /\ review'[j] = review[j]
    BY <1>1 DEF Accept, TypeOK
  <1>4. ASSUME NEW d \in Commands \ {c}
        PROVE  /\ command'[d].stage \in {command[d].stage, "CANCELLED"}
               /\ command'[d].stage = "CANCELLED" => command[d].stage # "NONE"
               /\ command'[d].item = command[d].item /\ command'[d].post = command[d].post
               /\ command'[d].action = command[d].action
               /\ command'[d].epoch = command[d].epoch
               /\ command'[d].live => command'[d] = command[d]
               /\ command[d].stage \notin Unfinished => command'[d] = command[d]
    <2>1. command[d] \in CommandFields
      BY DEF TypeOK, CommandRow
    <2>2. CASE Cancels(c, d)
      <3>1. command'[d] = [Released(command[d]) EXCEPT !.stage = "CANCELLED"]
        BY <2>2 DEF Accept
      <3>2. command[d].stage \in Unfinished
        BY <2>2 DEF Cancels
      <3>. QED
        BY <2>1, <3>1, <3>2 DEF Released, CommandFields, Unfinished
    <2>3. CASE ~Cancels(c, d)
      BY <2>3 DEF Accept
    <2>. QED
      BY <2>2, <2>3
  <1>. QED
    BY <1>1, <1>2, <1>3, <1>4 DEF AcceptEffect

\* A post that exists may change its status without any link being broken.
LEMMA PostMoves ==
    ASSUME TypeOK, DecisionLinks, UNCHANGED <<control, command, review, worker>>,
           NEW p \in Drafts, NEW s \in PostStatus, s # "ABSENT", post[p].status # "ABSENT",
           post' = [post EXCEPT ![p].status = s, ![p].version = @ + 1]
    PROVE  DecisionLinks'
  <1>1. \A d \in Drafts : /\ post'[d].item = post[d].item
                          /\ post'[d].status = "ABSENT" <=> post[d].status = "ABSENT"
    BY DEF TypeOK
  <1>2. \A c \in Commands : CommandLinks(c)'
    BY <1>1 DEF DecisionLinks, CommandLinks, TypeOK, CommandRow, CommandFields
  <1>3. (\A d \in Drafts : DraftLinks(d)') /\ (\A i \in Items : ItemLinks(i)')
    BY <1>1 DEF DecisionLinks, DraftLinks, ItemLinks, TypeOK, ReviewRow
  <1>4. \A w \in Workers : WorkerLinks(w)'
    BY <1>1 DEF DecisionLinks, WorkerLinks, At, Cmd, TypeOK, WorkerState, WorkerFields
  <1>. QED
    BY <1>2, <1>3, <1>4 DEF DecisionLinks

LEMMA AcceptLinked ==
    ASSUME TypeOK, DecisionLinks, NEW c \in Commands, NEW v \in Verdicts, Accept(c, v)
    PROVE  DecisionLinks'
  <1>. DEFINE i == request[c].item
  <1>. HIDE DEF i
  <1>0. AcceptEffect(c, v, i)
    BY AcceptRows DEF i
  <1>1. /\ i \in Items /\ i # None /\ c # None /\ None \notin Drafts
        /\ review[i] \in ReviewRow
        /\ review'[i].post = review[i].post
        /\ review'[i].status = (IF v = "REJECT" THEN "REJECTED" ELSE "APPROVED")
        /\ UNCHANGED <<post, worker>>
    BY <1>0, ConstantsAssumption DEF AcceptEffect, Accept, TypeOK, ReviewRow, i
  <1>2. \A j \in Items : review'[j].post = review[j].post
    BY <1>0, <1>1 DEF AcceptEffect
  <1>3. ASSUME NEW d \in Commands PROVE CommandLinks(d)'
    <2>1. CASE d = c
      BY <2>1, <1>1, <1>0 DEF AcceptEffect, CommandLinks, Decided, DecisionLinks, ItemLinks
    <2>2. CASE d # c
      BY <2>2, <1>1, <1>0 DEF AcceptEffect, CommandLinks, DecisionLinks, Unfinished
    <2>. QED
      BY <2>1, <2>2
  <1>4. ASSUME NEW d \in Drafts PROVE DraftLinks(d)'
    <2>1. post[d].item \in Items \cup {None}
      BY DEF TypeOK
    <2>. QED
      BY <1>1, <1>2, <2>1 DEF DraftLinks, DecisionLinks
  <1>5. ASSUME NEW j \in Items PROVE ItemLinks(j)'
    <2>1. CASE j = i
      BY <2>1, <1>1, <1>0 DEF AcceptEffect, ItemLinks, DecisionLinks, Decided
    <2>2. CASE j # i
      <3>1. control[j].active # None => control[j].active \in Commands /\ control[j].active # c
        BY <1>0 DEF AcceptEffect, TypeOK, DecisionLinks, ItemLinks, NoCommand
      <3>. QED
        BY <2>2, <3>1, <1>1, <1>0 DEF AcceptEffect, ItemLinks, DecisionLinks
    <2>. QED
      BY <2>1, <2>2
  <1>6. ASSUME NEW w \in Workers PROVE WorkerLinks(w)'
    <2>1. ~At(w, "idle") => Cmd(w) \in Commands \ {c}
      BY WorkersRow, <1>0 DEF AcceptEffect, DecisionLinks, WorkerLinks, NoCommand
    <2>2. worker[w].stage = "DRAFTED" => Cmd(w) \in Commands \ {c}
      BY <2>1 DEF TypeOK, WorkerState, At
    <2>. QED
      BY <2>1, <2>2, <1>1, <1>0 DEF AcceptEffect, WorkerLinks, DecisionLinks, At, Cmd
  <1>. QED
    BY <1>3, <1>4, <1>5, <1>6 DEF DecisionLinks

LEMMA AskLinked == TypeOK /\ DecisionLinks /\ Ask => DecisionLinks'
  BY AcceptLinked, LinksStay
  DEF Ask, Deliver, Select, Look, ReadEpoch, Abandon, reviewVars, outside

LEMMA AroundLinked == TypeOK /\ DecisionLinks /\ Around => DecisionLinks'
  <1>. SUFFICES ASSUME TypeOK, DecisionLinks, Around PROVE DecisionLinks'
    OBVIOUS
  <1>1. ASSUME NEW c \in Commands, LeaseExpires(c) PROVE DecisionLinks'
    <2>1. /\ command'[c] = [command[c] EXCEPT !.live = FALSE] /\ command[c].live
          /\ command[c] \in CommandFields
          /\ \A d \in Commands \ {c} : command'[d] = command[d]
      BY <1>1 DEF LeaseExpires, TypeOK, CommandRow
    <2>2. /\ command'[c].stage = command[c].stage /\ command'[c].item = command[c].item
          /\ command'[c].post = command[c].post /\ command'[c].action = command[c].action
          /\ ~command'[c].live
      BY <2>1 DEF CommandFields
    <2>3. command[c].stage # "NONE"
      BY <2>1 DEF DecisionLinks, CommandLinks, Unfinished
    <2>4. \A d \in Commands : CommandLinks(d)'
      BY <1>1, <2>1, <2>2, <2>3 DEF LeaseExpires, DecisionLinks, CommandLinks
    <2>5. (\A d \in Drafts : DraftLinks(d)') /\ (\A i \in Items : ItemLinks(i)')
      BY <1>1, <2>1, <2>2 DEF LeaseExpires, DecisionLinks, DraftLinks, ItemLinks, TypeOK
    <2>6. \A w \in Workers : WorkerLinks(w)'
      BY <1>1, <2>1, <2>2, WorkersRow
      DEF LeaseExpires, DecisionLinks, WorkerLinks, At, Cmd, TypeOK, WorkerState
    <2>. QED
      BY <2>4, <2>5, <2>6 DEF DecisionLinks
  <1>2. ASSUME NEW p \in Drafts, NEW change \in Releases \cup Editorial, ChangePost(p, change)
        PROVE  DecisionLinks'
    <2>1. change[1] # "ABSENT" /\ change[2] # "ABSENT" /\ change[2] \in PostStatus
      BY DEF Releases, Editorial, PostStatus
    <2>2. /\ UNCHANGED <<control, command, review, worker>>
          /\ post[p].status # "ABSENT"
          /\ post' = [post EXCEPT ![p].status = change[2], ![p].version = @ + 1]
      BY <1>2, <2>1 DEF ChangePost, reviewVars
    <2>. QED
      BY <2>1, <2>2, PostMoves
  <1>. QED
    BY <1>1, <1>2, LinksStay
    DEF Around, ExpireStaged, ExpireOriginal, ReconcileExpired, Revoke, Reinstate, ReceiptExpires,
        reviewVars, outside

\* A worker that goes on or stops: it keeps its command and what it has prepared, or drops all.
Moves(w) ==
    /\ \A v \in Workers \ {w} : worker'[v] = worker[v]
    /\ \/ worker'[w] = Idle
       \/ /\ worker[w].pc # "idle" /\ worker'[w].pc \notin {"idle", "drafting"}
          /\ worker'[w].command = worker[w].command /\ worker'[w].stage = worker[w].stage
          /\ worker'[w].post = worker[w].post /\ worker'[w].draft = worker[w].draft

LEMMA MovesOn ==
    ASSUME TypeOK, NEW w \in Workers
    PROVE  /\ Quit(w) => Moves(w)
           /\ \A pc : Go(w, pc) /\ pc \notin {"idle", "drafting"} /\ ~At(w, "idle") => Moves(w)
           /\ \A e : Fail(w, e) /\ ~At(w, "idle") => Moves(w)
           /\ Acked(w) /\ ~At(w, "idle") => Moves(w)
  <1>1. worker[w] \in WorkerFields /\ worker \in [Workers -> WorkerState]
    BY DEF TypeOK, WorkerState
  <1>2. Quit(w) => Moves(w)
    BY <1>1 DEF Quit, Moves
  <1>3. ASSUME NEW pc, Go(w, pc), pc \notin {"idle", "drafting"}, ~At(w, "idle") PROVE Moves(w)
    BY <1>1, <1>3 DEF Go, Moves, At, WorkerFields
  <1>4. ASSUME NEW e, Fail(w, e), ~At(w, "idle") PROVE Moves(w)
    BY <1>1, <1>4 DEF Fail, Moves, At, WorkerFields
  <1>. QED
    BY <1>2, <1>3, <1>4 DEF Acked

LEMMA WorkersLinked ==
    ASSUME TypeOK, DecisionLinks, NEW w \in Workers, Moves(w),
           \A c \in Commands : /\ command[c].stage # "NONE" => command'[c].stage # "NONE"
                               /\ command[c].post # None => command'[c].post = command[c].post,
           \A v \in Workers \ {w} : At(v, "drafting") => post'[worker[v].draft].status = "ABSENT"
    PROVE  \A v \in Workers : WorkerLinks(v)'
  <1>1. \A v \in Workers : worker[v].pc # "idle" => worker[v].command \in Commands
    BY DEF TypeOK, WorkerState, WorkerFields
  <1>2. \A v \in Workers : worker[v].stage = "DRAFTED" =>
            worker[v].pc # "idle" /\ worker[v].post # None
    BY DEF TypeOK, WorkerState, WorkerFields
  <1>3. ASSUME NEW v \in Workers PROVE WorkerLinks(v)'
    <2>1. /\ worker'[v].draft \in {worker[v].draft, None}
          /\ \A u \in Workers : worker'[u].draft \in {worker[u].draft, None}
      BY DEF Moves, Idle
    <2>2. \A u \in Workers \ {v} : worker'[v].draft # None => worker'[u].draft # worker'[v].draft
      BY <2>1 DEF DecisionLinks, WorkerLinks
    <2>3. CASE worker'[v].pc = "idle"
      <3>1. worker'[v].stage # "DRAFTED"
        BY <1>2, <2>3 DEF Moves, Idle
      <3>. QED
        BY <2>2, <2>3, <3>1 DEF WorkerLinks, At
    <2>4. CASE worker'[v].pc # "idle"
      <3>1. /\ worker[v].pc # "idle" /\ worker'[v].command = worker[v].command
            /\ worker'[v].stage = worker[v].stage /\ worker'[v].post = worker[v].post
            /\ worker'[v].pc = "drafting" => v # w /\ worker'[v] = worker[v]
        <4>1. CASE v = w
          BY <4>1, <2>4 DEF Moves, Idle
        <4>2. CASE v # w
          BY <4>2, <2>4 DEF Moves
        <4>. QED
          BY <4>1, <4>2
      <3>. DEFINE c == worker[v].command
      <3>2. /\ c \in Commands /\ command[c].stage # "NONE"
            /\ worker[v].stage = "DRAFTED" => command[c].post = worker[v].post
            /\ worker[v].pc = "drafting" => post[worker[v].draft].status = "ABSENT"
        BY <1>1, <3>1 DEF DecisionLinks, WorkerLinks, At, Cmd
      <3>3. command'[c].stage # "NONE"
        BY <3>2
      <3>4. worker[v].stage = "DRAFTED" => command'[c].post = worker[v].post
        BY <1>2, <3>2
      <3>5. worker'[v].pc = "drafting" => post'[worker'[v].draft].status = "ABSENT"
        BY <3>1 DEF At
      <3>. QED
        BY <2>2, <3>1, <3>3, <3>4, <3>5 DEF WorkerLinks, At, Cmd
    <2>. QED
      BY <2>3, <2>4
  <1>. QED
    BY <1>3

\* A command that changes its stage or lease, and neither its item, nor its post.
LEMMA RowLinked ==
    ASSUME TypeOK, DecisionLinks, UNCHANGED <<control, review, post>>,
           NEW c \in Commands, NEW r, command' = [command EXCEPT ![c] = r],
           command[c].stage # "NONE", r.stage # "NONE", r.live => r.stage \in Unfinished,
           r.item = command[c].item, r.post = command[c].post, r.action = command[c].action
    PROVE  /\ \A d \in Commands : CommandLinks(d)'
           /\ \A d \in Drafts : DraftLinks(d)'
           /\ \A i \in Items : ItemLinks(i)'
           /\ \A d \in Commands : /\ command[d].stage # "NONE" => command'[d].stage # "NONE"
                                  /\ command'[d].post = command[d].post
  <1>1. command'[c] = r /\ \A d \in Commands \ {c} : command'[d] = command[d]
    BY DEF TypeOK
  <1>2. \A d \in Commands : CommandLinks(d)'
    BY <1>1 DEF DecisionLinks, CommandLinks
  <1>3. \A i \in Items : ItemLinks(i)'
    BY <1>1 DEF DecisionLinks, ItemLinks, TypeOK
  <1>. QED
    BY <1>1, <1>2, <1>3 DEF DecisionLinks, DraftLinks

LEMMA MoveLinked ==
    ASSUME TypeOK, DecisionLinks, NEW w \in Workers, Moves(w),
           UNCHANGED <<control, command, review, post>>
    PROVE  DecisionLinks'
  <1>1. \A v \in Workers : WorkerLinks(v)'
    BY WorkersLinked DEF DecisionLinks, WorkerLinks
  <1>. QED
    BY <1>1 DEF DecisionLinks, CommandLinks, DraftLinks, ItemLinks

LEMMA ClaimLinked ==
    ASSUME TypeOK, DecisionLinks, NEW w \in Workers, NEW c \in Commands, Claim(w, c)
    PROVE  DecisionLinks'
  <1>. DEFINE r == [command[c] EXCEPT !.lease = w, !.live = TRUE]
  <1>1. command[c] \in CommandFields /\ command[c].stage \in Unfinished
    BY DEF Claim, Claimable, TypeOK, CommandRow
  <1>2. /\ r.stage = command[c].stage /\ r.item = command[c].item /\ r.post = command[c].post
        /\ r.action = command[c].action
    BY <1>1 DEF CommandFields
  <1>3. command' = [command EXCEPT ![c] = r] /\ UNCHANGED <<control, review, post>>
    BY DEF Claim
  <1>. HIDE DEF r
  <1>4. /\ \A d \in Commands : CommandLinks(d)'
        /\ \A d \in Drafts : DraftLinks(d)'
        /\ \A i \in Items : ItemLinks(i)'
        /\ \A d \in Commands : /\ command[d].stage # "NONE" => command'[d].stage # "NONE"
                               /\ command'[d].post = command[d].post
    BY <1>1, <1>2, <1>3, RowLinked DEF Unfinished
  <1>5. /\ \A v \in Workers \ {w} : worker'[v] = worker[v]
        /\ worker'[w].pc = "claimed" /\ worker'[w].command = c /\ worker'[w].draft = None
        /\ worker'[w].stage = command[c].stage /\ worker'[w].post = command[c].post
    BY DEF Claim, Idle, TypeOK
  <1>6. ASSUME NEW v \in Workers PROVE WorkerLinks(v)'
    <2>1. CASE v = w
      BY <2>1, <1>1, <1>4, <1>5 DEF WorkerLinks, At, Cmd, Unfinished
    <2>2. CASE v # w
      <3>1. /\ worker[v].pc # "idle" => worker[v].command \in Commands
            /\ worker[v].stage = "DRAFTED" => worker[v].pc # "idle"
        BY DEF TypeOK, WorkerState, WorkerFields
      <3>. QED
        BY <2>2, <3>1, <1>3, <1>4, <1>5 DEF DecisionLinks, WorkerLinks, At, Cmd
    <2>. QED
      BY <2>1, <2>2
  <1>. QED
    BY <1>4, <1>6 DEF DecisionLinks

LEMMA PrepareLinked ==
    ASSUME TypeOK, DecisionLinks, NEW w \in Workers, NEW d \in Drafts, Prepare(w, d)
    PROVE  DecisionLinks'
  <1>1. worker[w] \in WorkerFields /\ worker[w].pc = "preparing" /\ d # None
    BY ConstantsAssumption DEF Prepare, At, TypeOK, WorkerState
  <1>2. /\ \A v \in Workers \ {w} : worker'[v] = worker[v] /\ worker[v].draft # d
        /\ worker'[w].pc = "drafting" /\ worker'[w].draft = d
        /\ worker'[w].command = worker[w].command
        /\ worker'[w].stage = worker[w].stage /\ worker'[w].post = worker[w].post
    BY <1>1 DEF Prepare, TypeOK, WorkerFields
  <1>3. post[d].status = "ABSENT" /\ UNCHANGED <<control, command, review, post>>
    BY DEF Prepare, reviewVars
  <1>4. \A v \in Workers : WorkerLinks(v)'
    BY <1>1, <1>2, <1>3 DEF DecisionLinks, WorkerLinks, At, Cmd
  <1>. QED
    BY <1>3, <1>4 DEF DecisionLinks, CommandLinks, DraftLinks, ItemLinks

\* What the commit of a draft finds: the item has no post, the draft is of no item.
LEMMA CommitDraftRows ==
    ASSUME TypeOK, DecisionLinks, NEW w \in Workers, CommitDraft(w)
    PROVE  LET i == Item(w)  c == Cmd(w)  d == worker[w].draft IN
           /\ i \in Items /\ i # None /\ c \in Commands /\ d \in Drafts /\ d # None
           /\ command[c].stage \in Unfinished /\ control[i].active = c
           /\ review[i].post = None /\ review[i].status = "APPROVED"
           /\ post[d].status = "ABSENT" /\ post[d].item = None
           /\ ~Drafted(i) /\ At(w, "drafting")
  <1>1. /\ At(w, "drafting") /\ command[Cmd(w)].stage \in Unfinished
        /\ review[Item(w)].post = None /\ review[Item(w)].status = "APPROVED" /\ ~Drafted(Item(w))
        /\ control[Item(w)].active = Cmd(w)
    BY DEF CommitDraft, MayDraft, Holds, InForce, Item
  <1>2. Cmd(w) \in Commands /\ Item(w) \in Items /\ worker[w] \in WorkerState
    BY <1>1, WorkersRow DEF At, Unfinished
  <1>3. worker[w].draft \in Drafts /\ worker[w].draft # None
    BY <1>1, <1>2 DEF WorkerState, WorkerFields, At
  <1>4. post[worker[w].draft].status = "ABSENT" /\ post[worker[w].draft].item = None
    BY <1>1, <1>3 DEF DecisionLinks, WorkerLinks, DraftLinks
  <1>. QED
    BY <1>1, <1>2, <1>3, <1>4, ConstantsAssumption

LEMMA CommitDraftLinked ==
    ASSUME TypeOK, DecisionLinks, NEW w \in Workers, CommitDraft(w)
    PROVE  DecisionLinks'
  <1>. DEFINE i == Item(w)  c == Cmd(w)  d == worker[w].draft
  <1>1. /\ i \in Items /\ i # None /\ c \in Commands /\ d \in Drafts /\ d # None
        /\ command[c].stage \in Unfinished /\ control[i].active = c
        /\ review[i].post = None /\ review[i].status = "APPROVED"
        /\ post[d].status = "ABSENT" /\ post[d].item = None /\ At(w, "drafting")
    BY CommitDraftRows
  <1>2. command[c].item = i /\ command[c] \in CommandFields
    BY <1>1 DEF Item, Cmd, TypeOK, CommandRow
  <1>3. /\ post'[d] = [status |-> "DRAFT", version |-> 1, item |-> i]
        /\ \A e \in Drafts \ {d} : post'[e] = post[e]
        /\ review'[i].post = d /\ review'[i].status = review[i].status
        /\ \A j \in Items \ {i} : review'[j] = review[j]
        /\ \A b \in Commands \ {c} : command'[b] = command[b]
        /\ UNCHANGED control /\ Moves(w)
    BY <1>1, MovesOn DEF CommitDraft, TypeOK, ReviewRow, At
  <1>4. /\ command'[c].stage = "DRAFTED" /\ command'[c].post = d /\ command'[c].item = i
        /\ command'[c].action = command[c].action /\ ~command'[c].live
    BY <1>1, <1>2 DEF CommitDraft, Released, TypeOK, CommandFields
  <1>5. command[c].post = None
    <2>1. command[c].post # None => command[c].post \in Drafts /\ post[command[c].post].item = i
      BY <1>1, <1>2 DEF DecisionLinks, CommandLinks, CommandFields
    <2>. QED
      BY <2>1, <1>1 DEF DecisionLinks, DraftLinks
  <1>. HIDE DEF i, c, d
  <1>6. ASSUME NEW b \in Commands PROVE CommandLinks(b)'
    <2>1. CASE b = c
      BY <2>1, <1>3, <1>4 DEF CommandLinks, Unfinished
    <2>2. CASE b # c
      <3>1. command[b].post # d
        <4>1. command[b].post = d => command[b].stage # "NONE" /\ command[b].item = None
          BY <1>1 DEF DecisionLinks, CommandLinks, NoCommand
        <4>. QED
          BY <4>1 DEF TypeOK, CommandRow
      <3>2. command[b].post \in Drafts \cup {None}
        BY DEF TypeOK, CommandRow, CommandFields
      <3>. QED
        BY <2>2, <3>1, <3>2, <1>3 DEF DecisionLinks, CommandLinks
    <2>. QED
      BY <2>1, <2>2
  <1>7. ASSUME NEW e \in Drafts PROVE DraftLinks(e)'
    <2>1. CASE e = d
      BY <2>1, <1>1, <1>3 DEF DraftLinks
    <2>2. CASE e # d
      <3>1. post[e].item \in Items \cup {None} /\ post[e].item # i
        BY <1>1, ConstantsAssumption DEF TypeOK, DecisionLinks, DraftLinks
      <3>. QED
        BY <2>2, <3>1, <1>3 DEF DecisionLinks, DraftLinks
    <2>. QED
      BY <2>1, <2>2
  <1>8. ASSUME NEW j \in Items PROVE ItemLinks(j)'
    <2>1. control[j].active # None =>
            /\ control[j].active \in Commands
            /\ command'[control[j].active].stage # "NONE"
            /\ command'[control[j].active].item = command[control[j].active].item
            /\ command'[control[j].active].action = command[control[j].active].action
      BY <1>1, <1>2, <1>3, <1>4 DEF TypeOK, DecisionLinks, ItemLinks, i
    <2>2. CASE j = i
      BY <2>1, <2>2, <1>1, <1>3 DEF DecisionLinks, ItemLinks
    <2>3. CASE j # i
      <3>1. review[j].post \in Drafts \cup {None} /\ review[j].post # d
        <4>1. review[j].post = d => post[d].item = j
          BY <1>1 DEF DecisionLinks, ItemLinks
        <4>. QED
          BY <4>1, <1>1, ConstantsAssumption DEF TypeOK, ReviewRow
      <3>. QED
        BY <2>1, <2>3, <3>1, <1>3 DEF DecisionLinks, ItemLinks
    <2>. QED
      BY <2>2, <2>3
  <1>9. \A v \in Workers : WorkerLinks(v)'
    <2>1. \A b \in Commands : /\ command[b].stage # "NONE" => command'[b].stage # "NONE"
                              /\ command[b].post # None => command'[b].post = command[b].post
      BY <1>3, <1>4, <1>5
    <2>2. ASSUME NEW v \in Workers \ {w}, At(v, "drafting")
          PROVE  post'[worker[v].draft].status = "ABSENT"
      <3>1. worker[v].draft \in Drafts /\ worker[v].draft # None
        BY <2>2 DEF TypeOK, WorkerState, WorkerFields, At
      <3>2. worker[v].draft # d
        BY <1>1, <2>2 DEF DecisionLinks, WorkerLinks, d
      <3>. QED
        BY <2>2, <3>1, <3>2, <1>3 DEF DecisionLinks, WorkerLinks
    <2>. QED
      BY <2>1, <2>2, <1>3, WorkersLinked
  <1>. QED
    BY <1>6, <1>7, <1>8, <1>9 DEF DecisionLinks

LEMMA RecordPublishedLinked ==
    ASSUME TypeOK, DecisionLinks, NEW w \in Workers, RecordPublished(w)
    PROVE  DecisionLinks'
  <1>. DEFINE c == Cmd(w)
              r == [Released(command[c]) EXCEPT
                        !.stage = "PUBLISHED", !.postVersion = post[worker[w].post].version]
  <1>1. /\ c \in Commands /\ command[c] \in CommandFields /\ command[c].stage \in Unfinished
        /\ Moves(w) /\ UNCHANGED <<control, review, post>>
        /\ command' = [command EXCEPT ![c] = r]
    BY WorkersRow, MovesOn DEF RecordPublished, MayRecord, Holds, At, CommandRow
  <1>2. /\ r.stage = "PUBLISHED" /\ r.item = command[c].item /\ r.post = command[c].post
        /\ r.action = command[c].action /\ ~r.live
    BY <1>1 DEF Released, CommandFields
  <1>. HIDE DEF c, r
  <1>3. /\ \A d \in Commands : CommandLinks(d)'
        /\ \A d \in Drafts : DraftLinks(d)'
        /\ \A i \in Items : ItemLinks(i)'
        /\ \A d \in Commands : /\ command[d].stage # "NONE" => command'[d].stage # "NONE"
                               /\ command'[d].post = command[d].post
    BY <1>1, <1>2, RowLinked DEF Unfinished
  <1>4. \A v \in Workers : WorkerLinks(v)'
    BY <1>1, <1>3, WorkersLinked DEF DecisionLinks, WorkerLinks
  <1>. QED
    BY <1>3, <1>4 DEF DecisionLinks

LEMMA SettleLinked ==
    ASSUME TypeOK, DecisionLinks, NEW w \in Workers, Settle(w)
    PROVE  DecisionLinks'
  <1>. DEFINE c == Cmd(w)
              r == [Released(command[c]) EXCEPT
                        !.stage = IF worker[w].error = "client" THEN "NEEDS_ADMIN"
                                  ELSE command[c].stage]
  <1>1. Moves(w) /\ UNCHANGED <<control, review, post>>
    BY MovesOn DEF Settle
  <1>2. CASE ~Holds(w, c)
    BY <1>1, <1>2, MoveLinked DEF Settle
  <1>3. CASE Holds(w, c)
    <2>1. /\ c \in Commands /\ command[c] \in CommandFields /\ command[c].stage \in Unfinished
          /\ command' = [command EXCEPT ![c] = r]
      BY <1>3, WorkersRow DEF Settle, Holds, At, CommandRow
    <2>2. /\ r.stage # "NONE" /\ r.item = command[c].item /\ r.post = command[c].post
          /\ r.action = command[c].action /\ ~r.live
      BY <2>1 DEF Released, CommandFields, Unfinished
    <2>. HIDE DEF c, r
    <2>3. /\ \A d \in Commands : CommandLinks(d)'
          /\ \A d \in Drafts : DraftLinks(d)'
          /\ \A i \in Items : ItemLinks(i)'
          /\ \A d \in Commands : /\ command[d].stage # "NONE" => command'[d].stage # "NONE"
                                 /\ command'[d].post = command[d].post
      BY <1>1, <2>1, <2>2, RowLinked DEF Unfinished
    <2>4. \A v \in Workers : WorkerLinks(v)'
      BY <1>1, <2>3, WorkersLinked DEF DecisionLinks, WorkerLinks
    <2>. QED
      BY <2>3, <2>4 DEF DecisionLinks
  <1>. QED
    BY <1>2, <1>3

LEMMA CommitPublishLinked ==
    ASSUME TypeOK, DecisionLinks, NEW w \in Workers, CommitPublish(w)
    PROVE  DecisionLinks'
  <1>. DEFINE p == worker[w].post
  <1>1. /\ p \in Drafts /\ worker[w].pc = "publishing" /\ post[p].status \in Publishable
        /\ post' = [post EXCEPT ![p].status = "PUBLISHED", ![p].version = @ + 1]
        /\ UNCHANGED <<control, command, review>> /\ Moves(w)
    BY MovesOn, ConstantsAssumption
    DEF CommitPublish, MayPublish, Current, At, TypeOK, WorkerState, WorkerFields, reviewVars
  <1>2. \A d \in Drafts : /\ post'[d].item = post[d].item
                          /\ post'[d].status = "ABSENT" <=> post[d].status = "ABSENT"
    BY <1>1 DEF TypeOK, Publishable
  <1>3. \A c \in Commands : CommandLinks(c)'
    BY <1>1, <1>2 DEF DecisionLinks, CommandLinks, TypeOK, CommandRow, CommandFields
  <1>4. (\A d \in Drafts : DraftLinks(d)') /\ (\A i \in Items : ItemLinks(i)')
    BY <1>1, <1>2 DEF DecisionLinks, DraftLinks, ItemLinks, TypeOK, ReviewRow
  <1>5. ASSUME NEW v \in Workers \ {w}, At(v, "drafting")
        PROVE  post'[worker[v].draft].status = "ABSENT"
    BY <1>2, <1>5 DEF DecisionLinks, WorkerLinks, TypeOK, WorkerState, WorkerFields, At
  <1>6. \A v \in Workers : WorkerLinks(v)'
    BY <1>1, <1>5, WorkersLinked
  <1>. QED
    BY <1>3, <1>4, <1>6 DEF DecisionLinks

LEMMA AdvanceLinked ==
    ASSUME TypeOK, DecisionLinks, NEW w \in Workers, Advance(w)
    PROVE  DecisionLinks'
  <1>1. ASSUME \/ Authorize(w) \/ CheckPost(w) \/ StartPublish(w) \/ Refuse(w) \/ Recover(w)
               \/ DiscardPrepared(w) \/ Outage(w) \/ WorkerDies(w)
        PROVE  DecisionLinks'
    <2>1. UNCHANGED <<control, command, review, post>>
      BY <1>1 DEF Authorize, CheckPost, StartPublish, Refuse, Recover, DiscardPrepared, Outage,
                  WorkerDies, reviewVars
    <2>2. Moves(w)
      BY <1>1, MovesOn
      DEF Authorize, CheckPost, StartPublish, Refuse, Recover, DiscardPrepared, Outage, WorkerDies,
          Working, At
    <2>. QED
      BY <2>1, <2>2, MoveLinked
  <1>. QED
    BY <1>1, ClaimLinked, PrepareLinked, CommitDraftLinked, CommitPublishLinked,
       RecordPublishedLinked, SettleLinked
    DEF Advance, Works

\* Every command, review, post and worker refers to the others in agreement: the index by which
\* the publication fence finds a decision is never broken by a decision, a worker or a crash.
THEOREM DecisionsLinked == Spec => [](TypeOK /\ DecisionLinks)
  <1>1. Init => TypeOK /\ DecisionLinks
    BY InitTyped, InitLinked
  <1>2. TypeOK /\ DecisionLinks /\ [Next]_vars => (TypeOK /\ DecisionLinks)'
    <2>1. TypeOK /\ DecisionLinks /\ UNCHANGED vars => DecisionLinks'
      BY LinksStay DEF vars
    <2>. QED
      BY <2>1, NextTyped, AskLinked, AdvanceLinked, AroundLinked DEF Next
  <1>. QED
    BY <1>1, <1>2, PTL DEF Spec

----------------------------------------------------------------------------
(* What has ended stays ended, and what has not is in force *)

\* What every step other than a decision leaves alone.
RowsKept ==
    /\ UNCHANGED control
    /\ \A c \in Commands :
          /\ command'[c].item = command[c].item /\ command'[c].epoch = command[c].epoch
          /\ command'[c].stage \in Unfinished => command[c].stage \in Unfinished
          /\ command[c].stage \in Finished => command'[c] = command[c]

LEMMA RowKept ==
    ASSUME TypeOK, UNCHANGED control, NEW c \in Commands, command[c].stage \in Unfinished,
           NEW r, command' = [command EXCEPT ![c] = r],
           r.item = command[c].item, r.epoch = command[c].epoch
    PROVE  RowsKept
  <1>1. command'[c] = r /\ \A d \in Commands \ {c} : command'[d] = command[d]
    BY DEF TypeOK
  <1>. QED
    BY <1>1 DEF RowsKept, Unfinished, Finished

LEMMA OthersKeepRows ==
    ASSUME TypeOK, DecisionLinks, [Next]_vars
    PROVE  (\E c \in Commands, v \in Verdicts : Accept(c, v)) \/ RowsKept
  <1>1. CASE UNCHANGED <<control, command>>
    BY <1>1 DEF RowsKept
  <1>2. ASSUME NEW w \in Workers, NEW c \in Commands, Claim(w, c) PROVE RowsKept
    <2>. DEFINE r == [command[c] EXCEPT !.lease = w, !.live = TRUE]
    <2>1. command[c] \in CommandFields /\ command[c].stage \in Unfinished
      BY <1>2 DEF Claim, Claimable, TypeOK, CommandRow
    <2>2. r.item = command[c].item /\ r.epoch = command[c].epoch
      BY <2>1 DEF CommandFields
    <2>3. command' = [command EXCEPT ![c] = r] /\ UNCHANGED control
      BY <1>2 DEF Claim
    <2>. HIDE DEF r
    <2>. QED
      BY <2>1, <2>2, <2>3, RowKept
  <1>3. ASSUME NEW w \in Workers, CommitDraft(w) PROVE RowsKept
    <2>. DEFINE c == Cmd(w)
                r == [Released(command[c]) EXCEPT
                         !.stage = "DRAFTED", !.post = worker[w].draft, !.postVersion = 1,
                         !.reviewVersion = review[Item(w)].version + 1]
    <2>1. c \in Commands /\ command[c] \in CommandFields /\ command[c].stage \in Unfinished
      BY <1>3, CommitDraftRows DEF TypeOK, CommandRow
    <2>2. r.item = command[c].item /\ r.epoch = command[c].epoch
      BY <2>1 DEF CommandFields, Released
    <2>3. command' = [command EXCEPT ![c] = r] /\ UNCHANGED control
      BY <1>3 DEF CommitDraft
    <2>. HIDE DEF c, r
    <2>. QED
      BY <2>1, <2>2, <2>3, RowKept
  <1>4. ASSUME NEW w \in Workers, RecordPublished(w) PROVE RowsKept
    <2>. DEFINE c == Cmd(w)
                r == [Released(command[c]) EXCEPT
                         !.stage = "PUBLISHED", !.postVersion = post[worker[w].post].version]
    <2>1. c \in Commands /\ command[c] \in CommandFields /\ command[c].stage \in Unfinished
      BY <1>4, WorkersRow DEF RecordPublished, MayRecord, Holds, At, CommandRow
    <2>2. r.item = command[c].item /\ r.epoch = command[c].epoch
      BY <2>1 DEF CommandFields, Released
    <2>3. command' = [command EXCEPT ![c] = r] /\ UNCHANGED control
      BY <1>4 DEF RecordPublished
    <2>. HIDE DEF c, r
    <2>. QED
      BY <2>1, <2>2, <2>3, RowKept
  <1>5. ASSUME NEW w \in Workers, Settle(w) PROVE RowsKept
    <2>. DEFINE c == Cmd(w)
                r == [Released(command[c]) EXCEPT
                         !.stage = IF worker[w].error = "client" THEN "NEEDS_ADMIN"
                                   ELSE command[c].stage]
    <2>1. CASE ~Holds(w, c)
      BY <1>5, <2>1 DEF Settle, RowsKept
    <2>2. CASE Holds(w, c)
      <3>1. c \in Commands /\ command[c] \in CommandFields /\ command[c].stage \in Unfinished
        BY <1>5, <2>2, WorkersRow DEF Settle, Holds, At, CommandRow
      <3>2. r.item = command[c].item /\ r.epoch = command[c].epoch
        BY <3>1 DEF CommandFields, Released
      <3>3. command' = [command EXCEPT ![c] = r] /\ UNCHANGED control
        BY <1>5, <2>2 DEF Settle
      <3>. HIDE DEF c, r
      <3>. QED
        BY <3>1, <3>2, <3>3, RowKept
    <2>. QED
      BY <2>1, <2>2
  <1>6. ASSUME NEW c \in Commands, LeaseExpires(c) PROVE RowsKept
    <2>. DEFINE r == [command[c] EXCEPT !.live = FALSE]
    <2>1. command[c] \in CommandFields /\ command[c].stage \in Unfinished
      BY <1>6 DEF LeaseExpires, DecisionLinks, CommandLinks, TypeOK, CommandRow
    <2>2. r.item = command[c].item /\ r.epoch = command[c].epoch
      BY <2>1 DEF CommandFields
    <2>3. command' = [command EXCEPT ![c] = r] /\ UNCHANGED control
      BY <1>6 DEF LeaseExpires
    <2>. HIDE DEF r
    <2>. QED
      BY <2>1, <2>2, <2>3, RowKept
  <1>. QED
    BY <1>1, <1>2, <1>3, <1>4, <1>5, <1>6
    DEF Next, Ask, Advance, Works, Around, vars, Deliver, Select, Look, ReadEpoch, Abandon,
        Authorize, Prepare, CheckPost, StartPublish, CommitPublish, Refuse, Recover,
        DiscardPrepared, Outage, WorkerDies, ExpireStaged, ExpireOriginal, ReconcileExpired,
        Revoke, Reinstate, ReceiptExpires, ChangePost, reviewVars

\* Once finished, and cancelled by an administrator above all, a command changes no more,
\* whatever worker still carries it (assertActive, review-command.repository.ts).
THEOREM FinishedStays == Spec => FinishedIsFinal
  <1>1. TypeOK /\ DecisionLinks /\ [Next]_vars =>
            [\A c \in Commands : command[c].stage \in Finished => command'[c] = command[c]]_vars
    <2>. SUFFICES ASSUME TypeOK, DecisionLinks, [Next]_vars
                  PROVE  \A c \in Commands : command[c].stage \in Finished => command'[c] = command[c]
      OBVIOUS
    <2>1. CASE RowsKept
      BY <2>1 DEF RowsKept
    <2>2. ASSUME NEW c \in Commands, NEW v \in Verdicts, Accept(c, v)
          PROVE  \A d \in Commands : command[d].stage \in Finished => command'[d] = command[d]
      <3>1. AcceptEffect(c, v, request[c].item)
        BY <2>2, AcceptRows
      <3>. QED
        BY <3>1 DEF AcceptEffect, NoCommand, Finished, Unfinished
    <2>. QED
      BY <2>1, <2>2, OthersKeepRows
  <1>. QED
    BY <1>1, DecisionsLinked, PTL DEF Spec, FinishedIsFinal

\* A command that is not finished is the one in force on its item: no decision and no worker
\* leaves behind a command that maintenance cannot claim.
THEOREM UnfinishedStaysInForce == Spec => []UnfinishedInForce
  <1>1. Init => UnfinishedInForce
    BY DEF Init, UnfinishedInForce, NoCommand, Unfinished
  <1>2. TypeOK /\ DecisionLinks /\ UnfinishedInForce /\ [Next]_vars => UnfinishedInForce'
    <2>. SUFFICES ASSUME TypeOK, DecisionLinks, UnfinishedInForce, [Next]_vars
                  PROVE  UnfinishedInForce'
      OBVIOUS
    <2>1. CASE RowsKept
      BY <2>1 DEF RowsKept, UnfinishedInForce, InForce
    <2>2. ASSUME NEW c \in Commands, NEW v \in Verdicts, Accept(c, v) PROVE UnfinishedInForce'
      <3>. DEFINE i == request[c].item
      <3>1. AcceptEffect(c, v, i)
        BY <2>2, AcceptRows
      <3>. HIDE DEF i
      <3>2. ASSUME NEW d \in Commands, command'[d].stage \in Unfinished PROVE InForce(d)'
        <4>1. CASE d = c
          BY <3>1, <4>1 DEF AcceptEffect, Decided, InForce
        <4>2. CASE d # c
          <5>1. /\ command[d].stage \in Unfinished /\ command'[d].item = command[d].item
                /\ command'[d].epoch = command[d].epoch /\ command[d].item \in Items
            BY <3>1, <3>2, <4>2 DEF AcceptEffect, Unfinished, TypeOK, CommandRow, CommandFields
          <5>2. InForce(d)
            BY <5>1 DEF UnfinishedInForce
          <5>3. command[d].item # i
            <6>1. CASE Origin[c] = "ADMIN"
              <7>1. ~Cancels(c, d)
                <8>1. Cancels(c, d) => command'[d] = [Released(command[d]) EXCEPT !.stage = "CANCELLED"]
                  BY <2>2, <4>2 DEF Accept
                <8>2. [Released(command[d]) EXCEPT !.stage = "CANCELLED"].stage = "CANCELLED"
                  BY DEF Released, TypeOK, CommandRow, CommandFields
                <8>. QED
                  BY <8>1, <8>2, <3>2 DEF Unfinished
              <7>. QED
                BY <5>1, <6>1, <7>1 DEF Cancels, i
            <6>2. CASE Origin[c] # "ADMIN"
              BY <2>2, <5>1, <5>2, <6>2, ConstantsAssumption
              DEF Accept, HasPrecedence, InForce, i, Finished, Unfinished
            <6>. QED
              BY <6>1, <6>2
          <5>. QED
            BY <3>1, <5>1, <5>2, <5>3 DEF AcceptEffect, InForce
        <4>. QED
          BY <4>1, <4>2
      <3>. QED
        BY <3>2 DEF UnfinishedInForce
    <2>. QED
      BY <2>1, <2>2, OthersKeepRows
  <1>. QED
    BY <1>1, <1>2, DecisionsLinked, PTL DEF Spec

----------------------------------------------------------------------------
(* Drafts: their images, their source, and the rejection of their item *)

\* The steps that touch posts, the links of reviews to posts, or linked images.
PostsKept == UNCHANGED post /\ \A d \in Drafts : images[d] = "LINKED" => images'[d] = "LINKED"

LEMMA WhoTouchesPosts ==
    ASSUME TypeOK, DecisionLinks, DraftKeepsImages, [Next]_vars
    PROVE  \/ PostsKept
           \/ \E w \in Workers : CommitDraft(w) \/ CommitPublish(w)
           \/ \E p \in Drafts, change \in Releases \cup Editorial : ChangePost(p, change)
  <1>1. CASE UNCHANGED <<post, images>>
    BY <1>1 DEF PostsKept
  <1>2. ASSUME NEW w \in Workers, NEW d \in Drafts, Prepare(w, d) PROVE PostsKept
    BY <1>2 DEF Prepare, PostsKept, TypeOK
  <1>3. ASSUME NEW w \in Workers, DiscardPrepared(w) PROVE PostsKept
    BY <1>3 DEF DiscardPrepared, Discardable, PostsKept, TypeOK
  <1>4. ASSUME NEW d \in Drafts, ExpireStaged(d) PROVE PostsKept
    BY <1>4 DEF ExpireStaged, PostsKept, TypeOK
  <1>. QED
    BY <1>1, <1>2, <1>3, <1>4
    DEF Next, Ask, Advance, Works, Around, vars, Deliver, Select, Look, ReadEpoch, Abandon, Accept,
        Claim, Authorize, CheckPost, StartPublish, RecordPublished, Refuse, Recover, Settle,
        Outage, WorkerDies, LeaseExpires, ExpireOriginal, ReconcileExpired,
        Revoke, Reinstate, ReceiptExpires

\* What a change of an existing post does: its item and its images stay.
LEMMA PostChanges ==
    ASSUME TypeOK, DecisionLinks, NEW p \in Drafts,
           \/ \E change \in Releases \cup Editorial : ChangePost(p, change)
           \/ \E w \in Workers : CommitPublish(w) /\ p = worker[w].post
    PROVE  /\ post[p].status # "ABSENT" /\ UNCHANGED images
           /\ post'[p].item = post[p].item /\ post'[p].status # "ABSENT"
           /\ \A d \in Drafts \ {p} : post'[d] = post[d]
  <1>1. CASE \E change \in Releases \cup Editorial : ChangePost(p, change)
    <2>1. PICK change \in Releases \cup Editorial : ChangePost(p, change)
      BY <1>1
    <2>2. change[1] # "ABSENT" /\ change[2] # "ABSENT"
      BY DEF Releases, Editorial
    <2>. QED
      BY <2>1, <2>2 DEF ChangePost, TypeOK
  <1>2. CASE \E w \in Workers : CommitPublish(w) /\ p = worker[w].post
    BY <1>2 DEF CommitPublish, MayPublish, Current, Publishable, TypeOK
  <1>. QED
    BY <1>1, <1>2

LEMMA PublisherHasPost ==
    ASSUME TypeOK, NEW w \in Workers, CommitPublish(w)
    PROVE  worker[w].post \in Drafts
  BY ConstantsAssumption DEF TypeOK, CommitPublish, At, WorkerState, WorkerFields

\* The images of a post stay linked to it: no worker that fails, is superseded or hears nothing
\* of its commit discards the images of a draft that was committed (advance's catch block).
THEOREM DraftsKeepImages == Spec => []DraftKeepsImages
  <1>1. Init => DraftKeepsImages
    BY DEF Init, DraftKeepsImages
  <1>2. TypeOK /\ DecisionLinks /\ DraftKeepsImages /\ [Next]_vars => DraftKeepsImages'
    <2>. SUFFICES ASSUME TypeOK, DecisionLinks, DraftKeepsImages, [Next]_vars
                  PROVE  DraftKeepsImages'
      OBVIOUS
    <2>1. CASE PostsKept
      BY <2>1 DEF PostsKept, DraftKeepsImages
    <2>2. ASSUME NEW w \in Workers, CommitDraft(w) PROVE DraftKeepsImages'
      BY <2>2, CommitDraftRows DEF CommitDraft, DraftKeepsImages, TypeOK
    <2>3. ASSUME NEW p \in Drafts,
                 \/ \E change \in Releases \cup Editorial : ChangePost(p, change)
                 \/ \E w \in Workers : CommitPublish(w) /\ p = worker[w].post
          PROVE  DraftKeepsImages'
      BY <2>3, PostChanges DEF DraftKeepsImages
    <2>. QED
      BY <2>1, <2>2, <2>3, WhoTouchesPosts, PublisherHasPost
  <1>. QED
    BY <1>1, <1>2, DecisionsLinked, PTL DEF Spec

\* Two drafts are never made of one source, by two commands or by one that was carried out twice.
THEOREM SourcesHaveOneDraft == Spec => []OneDraftPerSource
  <1>1. Init => OneDraftPerSource
    BY ConstantsAssumption DEF Init, OneDraftPerSource
  <1>2. TypeOK /\ DecisionLinks /\ DraftKeepsImages /\ OneDraftPerSource /\ [Next]_vars
        => OneDraftPerSource'
    <2>. SUFFICES ASSUME TypeOK, DecisionLinks, DraftKeepsImages, OneDraftPerSource, [Next]_vars
                  PROVE  OneDraftPerSource'
      OBVIOUS
    <2>1. CASE PostsKept
      BY <2>1 DEF PostsKept, OneDraftPerSource
    <2>2. ASSUME NEW w \in Workers, CommitDraft(w) PROVE OneDraftPerSource'
      <3>. DEFINE i == Item(w)  d == worker[w].draft
      <3>1. /\ d \in Drafts /\ ~Drafted(i)
            /\ post'[d].item = i /\ \A e \in Drafts \ {d} : post'[e] = post[e]
        BY <2>2, CommitDraftRows DEF CommitDraft, TypeOK
      <3>. HIDE DEF i, d
      <3>. QED
        BY <3>1 DEF OneDraftPerSource, Drafted
    <2>3. ASSUME NEW p \in Drafts,
                 \/ \E change \in Releases \cup Editorial : ChangePost(p, change)
                 \/ \E w \in Workers : CommitPublish(w) /\ p = worker[w].post
          PROVE  OneDraftPerSource'
      <3>1. \A d \in Drafts : post'[d].item = post[d].item
        BY <2>3, PostChanges
      <3>. QED
        BY <3>1 DEF OneDraftPerSource
    <2>. QED
      BY <2>1, <2>2, <2>3, WhoTouchesPosts, PublisherHasPost
  <1>. QED
    BY <1>1, <1>2, DecisionsLinked, DraftsKeepImages, PTL DEF Spec

\* What a step does to the links of reviews, unless it is a decision or the commit of a draft.
LEMMA WhoDecides ==
    ASSUME TypeOK, DecisionLinks, [Next]_vars
    PROVE  \/ \E c \in Commands, v \in Verdicts : Accept(c, v)
           \/ \E w \in Workers : CommitDraft(w)
           \/ UNCHANGED review /\ \A c \in Commands : command'[c].post = command[c].post
  <1>1. CASE UNCHANGED <<review, command>>
    BY <1>1
  <1>2. \A c \in Commands : command[c] \in CommandFields
    BY DEF TypeOK, CommandRow
  <1>3. ASSUME NEW w \in Workers, NEW c \in Commands, Claim(w, c)
        PROVE  UNCHANGED review /\ \A d \in Commands : command'[d].post = command[d].post
    BY <1>2, <1>3 DEF Claim, TypeOK, CommandFields
  <1>4. ASSUME NEW w \in Workers, RecordPublished(w) \/ Settle(w)
        PROVE  UNCHANGED review /\ \A d \in Commands : command'[d].post = command[d].post
    <2>1. ASSUME NEW c \in Commands, NEW s, NEW n
          PROVE  /\ [Released(command[c]) EXCEPT !.stage = s, !.postVersion = n].post = command[c].post
                 /\ [Released(command[c]) EXCEPT !.stage = s].post = command[c].post
      BY <1>2 DEF Released, CommandFields
    <2>2. CASE RecordPublished(w)
      BY <2>1, <2>2 DEF RecordPublished, TypeOK
    <2>3. CASE Settle(w)
      BY <2>1, <2>3 DEF Settle, TypeOK
    <2>. QED
      BY <1>4, <2>2, <2>3
  <1>5. ASSUME NEW c \in Commands, LeaseExpires(c)
        PROVE  UNCHANGED review /\ \A d \in Commands : command'[d].post = command[d].post
    BY <1>2, <1>5 DEF LeaseExpires, TypeOK, CommandFields
  <1>. QED
    BY <1>1, <1>3, <1>4, <1>5
    DEF Next, Ask, Advance, Works, Around, vars, Deliver, Select, Look, ReadEpoch, Abandon,
        Authorize, Prepare, CheckPost, StartPublish, CommitPublish, Refuse, Recover,
        DiscardPrepared, Outage, WorkerDies, ExpireStaged, ExpireOriginal, ReconcileExpired,
        Revoke, Reinstate, ReceiptExpires, ChangePost, reviewVars

LEMMA DraftsHaveCommandsStep ==
    ASSUME TypeOK, DecisionLinks, DraftsHaveCommands, [Next]_vars
    PROVE  DraftsHaveCommands'
  <1>1. CASE UNCHANGED review /\ \A c \in Commands : command'[c].post = command[c].post
    <2>1. CASE RowsKept
      BY <1>1, <2>1 DEF RowsKept, DraftsHaveCommands
    <2>2. ASSUME NEW c \in Commands, NEW v \in Verdicts, Accept(c, v) PROVE DraftsHaveCommands'
      <3>1. AcceptEffect(c, v, request[c].item)
        BY <2>2, AcceptRows
      <3>2. \A d \in Commands : command[d].post # None => command'[d].item = command[d].item
        BY <3>1 DEF AcceptEffect, NoCommand
      <3>. QED
        BY <1>1, <3>2 DEF DraftsHaveCommands
    <2>. QED
      BY <2>1, <2>2, OthersKeepRows
  <1>2. ASSUME NEW c \in Commands, NEW v \in Verdicts, Accept(c, v) PROVE DraftsHaveCommands'
    <2>. DEFINE i == request[c].item
    <2>1. AcceptEffect(c, v, i)
      BY <1>2, AcceptRows
    <2>2. \A j \in Items : review'[j].post = review[j].post
      <3>1. review'[i].post = review[i].post
        BY <1>2, <2>1 DEF AcceptEffect, Accept, TypeOK, ReviewRow
      <3>. QED
        BY <2>1, <3>1 DEF AcceptEffect
    <2>. HIDE DEF i
    <2>3. \A d \in Commands : command[d].post # None =>
              command'[d].post = command[d].post /\ command'[d].item = command[d].item
      BY <2>1 DEF AcceptEffect, NoCommand
    <2>. QED
      BY <2>2, <2>3 DEF DraftsHaveCommands
  <1>3. ASSUME NEW w \in Workers, CommitDraft(w) PROVE DraftsHaveCommands'
    <2>. DEFINE i == Item(w)  c == Cmd(w)  d == worker[w].draft
    <2>1. /\ i \in Items /\ c \in Commands /\ d \in Drafts /\ d # None
          /\ review[i].post = None /\ command[c].item = i
      BY <1>3, CommitDraftRows DEF Item, Cmd
    <2>2. /\ review'[i].post = d /\ \A j \in Items \ {i} : review'[j] = review[j]
          /\ \A b \in Commands \ {c} : command'[b] = command[b]
      BY <1>3, <2>1 DEF CommitDraft, TypeOK, ReviewRow
    <2>3. command'[c].post = d /\ command'[c].item = i
      BY <1>3, <2>1 DEF CommitDraft, Released, TypeOK, CommandRow, CommandFields
    <2>. HIDE DEF i, c, d
    <2>. QED
      BY <2>1, <2>2, <2>3 DEF DraftsHaveCommands
  <1>. QED
    BY <1>1, <1>2, <1>3, WhoDecides

\* The fence refuses whoever would publish or schedule the draft of a rejected item.
LEMMA FenceRefuses ==
    ASSUME TypeOK, DecisionLinks, DraftsHaveCommands,
           NEW p \in Drafts, NEW w \in Workers \cup {None}, Allowed(p, w),
           NEW i \in Items, review[i].status = "REJECTED"
    PROVE  review[i].post # p
  <1>. SUFFICES ASSUME review[i].post = p PROVE FALSE
    OBVIOUS
  <1>1. p # None /\ post[p].item = i
    BY ConstantsAssumption DEF DecisionLinks, ItemLinks
  <1>2. ItemsOf(p) # {}
    BY <1>1 DEF DraftsHaveCommands, ItemsOf
  <1>3. \A j \in ItemsOf(p) : j = i
    BY <1>1 DEF ItemsOf, DecisionLinks, CommandLinks
  <1>4. PICK c \in Commands : control[i].active = c /\ Standing(c)
    BY <1>2, <1>3 DEF Allowed
  <1>. QED
    BY <1>4, ConstantsAssumption DEF Standing, DecisionLinks, ItemLinks

\* The draft of a rejected item stays a draft, whoever works on it: a late worker, a
\* second administrator, the schedule.  Where no draft was made before review commands.
THEOREM RejectionsHold == LegacyItems = {} => (Spec => []RejectedStaysDraft)
  <1>. SUFFICES ASSUME LegacyItems = {} PROVE Spec => []RejectedStaysDraft
    OBVIOUS
  <1>1. Init => DraftsHaveCommands /\ RejectedStaysDraft
    BY DEF Init, DraftsHaveCommands, RejectedStaysDraft
  <1>2. TypeOK /\ DecisionLinks /\ DraftKeepsImages /\ DraftsHaveCommands /\ RejectedStaysDraft
        /\ [Next]_vars => (DraftsHaveCommands /\ RejectedStaysDraft)'
    <2>. SUFFICES ASSUME TypeOK, DecisionLinks, DraftKeepsImages, DraftsHaveCommands,
                         RejectedStaysDraft, [Next]_vars
                  PROVE  RejectedStaysDraft'
      BY DraftsHaveCommandsStep
    <2>1. ASSUME NEW c \in Commands, NEW v \in Verdicts, Accept(c, v) PROVE RejectedStaysDraft'
      <3>. DEFINE i == request[c].item
      <3>1. AcceptEffect(c, v, i)
        BY <2>1, AcceptRows
      <3>2. /\ review'[i].post = review[i].post /\ UNCHANGED post
            /\ review[i].post # None => post[review[i].post].status = "DRAFT"
        BY <2>1, <3>1 DEF AcceptEffect, Accept, FitsLinkedDraft, TypeOK, ReviewRow
      <3>. HIDE DEF i
      <3>. QED
        BY <3>1, <3>2 DEF AcceptEffect, RejectedStaysDraft
    <2>2. ASSUME NEW w \in Workers, CommitDraft(w) PROVE RejectedStaysDraft'
      <3>. DEFINE i == Item(w)  d == worker[w].draft
      <3>1. /\ i \in Items /\ d \in Drafts /\ post[d].item = None /\ i # None
            /\ review[i].status = "APPROVED"
        BY <2>2, CommitDraftRows
      <3>2. /\ review'[i].status = "APPROVED"
            /\ \A j \in Items \ {i} : review'[j] = review[j]
            /\ \A e \in Drafts \ {d} : post'[e] = post[e]
        BY <2>2, <3>1 DEF CommitDraft, TypeOK, ReviewRow
      <3>3. \A j \in Items : review[j].post # d
        BY <3>1, ConstantsAssumption DEF DecisionLinks, ItemLinks
      <3>. HIDE DEF i, d
      <3>. QED
        BY <3>1, <3>2, <3>3 DEF RejectedStaysDraft, TypeOK, ReviewRow
    <2>3. ASSUME UNCHANGED review, NEW p \in Drafts, NEW w \in Workers \cup {None}, Allowed(p, w),
                 \A d \in Drafts \ {p} : post'[d] = post[d]
          PROVE  RejectedStaysDraft'
      BY <2>3, FenceRefuses DEF RejectedStaysDraft, TypeOK, ReviewRow
    <2>4. ASSUME NEW w \in Workers, CommitPublish(w) PROVE RejectedStaysDraft'
      <3>1. /\ worker[w].post \in Drafts /\ Allowed(worker[w].post, w) /\ UNCHANGED review
            /\ \A d \in Drafts \ {worker[w].post} : post'[d] = post[d]
        BY <2>4, PublisherHasPost DEF CommitPublish, MayPublish, reviewVars, TypeOK
      <3>. QED
        BY <3>1, <2>3
    <2>5. ASSUME NEW p \in Drafts, NEW change \in Releases \cup Editorial, ChangePost(p, change)
          PROVE  RejectedStaysDraft'
      <3>1. UNCHANGED review /\ \A d \in Drafts \ {p} : post'[d] = post[d]
        BY <2>5 DEF ChangePost, reviewVars, TypeOK
      <3>2. CASE change \in Releases
        BY <2>3, <2>5, <3>1, <3>2 DEF ChangePost
      <3>3. CASE change \in Editorial
        <4>1. post[p].status = "DRAFT" => post'[p].status = "DRAFT"
          BY <2>5, <3>3 DEF ChangePost, Editorial, TypeOK
        <4>. QED
          BY <3>1, <4>1 DEF RejectedStaysDraft, TypeOK, ReviewRow
      <3>. QED
        BY <3>2, <3>3
    <2>6. CASE UNCHANGED <<review, post>>
      BY <2>6 DEF RejectedStaysDraft
    <2>. QED
      BY <2>1, <2>2, <2>4, <2>5, <2>6, WhoTouchesPosts, WhoDecides DEF PostsKept
  <1>. QED
    BY <1>1, <1>2, DecisionsLinked, DraftsKeepImages, PTL DEF Spec

----------------------------------------------------------------------------
(* Messages that are open for voting *)

\* What every step leaves alone but those that make a message, decide, or record a publication.
MessagesKept ==
    /\ UNCHANGED control /\ \A i \in Items : delivery'[i] = "OPEN" => delivery[i] = "OPEN"
    /\ \A c \in Commands : /\ command'[c].action = command[c].action
                           /\ command'[c].stage = "PUBLISHED" => command[c].stage = "PUBLISHED"

LEMMA MessageKept ==
    ASSUME TypeOK, UNCHANGED <<control, delivery>>, NEW c \in Commands, NEW r,
           command' = [command EXCEPT ![c] = r], r.action = command[c].action,
           r.stage # "PUBLISHED" \/ r.stage = command[c].stage
    PROVE  MessagesKept
  <1>1. command'[c] = r /\ \A d \in Commands \ {c} : command'[d] = command[d]
    BY DEF TypeOK
  <1>. QED
    BY <1>1 DEF MessagesKept

LEMMA WhoTouchesMessages ==
    ASSUME TypeOK, DecisionLinks, [Next]_vars
    PROVE  \/ \E c \in Commands, v \in Verdicts : Accept(c, v)
           \/ \E w \in Workers : RecordPublished(w)
           \/ \E i \in Items : Deliver(i)
           \/ MessagesKept
  <1>1. CASE UNCHANGED <<control, command, delivery>>
    BY <1>1 DEF MessagesKept
  <1>2. ASSUME NEW w \in Workers, NEW c \in Commands, Claim(w, c) PROVE MessagesKept
    <2>. DEFINE r == [command[c] EXCEPT !.lease = w, !.live = TRUE]
    <2>1. r.action = command[c].action /\ r.stage = command[c].stage
      BY DEF TypeOK, CommandRow, CommandFields
    <2>2. command' = [command EXCEPT ![c] = r] /\ UNCHANGED <<control, delivery>>
      BY <1>2 DEF Claim, outside
    <2>. HIDE DEF r
    <2>. QED
      BY <2>1, <2>2, MessageKept
  <1>3. ASSUME NEW c \in Commands, LeaseExpires(c) PROVE MessagesKept
    <2>. DEFINE r == [command[c] EXCEPT !.live = FALSE]
    <2>1. r.action = command[c].action /\ r.stage = command[c].stage
      BY DEF TypeOK, CommandRow, CommandFields
    <2>2. command' = [command EXCEPT ![c] = r] /\ UNCHANGED <<control, delivery>>
      BY <1>3 DEF LeaseExpires, outside
    <2>. HIDE DEF r
    <2>. QED
      BY <2>1, <2>2, MessageKept
  <1>4. ASSUME NEW w \in Workers, CommitDraft(w) PROVE MessagesKept
    <2>. DEFINE c == Cmd(w)
                r == [Released(command[c]) EXCEPT
                         !.stage = "DRAFTED", !.post = worker[w].draft, !.postVersion = 1,
                         !.reviewVersion = review[Item(w)].version + 1]
    <2>1. c \in Commands /\ command[c] \in CommandFields
      BY <1>4, CommitDraftRows DEF TypeOK, CommandRow
    <2>2. r.action = command[c].action /\ r.stage = "DRAFTED"
      BY <2>1 DEF CommandFields, Released
    <2>3. command' = [command EXCEPT ![c] = r] /\ UNCHANGED <<control, delivery>>
      BY <1>4 DEF CommitDraft, outside
    <2>. HIDE DEF c, r
    <2>. QED
      BY <2>1, <2>2, <2>3, MessageKept
  <1>5. ASSUME NEW w \in Workers, Settle(w) PROVE MessagesKept
    <2>. DEFINE c == Cmd(w)
                r == [Released(command[c]) EXCEPT
                         !.stage = IF worker[w].error = "client" THEN "NEEDS_ADMIN"
                                   ELSE command[c].stage]
    <2>1. CASE ~Holds(w, c)
      BY <1>5, <2>1 DEF Settle, MessagesKept, outside
    <2>2. CASE Holds(w, c)
      <3>1. c \in Commands /\ command[c] \in CommandFields
        BY <1>5, <2>2, WorkersRow DEF Settle, Holds, At, CommandRow
      <3>2. r.action = command[c].action /\ (r.stage # "PUBLISHED" \/ r.stage = command[c].stage)
        BY <3>1 DEF CommandFields, Released
      <3>3. command' = [command EXCEPT ![c] = r] /\ UNCHANGED <<control, delivery>>
        BY <1>5, <2>2 DEF Settle, outside
      <3>. HIDE DEF c, r
      <3>. QED
        BY <3>1, <3>2, <3>3, MessageKept
    <2>. QED
      BY <2>1, <2>2
  <1>6. ASSUME NEW i \in Items, ReconcileExpired(i) PROVE MessagesKept
    BY <1>6 DEF ReconcileExpired, Cleaned, MessagesKept, TypeOK, reviewVars
  <1>. QED
    BY <1>1, <1>2, <1>3, <1>4, <1>5, <1>6
    DEF Next, Ask, Advance, Works, Around, vars, Select, Look, ReadEpoch, Abandon,
        Authorize, Prepare, CheckPost, StartPublish, CommitPublish, Refuse, Recover,
        DiscardPrepared, Outage, WorkerDies, ExpireStaged, ExpireOriginal,
        Revoke, Reinstate, ReceiptExpires, ChangePost, reviewVars, outside

\* A message is open for votes only while Discord has the say and its item is not rejected or
\* published: whoever decides otherwise closes it in the same transaction.
THEOREM OpenMessagesUndecided == Spec => []OpenMessageIsUndecided
  <1>1. Init => OpenMessageIsUndecided
    BY DEF Init, OpenMessageIsUndecided
  <1>2. TypeOK /\ DecisionLinks /\ OpenMessageIsUndecided /\ [Next]_vars => OpenMessageIsUndecided'
    <2>. SUFFICES ASSUME TypeOK, DecisionLinks, OpenMessageIsUndecided, [Next]_vars
                  PROVE  OpenMessageIsUndecided'
      OBVIOUS
    <2>1. CASE MessagesKept
      BY <2>1 DEF MessagesKept, OpenMessageIsUndecided
    <2>2. ASSUME NEW i \in Items, Deliver(i) PROVE OpenMessageIsUndecided'
      <3>1. control[i].active \notin Commands
        BY <2>2, ConstantsAssumption DEF Deliver
      <3>. QED
        BY <2>2, <3>1 DEF Deliver, OpenMessageIsUndecided, reviewVars, TypeOK
    <2>3. ASSUME NEW w \in Workers, RecordPublished(w) PROVE OpenMessageIsUndecided'
      <3>. DEFINE c == Cmd(w)  i == command[c].item
      <3>1. /\ c \in Commands /\ command[c] \in CommandFields /\ i \in Items
            /\ InForce(c) /\ UNCHANGED control
        BY <2>3, WorkersRow DEF RecordPublished, MayRecord, Holds, At, Item, Cmd, CommandRow, Unfinished
      <3>2. \A d \in Commands \ {c} : command'[d] = command[d]
        BY <2>3 DEF RecordPublished, TypeOK
      <3>3. delivery'[i] # "OPEN" /\ \A j \in Items \ {i} : delivery'[j] = delivery[j]
        BY <2>3, <3>1 DEF RecordPublished, Cleaned, TypeOK
      <3>4. \A j \in Items \ {i} : control[j].active # c
        BY <3>1, ConstantsAssumption DEF DecisionLinks, ItemLinks
      <3>. HIDE DEF c, i
      <3>. QED
        BY <3>1, <3>2, <3>3, <3>4 DEF OpenMessageIsUndecided
    <2>4. ASSUME NEW c \in Commands, NEW v \in Verdicts, Accept(c, v) PROVE OpenMessageIsUndecided'
      <3>. DEFINE i == request[c].item
      <3>1. AcceptEffect(c, v, i)
        BY <2>4, AcceptRows
      <3>2. /\ delivery'[i] = "OPEN" => ~Closes(c, v) /\ v \in Possible(c)
            /\ \A j \in Items \ {i} : delivery'[j] = delivery[j]
        BY <2>4, <3>1 DEF Accept, Cleaned, AcceptEffect, TypeOK
      <3>3. ASSUME delivery'[i] = "OPEN"
            PROVE  /\ control'[i].authority = "DISCORD" /\ control'[i].active = c
                   /\ command'[c].action = "APPROVE_PUBLISH" /\ command'[c].stage # "PUBLISHED"
        <4>1. Origin[c] = "DISCORD" /\ v = "APPROVE_PUBLISH"
          BY <3>2, <3>3, ConstantsAssumption DEF Closes, Possible, Verdicts, Origins
        <4>. QED
          BY <3>1, <4>1 DEF AcceptEffect, Decided
      <3>4. ASSUME NEW j \in Items \ {i}, NEW d \in Commands, control[j].active = d
            PROVE  /\ command'[d].action = command[d].action
                   /\ command'[d].stage = "PUBLISHED" => command[d].stage = "PUBLISHED"
        <4>1. d # c
          BY <3>1, <3>4, ConstantsAssumption DEF AcceptEffect, NoCommand, DecisionLinks, ItemLinks
        <4>. QED
          BY <3>1, <4>1 DEF AcceptEffect
      <3>5. \A j \in Items \ {i} : control'[j] = control[j]
        BY <3>1 DEF AcceptEffect
      <3>. HIDE DEF i
      <3>. QED
        BY <3>2, <3>3, <3>4, <3>5 DEF OpenMessageIsUndecided
    <2>. QED
      BY <2>1, <2>2, <2>3, <2>4, WhoTouchesMessages
  <1>. QED
    BY <1>1, <1>2, DecisionsLinked, PTL DEF Spec

-----------------------------------------------------------------------------
(* The refinement: every step of a request, a worker or an editor is one step *)
(* of a decision (ReviewDecision), or none.                                   *)

(* What the abstract state of an item depends on *)

\* What a command at a stage means for its item.
Bearing(stage) == IF stage = "REJECTED" THEN "REJECTED"
                  ELSE IF stage \in {"APPROVED", "DRAFTED", "PUBLISHED"} THEN "APPROVED"
                  ELSE "OPEN"

\* What a post in a status means for the item it was made of.
Shown(status) == IF status = "PUBLISHED" THEN "PUBLIC"
                 ELSE IF status \in {"HIDDEN_REVIEW", "REMOVED"} THEN "WITHDRAWN"
                 ELSE IF status \in Publishable THEN "DRAFT"
                 ELSE "NONE"

LEMMA VerdictIsBearing ==
    \A i \in Items : VerdictOn(i) = IF control[i].active = None THEN "OPEN"
                                    ELSE Bearing(command[control[i].active].stage)
  BY DEF VerdictOn, Bearing

\* The article of an item is what its only post shows.
ArticlesShown ==
    \A i \in Items :
        /\ \A d \in Drafts : post[d].item = i => ArticleOf(i) = Shown(post[d].status)
        /\ (\A d \in Drafts : post[d].item # i) => ArticleOf(i) = "NONE"

LEMMA LinkedArticlesShown == DecisionLinks => ArticlesShown
  <1>. SUFFICES ASSUME DecisionLinks, NEW i \in Items
                PROVE  /\ \A d \in Drafts : post[d].item = i => ArticleOf(i) = Shown(post[d].status)
                       /\ (\A d \in Drafts : post[d].item # i) => ArticleOf(i) = "NONE"
    BY DEF ArticlesShown
  <1>1. ASSUME NEW d \in Drafts, post[d].item = i PROVE ArticleOf(i) = Shown(post[d].status)
    <2>1. {e \in Drafts : post[e].item = i} = {d}
      BY <1>1, ConstantsAssumption DEF DecisionLinks, DraftLinks
    <2>. QED
      BY <2>1 DEF ArticleOf, Shown
  <1>2. ASSUME \A d \in Drafts : post[d].item # i PROVE ArticleOf(i) = "NONE"
    <2>1. {e \in Drafts : post[e].item = i} = {}
      BY <1>2
    <2>. QED
      BY <2>1 DEF ArticleOf
  <1>. QED
    BY <1>1, <1>2

VerdictsKept == UNCHANGED control /\ \A c \in Commands : Bearing(command'[c].stage) = Bearing(command[c].stage)

LEMMA KeptVerdicts ==
    ASSUME TypeOK, VerdictsKept
    PROVE  \A i \in Items : VerdictOn(i)' = VerdictOn(i)
  BY DEF TypeOK, VerdictsKept, VerdictOn, Bearing

LEMMA KeptArticles ==
    ASSUME UNCHANGED post
    PROVE  \A i \in Items : ArticleOf(i)' = ArticleOf(i)
  BY DEF ArticleOf

----------------------------------------------------------------------------
(* The steps of a decision, in terms of the state of each item *)

LEMMA StuttersMap ==
    ASSUME \A j \in Items : VerdictOn(j)' = VerdictOn(j) /\ ArticleOf(j)' = ArticleOf(j)
    PROVE  UNCHANGED Decision!vars
  BY DEF Decision!vars

LEMMA VerdictsMap ==
    ASSUME NEW i \in Items, NEW v, VerdictOn(i)' = v,
           \A j \in Items \ {i} : VerdictOn(j)' = VerdictOn(j),
           \A j \in Items : ArticleOf(j)' = ArticleOf(j),
           \/ v \in {"APPROVED", "REJECTED"} /\ ArticleOf(i) \in {"NONE", "DRAFT"}
           \/ v = "OPEN" /\ VerdictOn(i) = "APPROVED"
    PROVE  Decision!Next
  <1>1. CASE v \in {"APPROVED", "REJECTED"} /\ ArticleOf(i) \in {"NONE", "DRAFT"}
    <2>1. Decision!Decide(i, v)
      BY <1>1 DEF Decision!Decide
    <2>. QED
      BY <1>1, <2>1 DEF Decision!Next
  <1>2. CASE v = "OPEN" /\ VerdictOn(i) = "APPROVED"
    <2>1. Decision!GiveUp(i)
      BY <1>2 DEF Decision!GiveUp
    <2>. QED
      BY <2>1 DEF Decision!Next
  <1>. QED
    BY <1>1, <1>2

LEMMA ArticlesMap ==
    ASSUME NEW i \in Items, NEW a, ArticleOf(i)' = a,
           \A j \in Items \ {i} : ArticleOf(j)' = ArticleOf(j),
           \A j \in Items : VerdictOn(j)' = VerdictOn(j),
           \/ /\ a = "DRAFT" /\ VerdictOn(i) = "APPROVED"
              /\ \A j \in Items : Source[j] = Source[i] => ArticleOf(j) = "NONE"
           \/ a = "PUBLIC" /\ VerdictOn(i) = "APPROVED" /\ ArticleOf(i) = "DRAFT"
           \/ a = "PUBLIC" /\ ArticleOf(i) = "WITHDRAWN"
           \/ a = "WITHDRAWN" /\ ArticleOf(i) = "PUBLIC"
    PROVE  Decision!Next
  <1>1. Decision!Become(i, a)
    BY DEF Decision!Become
  <1>. QED
    BY <1>1 DEF Decision!Next, Decision!Draft, Decision!Publish, Decision!Restore, Decision!Withdraw

----------------------------------------------------------------------------
(* Which steps of the service are steps of a decision *)

GivesUp(w) == Settle(w) /\ Holds(w, Cmd(w)) /\ worker[w].error = "client"

LEMMA StageKept ==
    ASSUME TypeOK, UNCHANGED control, NEW c \in Commands, NEW r,
           command' = [command EXCEPT ![c] = r], Bearing(r.stage) = Bearing(command[c].stage)
    PROVE  VerdictsKept
  <1>1. command'[c] = r /\ \A d \in Commands \ {c} : command'[d] = command[d]
    BY DEF TypeOK
  <1>. QED
    BY <1>1 DEF VerdictsKept

LEMMA WhoMoves ==
    ASSUME TypeOK, DecisionLinks, [Next]_vars
    PROVE  \/ \E c \in Commands, v \in Verdicts : Accept(c, v)
           \/ \E w \in Workers : CommitDraft(w) \/ CommitPublish(w) \/ GivesUp(w)
           \/ \E p \in Drafts, change \in Releases \cup Editorial : ChangePost(p, change)
           \/ VerdictsKept /\ UNCHANGED post
  <1>1. CASE UNCHANGED <<control, command, post>>
    BY <1>1 DEF VerdictsKept
  <1>2. ASSUME NEW w \in Workers, NEW c \in Commands, Claim(w, c)
        PROVE  VerdictsKept /\ UNCHANGED post
    <2>. DEFINE r == [command[c] EXCEPT !.lease = w, !.live = TRUE]
    <2>1. r.stage = command[c].stage
      BY DEF TypeOK, CommandRow, CommandFields
    <2>2. command' = [command EXCEPT ![c] = r] /\ UNCHANGED <<control, post>>
      BY <1>2 DEF Claim
    <2>. HIDE DEF r
    <2>. QED
      BY <2>1, <2>2, StageKept
  <1>3. ASSUME NEW c \in Commands, LeaseExpires(c) PROVE VerdictsKept /\ UNCHANGED post
    <2>. DEFINE r == [command[c] EXCEPT !.live = FALSE]
    <2>1. r.stage = command[c].stage
      BY DEF TypeOK, CommandRow, CommandFields
    <2>2. command' = [command EXCEPT ![c] = r] /\ UNCHANGED <<control, post>>
      BY <1>3 DEF LeaseExpires
    <2>. HIDE DEF r
    <2>. QED
      BY <2>1, <2>2, StageKept
  <1>4. ASSUME NEW w \in Workers, RecordPublished(w) PROVE VerdictsKept /\ UNCHANGED post
    <2>. DEFINE c == Cmd(w)
                r == [Released(command[c]) EXCEPT
                         !.stage = "PUBLISHED", !.postVersion = post[worker[w].post].version]
    <2>1. c \in Commands /\ command[c] \in CommandFields /\ command[c].stage \in Unfinished
      BY <1>4, WorkersRow DEF RecordPublished, MayRecord, Holds, At, CommandRow
    <2>2. Bearing(r.stage) = Bearing(command[c].stage)
      BY <2>1 DEF CommandFields, Released, Bearing, Unfinished
    <2>3. command' = [command EXCEPT ![c] = r] /\ UNCHANGED <<control, post>>
      BY <1>4 DEF RecordPublished
    <2>. HIDE DEF c, r
    <2>. QED
      BY <2>1, <2>2, <2>3, StageKept
  <1>5. ASSUME NEW w \in Workers, Settle(w), ~GivesUp(w) PROVE VerdictsKept /\ UNCHANGED post
    <2>. DEFINE c == Cmd(w)
                r == [Released(command[c]) EXCEPT !.stage = command[c].stage]
    <2>1. CASE ~Holds(w, c)
      BY <1>5, <2>1 DEF Settle, VerdictsKept
    <2>2. CASE Holds(w, c)
      <3>1. c \in Commands /\ command[c] \in CommandFields
        BY <1>5, <2>2, WorkersRow DEF Settle, Holds, At, CommandRow
      <3>2. r.stage = command[c].stage
        BY <3>1 DEF CommandFields, Released
      <3>3. command' = [command EXCEPT ![c] = r] /\ UNCHANGED <<control, post>>
        BY <1>5, <2>2 DEF Settle, GivesUp
      <3>. HIDE DEF c, r
      <3>. QED
        BY <3>1, <3>2, <3>3, StageKept
    <2>. QED
      BY <2>1, <2>2
  <1>. QED
    BY <1>1, <1>2, <1>3, <1>4, <1>5
    DEF Next, Ask, Advance, Works, Around, vars, Deliver, Select, Look, ReadEpoch, Abandon,
        Authorize, Prepare, CheckPost, StartPublish, Refuse, Recover, DiscardPrepared, Outage,
        WorkerDies, ExpireStaged, ExpireOriginal, ReconcileExpired, Revoke, Reinstate,
        ReceiptExpires, reviewVars

LEMMA AcceptDecides ==
    ASSUME TypeOK, DecisionLinks, NEW c \in Commands, NEW v \in Verdicts, Accept(c, v)
    PROVE  Decision!Next
  <1>. SUFFICES ASSUME NEW i \in Items, i = request[c].item PROVE Decision!Next
    BY AcceptRows DEF AcceptEffect
  <1>. DEFINE verdict == IF v = "REJECT" THEN "REJECTED" ELSE "APPROVED"
  <1>1. AcceptEffect(c, v, i)
    BY AcceptRows
  <1>3. VerdictOn(i)' = verdict
    <2>1. control'[i].active = c /\ c # None
      BY <1>1, ConstantsAssumption DEF AcceptEffect
    <2>2. Bearing(command'[c].stage) = verdict
      BY <1>1 DEF AcceptEffect, Decided, Bearing
    <2>. QED
      BY <2>1, <2>2 DEF VerdictOn, Bearing
  <1>4. ASSUME NEW j \in Items \ {i} PROVE VerdictOn(j)' = VerdictOn(j)
    <2>. DEFINE d == control[j].active
    <2>1. control'[j].active = d
      BY <1>1 DEF AcceptEffect
    <2>2. ASSUME d # None PROVE command'[d].stage = command[d].stage
      <3>1. d \in Commands /\ command[d].item = j /\ d # c
        BY <1>1, <2>2 DEF AcceptEffect, NoCommand, TypeOK, DecisionLinks, ItemLinks
      <3>2. ~Cancels(c, d)
        BY <3>1 DEF Cancels
      <3>. QED
        BY <3>1, <3>2 DEF Accept
    <2>. QED
      BY <2>1, <2>2 DEF VerdictOn
  <1>5. \A j \in Items : ArticleOf(j)' = ArticleOf(j)
    BY KeptArticles DEF Accept
  <1>6. ArticleOf(i) \in {"NONE", "DRAFT"}
    <2>1. CASE review[i].post = None
      <3>1. \A d \in Drafts : post[d].item # i
        BY <2>1, ConstantsAssumption DEF DecisionLinks, DraftLinks
      <3>. QED
        BY <3>1, LinkedArticlesShown DEF ArticlesShown
    <2>2. CASE review[i].post # None
      <3>1. /\ review[i].post \in Drafts /\ post[review[i].post].item = i
            /\ post[review[i].post].status = "DRAFT"
        BY <2>2 DEF Accept, FitsLinkedDraft, DecisionLinks, ItemLinks, TypeOK, ReviewRow
      <3>. QED
        BY <3>1, LinkedArticlesShown DEF ArticlesShown, Shown, Publishable
    <2>. QED
      BY <2>1, <2>2
  <1>2. verdict \in {"APPROVED", "REJECTED"}
    OBVIOUS
  <1>. HIDE DEF verdict
  <1>. QED
    BY <1>2, <1>3, <1>4, <1>5, <1>6, VerdictsMap

LEMMA GivesUpDecides ==
    ASSUME TypeOK, DecisionLinks, NEW w \in Workers, GivesUp(w)
    PROVE  Decision!Next
  <1>. SUFFICES ASSUME NEW c \in Commands, c = Cmd(w), NEW i \in Items, i = command[c].item
                PROVE  Decision!Next
    <2>1. ~At(w, "idle") /\ command[Cmd(w)].stage \in Unfinished
      BY DEF GivesUp, Settle, Holds, At
    <2>2. Cmd(w) \in Commands /\ command[Cmd(w)].item \in Items
      BY <2>1, WorkersRow DEF Unfinished, Item
    <2>. QED
      BY <2>2
  <1>. DEFINE r == [Released(command[c]) EXCEPT !.stage = "NEEDS_ADMIN"]
  <1>1. command[c] \in CommandFields /\ c # None
    BY ConstantsAssumption DEF TypeOK, CommandRow
  <1>2. command[c].stage \in Unfinished /\ control[i].active = c
    BY DEF GivesUp, Holds, InForce
  <1>3. command' = [command EXCEPT ![c] = r] /\ UNCHANGED <<control, post>>
    BY DEF GivesUp, Settle
  <1>4. r.stage = "NEEDS_ADMIN"
    BY <1>1 DEF Released, CommandFields
  <1>. HIDE DEF r
  <1>5. command'[c] = r /\ \A d \in Commands \ {c} : command'[d] = command[d]
    BY <1>3 DEF TypeOK
  <1>6. VerdictOn(i) = "APPROVED" /\ VerdictOn(i)' = "OPEN"
    BY <1>1, <1>2, <1>3, <1>4, <1>5 DEF VerdictOn, Unfinished
  <1>7. ASSUME NEW j \in Items \ {i} PROVE VerdictOn(j)' = VerdictOn(j)
    <2>1. control[j].active # c
      BY <1>1 DEF DecisionLinks, ItemLinks
    <2>. QED
      BY <1>3, <1>5, <2>1 DEF VerdictOn, TypeOK
  <1>8. \A j \in Items : ArticleOf(j)' = ArticleOf(j)
    BY <1>3, KeptArticles
  <1>. QED
    BY <1>1, <1>6, <1>7, <1>8, VerdictsMap

LEMMA CommitDraftDecides ==
    ASSUME TypeOK, DecisionLinks, ArticlesShown', NEW w \in Workers, CommitDraft(w)
    PROVE  Decision!Next
  <1>. SUFFICES ASSUME NEW i \in Items, i = Item(w) PROVE Decision!Next
    BY CommitDraftRows
  <1>. DEFINE c == Cmd(w)  d == worker[w].draft
              r == [Released(command[c]) EXCEPT !.stage = "DRAFTED", !.post = d, !.postVersion = 1,
                                                !.reviewVersion = review[i].version + 1]
  <1>1. /\ i # None /\ c \in Commands /\ d \in Drafts /\ post[d].item = None
        /\ command[c].stage \in Unfinished /\ control[i].active = c /\ ~Drafted(i)
    BY CommitDraftRows
  <1>2. /\ command' = [command EXCEPT ![c] = r] /\ UNCHANGED control
        /\ post'[d] = [status |-> "DRAFT", version |-> 1, item |-> i]
        /\ \A e \in Drafts \ {d} : post'[e] = post[e]
    BY <1>1 DEF CommitDraft, TypeOK
  <1>3. Bearing(r.stage) = Bearing(command[c].stage) /\ Bearing(command[c].stage) = "APPROVED"
    BY <1>1 DEF Bearing, Released, Unfinished, TypeOK, CommandRow, CommandFields
  <1>. HIDE DEF c, d, r
  <1>4. \A j \in Items : VerdictOn(j)' = VerdictOn(j)
    BY <1>1, <1>2, <1>3, StageKept, KeptVerdicts
  <1>5. VerdictOn(i) = "APPROVED"
    BY <1>1, <1>3, ConstantsAssumption, VerdictIsBearing
  <1>6. \A j \in Items : Source[j] = Source[i] => ArticleOf(j) = "NONE"
    BY <1>1, LinkedArticlesShown, ConstantsAssumption DEF Drafted, ArticlesShown
  <1>7. ArticleOf(i)' = "DRAFT"
    BY <1>1, <1>2 DEF ArticlesShown, Shown, Publishable
  <1>8. ASSUME NEW j \in Items \ {i} PROVE ArticleOf(j)' = ArticleOf(j)
    <2>1. j # None
      BY ConstantsAssumption
    <2>2. \A e \in Drafts : post'[e].item = j <=> post[e].item = j
      BY <1>1, <1>2, <2>1
    <2>3. \A e \in Drafts : post[e].item = j => post'[e] = post[e]
      BY <1>1, <1>2, <2>1
    <2>. QED
      BY <2>2, <2>3, LinkedArticlesShown DEF ArticlesShown
  <1>. QED
    BY <1>1, <1>4, <1>5, <1>6, <1>7, <1>8, ArticlesMap

\* A post that changes its status changes the article of its item only.
LEMMA PostShows ==
    ASSUME TypeOK, DecisionLinks, ArticlesShown', UNCHANGED <<control, command>>,
           NEW p \in Drafts, post[p].status # "ABSENT", post'[p].item = post[p].item,
           \A d \in Drafts \ {p} : post'[d] = post[d],
           NEW i \in Items, i = post[p].item
    PROVE  /\ ArticleOf(i) = Shown(post[p].status) /\ ArticleOf(i)' = Shown(post'[p].status)
           /\ \A j \in Items \ {i} : ArticleOf(j)' = ArticleOf(j)
           /\ \A j \in Items : VerdictOn(j)' = VerdictOn(j)
  <1>1. ArticleOf(i) = Shown(post[p].status) /\ ArticleOf(i)' = Shown(post'[p].status)
    BY LinkedArticlesShown DEF ArticlesShown
  <1>2. ASSUME NEW j \in Items \ {i} PROVE ArticleOf(j)' = ArticleOf(j)
    <2>1. \A e \in Drafts : /\ post'[e].item = j <=> post[e].item = j
                            /\ post[e].item = j => post'[e] = post[e]
      OBVIOUS
    <2>. QED
      BY <2>1, LinkedArticlesShown DEF ArticlesShown
  <1>3. \A j \in Items : VerdictOn(j)' = VerdictOn(j)
    BY KeptVerdicts DEF VerdictsKept
  <1>. QED
    BY <1>1, <1>2, <1>3

\* Who is let through by the fence carries out an approval.
LEMMA FenceApproves ==
    ASSUME TypeOK, DecisionLinks, DraftsHaveCommands,
           NEW p \in Drafts, post[p].status # "ABSENT", NEW w \in Workers \cup {None}, Allowed(p, w)
    PROVE  VerdictOn(post[p].item) = "APPROVED"
  <1>. DEFINE i == post[p].item
  <1>1. i \in Items /\ review[i].post = p /\ p # None
    BY ConstantsAssumption DEF TypeOK, DecisionLinks, DraftLinks
  <1>2. ItemsOf(p) # {} /\ \A j \in ItemsOf(p) : j = i
    BY <1>1 DEF DraftsHaveCommands, ItemsOf, DecisionLinks, CommandLinks
  <1>3. PICK c \in Commands : control[i].active = c /\ Standing(c)
    BY <1>2 DEF Allowed
  <1>. QED
    BY <1>1, <1>3, ConstantsAssumption, VerdictIsBearing DEF Standing, Bearing

LEMMA PublicationDecides ==
    ASSUME TypeOK, DecisionLinks, DraftsHaveCommands, ArticlesShown',
           \/ \E w \in Workers : CommitPublish(w)
           \/ \E p \in Drafts, change \in Releases \cup Editorial : ChangePost(p, change)
    PROVE  Decision!Next \/ UNCHANGED Decision!vars
  <1>1. ASSUME NEW w \in Workers, CommitPublish(w) PROVE Decision!Next
    <2>. DEFINE p == worker[w].post
    <2>1. p \in Drafts
      BY <1>1, PublisherHasPost
    <2>. SUFFICES ASSUME NEW i \in Items, i = post[p].item PROVE Decision!Next
      BY <1>1, <2>1, PostChanges DEF TypeOK, DecisionLinks, DraftLinks
    <2>2. /\ post[p].status # "ABSENT" /\ post'[p].item = post[p].item
          /\ \A d \in Drafts \ {p} : post'[d] = post[d]
      BY <1>1, <2>1, PostChanges
    <2>3. /\ Allowed(p, w) /\ post[p].status \in Publishable /\ post'[p].status = "PUBLISHED"
          /\ UNCHANGED <<control, command>>
      BY <1>1, <2>1 DEF CommitPublish, MayPublish, Current, reviewVars, TypeOK
    <2>. HIDE DEF p
    <2>4. VerdictOn(i) = "APPROVED"
      BY <2>1, <2>2, <2>3, FenceApproves
    <2>5. Shown(post[p].status) = "DRAFT" /\ Shown(post'[p].status) = "PUBLIC"
      BY <2>3 DEF Shown, Publishable
    <2>6. /\ ArticleOf(i) = "DRAFT" /\ ArticleOf(i)' = "PUBLIC"
          /\ \A j \in Items \ {i} : ArticleOf(j)' = ArticleOf(j)
          /\ \A j \in Items : VerdictOn(j)' = VerdictOn(j)
      BY <2>1, <2>2, <2>3, <2>5, PostShows
    <2>. QED
      BY <2>4, <2>6, ArticlesMap
  <1>2. ASSUME NEW p \in Drafts, NEW change \in Releases \cup Editorial, ChangePost(p, change)
        PROVE  Decision!Next \/ UNCHANGED Decision!vars
    <2>. SUFFICES ASSUME NEW i \in Items, i = post[p].item
                  PROVE  Decision!Next \/ UNCHANGED Decision!vars
      BY <1>2, PostChanges DEF TypeOK, DecisionLinks, DraftLinks
    <2>1. /\ post[p].status # "ABSENT" /\ post'[p].item = post[p].item
          /\ \A d \in Drafts \ {p} : post'[d] = post[d]
      BY <1>2, PostChanges
    <2>2. post[p].status = change[1] /\ post'[p].status = change[2] /\ UNCHANGED <<control, command>>
      BY <1>2 DEF ChangePost, reviewVars, TypeOK
    <2>3. \/ Shown(post'[p].status) = Shown(post[p].status)
          \/ change \in Releases /\ Shown(post[p].status) = "DRAFT" /\ Shown(post'[p].status) = "PUBLIC"
          \/ Shown(post[p].status) = "PUBLIC" /\ Shown(post'[p].status) = "WITHDRAWN"
          \/ Shown(post[p].status) = "WITHDRAWN" /\ Shown(post'[p].status) = "PUBLIC"
      BY <2>2 DEF Releases, Editorial, Shown, Publishable
    <2>4. ASSUME change \in Releases PROVE VerdictOn(i) = "APPROVED"
      <3>1. Allowed(p, None)
        BY <1>2, <2>4 DEF ChangePost
      <3>. QED
        BY <2>1, <3>1, FenceApproves
    <2>5. /\ ArticleOf(i) = Shown(post[p].status) /\ ArticleOf(i)' = Shown(post'[p].status)
          /\ \A j \in Items \ {i} : ArticleOf(j)' = ArticleOf(j)
          /\ \A j \in Items : VerdictOn(j)' = VerdictOn(j)
      BY <2>1, <2>2, PostShows
    <2>6. CASE Shown(post'[p].status) = Shown(post[p].status)
      BY <2>5, <2>6, StuttersMap
    <2>7. CASE Shown(post'[p].status) # Shown(post[p].status)
      BY <2>3, <2>4, <2>5, <2>7, ArticlesMap
    <2>. QED
      BY <2>6, <2>7
  <1>. QED
    BY <1>1, <1>2

\* The service implements ReviewDecision: an article is drafted and published only while the
\* verdict in force is approval, whatever becomes of workers, leases and acknowledgements.
\* Where no draft was made before review commands.
THEOREM DecisionImplemented == LegacyItems = {} => (Spec => ImplementsDecision)
  <1>. SUFFICES ASSUME LegacyItems = {} PROVE Spec => ImplementsDecision
    OBVIOUS
  <1>1. Init => DraftsHaveCommands /\ Decision!Init
    <2>. SUFFICES ASSUME Init PROVE DraftsHaveCommands /\ Decision!Init
      OBVIOUS
    <2>1. DraftsHaveCommands
      BY DEF Init, DraftsHaveCommands
    <2>2. \A i \in Items : VerdictOn(i) = "OPEN"
      BY DEF Init, VerdictOn
    <2>3. \A i \in Items : ArticleOf(i) = "NONE"
      <3>1. \A i \in Items, d \in Drafts : post[d].item # i
        BY ConstantsAssumption DEF Init
      <3>. QED
        BY <3>1, InitLinked, LinkedArticlesShown DEF ArticlesShown
    <2>. QED
      BY <2>1, <2>2, <2>3 DEF Decision!Init
  <1>2. TypeOK /\ DecisionLinks /\ DraftsHaveCommands /\ [Next]_vars => DraftsHaveCommands'
    BY DraftsHaveCommandsStep
  <1>3. TypeOK /\ DecisionLinks /\ DraftsHaveCommands /\ ArticlesShown' /\ [Next]_vars
        => [Decision!Next]_(Decision!vars)
    <2>. SUFFICES ASSUME TypeOK, DecisionLinks, DraftsHaveCommands, ArticlesShown', [Next]_vars
                  PROVE  Decision!Next \/ UNCHANGED Decision!vars
      OBVIOUS
    <2>1. CASE VerdictsKept /\ UNCHANGED post
      BY <2>1, KeptVerdicts, KeptArticles, StuttersMap
    <2>. QED
      BY <2>1, WhoMoves, AcceptDecides, GivesUpDecides, CommitDraftDecides, PublicationDecides
  <1>. QED
    BY <1>1, <1>2, <1>3, DecisionsLinked, LinkedArticlesShown, PTL
    DEF Spec, ImplementsDecision, Decision!Spec

=============================================================================
