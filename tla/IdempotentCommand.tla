------------------------- MODULE IdempotentCommand -------------------------
(***************************************************************************)
(* A command with an Idempotency-Key, end to end: the editor of the        *)
(* administration page (execute in admin.vue), a network that delays       *)
(* requests and loses answers, and PostsService.command with its receipts. *)
(* An editor keeps a key until it knows the outcome; each of its requests  *)
(* is a try, and an earlier try may still be on its way when the next one  *)
(* is made.                                                                *)
(*                                                                         *)
(* Not modelled: a page that is left while its outcome is unknown (the     *)
(* browser warns), and rejections that depend on the request alone.        *)
(***************************************************************************)
EXTENDS Naturals, FiniteSets

CONSTANTS
    Editors,        \* pages of the administration
    Kind,           \* Kind[e]: "CREATE" a draft, or "UPDATE" the post all share
    Keys,           \* bound: keys that randomUUID may return
    Slots,          \* bound: tries of one key on their way at once
    MaxVersion,     \* bound: lock_version of the post
    None

CommandAssumption ==
    /\ Kind \in [Editors -> {"CREATE", "UPDATE"}]
    /\ MaxVersion \in Nat \ {0}
    /\ None \notin Editors \cup Keys \cup Slots

VARIABLES
    editor,     \* [Editors -> local state of the page: pending, recovery]
    command,    \* [Keys -> whose command it is and the lockVersion in its body, once used]
    try,        \* [Keys \X Slots -> a request, its handling, its answer]
    lock,       \* [Keys -> the slot that holds the advisory lock of the key]
    receipt,    \* [Keys -> row of idempotency_request]
    version,    \* lock_version of the post
    taken,      \* the board is closed, an image or the pinned position is another post's
    effects,    \* [Keys -> how often the command of the key was carried out]
    forgotten,  \* keys whose receipt cleanup has deleted
    doubtful    \* history: keys last rejected while another try of theirs was on its way

vars == <<editor, command, try, lock, receipt, version, taken, effects, forgotten, doubtful>>

----------------------------------------------------------------------------
(* Data *)

Free   == [pc |-> "free", answer |-> ""]
Unused == [of |-> None, version |-> 0]
Page   == [pc |-> "idle", key |-> None, slot |-> None, base |-> 1,
           recovering |-> FALSE, confirmed |-> FALSE, done |-> FALSE]

\* The codes after which execute keeps its key: the outcome is not known.
Uncertain == {"IDEMPOTENCY_IN_PROGRESS", "UNAVAILABLE"}
Refusals  == {"POST_VERSION_CONFLICT", "CONFLICT"}
Answers   == Uncertain \cup Refusals \cup {"OK", "UNAUTHORIZED"}

KindOf(k) == Kind[command[k].of]

Init ==
    /\ editor = [e \in Editors |-> Page]
    /\ command = [k \in Keys |-> Unused]
    /\ try = [t \in Keys \X Slots |-> Free]
    /\ lock = [k \in Keys |-> None]
    /\ receipt = [k \in Keys |-> "none"]
    /\ version = 1 /\ taken = FALSE
    /\ effects = [k \in Keys |-> 0]
    /\ forgotten = {} /\ doubtful = {}

----------------------------------------------------------------------------
(* The page *)

Sends(e, k, s) ==
    /\ try[<<k, s>>].pc = "free"
    /\ try' = [try EXCEPT ![<<k, s>>] = [pc |-> "net", answer |-> ""]]

\* readEditor: the page has the post as it is now.
Load(e) ==
    /\ editor[e].pc = "idle" /\ ~editor[e].done
    /\ editor' = [editor EXCEPT ![e].base = version]
    /\ UNCHANGED <<command, try, lock, receipt, version, taken, effects, forgotten, doubtful>>

\* A new signature: a new key.
Save(e, k, s) ==
    /\ editor[e].pc = "idle" /\ ~editor[e].done /\ command[k] = Unused
    /\ Sends(e, k, s)
    /\ command' = [command EXCEPT ![k] = [of |-> e, version |-> editor[e].base]]
    /\ editor' = [editor EXCEPT ![e].pc = "waiting", ![e].key = k, ![e].slot = s]
    /\ UNCHANGED <<lock, receipt, version, taken, effects, forgotten, doubtful>>

\* The same signature: the same key, body and version.
Retry(e, s) ==
    /\ editor[e].pc = "uncertain"
    /\ Sends(e, editor[e].key, s)
    /\ editor' = [editor EXCEPT ![e].pc = "waiting", ![e].slot = s, ![e].recovering = TRUE]
    /\ UNCHANGED <<command, lock, receipt, version, taken, effects, forgotten, doubtful>>

\* Nobody hears an answer that comes later.
GiveUpWaiting(e) ==
    LET t == <<editor[e].key, editor[e].slot>> IN
    /\ editor[e].pc = "waiting"
    /\ editor' = [editor EXCEPT ![e].pc = "uncertain", ![e].slot = None]
    /\ try' = IF try[t].pc = "answer" THEN [try EXCEPT ![t] = Free] ELSE try
    /\ UNCHANGED <<command, lock, receipt, version, taken, effects, forgotten, doubtful>>

\* catch: which answers settle the command, and so release its key.
SettlesEarly(e, a) ==                      \* Bug: a rejected retry always settles it
    ~editor[e].confirmed /\ a \notin Uncertain

SettlesFirstOnly(e, a) ==                  \* Bug: an unknown outcome stays unknown
    ~editor[e].confirmed /\ a \notin Uncertain /\ ~editor[e].recovering

Settles(e, a) ==
    ~editor[e].confirmed /\ a \notin Uncertain /\ ~(editor[e].recovering /\ a = "UNAUTHORIZED")

Hears(e, k, s) == e \in Editors /\ editor[e].pc = "waiting" /\ editor[e].key = k /\ editor[e].slot = s

Told(e, a) ==
    editor' = [editor EXCEPT ![e] =
        IF a = "OK" THEN [@ EXCEPT !.pc = "reading", !.slot = None, !.confirmed = TRUE]
        ELSE IF Settles(e, a) THEN [Page EXCEPT !.base = editor[e].base]
        ELSE [@ EXCEPT !.pc = "uncertain", !.slot = None]]

Answer(k, s) ==
    LET t == try[<<k, s>>] IN
    /\ t.pc = "answer"
    /\ Told(command[k].of, t.answer)
    /\ try' = [try EXCEPT ![<<k, s>>] = Free]
    /\ UNCHANGED <<command, lock, receipt, version, taken, effects, forgotten, doubtful>>

\* The detail read that follows a success: only then the key is released.
ReadDetail(e) ==
    /\ editor[e].pc = "reading"
    /\ editor' = [editor EXCEPT ![e] = [Page EXCEPT !.done = TRUE]]
    /\ UNCHANGED <<command, try, lock, receipt, version, taken, effects, forgotten, doubtful>>

ReadFails(e) ==
    /\ editor[e].pc = "reading"
    /\ editor' = [editor EXCEPT ![e].pc = "uncertain"]
    /\ UNCHANGED <<command, try, lock, receipt, version, taken, effects, forgotten, doubtful>>

----------------------------------------------------------------------------
(* The API: guards, PostsService.command and runCommand *)

Replies(k, s, a) ==
    try' = [try EXCEPT ![<<k, s>>] =
        IF Hears(command[k].of, k, s) THEN [pc |-> "answer", answer |-> a] ELSE Free]

\* The session has ended: the request goes no further.
Unauthorized(k, s) ==
    /\ try[<<k, s>>].pc = "net"
    /\ Replies(k, s, "UNAUTHORIZED")
    /\ UNCHANGED <<editor, command, lock, receipt, version, taken, effects, forgotten, doubtful>>

\* A request that never arrives.
Vanish(k, s) ==
    /\ try[<<k, s>>].pc = "net"
    /\ try' = [try EXCEPT ![<<k, s>>] = Free]
    /\ UNCHANGED <<editor, command, lock, receipt, version, taken, effects, forgotten, doubtful>>

\* The lock of the key is not waited for; under it, the receipt is looked for.

Begin(k, s) ==
    /\ try[<<k, s>>].pc = "net"
    /\ \/ lock[k] # None /\ Replies(k, s, "IDEMPOTENCY_IN_PROGRESS") /\ UNCHANGED lock
       \/ lock[k] = None /\ receipt[k] # "none" /\ Replies(k, s, "OK") /\ UNCHANGED lock
       \/ /\ lock[k] = None /\ receipt[k] = "none"
          /\ try' = [try EXCEPT ![<<k, s>>].pc = "begun"]
          /\ lock' = [lock EXCEPT ![k] = s]
    /\ UNCHANGED <<editor, command, receipt, version, taken, effects, forgotten, doubtful>>

\* What the transaction finds: its receipt, its version, and what others hold at the moment
\* (BOARD_NOT_FOUND, IMAGE_ALREADY_ATTACHED, IMAGE_STATE_CONFLICT, PINNED_ORDER_CONFLICT).
Verdict(k) ==
    IF receipt[k] # "none" THEN "REPLAY"
    ELSE IF KindOf(k) = "UPDATE" /\ command[k].version # version THEN "POST_VERSION_CONFLICT"
    ELSE IF taken THEN "CONFLICT"
    ELSE "OK"

CarryOut(k) ==
    /\ effects' = [effects EXCEPT ![k] = @ + 1]
    /\ version' = IF KindOf(k) = "UPDATE" THEN version + 1 ELSE version

\* Another try may yet do what this one was refused.
Decides(k) ==
    doubtful' = IF Verdict(k) \notin Refusals THEN doubtful
                ELSE IF \E s \in Slots : try[<<k, s>>].pc = "net" THEN doubtful \cup {k}
                ELSE doubtful \ {k}

\* The effect and its receipt are one transaction.
CommitBare(k, s) ==                        \* Bug: the receipt is saved once the effect is committed
    /\ try[<<k, s>>].pc = "begun" /\ (Verdict(k) = "OK" => version < MaxVersion)
    /\ IF Verdict(k) = "OK" THEN CarryOut(k) ELSE UNCHANGED <<effects, version>>
    /\ \/ receipt' = [receipt EXCEPT ![k] = IF Verdict(k) = "OK" THEN "fresh" ELSE @]
       \/ UNCHANGED receipt
    /\ try' = [try EXCEPT ![<<k, s>>] =
           [pc |-> "end", answer |-> IF Verdict(k) = "REPLAY" THEN "OK" ELSE Verdict(k)]]
    /\ Decides(k)
    /\ UNCHANGED <<editor, command, lock, taken, forgotten>>

Commit(k, s) ==
    /\ try[<<k, s>>].pc = "begun" /\ (Verdict(k) = "OK" => version < MaxVersion)
    /\ IF Verdict(k) = "OK"
       THEN CarryOut(k) /\ receipt' = [receipt EXCEPT ![k] = "fresh"]
       ELSE UNCHANGED <<effects, version, receipt>>
    /\ try' = [try EXCEPT ![<<k, s>>] =
           [pc |-> "end", answer |-> IF Verdict(k) = "REPLAY" THEN "OK" ELSE Verdict(k)]]
    /\ Decides(k)
    /\ UNCHANGED <<editor, command, lock, taken, forgotten>>

\* An error before the commit.
CommandFails(k, s) ==
    /\ try[<<k, s>>].pc = "begun"
    /\ try' = [try EXCEPT ![<<k, s>>] = [pc |-> "end", answer |-> "UNAVAILABLE"]]
    /\ UNCHANGED <<editor, command, lock, receipt, version, taken, effects, forgotten, doubtful>>

\* The handler may know no better, when the acknowledgement of its commit is lost.
Unlock(k, s, a) ==
    /\ try[<<k, s>>].pc = "end" /\ a \in {try[<<k, s>>].answer, "UNAVAILABLE"}
    /\ lock' = [lock EXCEPT ![k] = None]
    /\ Replies(k, s, a)
    /\ UNCHANGED <<editor, command, receipt, version, taken, effects, forgotten, doubtful>>

\* The server dies, and the lock with its session.
HandlerDies(k, s) ==
    /\ try[<<k, s>>].pc \in {"begun", "end", "answer"}
    /\ try' = [try EXCEPT ![<<k, s>>] = Free]
    /\ lock' = IF lock[k] = s THEN [lock EXCEPT ![k] = None] ELSE lock
    /\ UNCHANGED <<editor, command, receipt, version, taken, effects, forgotten, doubtful>>

----------------------------------------------------------------------------
(* Around them *)

\* 24 hours pass (bound: once for each key); cleanup deletes what has expired.
ExpireReceipt(k) ==
    /\ receipt[k] = "fresh" /\ k \notin forgotten
    /\ receipt' = [receipt EXCEPT ![k] = "expired"]
    /\ UNCHANGED <<editor, command, try, lock, version, taken, effects, forgotten, doubtful>>

CleanupReceipt(k) ==
    /\ receipt[k] = "expired" /\ receipt' = [receipt EXCEPT ![k] = "none"]
    /\ forgotten' = forgotten \cup {k}
    /\ UNCHANGED <<editor, command, try, lock, version, taken, effects, doubtful>>

OthersAct ==
    /\ taken' = ~taken
    /\ UNCHANGED <<editor, command, try, lock, receipt, version, effects, forgotten, doubtful>>

----------------------------------------------------------------------------

Handle(k, s) == Begin(k, s) \/ Commit(k, s) \/ Answer(k, s) \/ (\E a \in Answers : Unlock(k, s, a))
Fails(k, s)  == Unauthorized(k, s) \/ Vanish(k, s) \/ CommandFails(k, s) \/ HandlerDies(k, s)

Next ==
    \/ \E e \in Editors :
        \/ \E s \in Slots : Retry(e, s) \/ (\E k \in Keys : Save(e, k, s))
        \/ Load(e) \/ GiveUpWaiting(e) \/ ReadDetail(e) \/ ReadFails(e)
    \/ \E k \in Keys :
        \/ \E s \in Slots : Handle(k, s) \/ Fails(k, s)
        \/ ExpireReceipt(k) \/ CleanupReceipt(k)
    \/ OthersAct

Spec == Init /\ [][Next]_vars

Lost(e) == try[<<editor[e].key, editor[e].slot>>].pc = "free"
GivesUpLost(e) == editor[e].pc = "waiting" /\ Lost(e) /\ GiveUpWaiting(e)

\* Requests and answers that are lost, sessions that end, servers that die, reads that
\* fail, and a page that gives up what is still under way.
Faults ==
    \/ \E k \in Keys, s \in Slots :
        \/ Fails(k, s) /\ ~Handle(k, s)
        \/ /\ try[<<k, s>>].answer # "UNAVAILABLE" /\ Hears(command[k].of, k, s)
           /\ Unlock(k, s, "UNAVAILABLE")
    \/ \E e \in Editors :
        \/ ReadFails(e)
        \/ /\ editor[e].pc = "waiting" /\ ~Lost(e) /\ GiveUpWaiting(e)
           /\ ~Answer(editor[e].key, editor[e].slot)

----------------------------------------------------------------------------
(* Properties *)

KeysOf(e) == {k \in Keys : command[k].of = e}

\* Every variable keeps its type, and a try that has begun holds the lock of its key.
TypeOK ==
    /\ editor \in [Editors -> [pc : {"idle", "waiting", "uncertain", "reading"},
                               key : Keys \cup {None}, slot : Slots \cup {None}, base : 1 .. MaxVersion,
                               recovering : BOOLEAN, confirmed : BOOLEAN, done : BOOLEAN]]
    /\ command \in [Keys -> [of : Editors \cup {None}, version : 0 .. MaxVersion]]
    /\ try \in [Keys \X Slots -> [pc : {"free", "net", "begun", "end", "answer"}, answer : Answers \cup {""}]]
    /\ receipt \in [Keys -> {"none", "fresh", "expired"}]
    /\ version \in 1 .. MaxVersion /\ taken \in BOOLEAN
    /\ effects \in [Keys -> 0 .. 2] /\ forgotten \subseteq Keys /\ doubtful \subseteq Keys
    /\ \A k \in Keys, s \in Slots : try[<<k, s>>].pc \in {"begun", "end"} <=> lock[k] = s

\* A save is carried out at most once, however often its page tries and whatever keys
\* it uses: a page creates one draft, and a version of the post is updated once, by
\* one page.  A draft is created again only when the receipt of its first creation was
\* deleted after its 24 hours, or when the page took the rejection of a retry for the
\* outcome while an earlier try was still on its way.
SameSave(k, l) ==
    IF KindOf(k) = "CREATE" THEN command[k].of = command[l].of
    ELSE KindOf(l) = "UPDATE" /\ command[k].version = command[l].version

OnceForEachSave ==
    \A k, l \in {m \in Keys : command[m] # Unused} :
        SameSave(k, l) =>
            \/ effects[k] + (IF k = l THEN 0 ELSE effects[l]) <= 1
            \/ KindOf(k) = "CREATE" /\ {k, l} \cap (forgotten \cup doubtful) # {}

\* A page that says "saved" is right, and so is one about to say so.
SavedIsCarriedOut ==
    \A e \in Editors :
        (editor[e].done \/ editor[e].confirmed) => \E k \in KeysOf(e) : effects[k] > 0

\* A page that has released a key because its command was rejected is right: the command
\* was not carried out, nor will it be, unless another try of the key was on its way when
\* the command was last rejected.  (The page does release the key of a retry that is
\* rejected, though an earlier try may be carried out later.)
RejectedHasNoEffect ==
    \A e \in Editors : \A k \in KeysOf(e) \ (doubtful \cup forgotten) :
        ~editor[e].done /\ editor[e].key # k => effects[k] = 0

\* An administrator who keeps trying learns the outcome, within the 24 hours of the
\* receipt.  (After them a confirmed update whose detail could not be read is answered
\* POST_VERSION_CONFLICT, which does not settle it: the page stays locked.)
OutcomeIsLearnt ==
    \A e \in Editors : []<>(editor[e].pc = "idle" \/ editor[e].key \in forgotten)

\* Together: what the page says of a save is what happened to it.
CommandSound == TypeOK /\ OnceForEachSave /\ SavedIsCarriedOut /\ RejectedHasNoEffect

=============================================================================
