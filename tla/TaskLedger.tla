---------------------------- MODULE TaskLedger ----------------------------
(***************************************************************************)
(* The task ledger of the hub (plugins/hub/task_ledger.py) as its callers   *)
(* in plugins/hub/plugin.py use it: task cards on disk shared by all agent  *)
(* processes, and the expected replies beside them.                         *)
(*                                                                          *)
(* claim, requeue_stalled and terminalize(preserve_active) hold the card's  *)
(* file lock over load and save.  Every other mutation loads the card,      *)
(* changes it in memory and saves the whole card back; the lock covers the  *)
(* write only.  Such an operation is two steps here, Load and Save.  The    *)
(* task cron loads all due cards at once and keeps its copies across the    *)
(* awaits that deliver the reminders, one card after the other.             *)
(*                                                                          *)
(* Time is not modelled: a card may be stalled, due or expired whenever its *)
(* fields allow it.                                                         *)
(***************************************************************************)
EXTENDS Integers, Sequences, FiniteSets

CONSTANTS
  Procs,     \* agent processes, also their identities
  Workers,   \* identities a card can be assigned to, running or not
  Cards,     \* task card ids
  Linked,    \* the cards /hub queue makes, paired with a work slot
  Messages,  \* ids of messages that ask for a reply
  Nobody     \* the empty assignee

ASSUME LedgerAssumption ==
  /\ Procs \subseteq Workers
  /\ Nobody \notin Workers
  /\ Linked \subseteq Cards

VARIABLES
  card,      \* [Cards -> CardType]: the card files
  op,        \* [Procs -> ...]: the handler's operation in flight
  due,       \* [Procs -> [Cards -> ...]]: the cron loop's copies, Absent if none
  waiting,   \* [Procs -> BOOLEAN]: the cron loop awaits a delivery
  sweep,     \* [Procs -> SUBSET Cards]: the sweep cancelled, replies to settle
  replies,   \* _pending_replies.json, oldest first
  claimed    \* workers whose claim() of a card succeeded since it was last open

background == <<due, waiting, sweep>>
vars == <<card, op, background, replies, claimed>>

TERMINAL_STATUSES == {"done", "closed", "cancelled", "obsolete"}
EXPLICIT_TERMINAL_STATUSES == {"cancelled", "obsolete"}
Statuses == {"absent", "open", "active", "qa_review"} \cup TERMINAL_STATUSES

\* audited: terminal_reason is set; review: qa_requested_at is set.
CardType == [status : Statuses, assignee : Workers \cup {Nobody},
             cron : BOOLEAN, audited : BOOLEAN, review : BOOLEAN]

\* The unlocked operations: each loads a card, then saves its own copy.
\* "note" is /hub queue saving its slot checkpoint.
Kinds == {"create", "checkpoint", "snooze", "note", "complete",
          "request_qa", "qa_approve", "auto_approve", "qa_reject",
          "cancelled", "obsolete"}

\* snap is the operation's copy of the card, to the assignee of a new one.
\* "replies" is the last step of terminalize.
Op == [kind : Kinds \cup {"replies"}, id : Cards, snap : CardType, to : Workers]
Reply == [msg : Messages, task : Cards, to : Workers,
          status : {"pending", "resolved"}]

Absent == [status |-> "absent", assignee |-> Nobody, cron |-> FALSE,
           audited |-> FALSE, review |-> FALSE]

NoCopies == [c \in Cards |-> Absent]

Idle == [kind |-> "idle", id |-> Nobody, snap |-> Absent, to |-> Nobody]

CardTypes ==
  /\ card \in [Cards -> CardType]
  /\ op \in [Procs -> {Idle} \cup Op]
  /\ due \in [Procs -> [Cards -> CardType]]
  /\ waiting \in [Procs -> BOOLEAN]
  /\ sweep \in [Procs -> SUBSET Cards]
  /\ claimed \in [Cards -> SUBSET Procs]

TypeOK == CardTypes /\ replies \in Seq(Reply)

Init ==
  /\ card = [c \in Cards |-> Absent]
  /\ op = [p \in Procs |-> Idle]
  /\ due = [p \in Procs |-> NoCopies]
  /\ waiting = [p \in Procs |-> FALSE]
  /\ sweep = [p \in Procs |-> {}]
  /\ replies = <<>>
  /\ claimed = [c \in Cards |-> {}]

---------------------------------------------------------------------------
(* Operations on one loaded card *)

\* _load_mutable: a card that is there and not terminal.
MutableUnlessClosed(card0) == card0.status \notin {"closed", "absent"}

Mutable(card0) == card0.status \notin TERMINAL_STATUSES \cup {"absent"}

InReviewOrLive(card0) == Mutable(card0)

InReview(card0) == card0.status = "qa_review"

\* The guards the operation tests on the card it loaded.
May(kind, card0) ==
  CASE kind = "create"       -> card0.status = "absent"
    [] kind \in {"qa_reject", "auto_approve"} -> InReview(card0)
    [] kind = "note"         -> FALSE
    [] OTHER                 -> Mutable(card0)

EnqueuedCardQueued == [Absent EXCEPT !.status = "queued"]

EnqueuedCard == [Absent EXCEPT !.status = "open"]

AssignedCard(w) ==
  [Absent EXCEPT !.status = "active", !.assignee = w, !.cron = TRUE]

\* What the operation saves, computed from its own copy of the card.
Apply(kind, card0, w) ==
  CASE kind = "create"       -> AssignedCard(w)
    [] kind = "complete"     -> [card0 EXCEPT !.status = "done", !.cron = FALSE]
    [] kind = "request_qa"   -> [card0 EXCEPT !.status = "qa_review",
                                              !.cron = FALSE, !.review = TRUE]
    [] kind \in {"qa_approve", "auto_approve"} ->
                                [card0 EXCEPT !.status = "closed",
                                              !.cron = FALSE, !.review = FALSE]
    [] kind = "qa_reject"    -> [card0 EXCEPT !.status = "active",
                                              !.cron = TRUE, !.review = FALSE]
    [] kind \in EXPLICIT_TERMINAL_STATUSES ->
                                [card0 EXCEPT !.status = kind, !.cron = FALSE,
                                              !.audited = TRUE]
    [] OTHER                 -> card0

---------------------------------------------------------------------------
(* Unlocked operations *)

Settling(p, c) == [kind |-> "replies", id |-> c, snap |-> Absent, to |-> p]

\* Between two loop iterations of the cron without an await no handler of the
\* process runs.
Free(p) == op[p] = Idle /\ (due[p] = NoCopies \/ waiting[p])

\* A handler loads a card; its guard holds on what it loaded.  The expiry of a
\* card in get_cron_due is an "obsolete" of this kind.
Load(p, kind, c, w) ==
  /\ Free(p)
  /\ May(kind, card[c])
  /\ kind # "create" => w = p
  /\ op' = [op EXCEPT ![p] = [kind |-> kind, id |-> c, snap |-> card[c], to |-> w]]
  /\ UNCHANGED <<card, background, replies, claimed>>

\* It saves the whole card.  A terminalization then settles the replies.
Save(p) ==
  /\ op[p].kind \in Kinds
  /\ card' = [card EXCEPT ![op[p].id] = Apply(op[p].kind, op[p].snap, op[p].to)]
  /\ op' = [op EXCEPT ![p] = IF @.kind \in EXPLICIT_TERMINAL_STATUSES
                               THEN Settling(p, @.id)
                               ELSE Idle]
  /\ UNCHANGED <<background, replies, claimed>>

\* get_cron_due: an active card on the reminder cron.
Remindable(card0) == card0.status = "active" /\ card0.cron

\* The task cron loads the cards that are due, all at once.
CronLoad(p, cards) ==
  /\ op[p] = Idle
  /\ due[p] = NoCopies
  /\ cards # {}
  /\ \A c \in cards : Remindable(card[c])
  /\ due' = [due EXCEPT ![p] = [c \in Cards |-> IF c \in cards THEN card[c]
                                                              ELSE Absent]]
  /\ UNCHANGED <<card, op, waiting, sweep, replies, claimed>>

\* A due card of the process itself: its copy is saved at once.
CronTouch(p, c) ==
  /\ op[p] = Idle
  /\ ~waiting[p]
  /\ due[p][c] # Absent
  /\ due[p][c].assignee = p
  /\ card' = [card EXCEPT ![c] = due[p][c]]
  /\ due' = [due EXCEPT ![p][c] = Absent]
  /\ UNCHANGED <<op, waiting, sweep, replies, claimed>>

\* A due card of another agent: the loop awaits the delivery of a reminder.
CronAsk(p) ==
  /\ op[p] = Idle
  /\ ~waiting[p]
  /\ \E c \in Cards : due[p][c] # Absent /\ due[p][c].assignee # p
  /\ waiting' = [waiting EXCEPT ![p] = TRUE]
  /\ UNCHANGED <<card, op, due, sweep, replies, claimed>>

\* The reminder was delivered (the copy is saved) or not (nothing is).
CronSave(p, c) ==
  /\ op[p] = Idle
  /\ waiting[p]
  /\ due[p][c] # Absent
  /\ due[p][c].assignee # p
  /\ card' = [card EXCEPT ![c] = due[p][c]] \/ UNCHANGED card
  /\ due' = [due EXCEPT ![p][c] = Absent]
  /\ waiting' = [waiting EXCEPT ![p] = FALSE]
  /\ UNCHANGED <<op, sweep, replies, claimed>>

\* The delivery raises: the loop drops the rest of the due cards.
CronFails(p) ==
  /\ op[p] = Idle
  /\ waiting[p]
  /\ due' = [due EXCEPT ![p] = NoCopies]
  /\ waiting' = [waiting EXCEPT ![p] = FALSE]
  /\ UNCHANGED <<card, op, sweep, replies, claimed>>

\* enqueue writes a fresh open card; /hub queue goes on to add a checkpoint to
\* its copy and saves it a second time.
Enqueue(p, c) ==
  /\ Free(p)
  /\ card[c].status = "absent"
  /\ card' = [card EXCEPT ![c] = EnqueuedCard]
  /\ op' = [op EXCEPT ![p] = IF c \in Linked
                               THEN [kind |-> "note", id |-> c,
                                     snap |-> EnqueuedCard, to |-> p]
                               ELSE Idle]
  /\ UNCHANGED <<background, replies, claimed>>

---------------------------------------------------------------------------
(* Locked operations: load, test and save under the card's lock *)

Claim(p, c) ==
  /\ Free(p)
  /\ card[c].status = "open"
  /\ card[c].assignee = Nobody
  /\ card' = [card EXCEPT ![c] = [@ EXCEPT !.status = "active",
                                           !.assignee = p, !.cron = TRUE]]
  /\ claimed' = [claimed EXCEPT ![c] = @ \cup {p}]
  /\ UNCHANGED <<op, background, replies>>

RequeuedStillReminding(card0) ==
  [card0 EXCEPT !.status = "open", !.assignee = Nobody]

Requeued(card0) ==
  [card0 EXCEPT !.status = "open", !.assignee = Nobody, !.cron = FALSE]

\* requeue_stalled, called by the idle supervisor.
Requeue(p, c) ==
  /\ Free(p)
  /\ card[c].status = "active"
  /\ card' = [card EXCEPT ![c] = Requeued(@)]
  /\ claimed' = [claimed EXCEPT ![c] = {}]
  /\ UNCHANGED <<op, background, replies>>

\* terminalize(preserve_active=True) in the work-queue sweep's thread, for a
\* card that /hub queue has linked to a slot the sweep retired.
SweepCancel(p, c) ==
  /\ sweep[p] = {}
  /\ c \in Linked
  /\ \A q \in Procs : ~(op[q].kind = "note" /\ op[q].id = c)
  /\ Mutable(card[c])
  /\ card[c].status # "active"
  /\ card' = [card EXCEPT ![c] = Apply("cancelled", @, p)]
  /\ sweep' = [sweep EXCEPT ![p] = {c}]
  /\ UNCHANGED <<op, due, waiting, replies, claimed>>

---------------------------------------------------------------------------
(* Expected replies: every access holds the file's lock *)

KnownIfPending(m) ==
  \E i \in DOMAIN replies : replies[i].msg = m /\ replies[i].status = "pending"

Known(m) == \E i \in DOMAIN replies : replies[i].msg = m

Expected(c, w, m) == [msg |-> m, task |-> c, to |-> w, status |-> "pending"]

\* expect_reply: the message id is an idempotency key.  A file that cannot be
\* read or parsed counts as empty, and is overwritten.
ExpectReply(c, w, m) ==
  /\ \/ ~Known(m) /\ replies' = Append(replies, Expected(c, w, m))
     \/ replies' = <<Expected(c, w, m)>>
  /\ UNCHANGED <<card, op, background, claimed>>

Pending(i) == replies[i].status = "pending"

\* resolve_reply: the oldest pending entry of this assignee, of the named task
\* when the message names one.
ResolveReply(w, tasks) ==
  \E i \in DOMAIN replies :
    LET Match(j) == Pending(j) /\ replies[j].to = w /\ replies[j].task \in tasks
    IN  /\ Match(i)
        /\ \A j \in 1..(i - 1) : ~Match(j)
        /\ replies' = [replies EXCEPT ![i].status = "resolved"]
        /\ UNCHANGED <<card, op, background, claimed>>

KeptIfPending(entry, expired) ==
  entry \notin expired /\ entry.status = "pending"

Kept(entry, expired) == entry \notin expired

\* The file without the entries that are dropped, in the same order: f lists
\* the positions of the others.
Pruned(expired) ==
  \E n \in 0..Len(replies) : \E f \in [1..n -> DOMAIN replies] :
    /\ \A j, k \in 1..n : j < k => f[j] < f[k]
    /\ {f[k] : k \in 1..n} = {i \in DOMAIN replies : Kept(replies[i], expired)}
    /\ replies' = [k \in 1..n |-> replies[f[k]]]

\* pending_replies: entries past their TTL are pruned.
ExpireReplies ==
  \E expired \in SUBSET {replies[i] : i \in {j \in DOMAIN replies : Pending(j)}} :
    /\ expired # {}
    /\ Pruned(expired)
    /\ UNCHANGED <<card, op, background, claimed>>

\* _resolve_replies_for_task.
Settle(c) ==
  replies' = [i \in DOMAIN replies |->
                IF replies[i].task = c
                  THEN [replies[i] EXCEPT !.status = "resolved"]
                  ELSE replies[i]]

\* The last step of terminalize, in a handler or in the sweep.  A replies file
\* that cannot be read is left alone.
SettleReplies(p) ==
  /\ op[p].kind = "replies"
  /\ Settle(op[p].id) \/ UNCHANGED replies
  /\ op' = [op EXCEPT ![p] = Idle]
  /\ UNCHANGED <<card, background, claimed>>

SweepSettles(p) ==
  /\ \E c \in sweep[p] : Settle(c) \/ UNCHANGED replies
  /\ sweep' = [sweep EXCEPT ![p] = {}]
  /\ UNCHANGED <<card, op, due, waiting, claimed>>

---------------------------------------------------------------------------
\* The process dies; what it had not saved is lost.
Crash(p) ==
  /\ op' = [op EXCEPT ![p] = Idle]
  /\ due' = [due EXCEPT ![p] = NoCopies]
  /\ waiting' = [waiting EXCEPT ![p] = FALSE]
  /\ sweep' = [sweep EXCEPT ![p] = {}]
  /\ UNCHANGED <<card, replies, claimed>>

Handler(p) ==
  \/ \E kind \in Kinds, c \in Cards, w \in Workers : Load(p, kind, c, w)
  \/ Save(p)
  \/ \E c \in Cards : Enqueue(p, c)
  \/ \E c \in Cards : Claim(p, c)
  \/ \E c \in Cards : Requeue(p, c)
  \/ SettleReplies(p)

Background(p) ==
  \/ \E cards \in SUBSET Cards : CronLoad(p, cards)
  \/ \E c \in Cards : CronTouch(p, c)
  \/ CronAsk(p)
  \/ \E c \in Cards : CronSave(p, c)
  \/ CronFails(p)
  \/ \E c \in Cards : SweepCancel(p, c)
  \/ SweepSettles(p)

Next ==
  \/ \E p \in Procs : Handler(p) \/ Background(p) \/ Crash(p)
  \/ \E c \in Cards, w \in Workers, m \in Messages : ExpectReply(c, w, m)
  \/ \E w \in Workers, c \in Cards : ResolveReply(w, {c}) \/ ResolveReply(w, Cards)
  \/ ExpireReplies

Spec == Init /\ [][Next]_vars

---------------------------------------------------------------------------
(* Properties *)

\* A card file is never a mix of two states, however the saves of several
\* processes interleave: only an active card is on the reminder cron, an open
\* card has no owner, and exactly the cancelled and obsolete cards carry a
\* terminal reason (claim, requeue_stalled, terminalize, qa_reject).
Consistent(card0) ==
  /\ card0.cron => card0.status = "active"
  /\ card0.status = "open" => card0.assignee = Nobody /\ ~card0.review
  /\ card0.audited <=> card0.status \in EXPLICIT_TERMINAL_STATUSES
  /\ card0.review => card0.status \notin {"absent", "open", "active", "closed"}

CardsConsistent == \A c \in Cards : Consistent(card[c])

\* expect_reply: "a pending entry must be recorded at most once".
ReplyRecordedOnce ==
  \A i, j \in DOMAIN replies : replies[i].msg = replies[j].msg => i = j

\* expect_reply: "a resolved entry must never be resurrected by a replayed
\* acknowledgement request", also after pending_replies pruned the file.  The
\* one step that loses resolved entries is an expect_reply that could not read
\* the file: it leaves nothing but its own entry there.
Resolved(m) ==
  \E i \in DOMAIN replies : replies[i].msg = m /\ replies[i].status = "resolved"

Overwritten ==
  \E c \in Cards, w \in Workers, m \in Messages :
    replies' = <<Expected(c, w, m)>>

ResolvedStaysResolved ==
  [][(\A m \in Messages : Resolved(m) => Resolved(m)') \/ Overwritten]_replies

\* _load_mutable (task_ledger.py:646): once a card is terminal, late operations
\* "must not reopen it or change its audit record".
TerminalIsFinal ==
  [][\A c \in Cards : card[c].status \in TERMINAL_STATUSES
                         => card'[c] = card[c]]_card

\* claim (task_ledger.py:938): "First claim wins; the loser gets None".
FirstClaimWins == \A c \in Cards : Cardinality(claimed[c]) <= 1

\* What the ledger should do with a card, whatever the files and locks.
Lifecycle == INSTANCE CardLifecycle
  WITH status <- [c \in Cards |-> card[c].status],
       owner <- [c \in Cards |-> card[c].assignee]

\* An operation or the cron loop is done with a copy that is not what the file
\* holds.
StaleSave ==
  \E p \in Procs :
    \/ /\ op[p].kind \in Kinds /\ op'[p] # op[p]
       /\ op[p].snap # card[op[p].id]
    \/ \E c \in Cards : /\ due[p][c] # Absent /\ due'[p][c] = Absent
                        /\ due[p][c] # card[c]

\* Any number of processes, with the reminder cron, the sweep and crashes, move
\* cards along the lifecycle of CardLifecycle only (one owner, from open by claim
\* alone, no way back from a finished card), in every step but the save of an
\* outdated copy (_load_mutable, claim, requeue_stalled, qa_reject).
LifecycleUnlessStale ==
  [][Lifecycle!LNext \/ StaleSave]_(Lifecycle!cardVars)
=============================================================================
