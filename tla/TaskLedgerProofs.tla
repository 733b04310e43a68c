------------------------- MODULE TaskLedgerProofs -------------------------
(***************************************************************************)
(* Card files stay consistent under every interleaving of any number of    *)
(* processes, although most operations save a stale copy.  The invariant   *)
(* says that every copy in flight is itself consistent and passed the      *)
(* operation's guard when it was loaded.  Every step then follows          *)
(* CardLifecycle unless it saves an outdated copy, and a finished card     *)
(* stays as it is where operations take turns on a card.                   *)
(***************************************************************************)
EXTENDS TaskLedger, SequenceTheorems, FiniteSetTheorems, TLAPS

\* A consistent card; a card file that is not there has no owner.
Sound(card0) ==
  /\ Consistent(card0)
  /\ card0.status = "absent" => card0.assignee = Nobody

\* A copy in flight: consistent, and accepted by its operation's guard.
CopyOK(o) ==
  o.kind \in Kinds =>
    /\ Sound(o.snap)
    /\ o.kind = "create" => o.snap.status = "absent"
    /\ o.kind # "create" => Mutable(o.snap)
    /\ o.kind \in {"qa_reject", "auto_approve"} => InReview(o.snap)

\* A copy of the cron loop: of an active card.
DueOK(card0) == card0 # Absent => Sound(card0) /\ card0.status = "active"

CopiesOK ==
  \A p \in Procs : CopyOK(op[p]) /\ \A c \in Cards : DueOK(due[p][c])

CardsSound == \A c \in Cards : Sound(card[c])

CardInv == CardTypes /\ CardsSound /\ CopiesOK

\* What an operation saves is a card.
LEMMA ApplyType ==
  ASSUME NEW kind \in Kinds, NEW card0 \in CardType, NEW w \in Workers
  PROVE  Apply(kind, card0, w) \in CardType
  BY LedgerAssumption
  DEF Apply, CardType, Kinds, Statuses, TERMINAL_STATUSES, AssignedCard, Absent,
      EXPLICIT_TERMINAL_STATUSES

\* What an operation saves is consistent if its copy was, and passed its guard.
LEMMA ApplyConsistent ==
  ASSUME NEW kind \in Kinds, NEW card0 \in CardType, NEW w \in Workers,
         Sound(card0),
         kind # "create" => Mutable(card0),
         kind \in {"qa_reject", "auto_approve"} => InReview(card0)
  PROVE  Sound(Apply(kind, card0, w))
  BY DEF Apply, CardType, Kinds, Statuses, TERMINAL_STATUSES, AssignedCard,
         Absent, EXPLICIT_TERMINAL_STATUSES, Consistent, Sound, Mutable, InReview

\* A guard that accepted a card implies what CopyOK asks of the copy.
LEMMA MayImplies ==
  ASSUME NEW kind \in Kinds, NEW card0 \in CardType, May(kind, card0)
  PROVE  /\ kind = "create" => card0.status = "absent"
         /\ kind # "create" => Mutable(card0)
         /\ kind \in {"qa_reject", "auto_approve"} => InReview(card0)
  BY DEF May, CardType, Kinds, Statuses, TERMINAL_STATUSES, Mutable, InReview

LEMMA CardInit == Init => CardInv
  BY LedgerAssumption
  DEF Init, CardInv, CardTypes, CardsSound, CopiesOK, CopyOK, Consistent, Sound,
      Idle, Absent, CardType, Statuses, TERMINAL_STATUSES, Kinds, NoCopies,
      DueOK, EXPLICIT_TERMINAL_STATUSES

\* Writing one consistent card and changing nothing else in flight.
LEMMA WriteCard ==
  ASSUME CardInv, NEW c \in Cards, NEW new \in CardType, Sound(new),
         card' = [card EXCEPT ![c] = new]
  PROVE  card' \in [Cards -> CardType] /\ CardsSound'
  BY DEF CardInv, CardTypes, CardsSound

\* An operation in flight has a card, a copy and, while it may save, a good one.
LEMMA InFlight ==
  ASSUME NEW o \in {Idle} \cup Op, o.kind \in Kinds \cup {"replies"}
  PROVE  o.id \in Cards /\ o.snap \in CardType /\ o.to \in Workers
  BY DEF Op, Idle, Kinds

\* Steps of a handler keep the invariant.
LEMMA HandlerStep ==
  ASSUME CardInv, NEW p \in Procs, Handler(p)
  PROVE  CardInv'
<1> USE LedgerAssumption
<1>1. ASSUME NEW kind \in Kinds, NEW c \in Cards, NEW w \in Workers,
             Load(p, kind, c, w)
      PROVE  CardInv'
  <2> DEFINE o == [kind |-> kind, id |-> c, snap |-> card[c], to |-> w]
  <2>1. o \in Op
    BY DEF Op, CardInv, CardTypes
  <2>2. CopyOK(o)
    BY <1>1, MayImplies DEF CopyOK, Load, CardInv, CardTypes, CardsSound
  <2> QED
    BY <1>1, <2>1, <2>2 DEF Load, background, CardInv, CardTypes, CardsSound, CopiesOK
<1>2. CASE Save(p)
  <2> DEFINE o == op[p]
             new == Apply(o.kind, o.snap, o.to)
  <2>1. /\ o.id \in Cards /\ o.snap \in CardType /\ o.to \in Workers
        /\ o.kind \in Kinds
    BY <1>2, InFlight DEF Save, CardInv, CardTypes
  <2>2. new \in CardType /\ Sound(new)
    BY <2>1, ApplyType, ApplyConsistent DEF CardInv, CopiesOK, CopyOK
  <2>3. card' \in [Cards -> CardType] /\ CardsSound'
    BY <1>2, <2>1, <2>2, WriteCard DEF Save
  <2>4. Settling(p, o.id) \in Op /\ CopyOK(Settling(p, o.id)) /\ CopyOK(Idle)
    BY <2>1 DEF Settling, Op, CopyOK, Idle, Kinds, Absent, CardType, Statuses
  <2>5. /\ op' = [op EXCEPT ![p] = Settling(p, o.id)]
           \/ op' = [op EXCEPT ![p] = Idle]
        /\ UNCHANGED <<background, claimed>>
    BY <1>2 DEF Save
  <2> QED
    BY <2>3, <2>4, <2>5 DEF background, CardInv, CardTypes, CopiesOK
<1>3. ASSUME NEW c \in Cards, Enqueue(p, c) PROVE CardInv'
  <2> DEFINE o == [kind |-> "note", id |-> c, snap |-> EnqueuedCard, to |-> p]
  <2>1. EnqueuedCard \in CardType /\ Sound(EnqueuedCard)
    BY DEF EnqueuedCard, CardType, Absent, Statuses, Consistent, Sound,
           EXPLICIT_TERMINAL_STATUSES, TERMINAL_STATUSES
  <2>2. card' \in [Cards -> CardType] /\ CardsSound'
    BY <1>3, <2>1, WriteCard DEF Enqueue
  <2>3. o \in Op /\ CopyOK(o) /\ CopyOK(Idle)
    BY <2>1 DEF Op, CopyOK, Idle, Kinds, Mutable, EnqueuedCard, Absent,
               TERMINAL_STATUSES
  <2>4. /\ op' = [op EXCEPT ![p] = o] \/ op' = [op EXCEPT ![p] = Idle]
        /\ UNCHANGED <<background, claimed>>
    BY <1>3 DEF Enqueue
  <2> QED
    BY <2>2, <2>3, <2>4 DEF background, CardInv, CardTypes, CopiesOK
<1>4. ASSUME NEW c \in Cards, Claim(p, c) PROVE CardInv'
  <2> DEFINE new == [card[c] EXCEPT !.status = "active", !.assignee = p,
                                    !.cron = TRUE]
  <2>0. /\ card[c] \in CardType /\ card[c].status = "open"
        /\ Sound(card[c])
    BY <1>4 DEF Claim, CardInv, CardTypes, CardsSound
  <2>1. new \in CardType /\ Sound(new)
    BY <2>0 DEF CardType, Consistent, Sound, Statuses, EXPLICIT_TERMINAL_STATUSES
  <2>2. card' \in [Cards -> CardType] /\ CardsSound'
    BY <1>4, <2>1, WriteCard DEF Claim
  <2> QED
    BY <1>4, <2>2 DEF Claim, background, CardInv, CardTypes, CopiesOK
<1>5. ASSUME NEW c \in Cards, Requeue(p, c) PROVE CardInv'
  <2> DEFINE old == card[c]
  <2>0. /\ old \in CardType /\ old.status = "active"
        /\ ~old.audited /\ ~old.review
    BY <1>5 DEF Requeue, CardInv, CardTypes, CardsSound, CardType,
               Consistent, Sound, EXPLICIT_TERMINAL_STATUSES
  <2>1. Requeued(old) \in CardType /\ Sound(Requeued(old))
    <3> HIDE DEF old
    <3> QED
      BY <2>0 DEF Requeued, CardType, Consistent, Sound, Statuses,
                  EXPLICIT_TERMINAL_STATUSES
  <2>2. card' \in [Cards -> CardType] /\ CardsSound'
    BY <1>5, <2>1, WriteCard DEF Requeue
  <2> QED
    BY <1>5, <2>2 DEF Requeue, background, CardInv, CardTypes, CopiesOK
<1>6. CASE SettleReplies(p)
  <2>1. CopyOK(Idle)
    BY DEF CopyOK, Idle, Kinds
  <2> QED
    BY <1>6, <2>1 DEF SettleReplies, background, CardInv, CardTypes, CardsSound, CopiesOK
<1> QED
  BY <1>1, <1>2, <1>3, <1>4, <1>5, <1>6 DEF Handler

\* Steps of the cron loop and of the sweep thread keep the invariant.
LEMMA BackgroundStep ==
  ASSUME CardInv, NEW p \in Procs, Background(p)
  PROVE  CardInv'
<1>0. /\ card \in [Cards -> CardType] /\ op \in [Procs -> {Idle} \cup Op]
      /\ due \in [Procs -> [Cards -> CardType]]
      /\ waiting \in [Procs -> BOOLEAN]
      /\ Absent \in CardType /\ DueOK(Absent)
  BY LedgerAssumption
  DEF CardInv, CardTypes, Absent, CardType, Statuses, DueOK
<1>1. ASSUME NEW cards \in SUBSET Cards, CronLoad(p, cards) PROVE CardInv'
  <2> DEFINE copies == [c \in Cards |-> IF c \in cards THEN card[c] ELSE Absent]
  <2>1. copies \in [Cards -> CardType]
    BY <1>0
  <2>2. \A c \in Cards : DueOK(copies[c])
    BY <1>0, <1>1 DEF CronLoad, Remindable, DueOK, CardInv, CardsSound
  <2>3. /\ due' = [due EXCEPT ![p] = copies]
        /\ UNCHANGED <<card, op, waiting, sweep, claimed>>
    BY <1>1 DEF CronLoad
  <2> HIDE DEF copies
  <2> QED
    BY <1>0, <2>1, <2>2, <2>3 DEF CardInv, CardTypes, CardsSound, CopiesOK
<1>2. ASSUME NEW c \in Cards, CronTouch(p, c) \/ CronSave(p, c) PROVE CardInv'
  <2>1. due[p][c] \in CardType /\ Sound(due[p][c])
    BY <1>0, <1>2 DEF CronTouch, CronSave, CardInv, CopiesOK, DueOK
  <2>2. card' = [card EXCEPT ![c] = due[p][c]] \/ card' = card
    BY <1>2 DEF CronTouch, CronSave
  <2>3. card' \in [Cards -> CardType] /\ CardsSound'
    BY <2>1, <2>2, WriteCard DEF CardInv, CardTypes, CardsSound
  <2>4. /\ due' = [due EXCEPT ![p][c] = Absent]
        /\ waiting' \in [Procs -> BOOLEAN]
        /\ UNCHANGED <<op, sweep, claimed>>
    BY <1>0, <1>2 DEF CronTouch, CronSave
  <2>5. /\ due' \in [Procs -> [Cards -> CardType]]
        /\ \A q \in Procs, d \in Cards :
             due'[q][d] = due[q][d] \/ due'[q][d] = Absent
    BY <1>0, <2>4
  <2> QED
    BY <1>0, <2>3, <2>4, <2>5 DEF CardInv, CardTypes, CopiesOK
<1>3. CASE CronAsk(p)
  BY <1>0, <1>3 DEF CronAsk, CardInv, CardTypes, CardsSound, CopiesOK
<1>4. CASE CronFails(p)
  <2>1. NoCopies \in [Cards -> CardType] /\ \A c \in Cards : DueOK(NoCopies[c])
    BY <1>0 DEF NoCopies
  <2> QED
    BY <1>0, <1>4, <2>1 DEF CronFails, CardInv, CardTypes, CardsSound, CopiesOK
<1>5. ASSUME NEW c \in Cards, SweepCancel(p, c) PROVE CardInv'
  <2> DEFINE new == Apply("cancelled", card[c], p)
  <2>0. p \in Workers
    BY LedgerAssumption
  <2>1. new \in CardType /\ Sound(new)
    BY <1>5, <2>0, ApplyType, ApplyConsistent
    DEF SweepCancel, CardInv, CardTypes, CardsSound, Kinds
  <2>2. card' \in [Cards -> CardType] /\ CardsSound'
    BY <1>5, <2>1, WriteCard DEF SweepCancel
  <2> QED
    BY <1>5, <2>2 DEF SweepCancel, CardInv, CardTypes, CopiesOK
<1>6. CASE SweepSettles(p)
  BY <1>6 DEF SweepSettles, CardInv, CardTypes, CardsSound, CopiesOK
<1> QED
  BY <1>1, <1>2, <1>3, <1>4, <1>5, <1>6 DEF Background

\* Every step keeps the invariant.
LEMMA CardStep == CardInv /\ [Next]_vars => CardInv'
<1> SUFFICES ASSUME CardInv, [Next]_vars PROVE CardInv'
  OBVIOUS
<1>1. CASE UNCHANGED <<card, op, background, claimed>>
  BY <1>1 DEF background, CardInv, CardTypes, CardsSound, CopiesOK
<1>2. ASSUME NEW p \in Procs, Crash(p) PROVE CardInv'
  <2>1. /\ CopyOK(Idle)
        /\ NoCopies \in [Cards -> CardType]
        /\ \A c \in Cards : DueOK(NoCopies[c])
    BY LedgerAssumption
    DEF CopyOK, Idle, Kinds, NoCopies, Absent, CardType, Statuses, DueOK
  <2> QED
    BY <1>2, <2>1 DEF Crash, CardInv, CardTypes, CardsSound, CopiesOK
<1>3. CASE \E c \in Cards, w \in Workers, m \in Messages : ExpectReply(c, w, m)
  BY <1>1, <1>3 DEF ExpectReply
<1>4. CASE \E w \in Workers, c \in Cards :
             ResolveReply(w, {c}) \/ ResolveReply(w, Cards)
  BY <1>1, <1>4 DEF ResolveReply
<1>5. CASE ExpireReplies
  BY <1>1, <1>5 DEF ExpireReplies
<1> QED
  BY <1>1, <1>2, <1>3, <1>4, <1>5, HandlerStep, BackgroundStep DEF Next, vars

LEMMA CardInvariant == Spec => []CardInv
  BY CardInit, CardStep, PTL DEF Spec

\* Every card file is consistent in every reachable state, for any number of
\* processes and cards: no order of claims, stale saves, reminders, sweeps and
\* crashes leaves a card on the reminder cron that is not active, an open card
\* with an owner, or an audit record on a card that was not cancelled.
THEOREM CardsStayConsistent == Spec => []CardsConsistent
<1>1. CardInv => CardsConsistent
  BY DEF CardInv, CardsSound, Sound, CardsConsistent
<1> QED
  BY CardInvariant, <1>1, PTL

---------------------------------------------------------------------------
(* Expected replies *)

RepliesInv == replies \in Seq(Reply) /\ ReplyRecordedOnce

LEMMA RepliesInit == Init => RepliesInv
  BY DEF Init, RepliesInv, ReplyRecordedOnce

\* Entries that keep their place and their message are recorded once still.
LEMMA SamePlaces ==
  ASSUME RepliesInv,
         replies' \in [1..Len(replies) -> Reply],
         \A i \in 1..Len(replies) : replies'[i].msg = replies[i].msg
  PROVE  RepliesInv'
<1>1. Len(replies) \in Nat /\ DOMAIN replies = 1..Len(replies)
  BY LenProperties DEF RepliesInv
<1>2. replies' \in Seq(Reply) /\ DOMAIN replies' = 1..Len(replies)
  BY <1>1, SeqDef
<1> QED
  BY <1>1, <1>2 DEF RepliesInv, ReplyRecordedOnce

\* expect_reply adds an entry for a message that has none.
LEMMA ExpectStep ==
  ASSUME RepliesInv, NEW c \in Cards, NEW w \in Workers, NEW m \in Messages,
         ~Known(m), replies' = Append(replies, Expected(c, w, m))
  PROVE  /\ RepliesInv'
         /\ \A n \in Messages : Resolved(n) => Resolved(n)'
<1> DEFINE new == Expected(c, w, m)
<1>1. /\ Len(replies) \in Nat /\ DOMAIN replies = 1..Len(replies)
      /\ \A i \in DOMAIN replies : replies[i] \in Reply
  BY LenProperties DEF RepliesInv
<1>2. new \in Reply /\ replies' = Append(replies, new)
  BY DEF Reply, Expected
<1>3. /\ replies' \in Seq(Reply)
      /\ DOMAIN replies' = 1..(Len(replies) + 1)
      /\ \A i \in 1..Len(replies) : replies'[i] = replies[i]
      /\ replies'[Len(replies) + 1] = new
  BY <1>1, <1>2, AppendProperties, LenProperties DEF RepliesInv
<1>4. \A i \in 1..Len(replies) : replies[i].msg # m
  BY <1>1 DEF Known
<1>10. new.msg = m
  BY DEF Expected
<1> HIDE DEF new
<1>5. ReplyRecordedOnce'
  <2> SUFFICES ASSUME NEW i \in DOMAIN replies', NEW j \in DOMAIN replies',
                      replies'[i].msg = replies'[j].msg
               PROVE  i = j
    BY DEF ReplyRecordedOnce
  <2>1. CASE i \in 1..Len(replies) /\ j \in 1..Len(replies)
    BY <1>1, <1>3, <2>1 DEF RepliesInv, ReplyRecordedOnce
  <2>2. i \notin 1..Len(replies) => i = Len(replies) + 1
    BY <1>1, <1>3
  <2>3. j \notin 1..Len(replies) => j = Len(replies) + 1
    BY <1>1, <1>3
  <2> QED
    BY <1>3, <1>4, <1>10, <2>1, <2>2, <2>3
<1>6. \A n \in Messages : Resolved(n) => Resolved(n)'
  BY <1>1, <1>3 DEF Resolved
<1> QED
  BY <1>3, <1>5, <1>6 DEF RepliesInv

\* expect_reply on a file it could not read leaves its own entry.
LEMMA OverwriteStep ==
  ASSUME NEW c \in Cards, NEW w \in Workers, NEW m \in Messages,
         replies' = <<Expected(c, w, m)>>
  PROVE  RepliesInv' /\ Overwritten
<1>1. Expected(c, w, m) \in Reply
  BY DEF Expected, Reply
<1>2. replies' \in Seq(Reply) /\ DOMAIN replies' = 1..1
  BY <1>1
<1>3. ReplyRecordedOnce'
  BY <1>2 DEF ReplyRecordedOnce
<1> QED
  BY <1>2, <1>3 DEF RepliesInv, Overwritten

\* resolve_reply settles one entry and leaves the others.
LEMMA ResolveStep ==
  ASSUME RepliesInv, NEW w, NEW tasks, ResolveReply(w, tasks)
  PROVE  /\ RepliesInv'
         /\ \A n \in Messages : Resolved(n) => Resolved(n)'
<1>1. /\ Len(replies) \in Nat /\ DOMAIN replies = 1..Len(replies)
      /\ \A i \in DOMAIN replies : replies[i] \in Reply
  BY LenProperties DEF RepliesInv
<1>2. PICK i \in DOMAIN replies :
        replies' = [replies EXCEPT ![i].status = "resolved"]
  BY DEF ResolveReply
<1>3. /\ DOMAIN replies' = 1..Len(replies)
      /\ replies' \in [1..Len(replies) -> Reply]
      /\ \A j \in 1..Len(replies) :
           /\ replies'[j].msg = replies[j].msg
           /\ replies[j].status = "resolved" => replies'[j].status = "resolved"
  <2>1. [replies[i] EXCEPT !.status = "resolved"] \in Reply
    BY <1>1 DEF Reply
  <2>2. replies \in [1..Len(replies) -> Reply]
    BY LenProperties DEF RepliesInv
  <2> QED
    BY <1>1, <1>2, <2>1, <2>2 DEF Reply
<1>4. RepliesInv'
  BY <1>3, SamePlaces
<1> QED
  BY <1>1, <1>3, <1>4 DEF Resolved

\* _resolve_replies_for_task settles every entry of a card.
LEMMA SettleStep ==
  ASSUME RepliesInv, NEW c, Settle(c)
  PROVE  /\ RepliesInv'
         /\ \A n \in Messages : Resolved(n) => Resolved(n)'
<1>1. /\ Len(replies) \in Nat /\ DOMAIN replies = 1..Len(replies)
      /\ \A i \in DOMAIN replies : replies[i] \in Reply
  BY LenProperties DEF RepliesInv
<1>2. \A i \in DOMAIN replies : [replies[i] EXCEPT !.status = "resolved"] \in Reply
  BY <1>1 DEF Reply
<1>3. /\ DOMAIN replies' = 1..Len(replies)
      /\ replies' \in [1..Len(replies) -> Reply]
      /\ \A j \in 1..Len(replies) :
           /\ replies'[j].msg = replies[j].msg
           /\ replies[j].status = "resolved" => replies'[j].status = "resolved"
  BY <1>1, <1>2 DEF Settle, Reply
<1>4. RepliesInv'
  BY <1>3, SamePlaces
<1> QED
  BY <1>1, <1>3, <1>4 DEF Resolved

\* pending_replies drops expired entries, which are all pending, and keeps the
\* others in their order.
LEMMA ExpireStep ==
  ASSUME RepliesInv, ExpireReplies
  PROVE  /\ RepliesInv'
         /\ \A m \in Messages : Resolved(m) => Resolved(m)'
<1>1. /\ Len(replies) \in Nat /\ DOMAIN replies = 1..Len(replies)
      /\ \A i \in DOMAIN replies : replies[i] \in Reply
  BY LenProperties DEF RepliesInv
<1>2. PICK expired \in SUBSET {replies[i] : i \in {j \in DOMAIN replies : Pending(j)}} :
        Pruned(expired)
  BY DEF ExpireReplies
<1>3. PICK n \in 0..Len(replies) : \E f \in [1..n -> DOMAIN replies] :
        /\ \A j, k \in 1..n : j < k => f[j] < f[k]
        /\ {f[k] : k \in 1..n} = {i \in DOMAIN replies : Kept(replies[i], expired)}
        /\ replies' = [k \in 1..n |-> replies[f[k]]]
  BY <1>2 DEF Pruned
<1>4. PICK f \in [1..n -> DOMAIN replies] :
        /\ \A j, k \in 1..n : j < k => f[j] < f[k]
        /\ {f[k] : k \in 1..n} = {i \in DOMAIN replies : Kept(replies[i], expired)}
        /\ replies' = [k \in 1..n |-> replies[f[k]]]
  BY <1>3
<1>5. n \in Nat /\ replies' \in [1..n -> Reply] /\ DOMAIN replies' = 1..n
  BY <1>1, <1>4
<1>6. replies' \in Seq(Reply)
  BY <1>5, SeqDef
<1>7. ReplyRecordedOnce'
  <2> SUFFICES ASSUME NEW j \in 1..n, NEW k \in 1..n,
                      replies'[j].msg = replies'[k].msg
               PROVE  j = k
    BY <1>5 DEF ReplyRecordedOnce
  <2>1. f[j] = f[k]
    BY <1>4 DEF RepliesInv, ReplyRecordedOnce
  <2>2. ~(j < k) /\ ~(k < j)
    BY <1>1, <1>4, <2>1
  <2> QED
    BY <1>5, <2>2
<1>8. ASSUME NEW m \in Messages, Resolved(m) PROVE Resolved(m)'
  <2>1. PICK i \in DOMAIN replies :
          replies[i].msg = m /\ replies[i].status = "resolved"
    BY <1>8 DEF Resolved
  <2>2. replies[i] \notin expired
    BY <1>2, <2>1 DEF Pending
  <2>3. i \in {f[k] : k \in 1..n}
    BY <1>4, <2>2 DEF Kept
  <2>4. PICK k \in 1..n : f[k] = i
    BY <2>3
  <2>5. k \in DOMAIN replies' /\ replies'[k] = replies[i]
    BY <1>4, <1>5, <2>4
  <2> QED
    BY <2>1, <2>5 DEF Resolved
<1> QED
  BY <1>6, <1>7, <1>8 DEF RepliesInv

\* Every step keeps one entry per message, and the resolved ones resolved
\* unless it could not read the file.
LEMMA RepliesStep ==
  RepliesInv /\ [Next]_vars =>
    /\ RepliesInv'
    /\ (\A m \in Messages : Resolved(m) => Resolved(m)') \/ Overwritten
<1> SUFFICES ASSUME RepliesInv, [Next]_vars
             PROVE  /\ RepliesInv'
                    /\ \/ \A m \in Messages : Resolved(m) => Resolved(m)'
                       \/ Overwritten
  OBVIOUS
<1>1. CASE UNCHANGED replies
  BY <1>1 DEF RepliesInv, ReplyRecordedOnce, Resolved
<1>2. ASSUME NEW p \in Procs, Handler(p)
      PROVE  UNCHANGED replies \/ \E c : Settle(c)
  BY <1>2 DEF Handler, Load, Save, Enqueue, Claim, Requeue, SettleReplies
<1>3. ASSUME NEW p \in Procs, Background(p)
      PROVE  UNCHANGED replies \/ \E c : Settle(c)
  BY <1>3 DEF Background, CronLoad, CronTouch, CronAsk, CronSave, CronFails,
              SweepCancel, SweepSettles
<1>4. ASSUME NEW p \in Procs, Crash(p) PROVE UNCHANGED replies
  BY <1>4 DEF Crash
<1>5. ASSUME NEW c \in Cards, NEW w \in Workers, NEW m \in Messages,
             ExpectReply(c, w, m)
      PROVE  /\ RepliesInv'
             /\ \/ \A n \in Messages : Resolved(n) => Resolved(n)'
                \/ Overwritten
  BY <1>5, ExpectStep, OverwriteStep DEF ExpectReply
<1> QED
  BY <1>1, <1>2, <1>3, <1>4, <1>5, ResolveStep, SettleStep, ExpireStep
  DEF Next, vars

\* Card files, operations in flight and expected replies keep their types in
\* every reachable state: no operation saves a card or an entry that another
\* process could not read.
THEOREM TypeCorrect == Spec => []TypeOK
<1>1. CardInv /\ RepliesInv => TypeOK
  BY DEF CardInv, RepliesInv, TypeOK
<1>2. RepliesInv /\ [Next]_vars => RepliesInv'
  BY RepliesStep
<1> QED
  BY CardInvariant, RepliesInit, <1>1, <1>2, PTL DEF Spec

\* expect_reply records a message at most once, however its calls interleave
\* with settling, terminal cards and the pruning of expired entries.
THEOREM RecordedOnce == Spec => []ReplyRecordedOnce
<1>1. RepliesInv => ReplyRecordedOnce
  BY DEF RepliesInv
<1>2. RepliesInv /\ [Next]_vars => RepliesInv'
  BY RepliesStep
<1> QED
  BY RepliesInit, <1>1, <1>2, PTL DEF Spec

\* A resolved entry is never made pending again and never dropped, so a
\* replayed request for the same reply finds it, unless an expect_reply could
\* not read the file (expect_reply, pending_replies).
THEOREM ResolvedStays == Spec => ResolvedStaysResolved
<1>1. RepliesInv /\ [Next]_vars =>
        /\ RepliesInv'
        /\ [\/ \A m \in Messages : Resolved(m) => Resolved(m)'
            \/ Overwritten]_replies
  BY RepliesStep
<1> QED
  BY RepliesInit, <1>1, PTL DEF Spec, ResolvedStaysResolved

---------------------------------------------------------------------------
(* Finished cards and the card lifecycle.  A save of an outdated copy undoes *)
(* what others did to the card since; nothing else does.                     *)

\* An unsaved copy still is what the file holds.
Current(o) == o.kind \in Kinds => o.snap = card[o.id]

\* One step of one card's lifecycle, or none.
Moves(old, new) ==
  \/ new.status = old.status /\ new.assignee = old.assignee
  \/ /\ new.assignee = old.assignee
     /\ \/ old.status = "absent" /\ new.status = "open"
        \/ Mutable(old) /\ new.status \in {"qa_review"} \cup TERMINAL_STATUSES
        \/ InReview(old) /\ new.status = "active"
  \/ /\ old.status \in {"absent", "open"}
     /\ new.status = "active"
     /\ new.assignee \in Workers
  \/ /\ old.status = "active"
     /\ new.status = "open"
     /\ new.assignee = Nobody

\* What an operation saves is a lifecycle step from its own copy.
LEMMA ApplyMoves ==
  ASSUME NEW kind \in Kinds, NEW card0 \in CardType, NEW w \in Workers,
         kind = "create" => card0.status = "absent",
         kind # "create" => Mutable(card0),
         kind \in {"qa_reject", "auto_approve"} => InReview(card0)
  PROVE  /\ Moves(card0, Apply(kind, card0, w))
         /\ card0.status \notin TERMINAL_STATUSES
  BY DEF Apply, CardType, Kinds, TERMINAL_STATUSES, AssignedCard, Absent,
         EXPLICIT_TERMINAL_STATUSES, Moves, Mutable, InReview

\* The step writes one card that is not finished, along the lifecycle.
Writes(c) ==
  \E new \in CardType :
    /\ card' = [card EXCEPT ![c] = new]
    /\ card[c].status \notin TERMINAL_STATUSES
    /\ Moves(card[c], new)

\* Saving a current copy is such a write.
LEMMA SaveWrites ==
  ASSUME CardInv, NEW o \in {Idle} \cup Op, CopyOK(o), Current(o),
         o.kind \in Kinds,
         card' = [card EXCEPT ![o.id] = Apply(o.kind, o.snap, o.to)]
  PROVE  \E c \in Cards : Writes(c)
<1>1. o.id \in Cards /\ o.snap \in CardType /\ o.to \in Workers
  BY InFlight
<1>2. o.snap = card[o.id]
  BY DEF Current
<1>3. Apply(o.kind, o.snap, o.to) \in CardType
  BY <1>1, ApplyType
<1>4. /\ Moves(o.snap, Apply(o.kind, o.snap, o.to))
      /\ o.snap.status \notin TERMINAL_STATUSES
  BY <1>1, ApplyMoves DEF CopyOK
<1>5. Writes(o.id)
  BY <1>2, <1>3, <1>4 DEF Writes
<1> QED
  BY <1>1, <1>5

\* The operations that hold the card's lock, and enqueue, write along the
\* lifecycle whatever other processes have in flight.
LEMMA LockedWrites ==
  ASSUME CardInv, NEW p \in Procs, NEW c \in Cards,
         Enqueue(p, c) \/ Claim(p, c) \/ Requeue(p, c) \/ SweepCancel(p, c)
  PROVE  Writes(c)
<1>0. card[c] \in CardType /\ Sound(card[c])
  BY DEF CardInv, CardTypes, CardsSound
<1>1. CASE Enqueue(p, c)
  <2>1. /\ card[c].status = "absent" /\ card[c].assignee = Nobody
        /\ card' = [card EXCEPT ![c] = EnqueuedCard]
    BY <1>0, <1>1 DEF Enqueue, Sound
  <2>2. EnqueuedCard \in CardType
    BY DEF EnqueuedCard, CardType, Absent, Statuses
  <2>3. Moves(card[c], EnqueuedCard)
    BY <2>1 DEF Moves, EnqueuedCard, Absent
  <2> QED
    BY <2>1, <2>2, <2>3 DEF Writes, TERMINAL_STATUSES
<1>2. CASE Claim(p, c)
  <2> DEFINE new == [card[c] EXCEPT !.status = "active", !.assignee = p,
                                    !.cron = TRUE]
  <2>1. card[c].status = "open" /\ card' = [card EXCEPT ![c] = new]
    BY <1>2 DEF Claim
  <2>2. new \in CardType /\ Moves(card[c], new)
    BY <1>0, <2>1, LedgerAssumption DEF CardType, Statuses, Moves
  <2> QED
    BY <2>1, <2>2 DEF Writes, TERMINAL_STATUSES
<1>3. CASE Requeue(p, c)
  <2>1. /\ card[c].status = "active"
        /\ card' = [card EXCEPT ![c] = Requeued(card[c])]
    BY <1>3 DEF Requeue
  <2>2. Requeued(card[c]) \in CardType /\ Moves(card[c], Requeued(card[c]))
    BY <1>0, <2>1 DEF Requeued, CardType, Statuses, Moves
  <2> QED
    BY <2>1, <2>2 DEF Writes, TERMINAL_STATUSES
<1>4. CASE SweepCancel(p, c)
  <2>1. Mutable(card[c]) /\ card' = [card EXCEPT ![c] = Apply("cancelled", @, p)]
    BY <1>4 DEF SweepCancel
  <2>2. "cancelled" \in Kinds
    BY DEF Kinds
  <2>3. /\ Apply("cancelled", card[c], p) \in CardType
        /\ Moves(card[c], Apply("cancelled", card[c], p))
        /\ card[c].status \notin TERMINAL_STATUSES
    BY <1>0, <2>1, <2>2, LedgerAssumption, ApplyType, ApplyMoves
  <2> QED
    BY <2>1, <2>3 DEF Writes
<1> QED
  BY <1>1, <1>2, <1>3, <1>4

\* A step that saves no outdated copy leaves the files alone or writes one card
\* along the lifecycle.
LEMMA FreshWrites ==
  ASSUME CardInv, ~StaleSave, [Next]_vars
  PROVE  card' = card \/ \E c \in Cards : Writes(c)
<1>0. /\ card \in [Cards -> CardType] /\ op \in [Procs -> {Idle} \cup Op]
      /\ due \in [Procs -> [Cards -> CardType]]
  BY DEF CardInv, CardTypes
<1>1. ASSUME NEW p \in Procs, Save(p) PROVE \E c \in Cards : Writes(c)
  <2>1. op'[p].kind \notin Kinds
    BY <1>0, <1>1 DEF Save, Settling, Idle, Kinds
  <2>2. Current(op[p])
    BY <1>1, <2>1 DEF Save, StaleSave, Current
  <2> QED
    BY <1>1, <2>2, SaveWrites DEF Save, CardInv, CardTypes, CopiesOK
<1>2. ASSUME NEW p \in Procs, NEW c \in Cards, CronTouch(p, c) \/ CronSave(p, c)
      PROVE  card' = card
  <2>1. due[p][c] # Absent /\ due'[p][c] = Absent
    BY <1>0, <1>2 DEF CronTouch, CronSave
  <2>2. due[p][c] = card[c]
    BY <2>1 DEF StaleSave
  <2> QED
    BY <1>0, <1>2, <2>2 DEF CronTouch, CronSave
<1>3. ASSUME NEW p \in Procs, Handler(p)
      PROVE  card' = card \/ \E c \in Cards : Writes(c)
  BY <1>1, <1>3, LockedWrites DEF Handler, Load, SettleReplies
<1>4. ASSUME NEW p \in Procs, Background(p)
      PROVE  card' = card \/ \E c \in Cards : Writes(c)
  BY <1>2, <1>4, LockedWrites
  DEF Background, CronLoad, CronAsk, CronFails, SweepSettles
<1> QED
  BY <1>3, <1>4
  DEF Next, vars, Crash, ExpectReply, ResolveReply, ExpireReplies

\* Such a write leaves every finished card as it is.
LEMMA WriteSparesFinished ==
  ASSUME CardInv, NEW c \in Cards, Writes(c)
  PROVE  \A d \in Cards : card[d].status \in TERMINAL_STATUSES
                             => card'[d] = card[d]
  BY DEF Writes, CardInv, CardTypes

\* Such a write is a step of the abstract lifecycle, or none.
LEMMA WriteIsLifecycle ==
  ASSUME CardInv, NEW c \in Cards, Writes(c)
  PROVE  [Lifecycle!LNext]_(Lifecycle!cardVars)
<1>1. PICK new \in CardType :
        card' = [card EXCEPT ![c] = new] /\ Moves(card[c], new)
  BY DEF Writes
<1> DEFINE st == [d \in Cards |-> card[d].status]
           ow == [d \in Cards |-> card[d].assignee]
<1>2. /\ st' = [st EXCEPT ![c] = new.status]
      /\ ow' = [ow EXCEPT ![c] = new.assignee]
      /\ st[c] = card[c].status /\ ow[c] = card[c].assignee
  BY <1>1 DEF CardInv, CardTypes
<1>3. card[c].status \in Statuses
  BY DEF CardInv, CardTypes, CardType
<1>4. new.assignee = ow[c] => ow' = ow
  BY <1>2
<1>5. new.status = st[c] => st' = st
  BY <1>2
<1> HIDE DEF st, ow
<1>6. CASE new.status = st[c] /\ new.assignee = ow[c]
  BY <1>4, <1>5, <1>6 DEF Lifecycle!cardVars, st, ow
<1>7. CASE new.assignee = ow[c] /\ st[c] = "absent" /\ new.status = "open"
  <2>1. Lifecycle!Open(c)
    BY <1>2, <1>4, <1>7 DEF Lifecycle!Open, Lifecycle!Becomes, st, ow
  <2> QED
    BY <2>1 DEF Lifecycle!LNext
<1>8. CASE /\ new.assignee = ow[c] /\ Mutable(card[c])
           /\ new.status \in {"qa_review"} \cup TERMINAL_STATUSES
  <2>1. st[c] \in Lifecycle!Live
    BY <1>2, <1>3, <1>8
    DEF Lifecycle!Live, Mutable, Statuses, TERMINAL_STATUSES
  <2>2. CASE new.status = "qa_review"
    <3>1. Lifecycle!Review(c)
      BY <1>2, <1>4, <1>8, <2>1, <2>2
      DEF Lifecycle!Review, Lifecycle!Becomes, st, ow
    <3> QED
      BY <3>1 DEF Lifecycle!LNext
  <2>3. CASE new.status \in TERMINAL_STATUSES
    <3>1. new.status \in Lifecycle!Finished
      BY <2>3 DEF Lifecycle!Finished, TERMINAL_STATUSES
    <3>2. Lifecycle!Finish(c)
      BY <1>2, <1>4, <1>8, <2>1, <3>1
      DEF Lifecycle!Finish, Lifecycle!Becomes, st, ow
    <3> QED
      BY <3>2 DEF Lifecycle!LNext
  <2> QED
    BY <1>8, <2>2, <2>3
<1>9. CASE new.assignee = ow[c] /\ InReview(card[c]) /\ new.status = "active"
  <2>1. Lifecycle!Rework(c)
    BY <1>2, <1>4, <1>9
    DEF Lifecycle!Rework, Lifecycle!Becomes, InReview, st, ow
  <2> QED
    BY <2>1 DEF Lifecycle!LNext
<1>10. CASE /\ st[c] \in {"absent", "open"} /\ new.status = "active"
            /\ new.assignee \in Workers
  <2>1. \/ Lifecycle!Assign(c, new.assignee)
        \/ Lifecycle!Take(c, new.assignee)
    BY <1>2, <1>10 DEF Lifecycle!Assign, Lifecycle!Take, st, ow
  <2> QED
    BY <1>10, <2>1 DEF Lifecycle!LNext
<1>11. CASE st[c] = "active" /\ new.status = "open" /\ new.assignee = Nobody
  <2>1. Lifecycle!GiveBack(c)
    BY <1>2, <1>11 DEF Lifecycle!GiveBack, st, ow
  <2> QED
    BY <2>1 DEF Lifecycle!LNext
<1> QED
  BY <1>1, <1>2, <1>6, <1>7, <1>8, <1>9, <1>10, <1>11 DEF Moves

\* Outdated copies are the only way in which the card files leave the lifecycle
\* of the module docstring: any number of processes, the reminder cron, the
\* sweep and crashes move cards as CardLifecycle says, in every step that does
\* not save one.
THEOREM FollowsLifecycle == Spec => LifecycleUnlessStale
<1>1. card' = card => UNCHANGED (Lifecycle!cardVars)
  BY DEF Lifecycle!cardVars
<1>2. CardInv /\ [Next]_vars
        => [Lifecycle!LNext \/ StaleSave]_(Lifecycle!cardVars)
  BY <1>1, FreshWrites, WriteIsLifecycle
<1> QED
  BY CardInvariant, <1>2, PTL DEF Spec, LifecycleUnlessStale

---------------------------------------------------------------------------
(* First claim wins *)

\* A claimed card is no longer open, and has one worker who claimed it.
ClaimInv ==
  \A c \in Cards :
    /\ card[c].status \in {"absent", "open"} => claimed[c] = {}
    /\ \E w \in Procs \cup {Nobody} : claimed[c] \subseteq {w}

\* No operation makes an open card of one that it did not load open.
LEMMA ApplyOpens ==
  ASSUME NEW kind \in Kinds, NEW card0 \in CardType, NEW w \in Workers,
         Apply(kind, card0, w).status \in {"absent", "open"}
  PROVE  card0.status \in {"absent", "open"}
  BY DEF Apply, CardType, Kinds, AssignedCard, Absent, EXPLICIT_TERMINAL_STATUSES

\* A write that opens no card keeps the claims.
LEMMA ClaimsKept ==
  ASSUME CardInv, ClaimInv, claimed' = claimed,
         \A c \in Cards : card'[c].status \in {"absent", "open"}
                             => card[c].status \in {"absent", "open"}
  PROVE  ClaimInv'
  BY DEF ClaimInv

\* Saving a current copy opens no card.
LEMMA SaveOpensNone ==
  ASSUME CardInv, NEW o \in {Idle} \cup Op, Current(o), o.kind \in Kinds,
         card' = [card EXCEPT ![o.id] = Apply(o.kind, o.snap, o.to)]
  PROVE  \A c \in Cards : card'[c].status \in {"absent", "open"}
                             => card[c].status \in {"absent", "open"}
<1>1. o.id \in Cards /\ o.snap \in CardType /\ o.to \in Workers
  BY InFlight
<1>2. o.snap = card[o.id]
  BY DEF Current
<1> QED
  BY <1>1, <1>2, ApplyOpens DEF CardInv, CardTypes

LEMMA ClaimInit == Init => ClaimInv
  BY DEF Init, ClaimInv

LEMMA ClaimStep ==
  CardInv /\ ClaimInv /\ [Next /\ ~StaleSave]_vars => ClaimInv'
<1> SUFFICES ASSUME CardInv, ClaimInv, [Next /\ ~StaleSave]_vars
             PROVE  ClaimInv'
  OBVIOUS
<1>0. /\ op \in [Procs -> {Idle} \cup Op]
      /\ due \in [Procs -> [Cards -> CardType]]
      /\ card \in [Cards -> CardType] /\ claimed \in [Cards -> SUBSET Procs]
  BY DEF CardInv, CardTypes
<1>1. CASE UNCHANGED <<card, claimed>>
  BY <1>1 DEF ClaimInv
<1>2. ASSUME NEW p \in Procs, Save(p), ~StaleSave PROVE ClaimInv'
  <2>1. op'[p].kind \notin Kinds
    BY <1>0, <1>2 DEF Save, Settling, Idle, Kinds
  <2>2. Current(op[p])
    BY <1>2, <2>1 DEF Save, StaleSave, Current
  <2> QED
    BY <1>0, <1>2, <2>2, SaveOpensNone, ClaimsKept DEF Save
<1>3. ASSUME NEW p \in Procs, NEW c \in Cards, CronTouch(p, c) \/ CronSave(p, c),
             ~StaleSave
      PROVE  ClaimInv'
  <2>1. due[p][c] # Absent /\ due'[p][c] = Absent
    BY <1>0, <1>3 DEF CronTouch, CronSave
  <2>2. due[p][c] = card[c]
    BY <1>3, <2>1 DEF StaleSave
  <2> QED
    BY <1>0, <1>1, <1>3, <2>2 DEF CronTouch, CronSave
<1>4. ASSUME NEW p \in Procs, NEW c \in Cards, Enqueue(p, c) PROVE ClaimInv'
  BY <1>0, <1>4, ClaimsKept DEF Enqueue
<1>5. ASSUME NEW p \in Procs, NEW c \in Cards, Claim(p, c) PROVE ClaimInv'
  <2>1. /\ card'[c].status = "active"
        /\ \A d \in Cards : d # c => card'[d] = card[d] /\ claimed'[d] = claimed[d]
    BY <1>0, <1>5 DEF Claim, CardType
  <2>2. claimed'[c] = {p}
    BY <1>0, <1>5 DEF Claim, ClaimInv
  <2> QED
    BY <2>1, <2>2 DEF ClaimInv
<1>6. ASSUME NEW p \in Procs, NEW c \in Cards, Requeue(p, c) PROVE ClaimInv'
  <2>1. /\ claimed'[c] = {}
        /\ \A d \in Cards : d # c => card'[d] = card[d] /\ claimed'[d] = claimed[d]
    BY <1>0, <1>6 DEF Requeue
  <2> QED
    BY <2>1 DEF ClaimInv
<1>7. ASSUME NEW p \in Procs, NEW c \in Cards, SweepCancel(p, c) PROVE ClaimInv'
  <2>1. card[c] \in CardType /\ "cancelled" \in Kinds /\ p \in Workers
    BY <1>0, LedgerAssumption DEF Kinds
  <2> QED
    BY <1>0, <1>7, <2>1, ApplyOpens, ClaimsKept DEF SweepCancel
<1> QED
  BY <1>1, <1>2, <1>3, <1>4, <1>5, <1>6, <1>7
  DEF Next, vars, Handler, Background, Load, SettleReplies, CronLoad, CronAsk,
      CronFails, SweepSettles, Crash, ExpectReply, ResolveReply, ExpireReplies

\* Unless an outdated copy is saved the first claim of a card wins (claim), for
\* any number of workers: that two workers can both hold a card is due to the
\* second save of /hub queue and other stale saves alone, not to claim or
\* requeue_stalled.
THEOREM FirstClaimWinsUnlessStale ==
  Spec /\ [][~StaleSave]_vars => []FirstClaimWins
<1>1. ClaimInv => FirstClaimWins
  <2> SUFFICES ASSUME ClaimInv, NEW c \in Cards
               PROVE  Cardinality(claimed[c]) <= 1
    BY DEF FirstClaimWins
  <2>1. PICK w : claimed[c] = {} \/ claimed[c] = {w}
    BY DEF ClaimInv
  <2>2. Cardinality({}) = 0 /\ Cardinality({w}) = 1
    BY FS_EmptySet, FS_Singleton
  <2> QED
    BY <2>1, <2>2
<1>2. [Next]_vars /\ [~StaleSave]_vars => [Next /\ ~StaleSave]_vars
  OBVIOUS
<1> QED
  BY CardInvariant, ClaimInit, ClaimStep, <1>1, <1>2, PTL DEF Spec

---------------------------------------------------------------------------
(* Operations that take turns on a card *)

\* The handler of p is at work on the card; a terminalization is until its
\* replies are settled.
Busy(p, c) == op[p] # Idle /\ op[p].id = c

\* No two of them are at work on one card: handlers, cron copies, sweeps.
\* Claims and requeues are not restricted.
OneCopy ==
  \A c \in Cards, p, q \in Procs :
    /\ Busy(p, c) => due[q][c] = Absent /\ c \notin sweep[q]
    /\ c \in sweep[p] => due[q][c] = Absent
    /\ p # q => /\ ~(Busy(p, c) /\ Busy(q, c))
                /\ due[p][c] = Absent \/ due[q][c] = Absent

\* A copy of the card that may still be saved.
HasCopy(p, c) ==
  (op[p].kind \in Kinds /\ op[p].id = c) \/ due[p][c] # Absent

\* The card of such a copy is not finished.
LiveCopies ==
  \A p \in Procs, c \in Cards :
    HasCopy(p, c) => card[c].status \notin TERMINAL_STATUSES

\* An operation that may still save is not idle.
LEMMA SavingIsBusy ==
  ASSUME NEW o, o.kind \in Kinds
  PROVE  o # Idle
  BY DEF Idle, Kinds

LEMMA LiveInit == Init => LiveCopies
  BY DEF Init, LiveCopies, HasCopy, Idle, Kinds, NoCopies

\* A loaded card is not finished.
LEMMA LoadedUnfinished ==
  ASSUME NEW kind \in Kinds, NEW card0 \in CardType, May(kind, card0)
  PROVE  card0.status \notin TERMINAL_STATUSES
  BY MayImplies DEF Mutable, TERMINAL_STATUSES

\* One card is written, and either not finished by that or free of copies.
LEMMA StaysLive ==
  ASSUME CardInv, LiveCopies, NEW c \in Cards, NEW new,
         card' = [card EXCEPT ![c] = new],
         \A p \in Procs, d \in Cards : HasCopy(p, d)' => HasCopy(p, d) \/ d = c,
         \/ new.status \notin TERMINAL_STATUSES
         \/ \A p \in Procs : ~HasCopy(p, c)'
  PROVE  LiveCopies'
<1> SUFFICES ASSUME NEW p \in Procs, NEW d \in Cards, HasCopy(p, d)'
             PROVE  card'[d].status \notin TERMINAL_STATUSES
  BY DEF LiveCopies
<1>0. card \in [Cards -> CardType]
  BY DEF CardInv, CardTypes
<1>1. CASE d = c
  BY <1>0, <1>1
<1>2. CASE d # c
  BY <1>0, <1>2 DEF LiveCopies
<1> QED
  BY <1>1, <1>2

\* No step of a handler finishes a card that another copy may still overwrite.
LEMMA LiveHandler ==
  ASSUME CardInv, OneCopy, LiveCopies, NEW p \in Procs, Handler(p)
  PROVE  LiveCopies'
<1>0. /\ op \in [Procs -> {Idle} \cup Op]
      /\ due \in [Procs -> [Cards -> CardType]]
      /\ card \in [Cards -> CardType]
  BY DEF CardInv, CardTypes
<1>1. ASSUME NEW kind \in Kinds, NEW c \in Cards, NEW w \in Workers,
             Load(p, kind, c, w)
      PROVE  LiveCopies'
  <2>1. card[c].status \notin TERMINAL_STATUSES
    BY <1>0, <1>1, LoadedUnfinished DEF Load
  <2>2. /\ UNCHANGED <<card, due>>
        /\ \A q \in Procs : q # p => op'[q] = op[q]
        /\ op'[p].id = c
    BY <1>0, <1>1 DEF Load, background
  <2> QED
    BY <2>1, <2>2 DEF LiveCopies, HasCopy
<1>2. CASE Save(p)
  <2> DEFINE new == Apply(op[p].kind, op[p].snap, op[p].to)
  <2>0. PICK c \in Cards : op[p].id = c
    BY <1>0, <1>2, InFlight DEF Save
  <2>1. /\ op[p].kind \in Kinds /\ op[p] # Idle
        /\ card' = [card EXCEPT ![c] = new]
        /\ \A q \in Procs : q # p => op'[q] = op[q]
        /\ UNCHANGED due
    BY <1>0, <1>2, <2>0, InFlight, SavingIsBusy DEF Save, background
  <2>2. op'[p].kind \notin Kinds
    BY <1>0, <1>2 DEF Save, Settling, Idle, Kinds
  <2>3. Busy(p, c)
    BY <2>0, <2>1 DEF Busy
  <2>5. \A q \in Procs : ~HasCopy(q, c)'
    <3> SUFFICES ASSUME NEW q \in Procs PROVE ~HasCopy(q, c)'
      OBVIOUS
    <3>1. due[q][c] = Absent /\ (q # p => ~Busy(q, c))
      BY <2>1, <2>3 DEF OneCopy
    <3>2. q # p => ~(op[q].kind \in Kinds /\ op[q].id = c)
      BY <3>1, SavingIsBusy DEF Busy
    <3>3. op'[q].kind \notin Kinds \/ op'[q].id # c
      BY <2>1, <2>2, <3>2
    <3> QED
      BY <2>1, <3>1, <3>3 DEF HasCopy
  <2>4. \A q \in Procs, d \in Cards : HasCopy(q, d)' => HasCopy(q, d)
    BY <2>1, <2>2 DEF HasCopy
  <2> HIDE DEF new
  <2> QED
    BY <2>1, <2>4, <2>5, StaysLive
<1>3. ASSUME NEW c \in Cards, Enqueue(p, c) PROVE LiveCopies'
  <2>1. /\ card' = [card EXCEPT ![c] = EnqueuedCard]
        /\ EnqueuedCard.status \notin TERMINAL_STATUSES
        /\ op'[p] = Idle \/ op'[p].id = c
        /\ \A q \in Procs : q # p => op'[q] = op[q]
        /\ UNCHANGED due
    BY <1>0, <1>3 DEF Enqueue, EnqueuedCard, Absent, TERMINAL_STATUSES, background
  <2>2. \A q \in Procs, d \in Cards : HasCopy(q, d)' => HasCopy(q, d) \/ d = c
    BY <2>1, SavingIsBusy DEF HasCopy
  <2> QED
    BY <2>1, <2>2, StaysLive
<1>4. ASSUME NEW c \in Cards, Claim(p, c) \/ Requeue(p, c) PROVE LiveCopies'
  <2>1. PICK new : /\ card' = [card EXCEPT ![c] = new]
                   /\ new.status \notin TERMINAL_STATUSES
    <3>1. card[c] \in CardType
      BY <1>0
    <3> DEFINE taken == [card[c] EXCEPT !.status = "active", !.assignee = p,
                                        !.cron = TRUE]
    <3>2. /\ taken.status = "active"
          /\ Requeued(card[c]).status = "open"
      BY <3>1 DEF Requeued, CardType
    <3>3. \/ card' = [card EXCEPT ![c] = taken]
          \/ card' = [card EXCEPT ![c] = Requeued(card[c])]
      BY <1>4 DEF Claim, Requeue
    <3> HIDE DEF taken
    <3> QED
      BY <3>2, <3>3 DEF TERMINAL_STATUSES
  <2>2. \A q \in Procs, d \in Cards : HasCopy(q, d)' => HasCopy(q, d)
    BY <1>4 DEF Claim, Requeue, background, HasCopy
  <2> QED
    BY <2>1, <2>2, StaysLive
<1>5. CASE SettleReplies(p)
  <2>1. op'[p].kind \notin Kinds /\ UNCHANGED <<card, due>>
        /\ \A q \in Procs : q # p => op'[q] = op[q]
    BY <1>0, <1>5 DEF SettleReplies, background, Idle, Kinds
  <2> QED
    BY <2>1 DEF LiveCopies, HasCopy
<1> QED
  BY <1>1, <1>2, <1>3, <1>4, <1>5 DEF Handler

\* Nor does a step of the cron loop or of the sweep.
LEMMA LiveBackground ==
  ASSUME CardInv, OneCopy, OneCopy', LiveCopies, NEW p \in Procs, Background(p)
  PROVE  LiveCopies'
<1>0. /\ op \in [Procs -> {Idle} \cup Op]
      /\ due \in [Procs -> [Cards -> CardType]]
      /\ sweep \in [Procs -> SUBSET Cards]
      /\ card \in [Cards -> CardType]
  BY DEF CardInv, CardTypes
<1>1. ASSUME NEW cards \in SUBSET Cards, CronLoad(p, cards) PROVE LiveCopies'
  <2>1. \A c \in cards : card[c].status \notin TERMINAL_STATUSES
    BY <1>1 DEF CronLoad, Remindable, TERMINAL_STATUSES
  <2>2. /\ UNCHANGED <<card, op>>
        /\ \A q \in Procs, d \in Cards :
             due'[q][d] # Absent => due[q][d] # Absent \/ d \in cards
    BY <1>0, <1>1 DEF CronLoad
  <2> QED
    BY <2>1, <2>2 DEF LiveCopies, HasCopy
<1>2. ASSUME NEW c \in Cards, CronTouch(p, c) \/ CronSave(p, c) PROVE LiveCopies'
  <2>1. /\ due[p][c] # Absent /\ due'[p][c] = Absent
        /\ UNCHANGED op
        /\ \A q \in Procs, d \in Cards :
             due'[q][d] = due[q][d] \/ due'[q][d] = Absent
        /\ card' = [card EXCEPT ![c] = due[p][c]] \/ card' = card
    BY <1>0, <1>2 DEF CronTouch, CronSave
  <2>2. \A q \in Procs, d \in Cards : HasCopy(q, d)' => HasCopy(q, d)
    BY <2>1 DEF HasCopy
  <2>3. \A q \in Procs : ~HasCopy(q, c)'
    BY <2>1, SavingIsBusy DEF OneCopy, Busy, HasCopy
  <2>4. CASE card' = card
    BY <2>2, <2>4 DEF LiveCopies
  <2>5. CASE card' = [card EXCEPT ![c] = due[p][c]]
    BY <2>2, <2>3, <2>5, StaysLive
  <2> QED
    BY <2>1, <2>4, <2>5
<1>3. CASE CronAsk(p) \/ CronFails(p) \/ SweepSettles(p)
  <2>1. /\ UNCHANGED <<card, op>>
        /\ \A q \in Procs, d \in Cards :
             due'[q][d] = due[q][d] \/ due'[q][d] = Absent
    BY <1>0, <1>3 DEF CronAsk, CronFails, SweepSettles, NoCopies
  <2> QED
    BY <2>1 DEF LiveCopies, HasCopy
<1>4. ASSUME NEW c \in Cards, SweepCancel(p, c) PROVE LiveCopies'
  <2> DEFINE new == Apply("cancelled", card[c], p)
  <2>1. /\ card' = [card EXCEPT ![c] = new]
        /\ c \in sweep'[p]
        /\ UNCHANGED <<op, due>>
    BY <1>0, <1>4 DEF SweepCancel
  <2>2. \A q \in Procs : ~HasCopy(q, c)'
    BY <2>1, SavingIsBusy DEF OneCopy, Busy, HasCopy
  <2>3. \A q \in Procs, d \in Cards : HasCopy(q, d)' => HasCopy(q, d)
    BY <2>1 DEF HasCopy
  <2> HIDE DEF new
  <2> QED
    BY <2>1, <2>2, <2>3, StaysLive
<1> QED
  BY <1>1, <1>2, <1>3, <1>4 DEF Background

LEMMA LiveStep ==
  CardInv /\ OneCopy /\ OneCopy' /\ LiveCopies /\ [Next]_vars => LiveCopies'
<1> SUFFICES ASSUME CardInv, OneCopy, OneCopy', LiveCopies, [Next]_vars
             PROVE  LiveCopies'
  OBVIOUS
<1>1. CASE UNCHANGED <<card, op, due>>
  BY <1>1 DEF LiveCopies, HasCopy
<1>2. ASSUME NEW p \in Procs, Crash(p) PROVE LiveCopies'
  <2>1. /\ UNCHANGED card
        /\ op'[p].kind \notin Kinds /\ \A c \in Cards : due'[p][c] = Absent
        /\ \A q \in Procs : q # p => op'[q] = op[q] /\ due'[q] = due[q]
    BY <1>2 DEF Crash, Idle, Kinds, NoCopies, CardInv, CardTypes
  <2> QED
    BY <2>1 DEF LiveCopies, HasCopy
<1> QED
  BY <1>1, <1>2, LiveHandler, LiveBackground
  DEF Next, vars, background, ExpectReply, ResolveReply, ExpireReplies

\* While no copy in flight is of a finished card, no step changes one.
LEMMA LiveSparesFinished ==
  CardInv /\ LiveCopies /\ [Next]_vars =>
    [\A c \in Cards : card[c].status \in TERMINAL_STATUSES
                         => card'[c] = card[c]]_card
<1> SUFFICES ASSUME CardInv, LiveCopies, [Next]_vars
             PROVE  \A c \in Cards : card[c].status \in TERMINAL_STATUSES
                                        => card'[c] = card[c]
  OBVIOUS
<1> DEFINE Spared == \A c \in Cards : card[c].status \in TERMINAL_STATUSES
                                         => card'[c] = card[c]
<1>1. ASSUME NEW p \in Procs, Save(p) PROVE Spared
  BY <1>1, InFlight DEF Save, CardInv, CardTypes, LiveCopies, HasCopy
<1>2. ASSUME NEW p \in Procs, NEW c \in Cards, CronTouch(p, c) \/ CronSave(p, c)
      PROVE  Spared
  BY <1>2 DEF CronTouch, CronSave, CardInv, CardTypes, LiveCopies, HasCopy
<1>3. ASSUME NEW p \in Procs, Handler(p) PROVE Spared
  BY <1>1, <1>3, LockedWrites, WriteSparesFinished DEF Handler, Load, SettleReplies
<1>4. ASSUME NEW p \in Procs, Background(p) PROVE Spared
  BY <1>2, <1>4, LockedWrites, WriteSparesFinished
  DEF Background, CronLoad, CronAsk, CronFails, SweepSettles
<1> QED
  BY <1>3, <1>4
  DEF Next, vars, Crash, ExpectReply, ResolveReply, ExpireReplies

\* If the load-to-save spans of the unlocked operations, the copies of the cron
\* loop included, never overlap on one card, a finished card is final, for any
\* number of processes: claims, requeues and crashes may fall anywhere, also
\* inside such a span.
THEOREM OneCopyIsFinal == Spec /\ []OneCopy => TerminalIsFinal
  BY CardInvariant, LiveInit, LiveStep, LiveSparesFinished, PTL
  DEF Spec, TerminalIsFinal
=============================================================================
