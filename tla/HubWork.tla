------------------------------ MODULE HubWork ------------------------------
(***************************************************************************)
(* The hub's work queue (plugins/hub/coordinator.py, class WorkQueue) with  *)
(* the task cards it is paired with and the callers in                      *)
(* plugins/hub/plugin.py: /hub queue, /hub claim, the coordinator's orphan  *)
(* requeue and its stale-work sweep.                                        *)
(*                                                                          *)
(* /hub queue makes a slot and a card for the same item, one write after    *)
(* the other, and links them last; so the card of item i is a function of   *)
(* i and the link is a flag.  Each access to the queue file holds its lock; *)
(* the sweep looks at cards and upstreams between two such accesses.  Cards *)
(* change elsewhere as in module TaskLedger: claims and requeues hold the   *)
(* card's lock, everything else loads a copy and saves it later, the task   *)
(* cron many awaits later.                                                  *)
(***************************************************************************)
EXTENDS Integers, FiniteSets

CONSTANTS
  NumItems,    \* bound: items ever queued, numbered in queue order
  Workers,     \* agents that queue, claim and do work
  Nobody,      \* no holder
  Budget,      \* MAX_UPSTREAM_CHECKS
  MaxFaults,   \* bound: failed accesses, failed checks, worker crashes
  MaxCopies    \* bound: different copies of a card in flight

ASSUME WorkAssumption ==
  /\ NumItems \in Nat
  /\ Nobody \notin Workers
  /\ Budget \in Nat
  /\ MaxFaults \in Nat
  /\ MaxCopies \in Nat

VARIABLES
  slot,        \* work-queue.json: [Items -> Slot]
  card,        \* the paired cards: [Items -> CardStatus]
  copies,      \* copies of a card that operations elsewhere will save
  reopened,    \* items with a finished card that such a save made live again
  upstream,    \* a slot's GitHub refs: none, some open, or all terminal
  queueing,    \* [Workers -> Command]: the /hub queue command in flight
  syncing,     \* [Workers -> item]: a card claim about to mark its slot
  sweep,       \* the coordinator's cleanup: requeue, then the sweep thread
  roster,      \* the agents the coordinator's last discovery found
  alive,       \* workers whose process runs
  faults       \* faults so far

copying == <<copies, reopened>>
vars == <<slot, card, copying, upstream, queueing, syncing, sweep, roster, alive,
          faults>>
agents == <<roster, alive>>

Items == 1..NumItems
NoItem == 0

SlotStatus == {"absent", "pending", "assigned", "completed", "retired"}
\* "ended" stands for the terminal statuses: done, closed, cancelled, obsolete.
CardStatus == {"absent", "open", "active", "qa_review", "ended"}
Reasons == {"none", "completed", "card", "upstream"}

\* noted: stale_upstream_note is set.
Slot == [status : SlotStatus, holder : Workers \cup {Nobody}, reason : Reasons,
         linked : BOOLEAN, noted : BOOLEAN]

\* An assigned slot is held by a worker, one that can be claimed or restored is
\* not, and only a retired slot has a reason.  A completed one keeps its holder.
WellFormed(s) ==
  /\ s.status = "assigned" => s.holder # Nobody
  /\ s.status \in {"absent", "pending"} => s.holder = Nobody
  /\ s.reason \in {"card", "upstream"} => s.holder = Nobody
  /\ (s.reason # "none") <=> (s.status = "retired")

Command == [step : {"idle", "enqueue", "note", "link", "cancel"},
            item : Items \cup {NoItem}]
Idle == [step |-> "idle", item |-> NoItem]

\* todo: items a phase has still to look at; why: the verdict on an item, later
\* the reason it was retired for; notes: items to annotate; item: the one to
\* restore.
Sweep == [phase : {"idle", "requeue", "due", "check", "cancel", "restore"},
          snap : [Items -> Slot], todo : SUBSET Items,
          why : [Items -> Reasons], notes : SUBSET Items,
          left : 0..Budget, item : Items \cup {NoItem}]

TypeOK ==
  /\ slot \in [Items -> Slot]
  /\ \A i \in Items : WellFormed(slot[i])
  /\ card \in [Items -> CardStatus]
  /\ copies \in [Items -> SUBSET CardStatus]
  /\ reopened \in SUBSET Items
  /\ upstream \in [Items -> {"none", "open", "landed"}]
  /\ queueing \in [Workers -> Command]
  /\ syncing \in [Workers -> Items \cup {NoItem}]
  /\ sweep \in Sweep
  /\ roster \in SUBSET Workers
  /\ alive \in SUBSET Workers
  /\ faults \in 0..MaxFaults

NoSlot == [status |-> "absent", holder |-> Nobody, reason |-> "none",
           linked |-> FALSE, noted |-> FALSE]
NoSlots == [i \in Items |-> NoSlot]

NoSweep == [phase |-> "idle", snap |-> NoSlots, todo |-> {},
            why |-> [i \in Items |-> "none"], notes |-> {}, left |-> Budget,
            item |-> NoItem]

Init ==
  /\ slot = NoSlots
  /\ card = [i \in Items |-> "absent"]
  /\ copies = [i \in Items |-> {}]
  /\ reopened = {}
  /\ upstream = [i \in Items |-> "none"]
  /\ queueing = [w \in Workers |-> Idle]
  /\ syncing = [w \in Workers |-> NoItem]
  /\ sweep = NoSweep
  /\ roster = Workers
  /\ alive = Workers
  /\ faults = 0

CanRun(w) == w \in alive /\ queueing[w] = Idle /\ syncing[w] = NoItem

Fault ==
  /\ faults < MaxFaults
  /\ faults' = faults + 1

\* WorkQueue._save: _atomic_write only logs a failed write, so the operation
\* goes on as if the file had changed.
Write(slots) ==
  \/ slot' = slots /\ UNCHANGED faults
  \/ Fault /\ UNCHANGED slot

---------------------------------------------------------------------------
(* /hub queue: slot, card, checkpoint on the card, link *)

\* Neither a slot nor a card nor a command stands for the item yet.
Fresh(i) ==
  /\ slot[i].status = "absent"
  /\ card[i] = "absent"
  /\ \A w \in Workers : queueing[w].item # i

QueueAdd(w, i, up) ==
  /\ CanRun(w)
  /\ Fresh(i)
  /\ \A j \in 1..(i - 1) : ~Fresh(j)
  /\ Write([slot EXCEPT ![i].status = "pending"])
  /\ upstream' = [upstream EXCEPT ![i] = up]
  /\ queueing' = [queueing EXCEPT ![w] = [step |-> "enqueue", item |-> i]]
  /\ UNCHANGED <<card, copying, syncing, sweep, agents>>

At(w, step) == queueing[w].step = step
Goes(w, step) == queueing' = [queueing EXCEPT ![w].step = step]
Done(w) == queueing' = [queueing EXCEPT ![w] = Idle]

\* enqueue may fail: the slot then stays without a card.
QueueCard(w) ==
  LET i == queueing[w].item IN
  /\ At(w, "enqueue")
  /\ \/ /\ card' = [card EXCEPT ![i] = "open"]
        /\ Goes(w, "note")
        /\ UNCHANGED faults
     \/ Fault /\ Done(w) /\ UNCHANGED card
  /\ UNCHANGED <<slot, copying, upstream, syncing, sweep, agents>>

\* _save(card) writes the command's own copy, still open.
QueueNote(w) ==
  LET i == queueing[w].item IN
  /\ At(w, "note")
  /\ \/ /\ card' = [card EXCEPT ![i] = "open"]
        /\ UNCHANGED faults
     \/ Fault /\ UNCHANGED card
  /\ Goes(w, "link")
  /\ UNCHANGED <<slot, copying, upstream, syncing, sweep, agents>>

\* link_task_card.  No slot to link, a failed link, or a slot retired meanwhile,
\* is followed by the cancellation of the card.
QueueLink(w) ==
  LET i == queueing[w].item IN
  /\ At(w, "link")
  /\ \/ /\ slot[i].status # "absent"
        /\ Write([slot EXCEPT ![i].linked = TRUE])
        /\ IF slot[i].status = "retired" THEN Goes(w, "cancel") ELSE Done(w)
     \/ /\ slot[i].status = "absent"
        /\ Goes(w, "cancel")
        /\ UNCHANGED <<slot, faults>>
     \/ Fault /\ Goes(w, "cancel") /\ UNCHANGED slot
  /\ UNCHANGED <<card, copying, upstream, syncing, sweep, agents>>

\* terminalize without preserve_active.
QueueCancel(w) ==
  LET i == queueing[w].item IN
  /\ At(w, "cancel")
  /\ \/ /\ card' = [card EXCEPT ![i] = "ended"]
        /\ UNCHANGED faults
     \/ Fault /\ UNCHANGED card
  /\ Done(w)
  /\ UNCHANGED <<slot, copying, upstream, syncing, sweep, agents>>

---------------------------------------------------------------------------
(* /hub claim *)

\* The holder of a claimed slot; the status was pending.
Assign(s, w) == [s EXCEPT !.status = "assigned", !.holder = w]

\* claim_by_id and claim_next.
ClaimSlot(w, i) ==
  /\ CanRun(w)
  /\ slot[i].status = "pending"
  /\ Write([slot EXCEPT ![i] = Assign(@, w)])
  /\ UNCHANGED <<card, copying, upstream, queueing, syncing, sweep, agents>>

\* _try_assign_work: the coordinator claims for a worker its discovery found.
AssignWork(w, i) ==
  /\ w \in roster
  /\ slot[i].status = "pending"
  /\ Write([slot EXCEPT ![i] = Assign(@, w)])
  /\ UNCHANGED <<card, copying, upstream, queueing, syncing, sweep, agents>>

\* TaskLedger.claim and claim_next_open.
ClaimCard(w, i) ==
  /\ CanRun(w)
  /\ card[i] = "open"
  /\ card' = [card EXCEPT ![i] = "active"]
  /\ syncing' = [syncing EXCEPT ![w] = i]
  /\ UNCHANGED <<slot, copying, upstream, queueing, sweep, agents, faults>>

\* claim_task_card: only a linked slot that is still pending is marked.
SyncSlot(w) ==
  LET i == syncing[w] IN
  /\ i # NoItem
  /\ Write([slot EXCEPT ![i] =
              IF @.linked /\ @.status = "pending" THEN Assign(@, w) ELSE @])
  /\ syncing' = [syncing EXCEPT ![w] = NoItem]
  /\ UNCHANGED <<card, copying, upstream, queueing, sweep, agents>>

\* WorkQueue.complete takes any slot; work is completed by its holder.
CompleteSlot(i) ==
  /\ slot[i].status = "assigned"
  /\ Write([slot EXCEPT ![i].status = "completed"])
  /\ UNCHANGED <<card, copying, upstream, queueing, syncing, sweep, agents>>

\* TaskLedger.requeue_stalled.
RequeueCard(i) ==
  /\ card[i] = "active"
  /\ card' = [card EXCEPT ![i] = "open"]
  /\ UNCHANGED <<slot, copying, upstream, queueing, syncing, sweep, agents, faults>>

\* _load_mutable, get_cron_due: an unlocked operation reads a live card.
LoadCard(i) ==
  /\ card[i] \in {"open", "active", "qa_review"}
  /\ Cardinality(copies[i] \cup {card[i]}) <= MaxCopies
  /\ copies' = [copies EXCEPT ![i] = @ \cup {card[i]}]
  /\ UNCHANGED <<slot, card, reopened, upstream, queueing, syncing, sweep, agents,
                 faults>>

\* What it makes of its copy: a checkpoint or a reminder keeps the status.
Moves(old) ==
  {old, "qa_review", "ended"}
    \cup (IF old = "qa_review" THEN {"active"} ELSE {})

\* It saves the whole card, whatever is there now, or never does.  Another
\* operation may hold an equal copy.
SaveCard(i) ==
  /\ \E old \in copies[i] :
       /\ \/ \E status \in Moves(old) :
               /\ card' = [card EXCEPT ![i] = status]
               /\ reopened' = IF card[i] = "ended" /\ status # "ended"
                                THEN reopened \cup {i} ELSE reopened
          \/ UNCHANGED <<card, reopened>>
       /\ copies' \in {copies, [copies EXCEPT ![i] = @ \ {old}]}
  /\ UNCHANGED <<slot, upstream, queueing, syncing, sweep, agents, faults>>

---------------------------------------------------------------------------
(* The world: upstream issues and worker processes *)

UpstreamMoves(i) ==
  /\ upstream[i] # "none"
  /\ upstream' = [upstream EXCEPT ![i] = IF @ = "open" THEN "landed" ELSE "open"]
  /\ UNCHANGED <<slot, card, copying, queueing, syncing, sweep, agents, faults>>

\* The process ends; its commands are never finished.
Die(w) ==
  /\ w \in alive
  /\ Fault
  /\ alive' = alive \ {w}
  /\ queueing' = [queueing EXCEPT ![w] = Idle]
  /\ syncing' = [syncing EXCEPT ![w] = NoItem]
  /\ UNCHANGED <<slot, card, copying, upstream, sweep, roster>>

Restart(w) ==
  /\ w \notin alive
  /\ alive' = alive \cup {w}
  /\ UNCHANGED <<slot, card, copying, upstream, queueing, syncing, sweep, roster,
                 faults>>

---------------------------------------------------------------------------
(* _coordinator_cleanup: discover, requeue orphans, sweep if one is due *)

Phase(p) == sweep.phase = p

\* discover_agents_async leaves out the dead and those that do not answer: busy
\* or stuck.
Discover ==
  /\ Phase("idle")
  /\ roster' \in SUBSET alive
  /\ sweep' = [sweep EXCEPT !.phase = "requeue"]
  /\ UNCHANGED <<slot, card, copying, upstream, queueing, syncing, alive, faults>>

RequeueOrphans ==
  /\ Phase("requeue")
  /\ Write([i \in Items |->
              IF slot[i].status = "assigned" /\ slot[i].holder \notin roster
              THEN [slot[i] EXCEPT !.status = "pending", !.holder = Nobody]
              ELSE slot[i]])
  /\ sweep' = [sweep EXCEPT !.phase = "due"]
  /\ UNCHANGED <<card, copying, upstream, queueing, syncing, agents>>

\* SweepScheduler.due: an interval has to pass between two sweeps.
NotDue ==
  /\ Phase("due")
  /\ sweep' = NoSweep
  /\ UNCHANGED <<slot, card, copying, upstream, queueing, syncing, agents, faults>>

\* sweep_stale reads the queue without its lock.
SweepSnapshot ==
  /\ Phase("due")
  /\ sweep' = [NoSweep EXCEPT
                 !.phase = "check",
                 !.snap = slot,
                 !.todo = {i \in Items : slot[i].status \in {"pending", "assigned"}},
                 !.why = [i \in Items |-> IF slot[i].status = "completed"
                                          THEN "completed" ELSE "none"]]
  /\ UNCHANGED <<slot, card, copying, upstream, queueing, syncing, agents, faults>>

\* Pending slots first, each group in queue order.
ToCheck(i) ==
  /\ i \in sweep.todo
  /\ \A j \in sweep.todo :
       \/ sweep.snap[i].status = sweep.snap[j].status /\ i <= j
       \/ sweep.snap[i].status = "pending" /\ sweep.snap[j].status = "assigned"

\* Mutant of Verdict: a slot whose card is not known is never retired.
VerdictIfKnown(i, status, landed) ==
  IF sweep.snap[i].status = "pending" /\ status = "ended" THEN "card"
  ELSE IF /\ landed /\ sweep.snap[i].status = "pending"
          /\ status \in {"open", "qa_review"}
  THEN "upstream" ELSE "none"

\* The checks on one slot of the snapshot, given the card's status and whether
\* the refs were found to be all terminal.
Verdict(i, status, landed) ==
  LET s == sweep.snap[i] IN
  IF s.status = "pending" /\ status = "ended" THEN "card"
  ELSE IF landed /\ s.status = "pending" /\ status # "active" THEN "upstream"
  ELSE "none"

NotesFor(i, status, landed) ==
  LET s == sweep.snap[i] IN
  IF \/ s.status = "assigned" /\ status = "ended"
     \/ upstream[i] = "none" /\ Verdict(i, status, landed) = "none"
                             /\ (~s.linked \/ status = "unknown")
     \/ landed /\ Verdict(i, status, landed) = "none"
  THEN {i} ELSE {}

\* The refs are looked up, which the budget must allow.
Asks(i, status) ==
  /\ upstream[i] # "none"
  /\ sweep.left > 0
  /\ Verdict(i, status, FALSE) # "card"

Checked(i, status, landed) ==
  [sweep EXCEPT !.todo = @ \ {i},
                !.why[i] = Verdict(i, status, landed),
                !.notes = @ \cup NotesFor(i, status, landed),
                !.left = IF Asks(i, status) THEN @ - 1 ELSE @]

\* A card or a ref that cannot be read is unknown; so is every ref once the
\* budget of upstream checks is spent.
SweepCheck(i) ==
  LET linked == sweep.snap[i].linked
      read == IF linked THEN card[i] ELSE "unknown"
      Landed(status) == Asks(i, status) /\ upstream[i] = "landed"
  IN
  /\ Phase("check")
  /\ ToCheck(i)
  /\ \/ sweep' = Checked(i, read, Landed(read)) /\ UNCHANGED faults
     \/ Fault /\ linked /\ sweep' = Checked(i, "unknown", Landed("unknown"))
     \/ Fault /\ Asks(i, read) /\ sweep' = Checked(i, read, FALSE)
  /\ UNCHANGED <<slot, card, copying, upstream, queueing, syncing, agents>>

\* Retired slots with a card: their cards are cancelled, again if need be.
Cleanups(slots) == {i \in Items : slots[i].status = "retired" /\ slots[i].linked}

\* Mutant of Retired: the snapshot's verdict is carried out on an assigned slot.
RetiredIfClaimed(s, why, note) ==
  IF s.status \in {"pending", "assigned"} /\ why # "none"
  THEN [s EXCEPT !.status = "retired", !.reason = why]
  ELSE s

\* The slot after _retire, from its current state under the lock.
Retired(s, why, note) ==
  IF s.status = "completed"
  THEN [s EXCEPT !.status = "retired", !.reason = "completed"]
  ELSE IF s.status = "pending" /\ why # "none"
  THEN [s EXCEPT !.status = "retired", !.reason = why]
  ELSE IF s.status \in {"pending", "assigned"}
  THEN [s EXCEPT !.noted = @ \/ note \/ why # "none"]
  ELSE s

Cleaning(slots) ==
  sweep' = [NoSweep EXCEPT !.phase = "cancel",
                           !.todo = Cleanups(slots),
                           !.why = [i \in Items |-> slots[i].reason]]

AfterRetire == [i \in Items |-> Retired(slot[i], sweep.why[i], i \in sweep.notes)]

\* Without a verdict or a note the snapshot's retired slots are returned.
SweepRetire ==
  /\ Phase("check")
  /\ sweep.todo = {}
  /\ IF sweep.notes = {} /\ \A i \in Items : sweep.why[i] = "none"
     THEN Cleaning(sweep.snap) /\ UNCHANGED <<slot, faults>>
     ELSE Cleaning(AfterRetire) /\ Write(AfterRetire)
  /\ UNCHANGED <<card, copying, upstream, queueing, syncing, agents>>

\* terminalize with preserve_active, atomic under the ledger's lock.
SweepCancel(i) ==
  LET done == [sweep EXCEPT !.todo = @ \ {i}] IN
  /\ Phase("cancel")
  /\ i \in sweep.todo
  /\ \/ /\ card[i] = "active"
        /\ sweep' = IF sweep.why[i] = "completed" THEN done
                    ELSE [done EXCEPT !.phase = "restore", !.item = i]
        /\ UNCHANGED <<card, faults>>
     \/ /\ card[i] # "active"
        /\ card' = [card EXCEPT ![i] = "ended"]
        /\ sweep' = done
        /\ UNCHANGED faults
     \/ Fault /\ sweep' = done /\ UNCHANGED card
  /\ UNCHANGED <<slot, copying, upstream, queueing, syncing, agents>>

\* Mutant of Restored: only the note is written.
RestoredNoted(s, why) == [s EXCEPT !.noted = TRUE]

\* Mutant of Restored: the reason of the undone retirement stays.
RestoredKeepsReason(s, why) ==
  IF why # "completed" /\ s.status = "retired" /\ s.reason = why
  THEN [s EXCEPT !.status = "pending", !.noted = TRUE]
  ELSE [s EXCEPT !.noted = TRUE]

\* record_stale_upstream_note: undo a retirement that raced a claim.
Restored(s, why) ==
  IF why # "completed" /\ s.status = "retired" /\ s.reason = why
  THEN [s EXCEPT !.status = "pending", !.reason = "none", !.noted = TRUE]
  ELSE [s EXCEPT !.noted = TRUE]

SweepRestore ==
  LET i == sweep.item IN
  /\ Phase("restore")
  /\ Write([slot EXCEPT ![i] = Restored(@, sweep.why[i])])
  /\ sweep' = [sweep EXCEPT !.phase = "cancel", !.item = NoItem]
  /\ UNCHANGED <<card, copying, upstream, queueing, syncing, agents>>

SweepEnds ==
  /\ Phase("cancel")
  /\ sweep.todo = {}
  /\ sweep' = NoSweep
  /\ UNCHANGED <<slot, card, copying, upstream, queueing, syncing, agents, faults>>

\* The coordinator's process ends, or the queue file cannot be read: the rest
\* of the cleanup is not done.
SweepAborts ==
  /\ ~Phase("idle")
  /\ Fault
  /\ sweep' = NoSweep
  /\ UNCHANGED <<slot, card, copying, upstream, queueing, syncing, agents>>

---------------------------------------------------------------------------
Cleanup ==
  \/ Discover \/ RequeueOrphans \/ NotDue \/ SweepSnapshot
  \/ (\E i \in Items : SweepCheck(i) \/ SweepCancel(i))
  \/ SweepRetire \/ SweepRestore \/ SweepEnds

Next ==
  \/ \E w \in Workers, i \in Items :
       \/ \E up \in {"none", "open", "landed"} : QueueAdd(w, i, up)
       \/ ClaimSlot(w, i)
       \/ AssignWork(w, i)
       \/ ClaimCard(w, i)
  \/ \E w \in Workers :
       QueueCard(w) \/ QueueNote(w) \/ QueueLink(w) \/ QueueCancel(w)
       \/ SyncSlot(w) \/ Die(w) \/ Restart(w)
  \/ \E i \in Items : \/ CompleteSlot(i) \/ UpstreamMoves(i)
                       \/ RequeueCard(i) \/ LoadCard(i) \/ SaveCard(i)
  \/ Cleanup
  \/ SweepAborts

\* The coordinator's heartbeat runs for as long as there is a coordinator, and
\* the sweep interval passes again and again.
Spec ==
  /\ Init /\ [][Next]_vars
  /\ WF_vars(Cleanup)
  /\ SF_vars(SweepSnapshot)

---------------------------------------------------------------------------
(* Properties *)

\* sweep_stale: "Assigned slots are never retired", whatever happened between
\* the snapshot, the checks and the retirement.
AssignedNeverRetired ==
  [][\A i \in Items : slot[i].status = "assigned" => slot'[i].status # "retired"]_vars

\* A slot retired because its upstream landed or its card ended, whose card is
\* in fact still live: the card was claimed or reopened during the sweep, the
\* cancellation failed, or the coordinator died before it.
Torn(i) ==
  /\ slot[i].status = "retired"
  /\ slot[i].linked
  /\ slot[i].reason # "completed"
  /\ card[i] # "ended"

\* Someone is about to look at it: the sweep that retired the slot, or the
\* /hub queue command that linked the card too late.
Repairing(i) ==
  \/ sweep.phase \in {"cancel", "restore"} /\ i \in sweep.todo \cup {sweep.item}
  \/ \E w \in Workers : queueing[w] = [step |-> "cancel", item |-> i]

\* As long as no access fails, no process dies and no outdated copy is saved over
\* the finished card of the item, such a pair never outlives the sweep or the
\* command that made it, however claims, links and cards fall between the
\* snapshot and the last cancellation: the retries of later sweeps are needed
\* for faults and reopened cards only (_sweep_stale_work_queue, the retired
\* check of _handle_queue_command).
TornNeedsFault ==
  \A i \in Items : Torn(i) => faults > 0 \/ i \in reopened \/ Repairing(i)

\* Later sweeps repair every such pair: they cancel the card or put the slot
\* back (_sweep_stale_work_queue: retired linked slots are retried).
TornIsRepaired == \A i \in Items : Torn(i) ~> ~Torn(i)

\* A pending slot whose refs have all landed, and whose card nobody works on,
\* does not stay pending, if the budget covers the refs of the queue.
LandedIsRetired ==
  \A i \in Items :
    ~ <>[](slot[i].status = "pending" /\ upstream[i] = "landed"
           /\ card[i] # "active")

=============================================================================
