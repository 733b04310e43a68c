--------------------------- MODULE HubWorkProofs ---------------------------
(***************************************************************************)
(* Proofs about HubWork, for any number of items, workers, upstream checks  *)
(* and faults.                                                              *)
(***************************************************************************)
EXTENDS HubWork, TLAPS

\* What claiming, retiring and restoring do to one slot keeps it a well-formed
\* slot (coordinator.py, the mutate callbacks of WorkQueue).
LEMMA SlotOperations ==
  ASSUME NEW s \in Slot, WellFormed(s), NEW w \in Workers,
         NEW why \in Reasons, NEW note \in BOOLEAN
  PROVE  /\ s.status = "pending" => Assign(s, w) \in Slot /\ WellFormed(Assign(s, w))
         /\ Retired(s, why, note) \in Slot /\ WellFormed(Retired(s, why, note))
         /\ Restored(s, why) \in Slot /\ WellFormed(Restored(s, why))
<1> USE DEF Slot, SlotStatus, Reasons, WellFormed
<1>1. s.status = "pending" => Assign(s, w) \in Slot /\ WellFormed(Assign(s, w))
  BY WorkAssumption DEF Assign
<1>2. Retired(s, why, note) \in Slot /\ WellFormed(Retired(s, why, note))
  BY DEF Retired
<1>3. Restored(s, why) \in Slot /\ WellFormed(Restored(s, why))
  BY DEF Restored
<1> QED BY <1>1, <1>2, <1>3

SlotsOK(slots) == slots \in [Items -> Slot] /\ \A i \in Items : WellFormed(slots[i])

\* A write of well-formed slots, successful or not, leaves well-formed slots
\* (WorkQueue._save, which only logs a failure).
LEMMA WriteOK ==
  ASSUME TypeOK, NEW slots, SlotsOK(slots), Write(slots)
  PROVE  SlotsOK(slot') /\ faults' \in 0..MaxFaults
  BY WorkAssumption DEF Write, Fault, TypeOK, SlotsOK

\* Changing one slot into a well-formed one keeps the queue well formed.
LEMMA OneSlotOK ==
  ASSUME TypeOK, NEW i \in Items, NEW s \in Slot, WellFormed(s)
  PROVE  SlotsOK([slot EXCEPT ![i] = s])
  BY DEF TypeOK, SlotsOK

\* The sweep's working state keeps its type when a slot has been checked.
LEMMA CheckedType ==
  ASSUME TypeOK, NEW i \in Items, NEW status, NEW landed \in BOOLEAN
  PROVE  Checked(i, status, landed) \in Sweep
<1>1. Verdict(i, status, landed) \in Reasons
  BY DEF Verdict, Reasons
<1>2. NotesFor(i, status, landed) \in SUBSET Items
  BY DEF NotesFor
<1>3. sweep \in Sweep /\ sweep.left \in 0..Budget /\ Budget \in Nat
  BY WorkAssumption DEF TypeOK, Sweep
<1>4. (IF Asks(i, status) THEN sweep.left - 1 ELSE sweep.left) \in 0..Budget
  <2>1. Asks(i, status) => sweep.left > 0
    BY DEF Asks
  <2> QED BY <1>3, <2>1
<1>5. [sweep.why EXCEPT ![i] = Verdict(i, status, landed)] \in [Items -> Reasons]
  BY <1>1, <1>3 DEF Sweep
<1>6. /\ sweep.todo \ {i} \in SUBSET Items
      /\ sweep.notes \cup NotesFor(i, status, landed) \in SUBSET Items
  BY <1>2, <1>3 DEF Sweep
<1> QED BY <1>3, <1>4, <1>5, <1>6 DEF Checked, Sweep

\* The initial state of the queue, of the cards and of the sweep is typed.
LEMMA WorkInit == Init => TypeOK
<1> SUFFICES ASSUME Init PROVE TypeOK OBVIOUS
<1>1. NoSlots \in [Items -> Slot] /\ \A i \in Items : WellFormed(NoSlots[i])
  BY DEF NoSlots, NoSlot, Slot, SlotStatus, Reasons, WellFormed
<1>2. NoSweep \in Sweep
  BY <1>1, WorkAssumption DEF NoSweep, Sweep, Reasons
<1> QED
  BY <1>1, <1>2, WorkAssumption
     DEF Init, TypeOK, CardStatus, Command, Idle

\* What operations elsewhere do to the card of an item.
CardChanges(i) == RequeueCard(i) \/ LoadCard(i) \/ SaveCard(i)

\* Every operation on the queue, the cards and the coordinator's cleanup keeps
\* the types, and keeps every slot well formed.
LEMMA WorkStep == TypeOK /\ [Next]_vars => TypeOK'
<1> SUFFICES ASSUME TypeOK, [Next]_vars PROVE TypeOK'
  OBVIOUS
<1> USE WorkAssumption DEF agents, copying
<1>a. Slot = Slot /\ \A i \in Items : slot[i] \in Slot /\ WellFormed(slot[i])
  BY DEF TypeOK
<1>f. Fault => faults' \in 0..MaxFaults
  BY DEF Fault, TypeOK
<1>n. NoSweep \in Sweep /\ NoSlots \in [Items -> Slot]
  BY DEF NoSweep, NoSlots, NoSlot, Slot, SlotStatus, Reasons, Sweep
<1>w. sweep \in Sweep
  BY DEF TypeOK
<1>1. ASSUME NEW w \in Workers, NEW i \in Items,
             NEW up \in {"none", "open", "landed"}, QueueAdd(w, i, up)
      PROVE  TypeOK'
  <2>1. [slot[i] EXCEPT !.status = "pending"] \in Slot
    BY <1>a DEF Slot, SlotStatus
  <2>2. WellFormed([slot[i] EXCEPT !.status = "pending"])
    BY <1>1, <1>a DEF QueueAdd, Fresh, WellFormed, Slot
  <2>3. SlotsOK(slot') /\ faults' \in 0..MaxFaults
    BY <1>1, <2>1, <2>2, OneSlotOK, WriteOK DEF QueueAdd
  <2>4. queueing' \in [Workers -> Command]
    BY <1>1 DEF QueueAdd, TypeOK, Command
  <2> QED BY <1>1, <2>3, <2>4 DEF QueueAdd, TypeOK, SlotsOK
<1>2. ASSUME NEW w \in Workers,
             QueueCard(w) \/ QueueNote(w) \/ QueueLink(w) \/ QueueCancel(w)
      PROVE  TypeOK'
  <2>1. queueing' \in [Workers -> Command]
    BY <1>2 DEF QueueCard, QueueNote, QueueLink, QueueCancel, Goes, Done, Idle,
                TypeOK, Command
  <2>2. card' \in [Items -> CardStatus]
    BY <1>2 DEF QueueCard, QueueNote, QueueLink, QueueCancel, TypeOK, CardStatus
  <2>3. slot' \in [Items -> Slot] /\ \A i \in Items : WellFormed(slot'[i])
    <3>1. \A i \in Items : /\ [slot[i] EXCEPT !.linked = TRUE] \in Slot
                           /\ WellFormed([slot[i] EXCEPT !.linked = TRUE])
      BY <1>a DEF Slot, WellFormed
    <3>2. SlotsOK([slot EXCEPT ![queueing[w].item].linked = TRUE])
      BY <1>a, <3>1 DEF TypeOK, SlotsOK
    <3> QED BY <1>2, <3>2, WriteOK
            DEF QueueCard, QueueNote, QueueLink, QueueCancel, TypeOK, SlotsOK
  <2>4. faults' \in 0..MaxFaults
    BY <1>2, <1>f DEF QueueCard, QueueNote, QueueLink, QueueCancel, Write, TypeOK
  <2> QED BY <1>2, <2>1, <2>2, <2>3, <2>4
          DEF QueueCard, QueueNote, QueueLink, QueueCancel, TypeOK
<1>3. ASSUME NEW w \in Workers, NEW i \in Items, ClaimSlot(w, i) \/ AssignWork(w, i)
      PROVE  TypeOK'
  <2>1. slot[i].status = "pending" /\ Write([slot EXCEPT ![i] = Assign(slot[i], w)])
    BY <1>3 DEF ClaimSlot, AssignWork
  <2>2. Assign(slot[i], w) \in Slot /\ WellFormed(Assign(slot[i], w))
    BY <2>1, <1>a, SlotOperations DEF Reasons
  <2>3. SlotsOK(slot') /\ faults' \in 0..MaxFaults
    BY <2>1, <2>2, OneSlotOK, WriteOK
  <2> QED BY <1>3, <2>3 DEF ClaimSlot, AssignWork, TypeOK, SlotsOK
<1>4. ASSUME NEW w \in Workers, NEW i \in Items, ClaimCard(w, i)
      PROVE  TypeOK'
  BY <1>4 DEF ClaimCard, TypeOK, CardStatus
<1>5. ASSUME NEW w \in Workers, SyncSlot(w)
      PROVE  TypeOK'
  <2>1. \A i \in Items : slot[i].status = "pending"
          => Assign(slot[i], w) \in Slot /\ WellFormed(Assign(slot[i], w))
    BY <1>a, SlotOperations DEF Reasons
  <2>2. syncing[w] \in Items
    BY <1>5 DEF SyncSlot, TypeOK
  <2>3. SlotsOK(slot') /\ faults' \in 0..MaxFaults
    <3> DEFINE s == slot[syncing[w]]
               t == IF s.linked /\ s.status = "pending" THEN Assign(s, w) ELSE s
    <3>1. t \in Slot /\ WellFormed(t)
      BY <1>a, <2>1, <2>2
    <3>2. Write([slot EXCEPT ![syncing[w]] = t])
      BY <1>5 DEF SyncSlot
    <3> QED BY <2>2, <3>1, <3>2, OneSlotOK, WriteOK
  <2> QED BY <1>5, <2>3 DEF SyncSlot, TypeOK, SlotsOK
<1>6. ASSUME NEW w \in Workers, Die(w) \/ Restart(w)
      PROVE  TypeOK'
  <2>1. CASE Die(w)
    BY <2>1, <1>f DEF Die, TypeOK, Command, Idle
  <2>2. CASE Restart(w)
    BY <2>2 DEF Restart, TypeOK
  <2> QED BY <1>6, <2>1, <2>2
<1>7. ASSUME NEW i \in Items, CompleteSlot(i) \/ CardChanges(i) \/ UpstreamMoves(i)
      PROVE  TypeOK'
  <2>1. CASE CompleteSlot(i)
    <3>1. /\ [slot[i] EXCEPT !.status = "completed"] \in Slot
          /\ WellFormed([slot[i] EXCEPT !.status = "completed"])
      BY <2>1, <1>a DEF CompleteSlot, Slot, SlotStatus, WellFormed
    <3>2. SlotsOK(slot') /\ faults' \in 0..MaxFaults
      BY <2>1, <3>1, OneSlotOK, WriteOK DEF CompleteSlot
    <3> QED BY <2>1, <3>2 DEF CompleteSlot, TypeOK, SlotsOK
  <2>2. CASE CardChanges(i)
    <3>1. CASE RequeueCard(i)
      BY <3>1 DEF RequeueCard, TypeOK, CardStatus
    <3>2. CASE LoadCard(i)
      BY <3>2 DEF LoadCard, TypeOK
    <3>3. CASE SaveCard(i)
      <4>1. PICK old \in copies[i] :
              /\ \/ \E status \in Moves(old) :
                      /\ card' = [card EXCEPT ![i] = status]
                      /\ reopened' \in {reopened, reopened \cup {i}}
                 \/ UNCHANGED <<card, reopened>>
              /\ copies' \in {copies, [copies EXCEPT ![i] = @ \ {old}]}
        BY <3>3 DEF SaveCard
      <4>2. Moves(old) \subseteq CardStatus
        BY DEF TypeOK, Moves, CardStatus
      <4>3. /\ card' \in [Items -> CardStatus] /\ reopened' \in SUBSET Items
            /\ copies' \in [Items -> SUBSET CardStatus]
        BY <4>1, <4>2 DEF TypeOK
      <4> QED BY <3>3, <4>3 DEF SaveCard, TypeOK
    <3> QED BY <2>2, <3>1, <3>2, <3>3 DEF CardChanges
  <2>3. CASE UpstreamMoves(i)
    BY <2>3 DEF UpstreamMoves, TypeOK
  <2> QED BY <1>7, <2>1, <2>2, <2>3
<1>8. CASE Discover
  BY <1>8, <1>w DEF Discover, TypeOK, Sweep
<1>9. CASE RequeueOrphans
  <2>1. \A i \in Items :
          LET s == [slot[i] EXCEPT !.status = "pending", !.holder = Nobody]
          IN  s \in Slot /\ (slot[i].status = "assigned" => WellFormed(s))
    BY <1>a DEF Slot, SlotStatus, WellFormed
  <2>2. sweep' \in Sweep
    BY <1>9, <1>w DEF RequeueOrphans, Sweep
  <2>3. SlotsOK([i \in Items |->
                   IF slot[i].status = "assigned" /\ slot[i].holder \notin roster
                   THEN [slot[i] EXCEPT !.status = "pending", !.holder = Nobody]
                   ELSE slot[i]])
    BY <1>a, <2>1 DEF SlotsOK
  <2>4. SlotsOK(slot') /\ faults' \in 0..MaxFaults
    BY <1>9, <2>3, WriteOK DEF RequeueOrphans
  <2> QED BY <1>9, <2>2, <2>4 DEF RequeueOrphans, TypeOK, SlotsOK
<1>10. CASE NotDue \/ SweepEnds \/ SweepAborts
  BY <1>10, <1>n, <1>f DEF NotDue, SweepEnds, SweepAborts, TypeOK
<1>11. CASE SweepSnapshot
  <2>1. sweep' \in Sweep
    BY <1>11, <1>n DEF SweepSnapshot, TypeOK, Sweep, Reasons
  <2> QED BY <1>11, <2>1 DEF SweepSnapshot, TypeOK
<1>12. ASSUME NEW i \in Items, SweepCheck(i)
       PROVE  TypeOK'
  <2>1. sweep' \in Sweep
    BY <1>12, CheckedType DEF SweepCheck
  <2> QED BY <1>12, <2>1, <1>f DEF SweepCheck, TypeOK
<1>13. CASE SweepRetire
  <2>1. \A slots \in [Items -> Slot] : Cleaning(slots) => sweep' \in Sweep
    <3> SUFFICES ASSUME NEW slots \in [Items -> Slot], Cleaning(slots)
                 PROVE  sweep' \in Sweep
      OBVIOUS
    <3>1. [i \in Items |-> slots[i].reason] \in [Items -> Reasons]
      BY DEF Slot
    <3>2. Cleanups(slots) \in SUBSET Items
      BY DEF Cleanups
    <3> QED BY <1>n, <3>1, <3>2 DEF Cleaning, Sweep
  <2>2. CASE UNCHANGED <<slot, faults>> /\ Cleaning(sweep.snap)
    BY <1>13, <2>1, <2>2, <1>w DEF SweepRetire, TypeOK, Sweep
  <2>3. CASE Write(AfterRetire) /\ Cleaning(AfterRetire)
    <3>1. \A i \in Items :
            /\ Retired(slot[i], sweep.why[i], i \in sweep.notes) \in Slot
            /\ WellFormed(Retired(slot[i], sweep.why[i], i \in sweep.notes))
      <4> SUFFICES ASSUME NEW i \in Items
                   PROVE  /\ Retired(slot[i], sweep.why[i], i \in sweep.notes) \in Slot
                          /\ WellFormed(Retired(slot[i], sweep.why[i], i \in sweep.notes))
        OBVIOUS
      <4>1. sweep.why[i] \in Reasons
        BY <1>w DEF Sweep
      <4> QED BY <1>a, <4>1 DEF Retired, Slot, SlotStatus, Reasons, WellFormed
    <3>2. SlotsOK(AfterRetire)
      BY <3>1 DEF AfterRetire, SlotsOK
    <3>3. SlotsOK(slot') /\ faults' \in 0..MaxFaults
      BY <2>3, <3>2, WriteOK
    <3>4. sweep' \in Sweep
      BY <2>1, <2>3, <3>2 DEF SlotsOK
    <3> QED BY <1>13, <3>3, <3>4 DEF SweepRetire, TypeOK, SlotsOK
  <2> QED BY <1>13, <2>2, <2>3 DEF SweepRetire
<1>14. ASSUME NEW i \in Items, SweepCancel(i)
       PROVE  TypeOK'
  <2>1. sweep' \in Sweep
    BY <1>14, <1>w DEF SweepCancel, Sweep
  <2>2. card' \in [Items -> CardStatus]
    BY <1>14 DEF SweepCancel, TypeOK, CardStatus
  <2> QED BY <1>14, <1>f, <2>1, <2>2 DEF SweepCancel, TypeOK
<1>15. CASE SweepRestore
  <2>1. sweep' \in Sweep
    BY <1>15, <1>w DEF SweepRestore, Sweep
  <2>2. ASSUME NEW i \in Items
        PROVE  /\ Restored(slot[i], sweep.why[i]) \in Slot
               /\ WellFormed(Restored(slot[i], sweep.why[i]))
    BY <1>a, <1>w DEF Sweep, Restored, Slot, SlotStatus, Reasons, WellFormed
  <2>3. SlotsOK([slot EXCEPT ![sweep.item] = Restored(slot[sweep.item],
                                                     sweep.why[sweep.item])])
    BY <1>a, <2>2 DEF TypeOK, SlotsOK
  <2>4. SlotsOK(slot') /\ faults' \in 0..MaxFaults
    BY <1>15, <2>3, WriteOK DEF SweepRestore
  <2> QED BY <1>15, <2>1, <2>4 DEF SweepRestore, TypeOK, SlotsOK
<1>16. CASE UNCHANGED vars
  BY <1>16 DEF vars, TypeOK
<1> QED
  BY <1>1, <1>2, <1>3, <1>4, <1>5, <1>6, <1>7, <1>8, <1>9, <1>10, <1>11, <1>12,
     <1>13, <1>14, <1>15, <1>16 DEF Next, Cleanup, CardChanges

\* TypeOK: whatever the callers of the work queue do, and wherever the cleanup
\* stops, work-queue.json holds only well-formed slots.
THEOREM TypeCorrect == Spec => []TypeOK
  BY WorkInit, WorkStep, PTL DEF Spec

\* AssignedNeverRetired: the retirement decides on the status it finds under
\* the queue's lock, so no snapshot, however old, retires a claimed slot
\* (sweep_stale, coordinator.py).
THEOREM AssignedIsSafe == Spec => AssignedNeverRetired
<1>1. ASSUME TypeOK, [Next]_vars, NEW i \in Items, slot[i].status = "assigned"
      PROVE  slot'[i].status # "retired"
  <2> USE <1>1 DEF agents, copying, Write
  <2>a. slot \in [Items -> Slot] /\ slot[i] \in Slot
    BY DEF TypeOK
  <2>s. \A s \in Slot : s.status = "assigned" =>
          /\ \A w \in Workers : Assign(s, w).status # "retired"
          /\ \A why \in Reasons, note \in BOOLEAN :
               Retired(s, why, note).status # "retired"
          /\ \A why \in Reasons : Restored(s, why).status # "retired"
    BY DEF Slot, Assign, Retired, Restored
  <2>1. ASSUME NEW w \in Workers, NEW j \in Items,
               \/ \E up \in {"none", "open", "landed"} : QueueAdd(w, j, up)
               \/ ClaimSlot(w, j) \/ AssignWork(w, j) \/ ClaimCard(w, j)
        PROVE  slot'[i].status # "retired"
    <3>1. CASE \E up \in {"none", "open", "landed"} : QueueAdd(w, j, up)
      BY <3>1, <2>a DEF QueueAdd, Fresh, Slot
    <3>2. CASE ClaimSlot(w, j) \/ AssignWork(w, j)
      BY <3>2, <2>a DEF ClaimSlot, AssignWork
    <3>3. CASE ClaimCard(w, j)
      BY <3>3 DEF ClaimCard
    <3> QED BY <2>1, <3>1, <3>2, <3>3
  <2>2. ASSUME NEW w \in Workers,
               \/ QueueCard(w) \/ QueueNote(w) \/ QueueLink(w) \/ QueueCancel(w)
               \/ SyncSlot(w) \/ Die(w) \/ Restart(w)
        PROVE  slot'[i].status # "retired"
    BY <2>2, <2>a, <2>s DEF QueueCard, QueueNote, QueueLink, QueueCancel, SyncSlot,
                            Die, Restart, Slot
  <2>3. ASSUME NEW j \in Items, CompleteSlot(j) \/ CardChanges(j) \/ UpstreamMoves(j)
        PROVE  slot'[i].status # "retired"
    BY <2>3, <2>a DEF CompleteSlot, CardChanges, RequeueCard, LoadCard, SaveCard,
                      UpstreamMoves, Slot
  <2>4. CASE RequeueOrphans
    BY <2>4, <2>a DEF RequeueOrphans, Slot
  <2>5. CASE SweepRetire
    <3>1. sweep.why[i] \in Reasons
      BY DEF TypeOK, Sweep
    <3>2. Retired(slot[i], sweep.why[i], i \in sweep.notes).status # "retired"
      BY <2>a DEF Retired, Slot
    <3> QED BY <2>5, <3>2 DEF SweepRetire, AfterRetire
  <2>6. CASE SweepRestore
    <3>1. Restored(slot[i], sweep.why[i]).status # "retired"
      BY <2>a DEF Restored, Slot
    <3> QED BY <2>6, <3>1, <2>a DEF SweepRestore
  <2>7. CASE \/ Discover \/ NotDue \/ SweepSnapshot \/ SweepEnds \/ SweepAborts
             \/ (\E j \in Items : SweepCheck(j) \/ SweepCancel(j))
             \/ UNCHANGED vars
    BY <2>7 DEF Discover, NotDue, SweepSnapshot, SweepEnds, SweepAborts, SweepCheck,
                SweepCancel, vars
  <2> QED BY <2>1, <2>2, <2>3, <2>4, <2>5, <2>6, <2>7 DEF Next, Cleanup, CardChanges
<1>2. TypeOK /\ [Next]_vars =>
        [\A i \in Items : slot[i].status = "assigned" => slot'[i].status # "retired"]_vars
  BY <1>1
<1> QED BY <1>2, TypeCorrect, PTL DEF Spec, AssignedNeverRetired

---------------------------------------------------------------------------
(* A slot and its card are torn apart by faults and reopened cards only *)

\* One command per item, which has not linked its slot before it does.
CommandInv ==
  /\ \A i \in Items : slot[i].status = "absent" => ~slot[i].linked
  /\ \A w \in Workers : queueing[w].step # "idle" => queueing[w].item \in Items
  /\ \A w, v \in Workers :
       queueing[w].item = queueing[v].item /\ queueing[w].item \in Items => w = v
  /\ \A w \in Workers : queueing[w].step \in {"enqueue", "note", "link"}
                          => ~slot[queueing[w].item].linked

\* What the sweep read of retired slots is still so, and the items it has to
\* look at are retired for the reason it noted.
SweepInv ==
  /\ Phase("check") =>
       \A i \in Items : sweep.snap[i].status = "retired" =>
         slot[i].status = "retired" /\ slot[i].reason = sweep.snap[i].reason
  /\ sweep.phase \in {"cancel", "restore"} =>
       \A i \in Items : i \in sweep.todo \cup {sweep.item} =>
         slot[i].status = "retired" /\ slot[i].reason = sweep.why[i]
  /\ Phase("cancel") => sweep.item = NoItem
  /\ Phase("restore") => /\ sweep.item \in Items \ sweep.todo
                         /\ sweep.why[sweep.item] # "completed"

TornOK == \A i \in Items : Torn(i) => i \in reopened \/ Repairing(i)

TearInv == faults = 0 => CommandInv /\ SweepInv /\ TornOK

LEMMA TearInit == Init => TearInv
  BY DEF Init, TearInv, CommandInv, SweepInv, TornOK, Torn, Phase, NoSweep,
         NoSlots, NoSlot, Idle, NoItem, Items

\* Items are numbered from one.
LEMMA NoItemIsNone == NoItem \notin Items
  BY DEF NoItem, Items

\* While there are no faults every write of the queue file succeeds.
LEMMA NoFault ==
  ASSUME TypeOK, faults' = 0
  PROVE  /\ ~Fault
         /\ \A slots : Write(slots) => slot' = slots
<1>1. ~Fault
  BY WorkAssumption DEF Fault, TypeOK
<1> QED
  BY <1>1 DEF Write

\* A reopened card stays on record.
LEMMA ReopenedGrows ==
  ASSUME [Next]_vars
  PROVE  reopened \subseteq reopened'
  BY DEF Next, Cleanup, vars, copying, QueueAdd, ClaimSlot, AssignWork, ClaimCard,
         QueueCard, QueueNote, QueueLink, QueueCancel, SyncSlot, Die, Restart,
         CompleteSlot, RequeueCard, LoadCard, SaveCard, UpstreamMoves, Discover,
         RequeueOrphans, NotDue, SweepSnapshot, SweepCheck, SweepCancel,
         SweepRetire, SweepRestore, SweepEnds, SweepAborts

\* Without a fault the count was zero before.
LEMMA FaultsGrow ==
  ASSUME TypeOK, [Next]_vars, faults' = 0
  PROVE  faults = 0
<1>1. faults \in Nat
  BY WorkAssumption DEF TypeOK
<1>2. ~Fault
  BY NoFault
<1> QED
  BY <1>1, <1>2
  DEF Next, Cleanup, vars, Write, QueueAdd, ClaimSlot, AssignWork, ClaimCard,
      QueueCard, QueueNote, QueueLink, QueueCancel, SyncSlot, Die, Restart,
      CompleteSlot, RequeueCard, LoadCard, SaveCard, UpstreamMoves, Discover,
      RequeueOrphans, NotDue, SweepSnapshot, SweepCheck, SweepCancel,
      SweepRetire, SweepRestore, SweepEnds, SweepAborts

\* No slot is linked, retired, restored or removed.
Gentle ==
  \A i \in Items :
    /\ slot'[i].linked = slot[i].linked
    /\ slot'[i].status = "retired" <=> slot[i].status = "retired"
    /\ slot[i].status = "retired" => slot'[i].reason = slot[i].reason
    /\ slot'[i].status = "absent" => slot[i].status = "absent"

\* No card that ended comes to life unnoticed.
CardsStay ==
  \A i \in Items : card[i] = "ended" => card'[i] = "ended" \/ i \in reopened'

LEMMA GentleKeeps ==
  ASSUME TypeOK, CommandInv, SweepInv, TornOK, Gentle, CardsStay,
         reopened \subseteq reopened',
         UNCHANGED <<queueing, sweep>>
  PROVE  CommandInv' /\ SweepInv' /\ TornOK'
<1>1. CommandInv'
  <2>1. \A w \in Workers : queueing[w].step \in {"enqueue", "note", "link"}
                             => queueing[w].item \in Items
    BY DEF CommandInv
  <2> QED
    BY <2>1 DEF CommandInv, Gentle
<1>2. SweepInv'
  BY DEF SweepInv, Gentle, Phase
<1>3. TornOK'
  BY DEF TornOK, Torn, Repairing, Gentle, CardsStay
<1> QED
  BY <1>1, <1>2, <1>3

\* Steps outside /hub queue and the cleanup: claims, completions, cards that
\* move, upstreams, processes.
Elsewhere ==
  \/ \E w \in Workers, i \in Items : ClaimSlot(w, i) \/ AssignWork(w, i) \/ ClaimCard(w, i)
  \/ \E w \in Workers : SyncSlot(w) \/ Restart(w)
  \/ \E i \in Items : CompleteSlot(i) \/ CardChanges(i) \/ UpstreamMoves(i)

LEMMA ElsewhereKeeps ==
  ASSUME TypeOK, CommandInv, SweepInv, TornOK, faults' = 0, Elsewhere,
         reopened \subseteq reopened'
  PROVE  CommandInv' /\ SweepInv' /\ TornOK'
<1>0. ~Fault /\ \A slots : Write(slots) => slot' = slots
  BY NoFault
<1>a. slot \in [Items -> Slot] /\ card \in [Items -> CardStatus]
  BY DEF TypeOK
<1>s. \A s \in Slot : \A w \in Workers :
        /\ Assign(s, w).status = "assigned" /\ Assign(s, w).linked = s.linked
        /\ [s EXCEPT !.status = "completed"].status = "completed"
        /\ [s EXCEPT !.status = "completed"].linked = s.linked
  BY DEF Slot, Assign
<1>g. slot' = slot => Gentle
  BY DEF Gentle
<1>c. card' = card => CardsStay
  BY DEF CardsStay
<1>q. UNCHANGED <<queueing, sweep>>
  BY DEF Elsewhere, CardChanges, ClaimSlot, AssignWork, ClaimCard, SyncSlot, Restart,
         CompleteSlot, RequeueCard, LoadCard, SaveCard, UpstreamMoves
<1>1. ASSUME NEW w \in Workers, NEW i \in Items, ClaimSlot(w, i) \/ AssignWork(w, i)
      PROVE  Gentle /\ CardsStay
  <2>1. slot[i].status = "pending" /\ slot' = [slot EXCEPT ![i] = Assign(@, w)]
    BY <1>0, <1>1 DEF ClaimSlot, AssignWork
  <2>2. card' = card
    BY <1>1 DEF ClaimSlot, AssignWork
  <2>3. Gentle
    BY <1>a, <1>s, <2>1 DEF Gentle
  <2> QED
    BY <1>c, <2>2, <2>3
<1>2. ASSUME NEW w \in Workers, NEW i \in Items, ClaimCard(w, i)
      PROVE  Gentle /\ CardsStay
  BY <1>a, <1>g, <1>2 DEF ClaimCard, CardsStay
<1>3. ASSUME NEW w \in Workers, SyncSlot(w) PROVE Gentle /\ CardsStay
  <2> DEFINE i == syncing[w]
             s == IF slot[i].linked /\ slot[i].status = "pending"
                  THEN Assign(slot[i], w) ELSE slot[i]
  <2>1. i \in Items /\ slot' = [slot EXCEPT ![i] = s]
    BY <1>0, <1>3 DEF SyncSlot, TypeOK
  <2>2. card' = card
    BY <1>3 DEF SyncSlot
  <2>3. \/ s = slot[i]
        \/ slot[i].status = "pending" /\ s = Assign(slot[i], w)
    OBVIOUS
  <2> HIDE DEF i, s
  <2>4. Gentle
    BY <1>a, <1>s, <2>1, <2>3 DEF Gentle
  <2> QED
    BY <1>c, <2>2, <2>4
<1>4. ASSUME NEW i \in Items, CompleteSlot(i) PROVE Gentle /\ CardsStay
  <2>1. /\ slot[i].status = "assigned"
        /\ slot' = [slot EXCEPT ![i] = [slot[i] EXCEPT !.status = "completed"]]
        /\ card' = card
    BY <1>0, <1>a, <1>4 DEF CompleteSlot
  <2>2. /\ [slot[i] EXCEPT !.status = "completed"].status = "completed"
        /\ [slot[i] EXCEPT !.status = "completed"].linked = slot[i].linked
    BY <1>a DEF Slot
  <2>3. Gentle
    BY <1>a, <2>1, <2>2 DEF Gentle
  <2> QED
    BY <1>c, <2>1, <2>3
<1>5. ASSUME NEW i \in Items, CardChanges(i) PROVE Gentle /\ CardsStay
  <2>1. slot' = slot
    BY <1>5 DEF CardChanges, RequeueCard, LoadCard, SaveCard
  <2>2. CardsStay
    BY <1>a, <1>5 DEF CardChanges, RequeueCard, LoadCard, SaveCard, CardsStay
  <2> QED
    BY <1>g, <2>1, <2>2
<1>6. ASSUME NEW w \in Workers, Restart(w)
      PROVE  Gentle /\ CardsStay
  BY <1>g, <1>c, <1>6 DEF Restart
<1>7. ASSUME NEW i \in Items, UpstreamMoves(i) PROVE Gentle /\ CardsStay
  BY <1>g, <1>c, <1>7 DEF UpstreamMoves
<1> QED
  BY <1>q, <1>1, <1>2, <1>3, <1>4, <1>5, <1>6, <1>7, GentleKeeps DEF Elsewhere

\* A step of /hub queue.
LEMMA CommandKeeps ==
  ASSUME TypeOK, CommandInv, SweepInv, TornOK, faults' = 0, reopened \subseteq reopened',
         NEW w \in Workers,
         \/ \E i \in Items, up \in {"none", "open", "landed"} : QueueAdd(w, i, up)
         \/ QueueCard(w) \/ QueueNote(w) \/ QueueLink(w) \/ QueueCancel(w)
  PROVE  CommandInv' /\ SweepInv' /\ TornOK'
<1>0. ~Fault /\ \A slots : Write(slots) => slot' = slots
  BY NoFault
<1>a. /\ slot \in [Items -> Slot] /\ card \in [Items -> CardStatus]
      /\ queueing \in [Workers -> Command]
  BY DEF TypeOK
<1>q. \A v \in Workers : queueing[v].step # "idle" => queueing[v].item \in Items
  BY DEF CommandInv
<1>1. ASSUME NEW i \in Items, NEW up \in {"none", "open", "landed"}, QueueAdd(w, i, up)
      PROVE  CommandInv' /\ SweepInv' /\ TornOK'
  <2>1. /\ slot[i].status = "absent" /\ ~slot[i].linked
        /\ \A v \in Workers : queueing[v].item # i
        /\ queueing[w] = Idle
        /\ queueing' = [queueing EXCEPT ![w] = [step |-> "enqueue", item |-> i]]
        /\ UNCHANGED <<card, sweep>>
    BY <1>1 DEF QueueAdd, Fresh, CanRun, CommandInv
  <2>2. /\ slot' = [slot EXCEPT ![i] = [slot[i] EXCEPT !.status = "pending"]]
        /\ [slot[i] EXCEPT !.status = "pending"].status = "pending"
        /\ [slot[i] EXCEPT !.status = "pending"].linked = slot[i].linked
    BY <1>0, <1>1, <1>a DEF QueueAdd, Slot
  <2>3. Gentle
    BY <1>a, <2>1, <2>2 DEF Gentle
  <2>4. CommandInv'
    BY <1>a, <1>q, <2>1, <2>3 DEF CommandInv, Gentle
  <2>5. SweepInv'
    BY <2>1, <2>3 DEF SweepInv, Gentle, Phase
  <2>6. TornOK'
    BY <1>a, <2>1, <2>3 DEF TornOK, Torn, Repairing, Gentle, Idle
  <2> QED
    BY <2>4, <2>5, <2>6
<1>2. CASE QueueCard(w) \/ QueueNote(w)
  <2> DEFINE i == queueing[w].item
  <2>1. /\ queueing[w].step \in {"enqueue", "note"}
        /\ \/ queueing' = [queueing EXCEPT ![w].step = "note"]
           \/ queueing' = [queueing EXCEPT ![w].step = "link"]
        /\ \A j \in Items : j # i => card'[j] = card[j]
        /\ UNCHANGED <<slot, sweep>>
    BY <1>0, <1>2, <1>a DEF QueueCard, QueueNote, At, Goes
  <2>2. i \in Items /\ ~slot[i].linked
    BY <2>1 DEF CommandInv
  <2>3. /\ queueing'[w].step \in {"note", "link"} /\ queueing'[w].item = i
        /\ \A v \in Workers \ {w} : queueing'[v] = queueing[v]
    BY <1>a, <2>1 DEF Command
  <2> HIDE DEF i
  <2>4. CommandInv'
    <3>1. \A v \in Workers : queueing'[v].item = queueing[v].item
      BY <2>3 DEF i
    <3>2. \A v \in Workers : queueing'[v].step # "idle" => queueing[v].step # "idle"
      BY <2>1, <2>3
    <3>3. \A v \in Workers : queueing'[v].step \in {"enqueue", "note", "link"}
                               => queueing[v].step \in {"enqueue", "note", "link"}
      BY <2>1, <2>3
    <3> QED
      BY <2>1, <3>1, <3>2, <3>3 DEF CommandInv
  <2>5. SweepInv'
    BY <2>1 DEF SweepInv, Phase
  <2>6. TornOK'
    <3> SUFFICES ASSUME NEW j \in Items, Torn(j)', j \notin reopened'
                 PROVE  Repairing(j)'
      BY DEF TornOK
    <3>1. j # i
      BY <2>1, <2>2 DEF Torn
    <3>2. Repairing(j)
      BY <2>1, <3>1 DEF TornOK, Torn
    <3>3. \A v \in Workers : queueing[v] = [step |-> "cancel", item |-> j] => v # w
      BY <2>1
    <3> QED
      BY <2>1, <2>3, <3>2, <3>3 DEF Repairing
  <2> QED
    BY <2>4, <2>5, <2>6
<1>3. CASE QueueLink(w)
  <2> DEFINE i == queueing[w].item
  <2>1. queueing[w].step = "link" /\ UNCHANGED <<card, sweep>>
    BY <1>3 DEF QueueLink, At
  <2>2. i \in Items
    BY <1>q, <2>1
  <2>3. /\ \A j \in Items : j # i => slot'[j] = slot[j]
        /\ slot'[i].status = slot[i].status /\ slot'[i].reason = slot[i].reason
        /\ slot[i].status = "absent" => slot'[i] = slot[i]
    <3> DEFINE s == [slot[i] EXCEPT !.linked = TRUE]
    <3>1. \/ slot' = slot
          \/ slot[i].status # "absent" /\ slot' = [slot EXCEPT ![i] = s]
      BY <1>0, <1>3 DEF QueueLink
    <3>2. s.status = slot[i].status /\ s.reason = slot[i].reason
      BY <1>a, <2>2 DEF Slot
    <3> HIDE DEF s, i
    <3> QED
      BY <1>a, <2>2, <3>1, <3>2
  <2>4. /\ \A v \in Workers \ {w} : queueing'[v] = queueing[v]
        /\ \/ queueing'[w] = Idle
           \/ queueing'[w].step = "cancel" /\ queueing'[w].item = i
        /\ slot[i].status = "retired"
             => queueing'[w] = [step |-> "cancel", item |-> i]
    BY <1>0, <1>3, <1>a DEF QueueLink, Goes, Done, Command
  <2> HIDE DEF i
  <2>5. CommandInv'
    <3>1. \A v \in Workers : queueing'[v].step # "idle" => queueing'[v].item \in Items
      BY <1>q, <2>2, <2>4 DEF Idle
    <3>2. \A v \in Workers : queueing'[v].item \in Items
                               => queueing'[v].item = queueing[v].item
      BY <2>4, NoItemIsNone DEF i, Idle
    <3>3. \A v \in Workers : queueing'[v].step \in {"enqueue", "note", "link"}
                               => v # w /\ queueing[v].item # i
      <4> SUFFICES ASSUME NEW v \in Workers,
                          queueing'[v].step \in {"enqueue", "note", "link"}
                   PROVE  v # w /\ queueing[v].item # i
        OBVIOUS
      <4>1. v # w
        BY <2>4 DEF Idle
      <4> QED
        BY <4>1, <2>2 DEF CommandInv, i
    <3> QED
      BY <1>q, <2>3, <2>4, <3>1, <3>2, <3>3 DEF CommandInv
  <2>6. SweepInv'
    BY <2>1, <2>3 DEF SweepInv, Phase
  <2>7. TornOK'
    <3> SUFFICES ASSUME NEW j \in Items, Torn(j)', j \notin reopened'
                 PROVE  Repairing(j)'
      BY DEF TornOK
    <3>1. CASE j = i
      BY <2>3, <2>4, <3>1 DEF Torn, Repairing
    <3>2. CASE j # i
      <4>1. Repairing(j)
        BY <2>1, <2>3, <3>2 DEF TornOK, Torn
      <4>2. \A v \in Workers : queueing[v] = [step |-> "cancel", item |-> j] => v # w
        BY <2>1
      <4> QED
        BY <2>1, <2>4, <4>1, <4>2 DEF Repairing
    <3> QED
      BY <3>1, <3>2
  <2> QED
    BY <2>5, <2>6, <2>7
<1>4. CASE QueueCancel(w)
  <2> DEFINE i == queueing[w].item
  <2>1. queueing[w].step = "cancel" /\ UNCHANGED <<slot, sweep>>
    BY <1>4 DEF QueueCancel, At
  <2>2. i \in Items
    BY <1>q, <2>1
  <2>3. /\ card'[i] = "ended"
        /\ \A j \in Items : j # i => card'[j] = card[j]
    BY <1>0, <1>4, <1>a, <2>2 DEF QueueCancel
  <2>4. /\ \A v \in Workers \ {w} : queueing'[v] = queueing[v]
        /\ queueing'[w] = Idle
    BY <1>4, <1>a DEF QueueCancel, Done
  <2> HIDE DEF i
  <2>5. CommandInv'
    BY <2>1, <2>4, NoItemIsNone DEF CommandInv, Idle
  <2>6. SweepInv'
    BY <2>1 DEF SweepInv, Phase
  <2>7. TornOK'
    <3> SUFFICES ASSUME NEW j \in Items, Torn(j)', j \notin reopened'
                 PROVE  Repairing(j)'
      BY DEF TornOK
    <3>1. j # i
      BY <2>3 DEF Torn
    <3>2. Repairing(j)
      BY <2>1, <2>3, <3>1 DEF TornOK, Torn
    <3>3. \A v \in Workers : queueing[v] = [step |-> "cancel", item |-> j] => v # w
      BY <3>1 DEF i
    <3> QED
      BY <2>1, <2>4, <3>2, <3>3 DEF Repairing
  <2> QED
    BY <2>5, <2>6, <2>7
<1> QED
  BY <1>1, <1>2, <1>3, <1>4

\* Between two looks at cards a torn pair is in the hands of its command.
LEMMA QuietKeeps ==
  ASSUME TypeOK, CommandInv, TornOK, Gentle, UNCHANGED <<card, queueing>>,
         reopened \subseteq reopened',
         sweep.phase \in {"cancel", "restore"}
           => Phase("cancel") /\ sweep.todo = {} /\ sweep.item = NoItem
  PROVE  CommandInv' /\ TornOK'
<1>1. CommandInv'
  <2>1. \A w \in Workers : queueing[w].step \in {"enqueue", "note", "link"}
                             => queueing[w].item \in Items
    BY DEF CommandInv
  <2> QED
    BY <2>1 DEF CommandInv, Gentle
<1>2. TornOK'
  <2> SUFFICES ASSUME NEW i \in Items, Torn(i)', i \notin reopened'
               PROVE  Repairing(i)'
    BY DEF TornOK
  <2>1. Torn(i)
    BY DEF Torn, Gentle
  <2>2. ~(sweep.phase \in {"cancel", "restore"} /\ i \in sweep.todo \cup {sweep.item})
    BY NoItemIsNone
  <2>3. \E w \in Workers : queueing[w] = [step |-> "cancel", item |-> i]
    BY <2>1, <2>2 DEF TornOK, Repairing
  <2> QED
    BY <2>3 DEF Repairing
<1> QED
  BY <1>1, <1>2

\* A step of the cleanup.
LEMMA CleanupKeeps ==
  ASSUME TypeOK, CommandInv, SweepInv, TornOK, faults' = 0, Cleanup,
         reopened \subseteq reopened'
  PROVE  CommandInv' /\ SweepInv' /\ TornOK'
<1>0. ~Fault /\ \A slots : Write(slots) => slot' = slots
  BY NoFault
<1>a. slot \in [Items -> Slot] /\ card \in [Items -> CardStatus] /\ sweep \in Sweep
  BY DEF TypeOK
<1>g. slot' = slot => Gentle
  BY DEF Gentle
<1>1. CASE Discover
  <2>1. /\ Phase("idle") /\ sweep'.phase = "requeue"
        /\ UNCHANGED <<slot, card, queueing>>
    BY <1>1, <1>a DEF Discover, Sweep
  <2>2. SweepInv'
    BY <2>1 DEF SweepInv, Phase
  <2> QED
    BY <1>g, <2>1, <2>2, QuietKeeps DEF Phase
<1>2. CASE RequeueOrphans
  <2>1. /\ Phase("requeue") /\ sweep'.phase = "due"
        /\ UNCHANGED <<card, queueing>>
    BY <1>2, <1>a DEF RequeueOrphans, Sweep
  <2>2. \A i \in Items :
          LET s == [slot[i] EXCEPT !.status = "pending", !.holder = Nobody]
          IN  s.status = "pending" /\ s.linked = slot[i].linked
    BY <1>a DEF Slot
  <2>3. Gentle
    <3>1. \A i \in Items :
            \/ slot'[i] = slot[i]
            \/ /\ slot[i].status = "assigned"
               /\ slot'[i] = [slot[i] EXCEPT !.status = "pending", !.holder = Nobody]
      BY <1>0, <1>2 DEF RequeueOrphans
    <3> QED
      BY <2>2, <3>1 DEF Gentle
  <2>4. SweepInv'
    BY <2>1 DEF SweepInv, Phase
  <2> QED
    BY <2>1, <2>3, <2>4, QuietKeeps DEF Phase
<1>3. CASE NotDue \/ SweepEnds
  <2>1. /\ Phase("due") \/ (Phase("cancel") /\ sweep.todo = {})
        /\ sweep'.phase = "idle"
        /\ UNCHANGED <<slot, card, queueing>>
    BY <1>3 DEF NotDue, SweepEnds, NoSweep
  <2>2. SweepInv'
    BY <2>1 DEF SweepInv, Phase
  <2>3. Phase("cancel") => sweep.item = NoItem
    BY DEF SweepInv
  <2> QED
    BY <1>g, <2>1, <2>2, <2>3, QuietKeeps DEF Phase
<1>4. CASE SweepSnapshot
  <2>1. /\ Phase("due") /\ sweep'.phase = "check" /\ sweep'.snap = slot
        /\ UNCHANGED <<slot, card, queueing>>
    BY <1>4 DEF SweepSnapshot, NoSweep
  <2>2. SweepInv'
    BY <2>1 DEF SweepInv, Phase
  <2> QED
    BY <1>g, <2>1, <2>2, QuietKeeps DEF Phase
<1>5. ASSUME NEW i \in Items, SweepCheck(i)
      PROVE  CommandInv' /\ SweepInv' /\ TornOK'
  <2>1. Phase("check") /\ UNCHANGED <<slot, card, queueing>>
    BY <1>5 DEF SweepCheck
  <2>2. PICK status, landed : sweep' = Checked(i, status, landed)
    BY <1>5 DEF SweepCheck
  <2>3. sweep'.phase = "check" /\ sweep'.snap = sweep.snap
    BY <1>a, <2>1, <2>2 DEF Checked, Sweep, Phase
  <2>4. SweepInv'
    BY <2>1, <2>3 DEF SweepInv, Phase
  <2> QED
    BY <1>g, <2>1, <2>4, QuietKeeps DEF Phase
<1>6. CASE SweepRetire
  <2>1. Phase("check") /\ UNCHANGED <<card, queueing>>
    BY <1>6 DEF SweepRetire
  <2>2. \A slots : Cleaning(slots) =>
          /\ sweep'.phase = "cancel" /\ sweep'.item = NoItem
          /\ sweep'.todo = Cleanups(slots)
          /\ sweep'.why = [i \in Items |-> slots[i].reason]
    BY DEF Cleaning, NoSweep
  <2>c. ASSUME NEW slots, Cleaning(slots),
               \A i \in Items : slots[i].status = "retired" =>
                 slot'[i].status = "retired" /\ slot'[i].reason = slots[i].reason
        PROVE  SweepInv'
    <3>1. \A i \in Items : i \in sweep'.todo =>
            slot'[i].status = "retired" /\ slot'[i].reason = sweep'.why[i]
      <4>1. /\ sweep'.todo = Cleanups(slots)
            /\ sweep'.why = [i \in Items |-> slots[i].reason]
        BY <2>2, <2>c
      <4> SUFFICES ASSUME NEW i \in Items, i \in sweep'.todo
                   PROVE  slot'[i].status = "retired" /\ slot'[i].reason = sweep'.why[i]
        OBVIOUS
      <4>2. slots[i].status = "retired"
        BY <4>1 DEF Cleanups
      <4>3. sweep'.why[i] = slots[i].reason
        BY <4>1
      <4> QED
        BY <2>c, <4>2, <4>3
    <3>2. sweep'.phase = "cancel" /\ sweep'.item = NoItem
      BY <2>2, <2>c
    <3> QED
      BY <3>1, <3>2, NoItemIsNone DEF SweepInv, Phase
  <2>3. CASE Cleaning(sweep.snap) /\ slot' = slot
    <3>1. SweepInv'
      BY <2>1, <2>c, <2>3 DEF SweepInv
    <3> QED
      BY <1>g, <2>1, <2>3, <3>1, QuietKeeps DEF Phase
  <2>4. CASE Cleaning(AfterRetire) /\ slot' = AfterRetire
    <3>1. \A i \in Items :
            /\ slot'[i].linked = slot[i].linked
            /\ slot'[i].status = "absent" => slot[i].status = "absent"
      <4> SUFFICES ASSUME NEW i \in Items
                   PROVE  /\ slot'[i].linked = slot[i].linked
                          /\ slot'[i].status = "absent" => slot[i].status = "absent"
        OBVIOUS
      <4>1. slot'[i] = Retired(slot[i], sweep.why[i], i \in sweep.notes)
        BY <2>4 DEF AfterRetire
      <4>2. slot[i] \in Slot
        BY <1>a
      <4> QED
        BY <4>1, <4>2 DEF Retired, Slot
    <3>2. SweepInv'
      BY <2>c, <2>4
    <3>3. CommandInv'
      <4>1. \A w \in Workers : queueing[w].step \in {"enqueue", "note", "link"}
                                 => queueing[w].item \in Items
        BY DEF CommandInv
      <4> QED
        BY <2>1, <3>1, <4>1 DEF CommandInv
    <3>4. TornOK'
      BY <2>2, <2>4 DEF TornOK, Torn, Repairing, Cleanups
    <3> QED
      BY <3>2, <3>3, <3>4
  <2> QED
    BY <1>0, <1>6, <2>3, <2>4 DEF SweepRetire
<1>7. ASSUME NEW i \in Items, SweepCancel(i)
      PROVE  CommandInv' /\ SweepInv' /\ TornOK'
  <2>1. /\ Phase("cancel") /\ i \in sweep.todo
        /\ UNCHANGED <<slot, queueing>>
    BY <1>7 DEF SweepCancel
  <2>2. /\ slot[i].status = "retired" /\ slot[i].reason = sweep.why[i]
        /\ sweep.item = NoItem
    BY <2>1 DEF SweepInv, Phase
  <2>3. CommandInv'
    BY <2>1 DEF CommandInv
  <2>4. \/ /\ sweep' = [sweep EXCEPT !.todo = @ \ {i}]
           /\ \/ card' = card /\ sweep.why[i] = "completed"
              \/ card' = [card EXCEPT ![i] = "ended"]
        \/ /\ sweep' = [[sweep EXCEPT !.todo = @ \ {i}] EXCEPT !.phase = "restore",
                                                               !.item = i]
           /\ card' = card /\ sweep.why[i] # "completed"
    BY <1>0, <1>7 DEF SweepCancel
  <2>5. /\ sweep'.todo = sweep.todo \ {i} /\ sweep'.why = sweep.why
        /\ \/ sweep'.phase = "cancel" /\ sweep'.item = NoItem
           \/ /\ sweep'.phase = "restore" /\ sweep'.item = i
              /\ sweep.why[i] # "completed"
    BY <1>a, <2>1, <2>2, <2>4 DEF Sweep, Phase
  <2>6. SweepInv'
    BY <2>1, <2>2, <2>5, NoItemIsNone DEF SweepInv, Phase
  <2>7. TornOK'
    <3> SUFFICES ASSUME NEW j \in Items, Torn(j)', j \notin reopened'
                 PROVE  Repairing(j)'
      BY DEF TornOK
    <3>1. CASE j # i
      <4>1. card'[j] = card[j]
        BY <1>a, <2>4, <3>1
      <4>2. Repairing(j)
        BY <2>1, <3>1, <4>1 DEF TornOK, Torn
      <4> QED
        BY <2>1, <2>2, <2>5, <3>1, <4>2, NoItemIsNone DEF Repairing
    <3>2. CASE j = i /\ sweep'.phase = "restore"
      BY <2>5, <3>2 DEF Repairing
    <3>3. CASE j = i /\ sweep'.phase = "cancel"
      <4>1. \/ sweep.why[i] = "completed"
            \/ card' = [card EXCEPT ![i] = "ended"]
        BY <1>a, <2>4, <3>3 DEF Sweep
      <4>2. CASE sweep.why[i] = "completed"
        BY <2>1, <2>2, <3>3, <4>2 DEF Torn
      <4>3. CASE card' = [card EXCEPT ![i] = "ended"]
        <5>1. card'[i] = "ended"
          BY <1>a, <4>3
        <5> QED
          BY <3>3, <5>1 DEF Torn
      <4> QED
        BY <4>1, <4>2, <4>3
    <3> QED
      BY <2>5, <3>1, <3>2, <3>3
  <2> QED
    BY <2>3, <2>6, <2>7
<1>8. CASE SweepRestore
  <2> DEFINE i == sweep.item
             s == Restored(slot[i], sweep.why[i])
  <2>1. /\ Phase("restore") /\ slot' = [slot EXCEPT ![i] = s]
        /\ sweep' = [sweep EXCEPT !.phase = "cancel", !.item = NoItem]
        /\ UNCHANGED <<card, queueing>>
    BY <1>0, <1>8 DEF SweepRestore
  <2>2. /\ i \in Items /\ i \notin sweep.todo /\ sweep.why[i] # "completed"
        /\ slot[i].status = "retired" /\ slot[i].reason = sweep.why[i]
    BY <2>1 DEF SweepInv, Phase
  <2>3. s.status = "pending" /\ s.linked = slot[i].linked
    <3> HIDE DEF i
    <3>1. slot[i] \in Slot
      BY <1>a, <2>2
    <3> QED
      BY <2>2, <3>1 DEF Restored, Slot
  <2>4. /\ sweep'.phase = "cancel" /\ sweep'.item = NoItem
        /\ sweep'.todo = sweep.todo /\ sweep'.why = sweep.why
    BY <1>a, <2>1 DEF Sweep
  <2> HIDE DEF s
  <2>5. /\ \A j \in Items : j # i => slot'[j] = slot[j]
        /\ slot'[i] = s
    BY <1>a, <2>1, <2>2
  <2>6. CommandInv'
    <3>1. \A w \in Workers : queueing[w].step \in {"enqueue", "note", "link"}
                               => queueing[w].item \in Items
      BY DEF CommandInv
    <3> HIDE DEF i
    <3> QED
      BY <2>1, <2>3, <2>5, <3>1 DEF CommandInv
  <2>7. SweepInv'
    BY <2>1, <2>2, <2>4, <2>5, NoItemIsNone DEF SweepInv, Phase
  <2>8. TornOK'
    BY <2>1, <2>3, <2>4, <2>5 DEF TornOK, Torn, Repairing
  <2> QED
    BY <2>6, <2>7, <2>8
<1> QED
  BY <1>1, <1>2, <1>3, <1>4, <1>5, <1>6, <1>7, <1>8 DEF Cleanup

LEMMA TearStep == TypeOK /\ TearInv /\ [Next]_vars => TearInv'
<1> SUFFICES ASSUME TypeOK, TearInv, [Next]_vars, faults' = 0
             PROVE  CommandInv' /\ SweepInv' /\ TornOK'
  BY DEF TearInv
<1>1. CommandInv /\ SweepInv /\ TornOK
  BY FaultsGrow DEF TearInv
<1>2. ~Fault
  BY NoFault
<1>3. CASE UNCHANGED vars
  BY <1>1, <1>3
  DEF vars, copying, CommandInv, SweepInv, TornOK, Torn, Repairing, Phase
<1>4. CASE Next
  <2>1. ~SweepAborts /\ \A w \in Workers : ~Die(w)
    BY <1>2 DEF SweepAborts, Die
  <2>2. \/ Cleanup \/ Elsewhere
        \/ \E w \in Workers :
             \/ \E i \in Items, up \in {"none", "open", "landed"} : QueueAdd(w, i, up)
             \/ QueueCard(w) \/ QueueNote(w) \/ QueueLink(w) \/ QueueCancel(w)
    BY <1>4, <2>1 DEF Next, Elsewhere, CardChanges
  <2> QED
    BY <1>1, <2>2, ReopenedGrows, CleanupKeeps, ElsewhereKeeps, CommandKeeps
<1> QED
  BY <1>3, <1>4

\* TornNeedsFault: for any number of items, workers and upstream checks, and
\* whatever is claimed, linked, loaded and saved while a sweep runs, a slot is
\* left retired beside a live card only when an access failed, a process died or
\* an outdated copy was saved over the finished card (sweep_stale,
\* _sweep_stale_work_queue, record_stale_upstream_note, _handle_queue_command).
THEOREM TearsAreFaults == Spec => []TornNeedsFault
<1>1. TypeOK /\ TearInv => TornNeedsFault
  BY WorkAssumption DEF TypeOK, TearInv, TornOK, TornNeedsFault
<1> QED
  BY TypeCorrect, TearInit, TearStep, <1>1, PTL DEF Spec
=============================================================================
