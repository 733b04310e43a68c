------------------------------ MODULE GoalTurns ------------------------------
(***************************************************************************)
(* One /goal of one conversation: the record and its turn attempts in      *)
(* goals.db, and the processes (daemons) that have the conversation open.  *)
(* Each daemon runs the goal loop of kollabor/goals/driver.py, the         *)
(* commands of kollabor/goals/service.py and the 60 s watchdog.            *)
(*                                                                         *)
(* Inside a daemon everything between two awaits is one uninterrupted      *)
(* block; another daemon may step between any two transactions of it.  A   *)
(* step of this module is one transaction of the store, with the reads     *)
(* that lead to it.  The compare-and-set on record_version is modelled by  *)
(* the set fresh: the daemons whose last read of the record no write has   *)
(* overtaken.                                                              *)
(***************************************************************************)
EXTENDS Integers, FiniteSets

CONSTANTS Daemons,      \* processes that may open the conversation
          NoOne,        \* no daemon id recorded
          Gone,         \* a daemon id whose process is dead
          MaxTurns,     \* the goal's auto_turn_limit
          MaxGen,       \* bound: highest execution_generation (resumes)
          MaxCrashes,   \* bound: process deaths
          MaxInputs     \* bound: user messages and commands

ASSUME DaemonAssumption == NoOne \notin Daemons /\ Gone \notin Daemons /\ NoOne # Gone
ASSUME BoundAssumption == /\ MaxTurns \in Nat \ {0}
                          /\ MaxGen \in Nat
                          /\ MaxCrashes \in Nat
                          /\ MaxInputs \in Nat

VARIABLES
  rec,      \* the goals row
  att,      \* the goal_attempts rows, by continuation_seq
  lease,    \* who holds an unexpired owner lease
  fresh,    \* daemons whose last read of rec is still current
  pc,       \* where each daemon's goal loop is
  mine,     \* the attempt a daemon's loop is working on, as it read it
  out,      \* the outcome its turn ended with
  wr,       \* the status its next transition writes
  cmd,      \* the command or the recovery a daemon is in the middle of
  sched,    \* a start() task is pending
  busy,     \* the daemon's queue holds or runs a user message
  intr,     \* a user message was admitted since the goal turn's ticket
  latch,    \* cancel_processing: somebody pressed Stop
  yielded,  \* the goal is in _yielded_goals
  crashes, inputs,
  shared    \* history: two daemons have been up at once

store  == <<rec, att, lease, fresh>>
loop   == <<pc, mine, out, wr>>
queue  == <<busy, intr, latch, inputs>>
vars == <<store, loop, cmd, sched, queue, yielded, crashes, shared>>

Seqs == 1 .. MaxTurns
Terminal == {"complete", "cleared"}
Resumable == {"paused", "blocked", "budget_limited"}
Statuses == {"active"} \cup Resumable \cup Terminal
AttemptStates == {"unused", "dispatched", "settled", "cancelled", "ambiguous"}
PCs == {"down", "idle", "look", "check", "bound", "write", "writeEnd", "insert",
        "begin", "load", "image", "turn", "sent", "usage", "settle", "apply", "commit"}
Outcomes == {"ok", "cancelled", "error"}
Ops == {"none", "held", "discard", "reread", "pause", "pauseReq", "clear", "clearReq",
        "bumped", "resume", "recover"}

Attempts == [state: AttemptStates, epoch: Nat, by: Daemons \cup {NoOne, Gone}]
Records == [status: Statuses, seq: Nat, epoch: Nat, gen: Nat,
            pauseReq: BOOLEAN, clearReq: BOOLEAN, pending: BOOLEAN]
Holding == [seq: Nat, epoch: Nat, gen: Nat]
Commands == [op: Ops, gen: Nat]

NoAttempt == [state |-> "unused", epoch |-> 0, by |-> NoOne]
Nothing == [seq |-> 0, epoch |-> 0, gen |-> 0]
NoCommand == [op |-> "none", gen |-> 0]

\* Attempts dispatched and never settled (unfinished_attempts).
InFlight == {s \in Seqs : att[s].state = "dispatched"}

\* The goal's loop runs in d (_running_goals).
Running(d) == pc[d] \notin {"down", "idle"}

\* d's event loop is free to take another callback: its goal loop is not
\* running or waits in the turn's await, and no command is half done.
Awaiting(d) == pc[d] \in {"idle", "turn", "sent"} /\ cmd[d].op = "none"

\* d's goal loop holds the event loop.
Stepping(d) == cmd[d].op = "none"

(***************************************************************************)
(* GoalStore.create: the goal starts active and the daemon whose user      *)
(* asked for it schedules the first turn.                                  *)
(***************************************************************************)
Init ==
  /\ rec = [status |-> "active", seq |-> 0, epoch |-> 0, gen |-> 1,
            pauseReq |-> FALSE, clearReq |-> FALSE, pending |-> FALSE]
  /\ att = [s \in Seqs |-> NoAttempt]
  /\ lease = NoOne
  /\ fresh = {}
  /\ \E c \in Daemons : /\ pc = [d \in Daemons |-> IF d = c THEN "idle" ELSE "down"]
                        /\ sched = [d \in Daemons |-> d = c]
  /\ mine = [d \in Daemons |-> Nothing]
  /\ out = [d \in Daemons |-> "ok"]
  /\ wr = [d \in Daemons |-> "active"]
  /\ cmd = [d \in Daemons |-> NoCommand]
  /\ busy = [d \in Daemons |-> FALSE]
  /\ intr = [d \in Daemons |-> FALSE]
  /\ latch = [d \in Daemons |-> FALSE]
  /\ yielded = [d \in Daemons |-> FALSE]
  /\ crashes = 0 /\ inputs = 0
  /\ shared = FALSE

-----------------------------------------------------------------------------
(***************************************************************************)
(* The store.                                                              *)
(***************************************************************************)

\* A read of the record by d.
Read(d) == fresh' = fresh \cup {d}

\* transition / update_fields after a compare-and-set that succeeded: the
\* record version moves on and every earlier read is overtaken.
Wrote(fields) == rec' = fields /\ fresh' = {}

\* _fenced_attempt_update: the row changes only under the epoch it was
\* dispatched with.
FenceOpen(d) == att[mine[d].seq].epoch = mine[d].epoch

Fenced(d, state) ==
  att' = IF FenceOpen(d) THEN [att EXCEPT ![mine[d].seq].state = state] ELSE att

-----------------------------------------------------------------------------
(***************************************************************************)
(* The loop of GoalTurnDriver in daemon d.                                 *)
(***************************************************************************)

\* The loop goes on at another point, or ends its turn with an outcome, or
\* leaves the turn behind with a status to write.
GoTo(d, point) == pc' = [pc EXCEPT ![d] = point] /\ UNCHANGED <<mine, out, wr>>

EndWith(d, point, outcome) ==
  /\ pc' = [pc EXCEPT ![d] = point]
  /\ out' = [out EXCEPT ![d] = outcome]
  /\ UNCHANGED <<mine, wr>>

Leave(d, point, status) ==
  /\ pc' = [pc EXCEPT ![d] = point]
  /\ mine' = [mine EXCEPT ![d] = Nothing]
  /\ out' = [out EXCEPT ![d] = "ok"]
  /\ wr' = [wr EXCEPT ![d] = status]

\* start() returns: the running guard and the in-flight slot are released.
Return(d) == Leave(d, "idle", "active")

\* Mutant of Fail: the event's kind is written as the status.
FailAsError(d) == Leave(d, "writeEnd", "error") /\ Read(d)

\* An exception leaves _drive: _safe_error_pause reads the record and will
\* write status paused, giving up when that write is overtaken.
Fail(d) == Leave(d, "writeEnd", "paused") /\ Read(d)

\* start(): a second task finds the running guard taken.
Start(d) ==
  /\ sched[d] /\ Awaiting(d)
  /\ sched' = [sched EXCEPT ![d] = FALSE]
  /\ GoTo(d, IF pc[d] = "idle" THEN "look" ELSE pc[d])
  /\ UNCHANGED <<store, cmd, queue, yielded, crashes, shared>>

\* The head of the loop: a goal that is no longer active ends it; a profile
\* that cannot run goals turns the next boundary into an error.
Look(d) ==
  /\ pc[d] = "look" /\ Stepping(d)
  /\ IF rec.status # "active"
     THEN Return(d)
     ELSE \E o \in {"ok", "error"} : EndWith(d, "check", o)
  /\ UNCHANGED <<store, cmd, sched, queue, yielded, crashes, shared>>

\* maybe_continue, up to its first write.  At "check" its errors leave the
\* loop, at "bound" (after a turn that was cancelled or failed) they are
\* caught.
Stop(d, status) ==
  /\ Leave(d, IF pc[d] = "check" THEN "write" ELSE "writeEnd", status)
  /\ Read(d)
  /\ UNCHANGED yielded

StopIntent == rec.clearReq \/ rec.pauseReq

\* Stop intents come first, whatever the status, and clear before pause.
ApplyIntent(d) ==
  /\ StopIntent
  /\ Stop(d, IF rec.clearReq THEN "cleared" ELSE "paused")

ApplyOutcome(d) ==
  /\ ~StopIntent /\ rec.status = "active" /\ out[d] # "ok"
  /\ Stop(d, "paused")

\* The user's messages, or a Stop, come before the goal.
Occupied(d) == busy[d] \/ latch[d]

\* No dispatch and no stop.  The loop ends, and notes that it waits for the
\* user's turn to settle.
Decline(d) ==
  /\ ~StopIntent
  /\ rec.status # "active" \/ (out[d] = "ok" /\ Occupied(d))
  /\ Return(d)
  /\ yielded' = [yielded EXCEPT ![d] = @ \/ (pc[d] = "check" /\ rec.status = "active")]
  /\ UNCHANGED fresh

\* The checklist's last conditions: active, no stop intent, nothing of the
\* user's queued or running, and no Stop since the last message.
MayDispatch(d) == ~StopIntent /\ rec.status = "active" /\ out[d] = "ok" /\ ~Occupied(d)

\* _bound_stop and the token budget: time and tokens may run out any time.
StopAtBound(d) == MayDispatch(d) /\ Stop(d, "budget_limited")

\* Mutant of Dispatch: the next number is taken from the attempts, not from
\* the record.
DispatchAfterLast(d) ==
  LET last == Cardinality({s \in Seqs : att[s].state # "unused"})
  IN  /\ MayDispatch(d) /\ last < MaxTurns
      /\ pc' = [pc EXCEPT ![d] = "insert"]
      /\ mine' = [mine EXCEPT ![d] = [seq |-> last + 1, epoch |-> rec.epoch, gen |-> rec.gen]]
      /\ Read(d)
      /\ UNCHANGED <<out, wr, yielded>>

\* The next turn takes the number after the last one the record counts.
Dispatch(d) ==
  /\ MayDispatch(d) /\ rec.seq < MaxTurns
  /\ pc' = [pc EXCEPT ![d] = "insert"]
  /\ mine' = [mine EXCEPT ![d] = [seq |-> rec.seq + 1, epoch |-> rec.epoch, gen |-> rec.gen]]
  /\ Read(d)
  /\ UNCHANGED <<out, wr, yielded>>

Check(d) ==
  /\ pc[d] \in {"check", "bound"} /\ Stepping(d)
  /\ ApplyIntent(d) \/ ApplyOutcome(d) \/ Decline(d) \/ StopAtBound(d) \/ Dispatch(d)
  /\ UNCHANGED <<rec, att, lease, cmd, sched, queue, crashes, shared>>

\* The transition of a stop, of an applied intent or of _safe_error_pause.
Write(d) ==
  /\ pc[d] \in {"write", "writeEnd"} /\ Stepping(d)
  /\ IF d \in fresh
     THEN Wrote([rec EXCEPT !.status = wr[d]]) /\ Return(d)
     ELSE /\ UNCHANGED rec
          /\ IF pc[d] = "write" THEN Fail(d) ELSE Return(d) /\ UNCHANGED fresh
  /\ UNCHANGED <<att, lease, cmd, sched, queue, yielded, crashes, shared>>

\* Mutant of SeqFree: the table accepts a second row.
SeqFreeAlways(s) == TRUE

\* UNIQUE(goal_id, continuation_seq).
SeqFree(s) == att[s].state = "unused"

\* insert_attempt, in a transaction of its own: one row per sequence number.
Insert(d) ==
  /\ pc[d] = "insert" /\ Stepping(d)
  /\ IF SeqFree(mine[d].seq)
     THEN /\ att' = [att EXCEPT ![mine[d].seq] =
                       [state |-> "dispatched", epoch |-> mine[d].epoch, by |-> NoOne]]
          /\ GoTo(d, "begin")
          /\ UNCHANGED fresh
     ELSE Fail(d) /\ UNCHANGED att
  /\ UNCHANGED <<rec, lease, cmd, sched, queue, yielded, crashes, shared>>

\* The fields turn_started writes: continuation_seq, and turn_count with it.
TurnStarted(d) == [rec EXCEPT !.seq = mine[d].seq]

\* The turn_started transition appends the event that names this daemon; the
\* turn's ticket is claimed.
Begin(d) ==
  /\ pc[d] = "begin" /\ Stepping(d)
  /\ IF d \in fresh
     THEN /\ Wrote(TurnStarted(d))
          /\ att' = [att EXCEPT ![mine[d].seq].by = d]
          /\ GoTo(d, "load")
          /\ yielded' = [yielded EXCEPT ![d] = FALSE]
          /\ intr' = [intr EXCEPT ![d] = FALSE]
     ELSE Fail(d) /\ UNCHANGED <<rec, att, yielded, intr>>
  /\ UNCHANGED <<lease, cmd, sched, busy, latch, inputs, crashes, shared>>

\* Before the turn's first await the goal's images are loaded.  Where one is
\* missing, pause_artifact_missing reads the record ...
LoadAttachments(d) ==
  /\ pc[d] = "load" /\ Stepping(d)
  /\ \/ GoTo(d, "turn") /\ UNCHANGED fresh
     \/ GoTo(d, "image") /\ Read(d)
  /\ UNCHANGED <<rec, att, lease, cmd, sched, queue, yielded, crashes, shared>>

\* ... and pauses the goal whatever its status; the turn counts as cancelled,
\* or as failed when the write was overtaken.  finish_turn reads the record.
PauseMissing(d) ==
  /\ pc[d] = "image" /\ Stepping(d)
  /\ IF d \in fresh
     THEN /\ rec' = [rec EXCEPT !.status = "paused"]
          /\ fresh' = {d}
          /\ EndWith(d, "usage", "cancelled")
     ELSE UNCHANGED rec /\ Read(d) /\ EndWith(d, "usage", "error")
  /\ UNCHANGED <<att, lease, cmd, sched, queue, yielded, crashes, shared>>

\* The context is injected and nobody was admitted meanwhile: the request
\* goes to the provider.
Send(d) ==
  /\ pc[d] = "turn" /\ Awaiting(d) /\ ~latch[d] /\ ~intr[d]
  /\ GoTo(d, "sent")
  /\ UNCHANGED <<store, cmd, sched, queue, yielded, crashes, shared>>

\* A user message was admitted before the request: the unsent attempt is
\* cancelled and the loop waits for the user's turn to settle.
Yield(d) ==
  /\ pc[d] = "turn" /\ Awaiting(d) /\ ~latch[d] /\ intr[d]
  /\ Fenced(d, "cancelled")
  /\ yielded' = [yielded EXCEPT ![d] = TRUE]
  /\ IF FenceOpen(d) THEN Return(d) /\ UNCHANGED fresh ELSE Fail(d)
  /\ UNCHANGED <<rec, lease, cmd, sched, queue, crashes, shared>>

\* The turn is over, cancelled exactly when a Stop is standing; one that never
\* reached the provider does not end well.  finish_turn reads the record.
TurnEnds(d) ==
  /\ pc[d] \in {"turn", "sent"} /\ Awaiting(d)
  /\ \E o \in Outcomes : /\ latch[d] <=> o = "cancelled"
                         /\ o = "ok" => pc[d] = "sent"
                         /\ EndWith(d, "usage", o)
  /\ Read(d)
  /\ UNCHANGED <<rec, att, lease, cmd, sched, queue, yielded, crashes, shared>>

\* finish_turn's update_fields: overtaken, the rest of finish_turn is skipped.
Usage(d) ==
  /\ pc[d] = "usage" /\ Stepping(d)
  /\ IF d \in fresh
     THEN fresh' = {} /\ GoTo(d, "settle")
     ELSE UNCHANGED fresh /\ GoTo(d, "apply")
  /\ UNCHANGED <<rec, att, lease, cmd, sched, queue, yielded, crashes, shared>>

\* Mutant of Settle: the attempt is never marked settled.
SettleForgotten(d) ==
  /\ pc[d] = "settle" /\ Stepping(d)
  /\ fresh' = {}
  /\ GoTo(d, "apply")
  /\ UNCHANGED <<rec, att, lease, cmd, sched, queue, yielded, crashes, shared>>

\* settle_attempt (a fenced write only warns), then the turn_completed event.
Settle(d) ==
  /\ pc[d] = "settle" /\ Stepping(d)
  /\ Fenced(d, "settled")
  /\ fresh' = {}
  /\ GoTo(d, "apply")
  /\ UNCHANGED <<rec, lease, cmd, sched, queue, yielded, crashes, shared>>

\* What follows a turn that did not complete the goal.
AfterTurn(d) == GoTo(d, IF out[d] = "ok" THEN "look" ELSE "bound")

\* apply_pending_completion reads the record ...
Apply(d) ==
  /\ pc[d] = "apply" /\ Stepping(d)
  /\ IF rec.pending /\ rec.status = "active"
     THEN GoTo(d, "commit") /\ Read(d)
     ELSE AfterTurn(d) /\ UNCHANGED fresh
  /\ UNCHANGED <<rec, att, lease, cmd, sched, queue, yielded, crashes, shared>>

\* ... and commits the completion held in it.
Commit(d) ==
  /\ pc[d] = "commit" /\ Stepping(d)
  /\ IF d \in fresh
     THEN /\ Wrote([rec EXCEPT !.status = "complete", !.pending = FALSE])
          /\ Return(d)
     ELSE AfterTurn(d) /\ UNCHANGED <<rec, fresh>>
  /\ UNCHANGED <<att, lease, cmd, sched, queue, yielded, crashes, shared>>

\* handle_goal_report, called by a tool of the running turn: the attempt's
\* generation must be the record's.  Progress, and a blocker below the
\* limits, only move the record version on; a repeated blocker stops the
\* goal; an audited completion is held until the turn settles.
Report(d) ==
  /\ pc[d] = "sent" /\ Awaiting(d)
  /\ mine[d].gen = rec.gen
  /\ \E r \in {rec, [rec EXCEPT !.status = "blocked"], [rec EXCEPT !.pending = TRUE]} : Wrote(r)
  /\ UNCHANGED <<att, lease, loop, cmd, sched, queue, yielded, crashes, shared>>

DriverStep(d) ==
  \/ Start(d) \/ Look(d) \/ Check(d) \/ Write(d) \/ Insert(d) \/ Begin(d)
  \/ LoadAttachments(d) \/ PauseMissing(d) \/ Send(d) \/ Yield(d) \/ TurnEnds(d)
  \/ Usage(d) \/ Settle(d) \/ Apply(d) \/ Commit(d)

-----------------------------------------------------------------------------
(***************************************************************************)
(* The user of daemon d: messages, and the /goal commands.                 *)
(***************************************************************************)

\* The user types something at d.
Typed(d) == Awaiting(d) /\ inputs < MaxInputs /\ inputs' = inputs + 1

\* A message of the user is queued, or admitted beside the goal's turn; it
\* takes back an earlier Stop.
UserSends(d) ==
  /\ Typed(d)
  /\ latch' = [latch EXCEPT ![d] = FALSE]
  /\ busy' = [busy EXCEPT ![d] = TRUE]
  /\ intr' = [intr EXCEPT ![d] = @ \/ pc[d] = "turn"]
  /\ UNCHANGED <<store, loop, cmd, sched, yielded, crashes, shared>>

\* Stop (ESC): cancels what runs, and stands until the user's next message.
\* Queued chat messages end with it, typed ones stay queued.
Escape(d) ==
  /\ Typed(d)
  /\ busy[d] \/ pc[d] \in {"turn", "sent"}
  /\ latch' = [latch EXCEPT ![d] = TRUE]
  /\ \/ UNCHANGED busy
     \/ pc[d] # "idle" /\ busy' = [busy EXCEPT ![d] = FALSE]
  /\ UNCHANGED <<store, loop, cmd, sched, intr, yielded, crashes, shared>>

\* The drain ends.  Unless it was stopped, wake_yielded schedules a goal that
\* yielded and is still active.
UserSettles(d) ==
  /\ Awaiting(d) /\ busy[d]
  /\ busy' = [busy EXCEPT ![d] = FALSE]
  /\ yielded' = [yielded EXCEPT ![d] = @ /\ (latch[d] \/ Running(d))]
  /\ sched' = [sched EXCEPT ![d] = @ \/ (/\ yielded[d] /\ rec.status = "active"
                                        /\ ~latch[d] /\ ~Running(d))]
  /\ UNCHANGED <<store, loop, cmd, intr, latch, inputs, crashes, shared>>

Command(d, op, gen) == cmd' = [cmd EXCEPT ![d] = [op |-> op, gen |-> gen]]

\* pause: with a turn in flight the stop is only recorded.
PauseOp == IF rec.status = "active" /\ InFlight = {} THEN "pause" ELSE "pauseReq"

\* A completion that is held in the record has to be discarded first.
AskPause(d) ==
  /\ Typed(d) /\ rec.status \notin Terminal
  /\ Read(d)
  /\ Command(d, IF rec.pending THEN "held" ELSE PauseOp, 0)
  /\ UNCHANGED <<rec, att, lease, loop, sched, busy, intr, latch, yielded, crashes, shared>>

\* Mutant of ClearOp: a turn in flight is not looked for.
ClearNow == "clear"

\* clear: with a turn in flight the intent is recorded for the boundary.
ClearOp == IF InFlight = {} THEN "clear" ELSE "clearReq"

AskClear(d) ==
  /\ Typed(d) /\ rec.status \notin Terminal
  /\ Read(d)
  /\ Command(d, ClearOp, 0)
  /\ UNCHANGED <<rec, att, lease, loop, sched, busy, intr, latch, yielded, crashes, shared>>

\* resume, up to its first transition (generation_bumped), which changes no
\* field; what the second one will write is computed from this read.
AskResume(d) ==
  /\ Typed(d) /\ rec.status \in Resumable /\ rec.gen < MaxGen
  /\ fresh' = {}
  /\ Command(d, "bumped", rec.gen + 1)
  /\ UNCHANGED <<rec, att, lease, loop, sched, busy, intr, latch, yielded, crashes, shared>>

\* The record is read again: by discard_pending_completion, by pause after
\* it, and by resume before its second transition.
CommandReads(d) ==
  /\ cmd[d].op \in {"held", "reread", "bumped"}
  /\ Read(d)
  /\ cmd' = [cmd EXCEPT ![d].op =
                CASE @ = "held"   -> IF rec.pending THEN "discard" ELSE "reread"
                  [] @ = "reread" -> PauseOp
                  [] @ = "bumped" -> "resume"]
  /\ UNCHANGED <<rec, att, lease, loop, sched, queue, yielded, crashes, shared>>

Commanded(c) ==
  CASE c.op = "discard"  -> [rec EXCEPT !.pending = FALSE]
    [] c.op = "pause"    -> [rec EXCEPT !.status = "paused"]
    [] c.op = "pauseReq" -> [rec EXCEPT !.pauseReq = TRUE]
    [] c.op = "clear"    -> [rec EXCEPT !.status = "cleared"]
    [] c.op = "clearReq" -> [rec EXCEPT !.clearReq = TRUE]
    [] c.op = "resume"   -> [rec EXCEPT !.status = "active", !.gen = c.gen,
                                        !.pauseReq = FALSE, !.clearReq = FALSE]

\* The command's write; overtaken, the command fails and changes nothing.
\* pause goes on after its discard, and a resume schedules the loop.
DoCommand(d) ==
  /\ cmd[d].op \in {"discard", "pause", "pauseReq", "clear", "clearReq", "resume"}
  /\ IF cmd[d].op = "discard" /\ d \in fresh
     THEN Command(d, "reread", 0)
     ELSE cmd' = [cmd EXCEPT ![d] = NoCommand]
  /\ IF d \in fresh
     THEN /\ Wrote(Commanded(cmd[d]))
          /\ sched' = [sched EXCEPT ![d] = @ \/ (cmd[d].op = "resume" /\ ~Running(d))]
     ELSE UNCHANGED <<rec, fresh, sched>>
  /\ UNCHANGED <<att, lease, loop, queue, yielded, crashes, shared>>

-----------------------------------------------------------------------------
(***************************************************************************)
(* The watchdog of daemon d, and process death.                            *)
(***************************************************************************)

\* Mutant of DispatcherAlive: an attempt without an event counts as alive.
DispatcherAliveOrUnknown(d) == \E s \in InFlight : att[s].by \in (Daemons \cup {NoOne}) \ {d}

\* _dispatcher_alive: another live process wrote the turn_started event of
\* an attempt in flight.
DispatcherAlive(d) == \E s \in InFlight : att[s].by \in Daemons \ {d}

\* check_stalled, every 60 s: an active goal nobody here drives is scheduled,
\* or recovered when a turn of it was cut off.
CheckStalled(d) ==
  /\ pc[d] = "idle" /\ cmd[d].op = "none" /\ rec.status = "active"
  /\ \/ /\ InFlight = {}
        /\ sched' = [sched EXCEPT ![d] = TRUE]
        /\ UNCHANGED cmd
     \/ /\ InFlight # {} /\ ~DispatcherAlive(d)
        /\ Command(d, "recover", 0)
        /\ UNCHANGED sched
  /\ UNCHANGED <<store, loop, queue, yielded, crashes, shared>>

\* recover_lease, one transaction without a compare-and-set: attempts in
\* flight become ambiguous under a new epoch, and the goal pauses.
Recover(d) ==
  /\ cmd[d].op = "recover"
  /\ cmd' = [cmd EXCEPT ![d] = NoCommand]
  /\ IF lease \in {NoOne, d}
     THEN /\ Wrote([rec EXCEPT !.epoch = @ + 1,
                               !.status = IF InFlight = {} THEN @ ELSE "paused"])
          /\ att' = [s \in Seqs |-> IF s \in InFlight
                                    THEN [att[s] EXCEPT !.state = "ambiguous", !.epoch = rec.epoch + 1]
                                    ELSE att[s]]
          /\ lease' = d
     ELSE UNCHANGED store
  /\ UNCHANGED <<loop, sched, queue, yielded, crashes, shared>>

LeaseExpires ==
  /\ lease # NoOne
  /\ lease' = NoOne
  /\ UNCHANGED <<rec, att, fresh, loop, cmd, sched, queue, yielded, crashes, shared>>

\* A process may die between any two transactions; its pid is then dead in
\* the events it wrote and in the lease.
Crash(d) ==
  /\ pc[d] # "down" /\ crashes < MaxCrashes
  /\ crashes' = crashes + 1
  /\ Leave(d, "down", "active")
  /\ att' = [s \in Seqs |-> IF att[s].by = d THEN [att[s] EXCEPT !.by = Gone] ELSE att[s]]
  /\ lease' = IF lease = d THEN Gone ELSE lease
  /\ fresh' = fresh \ {d}
  /\ cmd' = [cmd EXCEPT ![d] = NoCommand]
  /\ sched' = [sched EXCEPT ![d] = FALSE]
  /\ busy' = [busy EXCEPT ![d] = FALSE]
  /\ intr' = [intr EXCEPT ![d] = FALSE]
  /\ latch' = [latch EXCEPT ![d] = FALSE]
  /\ yielded' = [yielded EXCEPT ![d] = FALSE]
  /\ UNCHANGED <<rec, inputs, shared>>

\* A process opens the conversation: a restart, or /resume in a second one.
Open(d) ==
  /\ pc[d] = "down"
  /\ GoTo(d, "idle")
  /\ shared' = (shared \/ \E e \in Daemons : pc[e] # "down")
  /\ UNCHANGED <<store, cmd, sched, queue, yielded, crashes>>

Next ==
  \/ LeaseExpires
  \/ \E d \in Daemons :
       \/ DriverStep(d) \/ Report(d)
       \/ UserSends(d) \/ Escape(d) \/ UserSettles(d)
       \/ AskPause(d) \/ AskClear(d) \/ AskResume(d) \/ CommandReads(d) \/ DoCommand(d)
       \/ CheckStalled(d) \/ Recover(d)
       \/ Crash(d) \/ Open(d)

Spec == Init /\ [][Next]_vars

(***************************************************************************)
(* The event loop of a live daemon runs what is ready; turns end, of the   *)
(* user and of the goal; the watchdog polls; leases expire.  Nobody has to *)
(* type a command, and a dead daemon need not come back.                   *)
(***************************************************************************)
Fairness ==
  /\ WF_vars(LeaseExpires)
  /\ \A d \in Daemons : /\ SF_vars(DriverStep(d))
                        /\ SF_vars(UserSettles(d))
                        /\ WF_vars(CommandReads(d) \/ DoCommand(d) \/ Recover(d))
                        /\ SF_vars(CheckStalled(d))

FairSpec == Spec /\ Fairness

-----------------------------------------------------------------------------
(***************************************************************************)
(* Properties.                                                             *)
(***************************************************************************)

\* Every variable keeps its type.
TypeOK ==
  /\ rec \in Records
  /\ att \in [Seqs -> Attempts]
  /\ lease \in Daemons \cup {NoOne, Gone}
  /\ fresh \in SUBSET Daemons
  /\ pc \in [Daemons -> PCs]
  /\ mine \in [Daemons -> Holding]
  /\ out \in [Daemons -> Outcomes]
  /\ wr \in [Daemons -> Statuses]
  /\ cmd \in [Daemons -> Commands]
  /\ sched \in [Daemons -> BOOLEAN]
  /\ busy \in [Daemons -> BOOLEAN]
  /\ intr \in [Daemons -> BOOLEAN]
  /\ latch \in [Daemons -> BOOLEAN]
  /\ yielded \in [Daemons -> BOOLEAN]
  /\ crashes \in Nat /\ inputs \in Nat
  /\ shared \in BOOLEAN

\* While one process at a time has the conversation open, a turn started by
\* a live process is settled, cancelled or made ambiguous before the next
\* one is dispatched (maybe_continue itself never looks at the attempts).
OneLive ==
  ~shared => \A s, t \in InFlight : att[s].by # Gone /\ att[t].by # Gone => s = t

\* ... and a goal that completed or was cleared stays so, although
\* _safe_error_pause, pause_artifact_missing, the blocker stop and
\* recover_lease all write a status without looking at the one there.
TerminalIsFinal == [][~shared /\ rec.status \in Terminal => rec'.status = rec.status]_vars

\* insert_attempt and turn_started are two transactions.  Whatever dies or is
\* overtaken between them, an attempt the record does not count is the next
\* in sequence, and no turn of it was ever run, settled or cancelled.
UncountedNeverRan ==
  \A s \in Seqs : s > rec.seq /\ att[s].state # "unused" =>
    /\ s = rec.seq + 1
    /\ att[s].by = NoOne /\ att[s].state \in {"dispatched", "ambiguous"}

\* An attempt that recovery found cut off stays ambiguous: neither its
\* process's late settle or cancel nor a later dispatch writes it again.
AmbiguousIsFinal ==
  [][\A s \in Seqs : att[s].state = "ambiguous" => att'[s].state = "ambiguous"]_vars

\* No turn starts once a stop stands in the record: not on a goal that is
\* not active, and not over a pause or clear that waits for the boundary,
\* whatever process recorded it between the checklist and the dispatch.
StopHonoured ==
  [][\A d \in Daemons : pc[d] = "begin" /\ pc'[d] = "load" =>
       rec.status = "active" /\ ~StopIntent]_vars

\* While a process stays up, an active goal does not stay undriven: a turn
\* of it is sent, it stops, or the user pressed Stop last; although the wake
\* after a user's turn can be lost.
Driven ==
  \A d \in Daemons :
    (pc[d] # "down" /\ rec.status = "active") ~>
      \/ pc[d] = "down" \/ rec.status # "active" \/ latch[d]
      \/ \E e \in Daemons : pc[e] = "sent"

\* What the documentation says of /goal resume, "resume after a stop": a turn
\* of the goal is sent, or the goal stops again.
ResumeDrives ==
  \A d \in Daemons :
    (cmd[d].op = "resume" /\ d \in fresh) ~>
      \/ pc[d] = "down"
      \/ cmd[d].op # "resume" /\ rec.status # "active"
      \/ \E e \in Daemons : pc[e] = "sent"

\* What the specification of /goal says of two processes with the same
\* conversation: one of them runs the goal's turns.
OneTurnRuns ==
  \A d, e \in Daemons : pc[d] \in {"turn", "sent"} /\ pc[e] \in {"turn", "sent"} => d = e

=============================================================================
