--------------------------- MODULE GoalTurnsProofs ---------------------------
(***************************************************************************)
(* What holds of a /goal whatever the number of processes that have its    *)
(* conversation open, of turns, resumes and process deaths.  Every         *)
(* invariant is kept by each action in turn; the per-action steps follow   *)
(* the order of Next.                                                      *)
(***************************************************************************)
EXTENDS GoalTurns, TLAPS

\* The empty values belong to their types.
LEMMA NoOp ==
  /\ NoCommand \in Commands /\ NoCommand.op = "none"
  /\ Nothing \in Holding /\ Nothing.epoch = 0
  /\ NoAttempt \in Attempts
  BY DEF NoCommand, Commands, Ops, Nothing, Holding, NoAttempt, Attempts, AttemptStates

\* The record and the rows keep their types under the updates the store makes.
LEMMA RecordTyped ==
  ASSUME NEW r \in Records
  PROVE  /\ \A v \in Statuses : [r EXCEPT !.status = v] \in Records
         /\ \A v \in Nat : [r EXCEPT !.seq = v] \in Records
         /\ [r EXCEPT !.pauseReq = TRUE] \in Records
         /\ [r EXCEPT !.clearReq = TRUE] \in Records
         /\ \A v \in BOOLEAN : [r EXCEPT !.pending = v] \in Records
         /\ [r EXCEPT !.status = "complete", !.pending = FALSE] \in Records
         /\ \A v \in Statuses : [r EXCEPT !.epoch = r.epoch + 1, !.status = v] \in Records
         /\ \A v \in Nat : [r EXCEPT !.status = "active", !.gen = v, !.pauseReq = FALSE,
                                     !.clearReq = FALSE] \in Records
  <1>1. r.epoch + 1 \in Nat /\ "complete" \in Statuses /\ "active" \in Statuses
    BY DEF Records, Statuses, Terminal
  <1>2. \A v \in Statuses : [r EXCEPT !.status = v] \in Records
    BY DEF Records
  <1>3. \A v \in Nat : [r EXCEPT !.seq = v] \in Records
    BY DEF Records
  <1>4. [r EXCEPT !.pauseReq = TRUE] \in Records /\ [r EXCEPT !.clearReq = TRUE] \in Records
    BY DEF Records
  <1>5. \A v \in BOOLEAN : [r EXCEPT !.pending = v] \in Records
    BY DEF Records
  <1>6. [r EXCEPT !.status = "complete", !.pending = FALSE] \in Records
    BY <1>1 DEF Records
  <1>7. \A v \in Statuses : [r EXCEPT !.epoch = r.epoch + 1, !.status = v] \in Records
    BY <1>1 DEF Records
  <1>8. \A v \in Nat : [r EXCEPT !.status = "active", !.gen = v, !.pauseReq = FALSE,
                                 !.clearReq = FALSE] \in Records
    BY <1>1 DEF Records
  <1> QED
    BY <1>2, <1>3, <1>4, <1>5, <1>6, <1>7, <1>8

\* ... and so do the rows of the attempts.
LEMMA AttemptTyped ==
  ASSUME NEW a \in Attempts
  PROVE  /\ \A v \in AttemptStates : [a EXCEPT !.state = v] \in Attempts
         /\ \A v \in Daemons \cup {Gone} : [a EXCEPT !.by = v] \in Attempts
         /\ \A v \in Nat : [a EXCEPT !.state = "ambiguous", !.epoch = v] \in Attempts
  BY DEF Attempts, AttemptStates

\* What turn_started leaves alone in the rows ...
LEMMA RowStarted ==
  ASSUME att \in [Seqs -> Attempts], NEW q, NEW v, att' = [att EXCEPT ![q].by = v], NEW s \in Seqs
  PROVE  /\ att'[s].state = att[s].state /\ att'[s].epoch = att[s].epoch
         /\ att'[s].by = IF s = q THEN v ELSE att[s].by
  <1>1. att[s] \in Attempts
    OBVIOUS
  <1> QED
    BY <1>1 DEF Attempts

\* ... what settle_attempt and cancel_attempt leave alone ...
LEMMA RowSettled ==
  ASSUME att \in [Seqs -> Attempts], NEW q, NEW v, att' = [att EXCEPT ![q].state = v], NEW s \in Seqs
  PROVE  /\ att'[s].by = att[s].by /\ att'[s].epoch = att[s].epoch
         /\ att'[s].state = IF s = q THEN v ELSE att[s].state
  <1>1. att[s] \in Attempts
    OBVIOUS
  <1> QED
    BY <1>1 DEF Attempts

\* ... and which rows recover_lease rewrites.
LEMMA RowFenced ==
  ASSUME att \in [Seqs -> Attempts], NEW e,
         att' = [s \in Seqs |-> IF s \in InFlight
                                THEN [att[s] EXCEPT !.state = "ambiguous", !.epoch = e]
                                ELSE att[s]],
         NEW s \in Seqs
  PROVE  /\ att[s].state # "dispatched" => att'[s] = att[s]
         /\ att[s].state = "dispatched" =>
              att'[s].state = "ambiguous" /\ att'[s].epoch = e /\ att'[s].by = att[s].by
  <1>1. att[s] \in Attempts
    OBVIOUS
  <1>2. CASE s \in InFlight
    <2>1. att'[s] = [att[s] EXCEPT !.state = "ambiguous", !.epoch = e]
      BY <1>2
    <2> QED
      BY <1>1, <1>2, <2>1 DEF Attempts, InFlight
  <1>3. CASE s \notin InFlight
    BY <1>3 DEF InFlight
  <1> QED
    BY <1>2, <1>3

\* The initial state is well typed.
LEMMA InitTyped == Init => TypeOK
  <1> SUFFICES ASSUME Init PROVE TypeOK
    OBVIOUS
  <1>1. rec \in Records
    BY DEF Init, Records, Statuses
  <1>2. att \in [Seqs -> Attempts]
    BY NoOp DEF Init
  <1>3. pc \in [Daemons -> PCs]
    BY DEF Init, PCs
  <1>4. mine \in [Daemons -> Holding] /\ cmd \in [Daemons -> Commands]
    BY NoOp DEF Init
  <1>5. out \in [Daemons -> Outcomes] /\ wr \in [Daemons -> Statuses]
    BY DEF Init, Outcomes, Statuses
  <1>6. sched \in [Daemons -> BOOLEAN]
    BY DEF Init
  <1> QED
    BY <1>1, <1>2, <1>3, <1>4, <1>5, <1>6 DEF Init, TypeOK

\* The steps of the goal loop keep the types.
LEMMA DriverTyped ==
  ASSUME TypeOK, NEW d \in Daemons, DriverStep(d)
  PROVE  TypeOK'
  <1> USE NoOp DEF TypeOK, PCs, Read, Wrote, GoTo, EndWith, Leave, Return, store, loop, queue
  <1>1. CASE Start(d)
    BY <1>1 DEF Start
  <1>2. CASE Look(d)
    BY <1>2 DEF Look, Outcomes, Statuses
  <1>3. CASE Check(d)
    <2>1. CASE ApplyIntent(d)
      BY <1>3, <2>1 DEF Check, ApplyIntent, Stop, Outcomes, Statuses, Resumable, Terminal
    <2>2. CASE ApplyOutcome(d)
      BY <1>3, <2>2 DEF Check, ApplyOutcome, Stop, Outcomes, Statuses, Resumable, Terminal
    <2>3. CASE Decline(d)
      BY <1>3, <2>3 DEF Check, Decline, Outcomes, Statuses, Resumable, Terminal
    <2>4. CASE StopAtBound(d)
      BY <1>3, <2>4 DEF Check, StopAtBound, Stop, Outcomes, Statuses, Resumable, Terminal
    <2>5. CASE Dispatch(d)
      BY <1>3, <2>5 DEF Check, Dispatch, Holding, Records
    <2> QED
      BY <1>3, <2>1, <2>2, <2>3, <2>4, <2>5 DEF Check
  <1>4. CASE Write(d)
    <2>1. rec' \in Records
      <3>1. rec' = rec \/ rec' = [rec EXCEPT !.status = wr[d]]
        BY <1>4 DEF Write
      <3> QED
        BY <3>1 DEF Records
    <2> QED
      BY <1>4, <2>1 DEF Write, Fail, Outcomes, Statuses, Resumable
  <1>5. CASE Insert(d)
    <2>1. [state |-> "dispatched", epoch |-> mine[d].epoch, by |-> NoOne] \in Attempts
      BY DEF Attempts, AttemptStates, Holding
    <2>2. att' \in [Seqs -> Attempts]
      BY <1>5, <2>1 DEF Insert
    <2> QED
      BY <1>5, <2>2 DEF Insert, Fail, Outcomes, Statuses, Resumable
  <1>6. CASE Begin(d)
    <2>1. rec' \in Records
      <3>1. rec' = rec \/ rec' = [rec EXCEPT !.seq = mine[d].seq]
        BY <1>6 DEF Begin, TurnStarted
      <3>2. mine[d].seq \in Nat
        BY DEF Holding
      <3> QED
        BY ONLY rec \in Records, <3>1, <3>2 DEF Records
    <2>2. att' \in [Seqs -> Attempts]
      <3>1. att' = att \/ att' = [att EXCEPT ![mine[d].seq].by = d]
        BY <1>6 DEF Begin
      <3> QED
        BY <3>1 DEF Attempts
    <2>3. fresh' \in SUBSET Daemons
      BY <1>6 DEF Begin, Fail
    <2>4. /\ pc' \in [Daemons -> PCs] /\ mine' \in [Daemons -> Holding]
          /\ out' \in [Daemons -> Outcomes] /\ wr' \in [Daemons -> Statuses]
      BY <1>6 DEF Begin, Fail, Outcomes, Statuses, Resumable
    <2> QED
      BY <1>6, <2>1, <2>2, <2>3, <2>4 DEF Begin
  <1>7. CASE Send(d)
    BY <1>7 DEF Send
  <1>8. CASE Yield(d)
    <2>1. att' \in [Seqs -> Attempts]
      BY <1>8, AttemptTyped DEF Yield, Fenced, AttemptStates
    <2> QED
      BY <1>8, <2>1 DEF Yield, Fail, Outcomes, Statuses, Resumable
  <1>9. CASE TurnEnds(d)
    BY <1>9 DEF TurnEnds
  <1>10. CASE LoadAttachments(d)
    BY <1>10 DEF LoadAttachments
  <1>11. CASE Usage(d)
    BY <1>11 DEF Usage
  <1>12. CASE Settle(d)
    <2>1. att' \in [Seqs -> Attempts]
      BY <1>12, AttemptTyped DEF Settle, Fenced, AttemptStates
    <2> QED
      BY <1>12, <2>1 DEF Settle
  <1>13. CASE Apply(d)
    BY <1>13 DEF Apply, AfterTurn
  <1>14. CASE Commit(d)
    <2>1. rec' \in Records
      <3>1. rec' = rec \/ rec' = [rec EXCEPT !.status = "complete", !.pending = FALSE]
        BY <1>14 DEF Commit
      <3> QED
        BY <3>1 DEF Records, Statuses, Terminal
    <2> QED
      BY <1>14, <2>1 DEF Commit, AfterTurn, Outcomes, Statuses
  <1>15. CASE PauseMissing(d)
    <2>1. rec' \in Records
      <3>1. rec' = rec \/ rec' = [rec EXCEPT !.status = "paused"]
        BY <1>15 DEF PauseMissing
      <3> QED
        BY <3>1 DEF Records, Statuses, Resumable
    <2> QED
      BY <1>15, <2>1 DEF PauseMissing, Outcomes
  <1> QED
    BY <1>1, <1>2, <1>3, <1>4, <1>5, <1>6, <1>7, <1>8, <1>9, <1>10, <1>11, <1>12, <1>13, <1>14,
       <1>15 DEF DriverStep

\* The steps of the turn's tools, the user, the watchdog and process death keep
\* the types.
LEMMA OtherTyped ==
  ASSUME TypeOK, NEW d \in Daemons,
         \/ Report(d) \/ UserSends(d) \/ Escape(d) \/ UserSettles(d)
         \/ AskPause(d) \/ AskClear(d) \/ AskResume(d) \/ CommandReads(d) \/ DoCommand(d)
         \/ CheckStalled(d) \/ Recover(d) \/ Crash(d) \/ Open(d)
  PROVE  TypeOK'
  <1> USE NoOp DEF TypeOK, Read, Wrote, store, loop, queue
  <1>1. CASE Report(d)
    <2>1. \/ rec' = rec
          \/ rec' = [rec EXCEPT !.status = "blocked"]
          \/ rec' = [rec EXCEPT !.pending = TRUE]
      BY <1>1 DEF Report
    <2>2. rec' \in Records
      BY <2>1 DEF Records, Statuses, Resumable
    <2> QED
      BY <1>1, <2>2 DEF Report
  <1>2. CASE UserSends(d)
    BY <1>2 DEF UserSends, Typed
  <1>3. CASE UserSettles(d)
    BY <1>3 DEF UserSettles
  <1>4. CASE AskPause(d)
    <2>1. cmd' \in [Daemons -> Commands]
      BY <1>4 DEF AskPause, PauseOp, Command, Commands, Ops
    <2> QED
      BY <1>4, <2>1 DEF AskPause, Typed
  <1>5. CASE AskClear(d)
    BY <1>5 DEF AskClear, ClearOp, Typed, Command, Commands, Ops
  <1>6. CASE AskResume(d)
    BY <1>6 DEF AskResume, Typed, Command, Commands, Ops, Records
  <1>7. CASE CommandReads(d)
    BY <1>7 DEF CommandReads, PauseOp, Commands, Ops
  <1>8. CASE DoCommand(d)
    <2>1. cmd[d].gen \in Nat
      BY DEF Commands
    <2>2. "paused" \in Statuses /\ "cleared" \in Statuses
      BY DEF Statuses, Resumable, Terminal
    <2>3. cmd[d].op \in {"discard", "pause", "pauseReq", "clear", "clearReq", "resume"}
      BY <1>8 DEF DoCommand
    <2>4. Commanded(cmd[d]) \in Records
      BY <2>1, <2>2, <2>3, RecordTyped DEF Commanded
    <2>5. cmd' \in [Daemons -> Commands]
      BY <1>8 DEF DoCommand, Command, Commands, Ops
    <2> QED
      BY <1>8, <2>4, <2>5 DEF DoCommand
  <1>9. CASE CheckStalled(d)
    <2>1. cmd' \in [Daemons -> Commands]
      BY <1>9 DEF CheckStalled, Command, Commands, Ops
    <2> QED
      BY <1>9, <2>1 DEF CheckStalled
  <1>10. CASE Recover(d)
    <2>1. rec' \in Records
      <3>1. rec.status \in Statuses /\ "paused" \in Statuses /\ rec.epoch + 1 \in Nat
            /\ rec \in Records
        BY DEF Records, Statuses, Resumable
      <3> QED
        <4>1. \/ rec' = rec
              \/ \E v \in Statuses : rec' = [rec EXCEPT !.epoch = rec.epoch + 1, !.status = v]
          BY <1>10, <3>1 DEF Recover
        <4> QED
          BY ONLY <3>1, <4>1, RecordTyped
    <2>2. att' \in [Seqs -> Attempts]
      <3>1. \A s \in Seqs :
              [att[s] EXCEPT !.state = "ambiguous", !.epoch = rec.epoch + 1] \in Attempts
        <4>1. rec.epoch + 1 \in Nat /\ \A s \in Seqs : att[s] \in Attempts
          BY DEF Records
        <4> QED
          BY ONLY <4>1, AttemptTyped
      <3>2. \/ att' = att
            \/ att' = [s \in Seqs |->
                         IF s \in InFlight
                         THEN [att[s] EXCEPT !.state = "ambiguous", !.epoch = rec.epoch + 1]
                         ELSE att[s]]
        BY <1>10 DEF Recover
      <3> QED
        BY <3>1, <3>2
    <2> QED
      BY <1>10, <2>1, <2>2 DEF Recover
  <1>11. CASE Crash(d)
    <2>1. att' \in [Seqs -> Attempts]
      BY <1>11, AttemptTyped DEF Crash
    <2> QED
      BY <1>11, <2>1 DEF Crash, Leave, PCs, Outcomes, Statuses
  <1>12. CASE Open(d)
    BY <1>12 DEF Open, GoTo, PCs
  <1>13. CASE Escape(d)
    <2>1. busy' \in [Daemons -> BOOLEAN] /\ latch' \in [Daemons -> BOOLEAN]
      BY <1>13 DEF Escape
    <2>2. inputs' \in Nat
      BY <1>13 DEF Escape, Typed
    <2>3. UNCHANGED <<store, loop, cmd, sched, intr, yielded, crashes, shared>>
      BY <1>13 DEF Escape
    <2> QED
      BY <2>1, <2>2, <2>3
  <1> QED
    BY <1>1, <1>2, <1>3, <1>4, <1>5, <1>6, <1>7, <1>8, <1>9, <1>10, <1>11, <1>12, <1>13

\* Every step keeps the types.
LEMMA NextTyped == TypeOK /\ [Next]_vars => TypeOK'
  <1> SUFFICES ASSUME TypeOK, [Next]_vars PROVE TypeOK'
    OBVIOUS
  <1>1. CASE LeaseExpires
    BY <1>1 DEF LeaseExpires, TypeOK, loop, queue
  <1>2. CASE UNCHANGED vars
    BY <1>2 DEF vars, store, loop, queue, TypeOK
  <1> QED
    BY <1>1, <1>2, DriverTyped, OtherTyped DEF Next

\* The types of the goals row, its attempts and the loop's state hold in every
\* reachable state (GoalStore, GoalTurnDriver, GoalService).
THEOREM TypeCorrect == Spec => []TypeOK
  BY InitTyped, NextTyped, PTL DEF Spec

\* While a command is half done the goal loop of its daemon waits.
CmdInv == \A d \in Daemons : cmd[d].op # "none" => pc[d] \in {"idle", "turn", "sent"}

\* Commands begin only while the loop waits, and the loop waits for them.
LEMMA CmdKept ==
  ASSUME TypeOK, CmdInv, [Next]_vars
  PROVE  CmdInv'
  <1> USE NoOp DEF TypeOK, CmdInv, Read, Wrote, GoTo, EndWith, Leave, Return, store, loop, queue
  <1>1. ASSUME NEW d \in Daemons, DriverStep(d)
        PROVE  CmdInv'
    <2>1. CASE Start(d)
      BY <2>1 DEF Start, Awaiting, Stepping
    <2>2. CASE Look(d)
      BY <2>2 DEF Look, Awaiting, Stepping
    <2>3. CASE Check(d)
      <3>1. CASE ApplyIntent(d)
        BY <2>3, <3>1 DEF Check, ApplyIntent, Stop, Stepping
      <3>2. CASE ApplyOutcome(d)
        BY <2>3, <3>2 DEF Check, ApplyOutcome, Stop, Stepping
      <3>3. CASE Decline(d)
        BY <2>3, <3>3 DEF Check, Decline, Stepping
      <3>4. CASE StopAtBound(d)
        BY <2>3, <3>4 DEF Check, StopAtBound, Stop, Stepping
      <3>5. CASE Dispatch(d)
        BY <2>3, <3>5 DEF Check, Dispatch, MayDispatch, Stepping
      <3> QED
        BY <2>3, <3>1, <3>2, <3>3, <3>4, <3>5 DEF Check
    <2>4. CASE Write(d)
      BY <2>4 DEF Write, Fail, Awaiting, Stepping
    <2>5. CASE Insert(d)
      BY <2>5 DEF Insert, SeqFree, Fail, Awaiting, Stepping
    <2>6. CASE Begin(d)
      BY <2>6 DEF Begin, TurnStarted, Fail, Awaiting, Stepping
    <2>7. CASE Send(d)
      BY <2>7 DEF Send, Awaiting, Stepping
    <2>8. CASE Yield(d)
      BY <2>8 DEF Yield, Fenced, FenceOpen, Fail, Awaiting, Stepping
    <2>9. CASE TurnEnds(d)
      BY <2>9 DEF TurnEnds, Awaiting, Stepping
    <2>10. CASE LoadAttachments(d)
      BY <2>10 DEF LoadAttachments, Awaiting, Stepping
    <2>11. CASE Usage(d)
      BY <2>11 DEF Usage, Awaiting, Stepping
    <2>12. CASE Settle(d)
      BY <2>12 DEF Settle, Fenced, FenceOpen, Awaiting, Stepping
    <2>13. CASE Apply(d)
      BY <2>13 DEF Apply, AfterTurn, Awaiting, Stepping
    <2>14. CASE Commit(d)
      BY <2>14 DEF Commit, AfterTurn, Awaiting, Stepping
    <2>15. CASE PauseMissing(d)
      BY <2>15 DEF PauseMissing, Stepping
    <2> QED
      BY <1>1, <2>1, <2>2, <2>3, <2>4, <2>5, <2>6, <2>7, <2>8, <2>9, <2>10, <2>11, <2>12, <2>13,
         <2>14, <2>15 DEF DriverStep
  <1>2. ASSUME NEW d \in Daemons, Report(d)
        PROVE  CmdInv'
    BY <1>2 DEF Report, Awaiting
  <1>3. ASSUME NEW d \in Daemons, UserSends(d)
        PROVE  CmdInv'
    BY <1>3 DEF UserSends, Typed, Awaiting
  <1>4. ASSUME NEW d \in Daemons, UserSettles(d)
        PROVE  CmdInv'
    BY <1>4 DEF UserSettles, Awaiting
  <1>5. ASSUME NEW d \in Daemons, AskPause(d)
        PROVE  CmdInv'
    BY <1>5 DEF AskPause, PauseOp, Typed, Command, Awaiting
  <1>6. ASSUME NEW d \in Daemons, AskClear(d)
        PROVE  CmdInv'
    BY <1>6 DEF AskClear, ClearOp, Typed, Command, Awaiting
  <1>7. ASSUME NEW d \in Daemons, AskResume(d)
        PROVE  CmdInv'
    BY <1>7 DEF AskResume, Typed, Command, Awaiting
  <1>8. ASSUME NEW d \in Daemons, CommandReads(d)
        PROVE  CmdInv'
    BY <1>8 DEF CommandReads, PauseOp, Awaiting
  <1>9. ASSUME NEW d \in Daemons, DoCommand(d)
        PROVE  CmdInv'
    BY <1>9 DEF DoCommand, Command, Commanded, Awaiting
  <1>10. ASSUME NEW d \in Daemons, CheckStalled(d)
        PROVE  CmdInv'
    BY <1>10 DEF CheckStalled, Command, Awaiting
  <1>11. ASSUME NEW d \in Daemons, Recover(d)
        PROVE  CmdInv'
    BY <1>11 DEF Recover, InFlight, Awaiting
  <1>12. ASSUME NEW d \in Daemons, Crash(d)
        PROVE  CmdInv'
    BY <1>12 DEF Crash, Leave, Awaiting
  <1>13. ASSUME NEW d \in Daemons, Open(d)
        PROVE  CmdInv'
    BY <1>13 DEF Open, Awaiting
  <1>14. CASE LeaseExpires
    BY <1>14 DEF LeaseExpires
  <1>15. CASE UNCHANGED vars
    BY <1>15 DEF vars
  <1>16. ASSUME NEW d \in Daemons, Escape(d)
        PROVE  CmdInv'
    BY <1>16 DEF Escape, Typed, Awaiting
  <1> QED
    BY <1>1, <1>2, <1>3, <1>4, <1>5, <1>6, <1>7, <1>8, <1>9, <1>10, <1>11, <1>12, <1>13, <1>14,
       <1>15, <1>16 DEF Next

\* A dispatch decided on a read that is still current is decided on the record
\* as it stands.
SnapInv ==
  \A d \in fresh : pc[d] \in {"insert", "begin"} => rec.status = "active" /\ ~StopIntent

\* Any write overtakes the reads it would invalidate.
LEMMA SnapKept ==
  ASSUME TypeOK, CmdInv, SnapInv, [Next]_vars
  PROVE  SnapInv'
  <1> USE NoOp DEF TypeOK, SnapInv, CmdInv, StopIntent, Read, Wrote, GoTo, EndWith, Leave,
     Return, store, loop, queue
  <1>1. ASSUME NEW d \in Daemons, DriverStep(d)
        PROVE  SnapInv'
    <2>1. CASE Start(d)
      BY <2>1 DEF Start, Awaiting, Stepping
    <2>2. CASE Look(d)
      BY <2>2 DEF Look, Awaiting, Stepping
    <2>3. CASE Check(d)
      <3>1. CASE ApplyIntent(d)
        BY <2>3, <3>1 DEF Check, ApplyIntent, Stop, Stepping
      <3>2. CASE ApplyOutcome(d)
        BY <2>3, <3>2 DEF Check, ApplyOutcome, Stop, Stepping
      <3>3. CASE Decline(d)
        BY <2>3, <3>3 DEF Check, Decline, Stepping
      <3>4. CASE StopAtBound(d)
        BY <2>3, <3>4 DEF Check, StopAtBound, Stop, Stepping
      <3>5. CASE Dispatch(d)
        BY <2>3, <3>5 DEF Check, Dispatch, MayDispatch, Stepping
      <3> QED
        BY <2>3, <3>1, <3>2, <3>3, <3>4, <3>5 DEF Check
    <2>4. CASE Write(d)
      BY <2>4 DEF Write, Fail, Awaiting, Stepping
    <2>5. CASE Insert(d)
      BY <2>5 DEF Insert, SeqFree, Fail, Awaiting, Stepping
    <2>6. CASE Begin(d)
      BY <2>6 DEF Begin, TurnStarted, Fail, Awaiting, Stepping
    <2>7. CASE Send(d)
      BY <2>7 DEF Send, Awaiting, Stepping
    <2>8. CASE Yield(d)
      BY <2>8 DEF Yield, Fenced, FenceOpen, Fail, Awaiting, Stepping
    <2>9. CASE TurnEnds(d)
      BY <2>9 DEF TurnEnds, Awaiting, Stepping
    <2>10. CASE LoadAttachments(d)
      BY <2>10 DEF LoadAttachments, Awaiting, Stepping
    <2>11. CASE Usage(d)
      BY <2>11 DEF Usage, Awaiting, Stepping
    <2>12. CASE Settle(d)
      BY <2>12 DEF Settle, Fenced, FenceOpen, Awaiting, Stepping
    <2>13. CASE Apply(d)
      BY <2>13 DEF Apply, AfterTurn, Awaiting, Stepping
    <2>14. CASE Commit(d)
      BY <2>14 DEF Commit, AfterTurn, Awaiting, Stepping
    <2>15. CASE PauseMissing(d)
      BY <2>15 DEF PauseMissing, Stepping
    <2> QED
      BY <1>1, <2>1, <2>2, <2>3, <2>4, <2>5, <2>6, <2>7, <2>8, <2>9, <2>10, <2>11, <2>12, <2>13,
         <2>14, <2>15 DEF DriverStep
  <1>2. ASSUME NEW d \in Daemons, Report(d)
        PROVE  SnapInv'
    BY <1>2 DEF Report, Awaiting
  <1>3. ASSUME NEW d \in Daemons, UserSends(d)
        PROVE  SnapInv'
    BY <1>3 DEF UserSends, Typed, Awaiting
  <1>4. ASSUME NEW d \in Daemons, UserSettles(d)
        PROVE  SnapInv'
    BY <1>4 DEF UserSettles, Awaiting
  <1>5. ASSUME NEW d \in Daemons, AskPause(d)
        PROVE  SnapInv'
    BY <1>5 DEF AskPause, PauseOp, Typed, Command, Awaiting
  <1>6. ASSUME NEW d \in Daemons, AskClear(d)
        PROVE  SnapInv'
    BY <1>6 DEF AskClear, ClearOp, Typed, Command, Awaiting
  <1>7. ASSUME NEW d \in Daemons, AskResume(d)
        PROVE  SnapInv'
    BY <1>7 DEF AskResume, Typed, Command, Awaiting
  <1>8. ASSUME NEW d \in Daemons, CommandReads(d)
        PROVE  SnapInv'
    BY <1>8 DEF CommandReads, PauseOp, Awaiting
  <1>9. ASSUME NEW d \in Daemons, DoCommand(d)
        PROVE  SnapInv'
    BY <1>9 DEF DoCommand, Command, Commanded, Awaiting
  <1>10. ASSUME NEW d \in Daemons, CheckStalled(d)
        PROVE  SnapInv'
    BY <1>10 DEF CheckStalled, Command, Awaiting
  <1>11. ASSUME NEW d \in Daemons, Recover(d)
        PROVE  SnapInv'
    BY <1>11 DEF Recover, InFlight, Awaiting
  <1>12. ASSUME NEW d \in Daemons, Crash(d)
        PROVE  SnapInv'
    BY <1>12 DEF Crash, Leave, Awaiting
  <1>13. ASSUME NEW d \in Daemons, Open(d)
        PROVE  SnapInv'
    BY <1>13 DEF Open, Awaiting
  <1>14. CASE LeaseExpires
    BY <1>14 DEF LeaseExpires
  <1>15. CASE UNCHANGED vars
    BY <1>15 DEF vars
  <1>16. ASSUME NEW d \in Daemons, Escape(d)
        PROVE  SnapInv'
    BY <1>16 DEF Escape, Typed, Awaiting
  <1> QED
    BY <1>1, <1>2, <1>3, <1>4, <1>5, <1>6, <1>7, <1>8, <1>9, <1>10, <1>11, <1>12, <1>13, <1>14,
       <1>15, <1>16 DEF Next

\* The points at which the loop holds a row it has inserted.
Held == {"begin", "load", "image", "turn", "sent", "usage", "settle"}

\* The fence: the epoch a loop holds is never ahead of the record's, and a row
\* that recovery made ambiguous carries a later epoch than the loop that holds
\* it, so neither its settle nor its cancel matches.
FenceInv ==
  \A d \in Daemons :
    /\ pc[d] \in Held \cup {"insert"} => mine[d].seq \in Seqs
    /\ mine[d].epoch <= rec.epoch
    /\ pc[d] \in Held /\ att[mine[d].seq].state = "ambiguous" =>
         att[mine[d].seq].epoch > mine[d].epoch

\* A loop that holds no row afterwards cannot break the fence.
LEMMA FenceLeft ==
  ASSUME TypeOK, FenceInv, NEW d \in Daemons,
         rec'.epoch = rec.epoch, att' = att,
         pc'[d] \notin Held \cup {"insert"}, mine'[d] \in {mine[d], Nothing},
         \A e \in Daemons \ {d} : pc'[e] = pc[e] /\ mine'[e] = mine[e]
  PROVE  FenceInv'
  <1>1. Nothing.epoch = 0 /\ rec.epoch \in Nat
    BY NoOp DEF TypeOK, Records
  <1> QED
    BY <1>1 DEF FenceInv

\* Recovery raises the epoch; a dispatch takes the record's.
LEMMA FenceKept ==
  ASSUME TypeOK, FenceInv, [Next]_vars
  PROVE  FenceInv'
  <1> USE NoOp DEF TypeOK, FenceInv, Held, Records, Holding, Read, Wrote, GoTo, EndWith, Leave,
     Return, store, loop, queue
  <1>1. ASSUME NEW d \in Daemons, DriverStep(d)
        PROVE  FenceInv'
    <2>1. CASE Start(d)
      BY <2>1 DEF Start, Awaiting, Stepping
    <2>2. CASE Look(d)
      <3>1. /\ rec'.epoch = rec.epoch /\ att' = att
            /\ pc'[d] \notin Held \cup {"insert"} /\ mine'[d] \in {mine[d], Nothing}
            /\ \A e \in Daemons \ {d} : pc'[e] = pc[e] /\ mine'[e] = mine[e]
        BY <2>2 DEF Look
      <3> QED
        BY ONLY <3>1, TypeOK, FenceInv, FenceLeft
    <2>3. CASE Check(d)
      <3>1. CASE ApplyIntent(d)
        BY <2>3, <3>1 DEF Check, ApplyIntent, Stop, Stepping
      <3>2. CASE ApplyOutcome(d)
        BY <2>3, <3>2 DEF Check, ApplyOutcome, Stop, Stepping
      <3>3. CASE Decline(d)
        BY <2>3, <3>3 DEF Check, Decline, Stepping
      <3>4. CASE StopAtBound(d)
        BY <2>3, <3>4 DEF Check, StopAtBound, Stop, Stepping
      <3>5. CASE Dispatch(d)
        <4>1. rec.seq + 1 \in Seqs
          BY <3>5, BoundAssumption DEF Dispatch, Seqs
        <4>2. /\ pc'[d] = "insert" /\ mine'[d].seq = rec.seq + 1 /\ mine'[d].epoch = rec.epoch
              /\ \A e \in Daemons \ {d} : pc'[e] = pc[e] /\ mine'[e] = mine[e]
          BY <3>5 DEF Dispatch
        <4>3. rec' = rec /\ att' = att
          BY <2>3 DEF Check
        <4> QED
          BY <4>1, <4>2, <4>3
      <3> QED
        BY <2>3, <3>1, <3>2, <3>3, <3>4, <3>5 DEF Check
    <2>4. CASE Write(d)
      <3>1. /\ rec'.epoch = rec.epoch /\ att' = att
            /\ pc'[d] \notin Held \cup {"insert"} /\ mine'[d] \in {mine[d], Nothing}
            /\ \A e \in Daemons \ {d} : pc'[e] = pc[e] /\ mine'[e] = mine[e]
        BY <2>4 DEF Write, Fail
      <3> QED
        BY ONLY <3>1, TypeOK, FenceInv, FenceLeft
    <2>5. CASE Insert(d)
      <3>1. CASE SeqFree(mine[d].seq)
        BY <2>5, <3>1 DEF Insert
      <3>2. CASE ~SeqFree(mine[d].seq)
        <4>1. /\ rec' = rec /\ att' = att
              /\ pc'[d] = "writeEnd" /\ mine'[d] = Nothing
              /\ \A e \in Daemons \ {d} : pc'[e] = pc[e] /\ mine'[e] = mine[e]
          BY <2>5, <3>2 DEF Insert, Fail
        <4> QED
          BY <4>1
      <3> QED
        BY <3>1, <3>2
    <2>6. CASE Begin(d)
      <3>1. rec'.epoch = rec.epoch
        BY <2>6 DEF Begin, TurnStarted
      <3>2. \A s \in Seqs : att'[s].state = att[s].state /\ att'[s].epoch = att[s].epoch
        <4>1. att' = att \/ att' = [att EXCEPT ![mine[d].seq].by = d]
          BY <2>6 DEF Begin
        <4>2. CASE att' = [att EXCEPT ![mine[d].seq].by = d]
          BY ONLY <4>2, att \in [Seqs -> Attempts], RowStarted
        <4>3. CASE att' = att
          BY <4>3
        <4> QED
          BY <4>1, <4>2, <4>3
      <3>3. /\ \A e \in Daemons \ {d} : pc'[e] = pc[e] /\ mine'[e] = mine[e]
            /\ \/ pc'[d] = "load" /\ mine'[d] = mine[d]
               \/ pc'[d] = "writeEnd" /\ mine'[d] = Nothing
        BY <2>6 DEF Begin, Fail
      <3> QED
        <4>1. pc[d] = "begin"
          BY <2>6 DEF Begin
        <4> QED
          BY <3>1, <3>2, <3>3, <4>1
    <2>7. CASE Send(d)
      BY <2>7 DEF Send, Awaiting, Stepping
    <2>8. CASE Yield(d)
      BY <2>8 DEF Yield, Fenced, FenceOpen, Fail, Awaiting, Stepping
    <2>9. CASE TurnEnds(d)
      BY <2>9 DEF TurnEnds, Awaiting, Stepping
    <2>10. CASE LoadAttachments(d)
      BY <2>10 DEF LoadAttachments, Awaiting, Stepping
    <2>11. CASE Usage(d)
      BY <2>11 DEF Usage, Awaiting, Stepping
    <2>12. CASE Settle(d)
      BY <2>12 DEF Settle, Fenced, FenceOpen, Awaiting, Stepping
    <2>13. CASE Apply(d)
      BY <2>13 DEF Apply, AfterTurn, Awaiting, Stepping
    <2>14. CASE Commit(d)
      <3>1. rec'.epoch = rec.epoch /\ att' = att
        BY <2>14 DEF Commit
      <3>2. /\ \A e \in Daemons \ {d} : pc'[e] = pc[e] /\ mine'[e] = mine[e]
            /\ pc'[d] \in {"idle", "look", "bound"}
            /\ mine'[d] \in {mine[d], Nothing}
        BY <2>14 DEF Commit, AfterTurn
      <3> QED
        BY <3>1, <3>2
    <2>15. CASE PauseMissing(d)
      BY <2>15 DEF PauseMissing, Stepping
    <2> QED
      BY <1>1, <2>1, <2>2, <2>3, <2>4, <2>5, <2>6, <2>7, <2>8, <2>9, <2>10, <2>11, <2>12, <2>13,
         <2>14, <2>15 DEF DriverStep
  <1>2. ASSUME NEW d \in Daemons, Report(d)
        PROVE  FenceInv'
    BY <1>2 DEF Report, Awaiting
  <1>3. ASSUME NEW d \in Daemons, UserSends(d)
        PROVE  FenceInv'
    BY <1>3 DEF UserSends, Typed, Awaiting
  <1>4. ASSUME NEW d \in Daemons, UserSettles(d)
        PROVE  FenceInv'
    BY <1>4 DEF UserSettles, Awaiting
  <1>5. ASSUME NEW d \in Daemons, AskPause(d)
        PROVE  FenceInv'
    BY <1>5 DEF AskPause, PauseOp, Typed, Command, Awaiting
  <1>6. ASSUME NEW d \in Daemons, AskClear(d)
        PROVE  FenceInv'
    BY <1>6 DEF AskClear, ClearOp, Typed, Command, Awaiting
  <1>7. ASSUME NEW d \in Daemons, AskResume(d)
        PROVE  FenceInv'
    BY <1>7 DEF AskResume, Typed, Command, Awaiting
  <1>8. ASSUME NEW d \in Daemons, CommandReads(d)
        PROVE  FenceInv'
    BY <1>8 DEF CommandReads, PauseOp, Awaiting
  <1>9. ASSUME NEW d \in Daemons, DoCommand(d)
        PROVE  FenceInv'
    BY <1>9 DEF DoCommand, Command, Commanded, Awaiting
  <1>10. ASSUME NEW d \in Daemons, CheckStalled(d)
        PROVE  FenceInv'
    BY <1>10 DEF CheckStalled, Command, Awaiting
  <1>11. ASSUME NEW d \in Daemons, Recover(d)
        PROVE  FenceInv'
    <2>1. CASE lease \in {NoOne, d}
      <3>1. rec'.epoch = rec.epoch + 1
        BY <1>11, <2>1 DEF Recover
      <3>2. \A s \in Seqs : \/ att'[s] = att[s]
                            \/ att[s].state = "dispatched" /\ att'[s].epoch = rec.epoch + 1
        <4>1. att' = [s \in Seqs |->
                        IF s \in InFlight
                        THEN [att[s] EXCEPT !.state = "ambiguous", !.epoch = rec.epoch + 1]
                        ELSE att[s]]
          BY <1>11, <2>1 DEF Recover
        <4> QED
          BY <4>1, RowFenced
      <3>3. pc' = pc /\ mine' = mine
        BY <1>11 DEF Recover
      <3>4. ASSUME NEW e \in Daemons, pc[e] \in Held, att'[mine[e].seq].state = "ambiguous"
            PROVE  att'[mine[e].seq].epoch > mine[e].epoch
        <4>1. mine[e].seq \in Seqs /\ mine[e].epoch <= rec.epoch
              /\ mine[e].epoch \in Nat /\ rec.epoch \in Nat
          BY <3>4
        <4> QED
          BY <3>2, <3>4, <4>1
      <3> QED
        BY <3>1, <3>3, <3>4
    <2>2. CASE lease \notin {NoOne, d}
      BY <1>11, <2>2 DEF Recover
    <2> QED
      BY <2>1, <2>2
  <1>12. ASSUME NEW d \in Daemons, Crash(d)
        PROVE  FenceInv'
    BY <1>12 DEF Crash, Leave, Awaiting
  <1>13. ASSUME NEW d \in Daemons, Open(d)
        PROVE  FenceInv'
    BY <1>13 DEF Open, Awaiting
  <1>14. CASE LeaseExpires
    BY <1>14 DEF LeaseExpires
  <1>15. CASE UNCHANGED vars
    BY <1>15 DEF vars
  <1>16. ASSUME NEW d \in Daemons, Escape(d)
        PROVE  FenceInv'
    BY <1>16 DEF Escape, Typed, Awaiting
  <1> QED
    BY <1>1, <1>2, <1>3, <1>4, <1>5, <1>6, <1>7, <1>8, <1>9, <1>10, <1>11, <1>12, <1>13, <1>14,
       <1>15, <1>16 DEF Next

-----------------------------------------------------------------------------
(***************************************************************************)
(* Sequence numbers: insert_attempt and turn_started.                      *)
(***************************************************************************)

\* The points at which the loop's turn is counted and its row not yet left.
Counted == {"load", "image", "turn", "sent", "usage", "settle"}

\* A dispatch under way asks for a number the record is at most one behind,
\* exactly one if its read is current; a turn that began is counted.
SeqInv ==
  /\ \A d \in Daemons :
       /\ pc[d] \in {"insert", "begin"} =>
            mine[d].seq <= rec.seq + 1 /\ (d \in fresh => mine[d].seq = rec.seq + 1)
       /\ pc[d] \in Counted => mine[d].seq <= rec.seq
  /\ UncountedNeverRan

\* A step that leaves rows and counter alone and does not enter a dispatch.
LEMMA SeqFrame ==
  ASSUME TypeOK, SeqInv, NEW d \in Daemons,
         rec'.seq = rec.seq, att' = att, fresh' \subseteq fresh \cup {d},
         \A e \in Daemons \ {d} : pc'[e] = pc[e] /\ mine'[e] = mine[e],
         pc'[d] \notin {"insert", "begin"},
         pc'[d] \in Counted => pc[d] \in Counted /\ mine'[d] = mine[d]
  PROVE  SeqInv'
  BY DEF SeqInv, UncountedNeverRan

\* The steps of the goal loop keep it: turn_started counts the number it
\* inserted, and settle and cancel write rows that are counted.
LEMMA SeqDriver ==
  ASSUME TypeOK, SeqInv, FenceInv, NEW d \in Daemons, DriverStep(d)
  PROVE  SeqInv'
  <1> DEFINE Quiet == /\ rec'.seq = rec.seq /\ att' = att /\ fresh' \subseteq fresh \cup {d}
                      /\ \A e \in Daemons \ {d} : pc'[e] = pc[e] /\ mine'[e] = mine[e]
                      /\ pc'[d] \notin {"insert", "begin"}
                      /\ pc'[d] \in Counted => pc[d] \in Counted /\ mine'[d] = mine[d]
  <1>0. Quiet => SeqInv'
    BY SeqFrame
  <1>a. pc \in [Daemons -> PCs] /\ mine \in [Daemons -> Holding] /\ rec \in Records
        /\ att \in [Seqs -> Attempts] /\ fresh \subseteq Daemons
    BY DEF TypeOK
  <1> HIDE DEF Quiet
  <1>1. CASE Start(d)
    <2>1. Quiet
      BY <1>1, <1>a DEF Quiet, Start, Awaiting, GoTo, Counted, store
    <2> QED BY <2>1, <1>0
  <1>2. CASE Look(d) \/ Apply(d) \/ Send(d) \/ Usage(d) \/ TurnEnds(d) \/ LoadAttachments(d)
    <2>1. Quiet
      BY <1>2, <1>a DEF Quiet, Look, Apply, Send, Usage, TurnEnds, LoadAttachments, AfterTurn,
         GoTo, EndWith, Return, Leave, Read, Counted, store
    <2> QED BY <2>1, <1>0
  <1>3. CASE Check(d) /\ ~Dispatch(d)
    <2>1. Quiet
      BY <1>3, <1>a DEF Quiet, Check, ApplyIntent, ApplyOutcome, Decline, StopAtBound, Stop, Return,
         Leave, Read, Counted
    <2> QED BY <2>1, <1>0
  <1>4. CASE Check(d) /\ Dispatch(d)
    <2>1. /\ rec' = rec /\ att' = att /\ fresh' = fresh \cup {d}
          /\ \A e \in Daemons \ {d} : pc'[e] = pc[e] /\ mine'[e] = mine[e]
          /\ pc'[d] = "insert" /\ mine'[d].seq = rec.seq + 1
      BY <1>4, <1>a DEF Check, Dispatch, Read
    <2>2. rec.seq \in Nat
      BY <1>a DEF Records
    <2> QED
      BY <2>1, <2>2 DEF SeqInv, UncountedNeverRan, Counted
  <1>5. CASE Write(d) \/ Commit(d) \/ PauseMissing(d)
    <2>1. rec'.seq = rec.seq
      BY <1>5, <1>a DEF Write, Commit, PauseMissing, Wrote, Records
    <2>2. Quiet
      BY <1>5, <1>a, <2>1 DEF Quiet, Write, Commit, PauseMissing, Wrote, Fail, AfterTurn, GoTo,
         EndWith, Return, Leave, Read, Counted
    <2> QED BY <2>2, <1>0
  <1>6. CASE Insert(d)
    <2>1. CASE SeqFree(mine[d].seq)
      <3>1. /\ rec' = rec /\ fresh' = fresh /\ mine' = mine /\ pc[d] = "insert"
            /\ pc' = [pc EXCEPT ![d] = "begin"]
            /\ att' = [att EXCEPT ![mine[d].seq] =
                         [state |-> "dispatched", epoch |-> mine[d].epoch, by |-> NoOne]]
        BY <1>6, <2>1 DEF Insert, GoTo
      <3>2. mine[d].seq <= rec.seq + 1 /\ mine[d].seq \in Nat /\ rec.seq \in Nat
        BY <1>a, <3>1 DEF SeqInv, Holding, Records
      <3>3. UncountedNeverRan'
        <4> SUFFICES ASSUME NEW s \in Seqs, s > rec.seq, att'[s].state # "unused"
                     PROVE  /\ s = rec.seq + 1
                            /\ att'[s].by = NoOne /\ att'[s].state \in {"dispatched", "ambiguous"}
          BY <3>1 DEF UncountedNeverRan
        <4>1. CASE s = mine[d].seq
          BY <4>1, <3>1, <3>2, <1>a DEF Seqs
        <4>2. CASE s # mine[d].seq
          BY <4>2, <3>1, <1>a DEF SeqInv, UncountedNeverRan
        <4> QED BY <4>1, <4>2
      <3> QED
        BY <3>1, <3>3, <1>a DEF SeqInv, Counted
    <2>2. CASE ~SeqFree(mine[d].seq)
      <3>1. Quiet
        BY <1>6, <1>a, <2>2 DEF Quiet, Insert, Fail, Leave, Read, Counted
      <3> QED BY <3>1, <1>0
    <2> QED BY <2>1, <2>2
  <1>7. CASE Begin(d)
    <2>1. CASE d \in fresh
      <3>1. /\ rec' = [rec EXCEPT !.seq = mine[d].seq] /\ fresh' = {} /\ mine' = mine
            /\ pc[d] = "begin" /\ pc' = [pc EXCEPT ![d] = "load"]
            /\ att' = [att EXCEPT ![mine[d].seq].by = d]
        BY <1>7, <2>1 DEF Begin, TurnStarted, Wrote, GoTo
      <3>2. /\ mine[d].seq = rec.seq + 1 /\ rec'.seq = rec.seq + 1 /\ rec.seq \in Nat
            /\ \A e \in Daemons : mine[e].seq \in Nat
        BY <1>a, <3>1, <2>1 DEF SeqInv, Holding, Records
      <3>3. \A s \in Seqs : att'[s].state = att[s].state
        BY ONLY <3>1, <1>a, RowStarted
      <3>4. UncountedNeverRan'
        <4> SUFFICES ASSUME NEW s \in Seqs, s > rec.seq + 1, att[s].state # "unused"
                     PROVE  FALSE
          BY <3>2, <3>3 DEF UncountedNeverRan
        <4> QED
          BY <3>2 DEF SeqInv, UncountedNeverRan, Seqs
      <3> QED
        BY <3>1, <3>2, <3>4, <1>a DEF SeqInv, Counted
    <2>2. CASE d \notin fresh
      <3>1. Quiet
        BY <1>7, <1>a, <2>2 DEF Quiet, Begin, Fail, Leave, Read, Counted
      <3> QED BY <3>1, <1>0
    <2> QED BY <2>1, <2>2
  <1>8. CASE Yield(d) \/ Settle(d)
    <2>1. /\ rec' = rec /\ fresh' \subseteq fresh \cup {d}
          /\ \A e \in Daemons \ {d} : pc'[e] = pc[e] /\ mine'[e] = mine[e]
          /\ pc'[d] \notin {"insert", "begin"} \cup Counted /\ pc[d] \in Counted
      BY <1>8, <1>a DEF Yield, Settle, Awaiting, Fail, Return, Leave, GoTo, Read, Counted
    <2>2. mine[d].seq \in Seqs /\ mine[d].seq <= rec.seq
      BY <2>1 DEF SeqInv, FenceInv, Held, Counted
    <2>3. \A s \in Seqs : s # mine[d].seq => att'[s] = att[s]
      BY <1>8, <1>a DEF Yield, Settle, Fenced
    <2>4. \A s \in Seqs : s > rec.seq => s # mine[d].seq
      BY <2>2, <1>a DEF Seqs, Records
    <2> QED
      BY <2>1, <2>3, <2>4 DEF SeqInv, UncountedNeverRan
  <1> QED
    BY <1>1, <1>2, <1>3, <1>4, <1>5, <1>6, <1>7, <1>8 DEF DriverStep

\* Every step keeps it; what recovery and death rewrite in an uncounted row is
\* not who ran it.
LEMMA SeqKept ==
  ASSUME TypeOK, CmdInv, FenceInv, SeqInv, [Next]_vars
  PROVE  SeqInv'
  <1>a. pc \in [Daemons -> PCs] /\ mine \in [Daemons -> Holding] /\ rec \in Records
        /\ att \in [Seqs -> Attempts] /\ fresh \subseteq Daemons
    BY DEF TypeOK
  <1>1. ASSUME NEW d \in Daemons, DriverStep(d)
        PROVE  SeqInv'
    BY <1>1, SeqDriver
  <1>2. ASSUME NEW d \in Daemons,
               \/ Report(d) \/ UserSends(d) \/ Escape(d) \/ UserSettles(d)
               \/ AskPause(d) \/ AskClear(d) \/ AskResume(d) \/ CommandReads(d)
               \/ DoCommand(d) \/ CheckStalled(d)
        PROVE  SeqInv'
    <2>1. pc[d] \notin {"insert", "begin"}
      BY <1>2 DEF CmdInv, Awaiting, Typed, Report, UserSends, Escape, UserSettles, AskPause,
         AskClear, AskResume, CommandReads, DoCommand, CheckStalled
    <2>2. pc' = pc /\ mine' = mine /\ att' = att /\ fresh' \subseteq fresh \cup {d}
      BY <1>2, <1>a DEF Report, UserSends, Escape, UserSettles, AskPause, AskClear, AskResume,
         CommandReads, DoCommand, CheckStalled, Read, Wrote, store, loop
    <2>3. rec'.seq = rec.seq
      <3>1. CASE rec' = rec
        BY <3>1
      <3>2. CASE Report(d)
        BY <3>2, <1>a DEF Report, Wrote, Records
      <3>3. CASE DoCommand(d)
        BY <3>3, <1>a DEF DoCommand, Commanded, Wrote, Records
      <3> QED
        BY <1>2, <3>1, <3>2, <3>3 DEF UserSends, Escape, UserSettles, AskPause, AskClear,
           AskResume, CommandReads, CheckStalled, store
    <2> QED
      BY <2>1, <2>2, <2>3, SeqFrame
  <1>3. ASSUME NEW d \in Daemons, Recover(d)
        PROVE  SeqInv'
    <2>1. pc' = pc /\ mine' = mine /\ fresh' \subseteq fresh /\ rec'.seq = rec.seq
      BY <1>3, <1>a DEF Recover, Wrote, Records, store, loop
    <2>2. \A s \in Seqs : /\ att'[s].by = att[s].by
                          /\ \/ att'[s].state = att[s].state
                             \/ att[s].state = "dispatched" /\ att'[s].state = "ambiguous"
      <3>1. CASE att' = att
        BY <3>1
      <3>2. CASE att' = [s \in Seqs |-> IF s \in InFlight
                           THEN [att[s] EXCEPT !.state = "ambiguous", !.epoch = rec.epoch + 1]
                           ELSE att[s]]
        BY ONLY <3>2, <1>a, RowFenced
      <3> QED
        BY <1>3, <3>1, <3>2 DEF Recover, store
    <2> QED
      BY <2>1, <2>2 DEF SeqInv, UncountedNeverRan
  <1>4. ASSUME NEW d \in Daemons, Crash(d)
        PROVE  SeqInv'
    <2>1. /\ rec' = rec /\ fresh' \subseteq fresh /\ pc'[d] = "down"
          /\ \A e \in Daemons \ {d} : pc'[e] = pc[e] /\ mine'[e] = mine[e]
      BY <1>4, <1>a DEF Crash, Leave
    <2>2. \A s \in Seqs : att[s].by = NoOne => att'[s] = att[s]
      BY <1>4, <1>a, DaemonAssumption DEF Crash
    <2>3. \A s \in Seqs : att'[s].state = att[s].state
      BY <1>4, <1>a DEF Crash, Attempts
    <2> QED
      BY <2>1, <2>2, <2>3 DEF SeqInv, UncountedNeverRan, Counted
  <1>5. ASSUME NEW d \in Daemons, Open(d)
        PROVE  SeqInv'
    BY <1>5, <1>a, SeqFrame DEF Open, GoTo, Counted, store
  <1>6. CASE LeaseExpires \/ UNCHANGED vars
    BY <1>6 DEF LeaseExpires, vars, store, loop, SeqInv, UncountedNeverRan
  <1> QED
    BY <1>1, <1>2, <1>3, <1>4, <1>5, <1>6 DEF Next

-----------------------------------------------------------------------------
(***************************************************************************)
(* The theorems about every number of processes.                           *)
(***************************************************************************)

\* A step that starts a turn does so on the record the checklist read.
LEMMA StopStep ==
  ASSUME TypeOK, CmdInv, SnapInv, [Next]_vars
  PROVE  \A e \in Daemons : pc[e] = "begin" /\ pc'[e] = "load" =>
           rec.status = "active" /\ ~StopIntent
  <1> USE NoOp DEF TypeOK, SnapInv, CmdInv, Read, Wrote, GoTo, EndWith, Leave, Return, store,
     loop, queue
  <1>1. ASSUME NEW d \in Daemons, DriverStep(d)
        PROVE  \A e \in Daemons : pc[e] = "begin" /\ pc'[e] = "load" =>
           rec.status = "active" /\ ~StopIntent
    <2>1. CASE Start(d)
      BY <2>1 DEF Start, Awaiting, Stepping
    <2>2. CASE Look(d)
      BY <2>2 DEF Look, Awaiting, Stepping
    <2>3. CASE Check(d)
      <3>1. CASE ApplyIntent(d)
        BY <2>3, <3>1 DEF Check, ApplyIntent, Stop, Stepping
      <3>2. CASE ApplyOutcome(d)
        BY <2>3, <3>2 DEF Check, ApplyOutcome, Stop, Stepping
      <3>3. CASE Decline(d)
        BY <2>3, <3>3 DEF Check, Decline, Stepping
      <3>4. CASE StopAtBound(d)
        BY <2>3, <3>4 DEF Check, StopAtBound, Stop, Stepping
      <3>5. CASE Dispatch(d)
        BY <2>3, <3>5 DEF Check, Dispatch, MayDispatch, Stepping
      <3> QED
        BY <2>3, <3>1, <3>2, <3>3, <3>4, <3>5 DEF Check
    <2>4. CASE Write(d)
      BY <2>4 DEF Write, Fail, Awaiting, Stepping
    <2>5. CASE Insert(d)
      BY <2>5 DEF Insert, SeqFree, Fail, Awaiting, Stepping
    <2>6. CASE Begin(d)
      BY <2>6 DEF Begin, TurnStarted, Fail, Awaiting, Stepping
    <2>7. CASE Send(d)
      BY <2>7 DEF Send, Awaiting, Stepping
    <2>8. CASE Yield(d)
      BY <2>8 DEF Yield, Fenced, FenceOpen, Fail, Awaiting, Stepping
    <2>9. CASE TurnEnds(d)
      BY <2>9 DEF TurnEnds, Awaiting, Stepping
    <2>10. CASE LoadAttachments(d)
      BY <2>10 DEF LoadAttachments, Awaiting, Stepping
    <2>11. CASE Usage(d)
      BY <2>11 DEF Usage, Awaiting, Stepping
    <2>12. CASE Settle(d)
      BY <2>12 DEF Settle, Fenced, FenceOpen, Awaiting, Stepping
    <2>13. CASE Apply(d)
      BY <2>13 DEF Apply, AfterTurn, Awaiting, Stepping
    <2>14. CASE Commit(d)
      BY <2>14 DEF Commit, AfterTurn, Awaiting, Stepping
    <2>15. CASE PauseMissing(d)
      BY <2>15 DEF PauseMissing, Stepping
    <2> QED
      BY <1>1, <2>1, <2>2, <2>3, <2>4, <2>5, <2>6, <2>7, <2>8, <2>9, <2>10, <2>11, <2>12, <2>13,
         <2>14, <2>15 DEF DriverStep
  <1>2. ASSUME NEW d \in Daemons, Report(d)
        PROVE  \A e \in Daemons : pc[e] = "begin" /\ pc'[e] = "load" =>
           rec.status = "active" /\ ~StopIntent
    BY <1>2 DEF Report, Awaiting
  <1>3. ASSUME NEW d \in Daemons, UserSends(d)
        PROVE  \A e \in Daemons : pc[e] = "begin" /\ pc'[e] = "load" =>
           rec.status = "active" /\ ~StopIntent
    BY <1>3 DEF UserSends, Typed, Awaiting
  <1>4. ASSUME NEW d \in Daemons, UserSettles(d)
        PROVE  \A e \in Daemons : pc[e] = "begin" /\ pc'[e] = "load" =>
           rec.status = "active" /\ ~StopIntent
    BY <1>4 DEF UserSettles, Awaiting
  <1>5. ASSUME NEW d \in Daemons, AskPause(d)
        PROVE  \A e \in Daemons : pc[e] = "begin" /\ pc'[e] = "load" =>
           rec.status = "active" /\ ~StopIntent
    BY <1>5 DEF AskPause, PauseOp, Typed, Command, Awaiting
  <1>6. ASSUME NEW d \in Daemons, AskClear(d)
        PROVE  \A e \in Daemons : pc[e] = "begin" /\ pc'[e] = "load" =>
           rec.status = "active" /\ ~StopIntent
    BY <1>6 DEF AskClear, ClearOp, Typed, Command, Awaiting
  <1>7. ASSUME NEW d \in Daemons, AskResume(d)
        PROVE  \A e \in Daemons : pc[e] = "begin" /\ pc'[e] = "load" =>
           rec.status = "active" /\ ~StopIntent
    BY <1>7 DEF AskResume, Typed, Command, Awaiting
  <1>8. ASSUME NEW d \in Daemons, CommandReads(d)
        PROVE  \A e \in Daemons : pc[e] = "begin" /\ pc'[e] = "load" =>
           rec.status = "active" /\ ~StopIntent
    BY <1>8 DEF CommandReads, PauseOp, Awaiting
  <1>9. ASSUME NEW d \in Daemons, DoCommand(d)
        PROVE  \A e \in Daemons : pc[e] = "begin" /\ pc'[e] = "load" =>
           rec.status = "active" /\ ~StopIntent
    BY <1>9 DEF DoCommand, Command, Commanded, Awaiting
  <1>10. ASSUME NEW d \in Daemons, CheckStalled(d)
        PROVE  \A e \in Daemons : pc[e] = "begin" /\ pc'[e] = "load" =>
           rec.status = "active" /\ ~StopIntent
    BY <1>10 DEF CheckStalled, Command, Awaiting
  <1>11. ASSUME NEW d \in Daemons, Recover(d)
        PROVE  \A e \in Daemons : pc[e] = "begin" /\ pc'[e] = "load" =>
           rec.status = "active" /\ ~StopIntent
    BY <1>11 DEF Recover, InFlight, Awaiting
  <1>12. ASSUME NEW d \in Daemons, Crash(d)
        PROVE  \A e \in Daemons : pc[e] = "begin" /\ pc'[e] = "load" =>
           rec.status = "active" /\ ~StopIntent
    BY <1>12 DEF Crash, Leave, Awaiting
  <1>13. ASSUME NEW d \in Daemons, Open(d)
        PROVE  \A e \in Daemons : pc[e] = "begin" /\ pc'[e] = "load" =>
           rec.status = "active" /\ ~StopIntent
    BY <1>13 DEF Open, Awaiting
  <1>14. CASE LeaseExpires
    BY <1>14 DEF LeaseExpires
  <1>15. CASE UNCHANGED vars
    BY <1>15 DEF vars
  <1>16. ASSUME NEW d \in Daemons, Escape(d)
        PROVE  \A e \in Daemons : pc[e] = "begin" /\ pc'[e] = "load" =>
           rec.status = "active" /\ ~StopIntent
    BY <1>16 DEF Escape, Typed, Awaiting
  <1> QED
    BY <1>1, <1>2, <1>3, <1>4, <1>5, <1>6, <1>7, <1>8, <1>9, <1>10, <1>11, <1>12, <1>13, <1>14,
       <1>15, <1>16 DEF Next

\* No step writes a row that is ambiguous.
LEMMA AmbigStep ==
  ASSUME TypeOK, FenceInv, [Next]_vars
  PROVE  \A s \in Seqs : att[s].state = "ambiguous" => att'[s].state = "ambiguous"
  <1> USE NoOp DEF TypeOK, FenceInv, Held, Records, Attempts, Read, Wrote, GoTo, EndWith, Leave,
     Return, store, loop, queue
  <1>1. ASSUME NEW d \in Daemons, DriverStep(d)
        PROVE  \A s \in Seqs : att[s].state = "ambiguous" => att'[s].state = "ambiguous"
    <2>1. CASE Start(d)
      BY <2>1 DEF Start, Awaiting, Stepping
    <2>2. CASE Look(d)
      BY <2>2 DEF Look, Awaiting, Stepping
    <2>3. CASE Check(d)
      <3>1. CASE ApplyIntent(d)
        BY <2>3, <3>1 DEF Check, ApplyIntent, Stop, Stepping
      <3>2. CASE ApplyOutcome(d)
        BY <2>3, <3>2 DEF Check, ApplyOutcome, Stop, Stepping
      <3>3. CASE Decline(d)
        BY <2>3, <3>3 DEF Check, Decline, Stepping
      <3>4. CASE StopAtBound(d)
        BY <2>3, <3>4 DEF Check, StopAtBound, Stop, Stepping
      <3>5. CASE Dispatch(d)
        BY <2>3, <3>5 DEF Check, Dispatch, MayDispatch, Stepping
      <3> QED
        BY <2>3, <3>1, <3>2, <3>3, <3>4, <3>5 DEF Check
    <2>4. CASE Write(d)
      BY <2>4 DEF Write, Fail, Awaiting, Stepping
    <2>5. CASE Insert(d)
      BY <2>5 DEF Insert, SeqFree, Fail, Awaiting, Stepping
    <2>6. CASE Begin(d)
      <3>1. CASE att' = [att EXCEPT ![mine[d].seq].by = d]
        BY ONLY <3>1, att \in [Seqs -> Attempts], RowStarted
      <3>2. CASE att' = att
        BY <3>2
      <3> QED
        BY <2>6, <3>1, <3>2 DEF Begin
    <2>7. CASE Send(d)
      BY <2>7 DEF Send, Awaiting, Stepping
    <2>8. CASE Yield(d)
      BY <2>8 DEF Yield, Fenced, FenceOpen, Fail, Awaiting, Stepping
    <2>9. CASE TurnEnds(d)
      BY <2>9 DEF TurnEnds, Awaiting, Stepping
    <2>10. CASE LoadAttachments(d)
      BY <2>10 DEF LoadAttachments, Awaiting, Stepping
    <2>11. CASE Usage(d)
      BY <2>11 DEF Usage, Awaiting, Stepping
    <2>12. CASE Settle(d)
      BY <2>12 DEF Settle, Fenced, FenceOpen, Awaiting, Stepping
    <2>13. CASE Apply(d)
      BY <2>13 DEF Apply, AfterTurn, Awaiting, Stepping
    <2>14. CASE Commit(d)
      BY <2>14 DEF Commit, AfterTurn, Awaiting, Stepping
    <2>15. CASE PauseMissing(d)
      BY <2>15 DEF PauseMissing, Stepping
    <2> QED
      BY <1>1, <2>1, <2>2, <2>3, <2>4, <2>5, <2>6, <2>7, <2>8, <2>9, <2>10, <2>11, <2>12, <2>13,
         <2>14, <2>15 DEF DriverStep
  <1>2. ASSUME NEW d \in Daemons, Report(d)
        PROVE  \A s \in Seqs : att[s].state = "ambiguous" => att'[s].state = "ambiguous"
    BY <1>2 DEF Report, Awaiting
  <1>3. ASSUME NEW d \in Daemons, UserSends(d)
        PROVE  \A s \in Seqs : att[s].state = "ambiguous" => att'[s].state = "ambiguous"
    BY <1>3 DEF UserSends, Typed, Awaiting
  <1>4. ASSUME NEW d \in Daemons, UserSettles(d)
        PROVE  \A s \in Seqs : att[s].state = "ambiguous" => att'[s].state = "ambiguous"
    BY <1>4 DEF UserSettles, Awaiting
  <1>5. ASSUME NEW d \in Daemons, AskPause(d)
        PROVE  \A s \in Seqs : att[s].state = "ambiguous" => att'[s].state = "ambiguous"
    BY <1>5 DEF AskPause, PauseOp, Typed, Command, Awaiting
  <1>6. ASSUME NEW d \in Daemons, AskClear(d)
        PROVE  \A s \in Seqs : att[s].state = "ambiguous" => att'[s].state = "ambiguous"
    BY <1>6 DEF AskClear, ClearOp, Typed, Command, Awaiting
  <1>7. ASSUME NEW d \in Daemons, AskResume(d)
        PROVE  \A s \in Seqs : att[s].state = "ambiguous" => att'[s].state = "ambiguous"
    BY <1>7 DEF AskResume, Typed, Command, Awaiting
  <1>8. ASSUME NEW d \in Daemons, CommandReads(d)
        PROVE  \A s \in Seqs : att[s].state = "ambiguous" => att'[s].state = "ambiguous"
    BY <1>8 DEF CommandReads, PauseOp, Awaiting
  <1>9. ASSUME NEW d \in Daemons, DoCommand(d)
        PROVE  \A s \in Seqs : att[s].state = "ambiguous" => att'[s].state = "ambiguous"
    BY <1>9 DEF DoCommand, Command, Commanded, Awaiting
  <1>10. ASSUME NEW d \in Daemons, CheckStalled(d)
        PROVE  \A s \in Seqs : att[s].state = "ambiguous" => att'[s].state = "ambiguous"
    BY <1>10 DEF CheckStalled, Command, Awaiting
  <1>11. ASSUME NEW d \in Daemons, Recover(d)
        PROVE  \A s \in Seqs : att[s].state = "ambiguous" => att'[s].state = "ambiguous"
    BY <1>11 DEF Recover, InFlight, Awaiting
  <1>12. ASSUME NEW d \in Daemons, Crash(d)
        PROVE  \A s \in Seqs : att[s].state = "ambiguous" => att'[s].state = "ambiguous"
    BY <1>12 DEF Crash, Leave, Awaiting
  <1>13. ASSUME NEW d \in Daemons, Open(d)
        PROVE  \A s \in Seqs : att[s].state = "ambiguous" => att'[s].state = "ambiguous"
    BY <1>13 DEF Open, Awaiting
  <1>14. CASE LeaseExpires
    BY <1>14 DEF LeaseExpires
  <1>15. CASE UNCHANGED vars
    BY <1>15 DEF vars
  <1>16. ASSUME NEW d \in Daemons, Escape(d)
        PROVE  \A s \in Seqs : att[s].state = "ambiguous" => att'[s].state = "ambiguous"
    BY <1>16 DEF Escape, Typed, Awaiting
  <1> QED
    BY <1>1, <1>2, <1>3, <1>4, <1>5, <1>6, <1>7, <1>8, <1>9, <1>10, <1>11, <1>12, <1>13, <1>14,
       <1>15, <1>16 DEF Next

\* The four invariants hold initially.
LEMMA InitInvs == Init => CmdInv /\ SnapInv /\ FenceInv /\ SeqInv
  <1>1. Init => CmdInv /\ SnapInv /\ FenceInv
    BY NoOp DEF Init, CmdInv, SnapInv, FenceInv, Held, Nothing
  <1>2. Init => SeqInv
    BY DEF Init, SeqInv, Counted, UncountedNeverRan, NoAttempt
  <1> QED
    BY <1>1, <1>2

\* Whatever the number of processes: a turn starts only on an active goal
\* without a recorded stop (maybe_continue's checklist and the turn_started
\* compare-and-set, service.py).
THEOREM StopsStand == Spec => StopHonoured
  <1>1. Init => TypeOK /\ CmdInv /\ SnapInv
    BY InitTyped, InitInvs
  <1>2. TypeOK /\ CmdInv /\ SnapInv /\ [Next]_vars => (TypeOK /\ CmdInv /\ SnapInv)'
    BY NextTyped, CmdKept, SnapKept
  <1>3. TypeOK /\ CmdInv /\ SnapInv /\ [Next]_vars =>
          [\A d \in Daemons : pc[d] = "begin" /\ pc'[d] = "load" =>
             rec.status = "active" /\ ~StopIntent]_vars
    BY StopStep
  <1> QED
    BY <1>1, <1>2, <1>3, PTL DEF Spec, StopHonoured

\* Whatever the number of processes and deaths: an attempt recover_lease has
\* fenced is never written again (_fenced_attempt_update, UNIQUE sequence).
THEOREM AmbiguousStays == Spec => AmbiguousIsFinal
  <1>1. Init => TypeOK /\ FenceInv
    BY InitTyped, InitInvs
  <1>2. TypeOK /\ FenceInv /\ [Next]_vars => (TypeOK /\ FenceInv)'
    BY NextTyped, FenceKept
  <1>3. TypeOK /\ FenceInv /\ [Next]_vars =>
          [\A s \in Seqs : att[s].state = "ambiguous" => att'[s].state = "ambiguous"]_vars
    BY AmbigStep
  <1> QED
    BY <1>1, <1>2, <1>3, PTL DEF Spec, AmbiguousIsFinal

\* Whatever the number of processes and deaths: an attempt the record does not
\* count, left behind between insert_attempt and turn_started, is the next in
\* sequence and was never run (maybe_continue, UNIQUE sequence).
THEOREM StrandedNeverRan == Spec => []UncountedNeverRan
  <1> DEFINE Inv == TypeOK /\ CmdInv /\ FenceInv /\ SeqInv
  <1>1. Init => Inv
    BY InitTyped, InitInvs
  <1>2. Inv /\ [Next]_vars => Inv'
    BY NextTyped, CmdKept, FenceKept, SeqKept
  <1>3. Inv => UncountedNeverRan
    BY DEF SeqInv
  <1> QED
    BY <1>1, <1>2, <1>3, PTL DEF Spec

=============================================================================
