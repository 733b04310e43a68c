-------------------------- MODULE GoalAloneProofs --------------------------
(***************************************************************************)
(* What holds of a /goal while one process at a time has its conversation  *)
(* open, for every number of turns, resumes, deaths and restarts: Solo(d)  *)
(* says of the one daemon d that may be up how its loop, the record and    *)
(* the rows fit together.  None of this follows from the store alone; it   *)
(* rests on the blocks between two awaits not being interleaved inside a   *)
(* process, and it ends when a second process opens the conversation.      *)
(***************************************************************************)
EXTENDS GoalTurnsProofs

\* The points of the loop at which its turn has begun and is not settled.
Turning == {"load", "image", "turn", "sent", "usage", "settle"}

\* The loop's own reads are current, its row is the record's latest and in
\* flight under its epoch, and neither the loop past its head nor a command
\* is ever at work on a goal that is over.
LoopInv(d) ==
  /\ pc[d] \in {"write", "writeEnd", "insert", "begin", "image", "usage", "commit"} => d \in fresh
  /\ pc[d] \in {"insert", "begin"} => mine[d].seq = rec.seq + 1
  /\ pc[d] \in Held => /\ att[mine[d].seq].state = "dispatched"
                       /\ att[mine[d].seq].epoch = mine[d].epoch
  /\ pc[d] \in Turning => mine[d].seq = rec.seq
  /\ pc[d] \notin {"down", "idle", "look"} => rec.status \notin Terminal
  /\ cmd[d].op # "none" => rec.status \notin Terminal
  /\ cmd[d].op \in {"clear", "recover"} => pc[d] = "idle"

\* A row in flight under a live process is the one d works on; a row without
\* its turn_started event is the next in sequence, and d is not in a turn.
RowInv(d, s) ==
  att[s].state = "dispatched" =>
    /\ att[s].by \in Daemons => att[s].by = d /\ pc[d] \in Turning /\ mine[d].seq = s
    /\ att[s].by = NoOne => s = rec.seq + 1 /\ pc[d] \notin Turning

OthersDown(d) == \A e \in Daemons \ {d} : pc[e] = "down"
Solo(d) == OthersDown(d) /\ LoopInv(d) /\ \A s \in Seqs : RowInv(d, s)
SoloInv == shared \/ \E d \in Daemons : Solo(d)

\* Once two processes have had the conversation open, that stays on record.
LEMMA SharedStays ==
  ASSUME [Next]_vars, shared
  PROVE  shared'
  BY DEF Next, DriverStep, vars, LeaseExpires, Start, Look, Check, Write, Insert, Begin, Send,
     Yield, TurnEnds, LoadAttachments, PauseMissing, Usage, Settle, Apply, Commit, Report, UserSends, Escape,
     UserSettles, AskPause, AskClear, AskResume, CommandReads, DoCommand, CheckStalled, Recover,
     Crash, Open

\* It is enough to look at the daemon that is up.
LEMMA SoloFrame ==
  ASSUME TypeOK, NEW d \in Daemons, OthersDown(d),
         \A e \in Daemons \ {d} : pc'[e] = pc[e],
         LoopInv(d)', \A s \in Seqs : RowInv(d, s)'
  PROVE  Solo(d)'
  BY DEF Solo, OthersDown

\* Between two turns the rows stay as they are.
LEMMA RowsKept ==
  ASSUME NEW d, \A s \in Seqs : RowInv(d, s), att' = att, rec'.seq = rec.seq,
         pc[d] \notin Turning, pc'[d] \notin Turning
  PROVE  \A s \in Seqs : RowInv(d, s)'
  BY DEF RowInv

\* The steps of the daemon that is up.
LEMMA SoloStep ==
  ASSUME TypeOK, CmdInv, FenceInv, NEW d \in Daemons, Solo(d),
         \/ DriverStep(d) \/ Report(d) \/ UserSends(d) \/ Escape(d) \/ UserSettles(d)
         \/ AskPause(d) \/ AskClear(d) \/ AskResume(d) \/ CommandReads(d) \/ DoCommand(d)
         \/ CheckStalled(d) \/ Recover(d) \/ Crash(d) \/ Open(d)
  PROVE  Solo(d)'
  <1> USE NoOp DEF TypeOK, Solo, Read, Wrote, GoTo, EndWith, Leave, Return, store, loop, queue
  <1>1. CASE Start(d)
    <2>1. LoopInv(d)'
      BY <1>1 DEF Start, LoopInv, Held, Turning, Awaiting, Stepping, Records, Holding, FenceInv
    <2>2. \A s \in Seqs : RowInv(d, s)'
      BY <1>1, DaemonAssumption DEF Start, LoopInv, RowInv, Held, Turning, Awaiting, Stepping,
         Records, Holding, FenceInv
    <2> QED
      BY <1>1, <2>1, <2>2, SoloFrame DEF Start
  <1>2. CASE Look(d)
    <2>1. LoopInv(d)'
      BY <1>2 DEF Look, Terminal, LoopInv, Held, Turning, Awaiting, Stepping, Records, Holding,
         FenceInv
    <2>2. \A s \in Seqs : RowInv(d, s)'
      BY <1>2, DaemonAssumption DEF Look, Terminal, LoopInv, RowInv, Held, Turning, Awaiting,
         Stepping, Records, Holding, FenceInv
    <2> QED
      BY <1>2, <2>1, <2>2, SoloFrame DEF Look, Terminal
  <1>3. CASE Check(d)
    <2>1. CASE ApplyIntent(d)
      <3>1. LoopInv(d)'
        BY <2>1, <1>3 DEF Check, ApplyIntent, Stop, LoopInv, Held, Turning, Awaiting, Stepping,
           Records, Holding, FenceInv
      <3>2. \A s \in Seqs : RowInv(d, s)'
        BY <2>1, <1>3, DaemonAssumption DEF Check, ApplyIntent, Stop, LoopInv, RowInv, Held,
           Turning, Awaiting, Stepping, Records, Holding, FenceInv
      <3> QED
        BY <2>1, <1>3, <3>1, <3>2, SoloFrame DEF Check, ApplyIntent, Stop
    <2>2. CASE ApplyOutcome(d)
      <3>1. LoopInv(d)'
        BY <2>2, <1>3 DEF Check, ApplyOutcome, Stop, LoopInv, Held, Turning, Awaiting, Stepping,
           Records, Holding, FenceInv
      <3>2. \A s \in Seqs : RowInv(d, s)'
        BY <2>2, <1>3, DaemonAssumption DEF Check, ApplyOutcome, Stop, LoopInv, RowInv, Held,
           Turning, Awaiting, Stepping, Records, Holding, FenceInv
      <3> QED
        BY <2>2, <1>3, <3>1, <3>2, SoloFrame DEF Check, ApplyOutcome, Stop
    <2>3. CASE Decline(d)
      <3>1. LoopInv(d)'
        BY <2>3, <1>3 DEF Check, Decline, LoopInv, Held, Turning, Awaiting, Stepping, Records,
           Holding, FenceInv
      <3>2. \A s \in Seqs : RowInv(d, s)'
        BY <2>3, <1>3, DaemonAssumption DEF Check, Decline, LoopInv, RowInv, Held, Turning,
           Awaiting, Stepping, Records, Holding, FenceInv
      <3> QED
        BY <2>3, <1>3, <3>1, <3>2, SoloFrame DEF Check, Decline
    <2>4. CASE StopAtBound(d)
      <3>1. LoopInv(d)'
        BY <2>4, <1>3 DEF Check, StopAtBound, Stop, LoopInv, Held, Turning, Awaiting, Stepping,
           Records, Holding, FenceInv
      <3>2. \A s \in Seqs : RowInv(d, s)'
        BY <2>4, <1>3, DaemonAssumption DEF Check, StopAtBound, Stop, LoopInv, RowInv, Held,
           Turning, Awaiting, Stepping, Records, Holding, FenceInv
      <3> QED
        BY <2>4, <1>3, <3>1, <3>2, SoloFrame DEF Check, StopAtBound, Stop
    <2>5. CASE Dispatch(d)
      <3>1. LoopInv(d)'
        BY <2>5, <1>3 DEF Check, Dispatch, MayDispatch, LoopInv, Held, Turning, Awaiting,
           Stepping, Records, Holding, FenceInv
      <3>2. \A s \in Seqs : RowInv(d, s)'
        BY <2>5, <1>3, DaemonAssumption DEF Check, Dispatch, MayDispatch, LoopInv, RowInv, Held,
           Turning, Awaiting, Stepping, Records, Holding, FenceInv
      <3> QED
        BY <2>5, <1>3, <3>1, <3>2, SoloFrame DEF Check, Dispatch, MayDispatch
    <2> QED
      BY <1>3, <2>1, <2>2, <2>3, <2>4, <2>5 DEF Check
  <1>4. CASE Write(d)
    <2>1. LoopInv(d)'
      BY <1>4 DEF Write, Fail, LoopInv, Held, Turning, Awaiting, Stepping, Records, Holding,
         FenceInv
    <2>2. \A s \in Seqs : RowInv(d, s)'
      <3>1. pc[d] \notin Turning /\ pc'[d] \notin Turning /\ att' = att
        BY <1>4 DEF Write, Fail, Turning
      <3>2. rec'.seq = rec.seq
        BY <1>4 DEF Write, Fail, Records
      <3> QED
        BY ONLY <3>1, <3>2, Solo(d), RowsKept DEF Solo
    <2> QED
      BY <1>4, <2>1, <2>2, SoloFrame DEF Write, Fail
  <1>5. CASE Insert(d)
    <2>1. LoopInv(d)'
      BY <1>5 DEF Insert, SeqFree, Fail, LoopInv, Held, Turning, Awaiting, Stepping, Records,
         Holding, FenceInv
    <2>2. ASSUME NEW s \in Seqs
          PROVE  RowInv(d, s)'
      <3>1. /\ rec' = rec /\ pc[d] = "insert" /\ pc'[d] \in {"begin", "writeEnd"}
            /\ mine[d].seq = rec.seq + 1
        BY <1>5 DEF Insert, Fail, LoopInv
      <3>2. \/ att'[s] = att[s]
            \/ s = mine[d].seq /\ att'[s].by = NoOne
        BY <1>5 DEF Insert
      <3>3. RowInv(d, s)
        OBVIOUS
      <3> QED
        BY <3>1, <3>2, <3>3, DaemonAssumption DEF RowInv, Turning
    <2> QED
      BY <1>5, <2>1, <2>2, SoloFrame DEF Insert, SeqFree, Fail
  <1>6. CASE Begin(d)
    <2>1. d \in fresh /\ pc[d] = "begin" /\ cmd[d].op = "none"
      BY <1>6 DEF Begin, Stepping, LoopInv
    <2>2. /\ rec' = [rec EXCEPT !.seq = mine[d].seq]
          /\ att' = [att EXCEPT ![mine[d].seq].by = d]
          /\ pc' = [pc EXCEPT ![d] = "load"]
          /\ UNCHANGED <<mine, cmd>>
      BY <1>6, <2>1 DEF Begin, TurnStarted
    <2>3. rec'.seq = mine[d].seq /\ rec'.status = rec.status
      BY <2>2 DEF Records
    <2>4. mine[d].seq \in Seqs /\ mine[d].seq = rec.seq + 1 /\ rec.seq \in Nat
      BY <2>1 DEF FenceInv, LoopInv, Held, Records
    <2>5. \A s \in Seqs : /\ att'[s].state = att[s].state /\ att'[s].epoch = att[s].epoch
                       /\ att'[s].by = IF s = mine[d].seq THEN d ELSE att[s].by
      BY ONLY <2>2, att \in [Seqs -> Attempts], RowStarted
    <2>6. LoopInv(d)'
      BY <2>1, <2>2, <2>3, <2>4, <2>5 DEF LoopInv, Held, Turning
    <2>7. ASSUME NEW s \in Seqs PROVE RowInv(d, s)'
      BY <2>1, <2>2, <2>3, <2>4, <2>5, DaemonAssumption DEF RowInv, Turning, Seqs
    <2> QED
      BY <2>2, <2>6, <2>7, SoloFrame
  <1>7. CASE Send(d)
    <2>1. LoopInv(d)'
      BY <1>7 DEF Send, LoopInv, Held, Turning, Awaiting, Stepping, Records, Holding, FenceInv
    <2>2. \A s \in Seqs : RowInv(d, s)'
      BY <1>7, DaemonAssumption DEF Send, LoopInv, RowInv, Held, Turning, Awaiting, Stepping,
         Records, Holding, FenceInv
    <2> QED
      BY <1>7, <2>1, <2>2, SoloFrame DEF Send
  <1>8. CASE Yield(d)
    <2>1. LoopInv(d)'
      BY <1>8 DEF Yield, Fenced, FenceOpen, Fail, LoopInv, Held, Turning, Awaiting, Stepping,
         Records, Holding, FenceInv
    <2>2. \A s \in Seqs : RowInv(d, s)'
      BY <1>8, DaemonAssumption DEF Yield, Fenced, FenceOpen, Fail, LoopInv, RowInv, Held,
         Turning, Awaiting, Stepping, Records, Holding, FenceInv
    <2> QED
      BY <1>8, <2>1, <2>2, SoloFrame DEF Yield, Fenced, FenceOpen, Fail
  <1>9. CASE TurnEnds(d)
    <2>1. LoopInv(d)'
      BY <1>9 DEF TurnEnds, LoopInv, Held, Turning, Awaiting, Stepping, Records, Holding, FenceInv
    <2>2. \A s \in Seqs : RowInv(d, s)'
      BY <1>9, DaemonAssumption DEF TurnEnds, LoopInv, RowInv, Held, Turning, Awaiting,
         Stepping, Records, Holding, FenceInv
    <2> QED
      BY <1>9, <2>1, <2>2, SoloFrame DEF TurnEnds
  <1>10. CASE LoadAttachments(d)
    <2>1. LoopInv(d)'
      BY <1>10 DEF LoadAttachments, Terminal, LoopInv, Held, Turning, Awaiting, Stepping,
         Records, Holding, FenceInv
    <2>2. \A s \in Seqs : RowInv(d, s)'
      BY <1>10, DaemonAssumption DEF LoadAttachments, Terminal, LoopInv, RowInv, Held, Turning,
         Awaiting, Stepping, Records, Holding, FenceInv
    <2> QED
      BY <1>10, <2>1, <2>2, SoloFrame DEF LoadAttachments, Terminal
  <1>11. CASE Usage(d)
    <2>1. LoopInv(d)'
      BY <1>11 DEF Usage, LoopInv, Held, Turning, Awaiting, Stepping, Records, Holding, FenceInv
    <2>2. \A s \in Seqs : RowInv(d, s)'
      BY <1>11, DaemonAssumption DEF Usage, LoopInv, RowInv, Held, Turning, Awaiting, Stepping,
         Records, Holding, FenceInv
    <2> QED
      BY <1>11, <2>1, <2>2, SoloFrame DEF Usage
  <1>12. CASE Settle(d)
    <2>1. LoopInv(d)'
      BY <1>12 DEF Settle, Fenced, FenceOpen, LoopInv, Held, Turning, Awaiting, Stepping,
         Records, Holding, FenceInv
    <2>2. \A s \in Seqs : RowInv(d, s)'
      BY <1>12, DaemonAssumption DEF Settle, Fenced, FenceOpen, LoopInv, RowInv, Held, Turning,
         Awaiting, Stepping, Records, Holding, FenceInv
    <2> QED
      BY <1>12, <2>1, <2>2, SoloFrame DEF Settle, Fenced, FenceOpen
  <1>13. CASE Apply(d)
    <2>1. LoopInv(d)'
      BY <1>13 DEF Apply, AfterTurn, LoopInv, Held, Turning, Awaiting, Stepping, Records,
         Holding, FenceInv
    <2>2. \A s \in Seqs : RowInv(d, s)'
      BY <1>13, DaemonAssumption DEF Apply, AfterTurn, LoopInv, RowInv, Held, Turning, Awaiting,
         Stepping, Records, Holding, FenceInv
    <2> QED
      BY <1>13, <2>1, <2>2, SoloFrame DEF Apply, AfterTurn
  <1>14. CASE Commit(d)
    <2>1. d \in fresh /\ pc[d] = "commit" /\ cmd[d].op = "none"
      BY <1>14 DEF Commit, Stepping, LoopInv
    <2>2. /\ rec' = [rec EXCEPT !.status = "complete", !.pending = FALSE]
          /\ pc' = [pc EXCEPT ![d] = "idle"]
          /\ UNCHANGED <<att, cmd>>
      BY <1>14, <2>1 DEF Commit
    <2>3. rec'.seq = rec.seq
      BY <2>2 DEF Records
    <2>4. LoopInv(d)'
      BY <2>1, <2>2 DEF LoopInv, Held, Turning
    <2>5. ASSUME NEW s \in Seqs PROVE RowInv(d, s)'
      BY <2>1, <2>2, <2>3 DEF RowInv, Turning
    <2> QED
      BY <2>2, <2>4, <2>5, SoloFrame
  <1>15. CASE Report(d)
    <2>1. LoopInv(d)'
      BY <1>15 DEF Report, Terminal, LoopInv, Held, Turning, Awaiting, Stepping, Records,
         Holding, FenceInv
    <2>2. \A s \in Seqs : RowInv(d, s)'
      BY <1>15, DaemonAssumption DEF Report, Terminal, LoopInv, RowInv, Held, Turning, Awaiting,
         Stepping, Records, Holding, FenceInv
    <2> QED
      BY <1>15, <2>1, <2>2, SoloFrame DEF Report, Terminal
  <1>16. CASE UserSends(d)
    <2>1. LoopInv(d)'
      BY <1>16 DEF UserSends, Typed, LoopInv, Held, Turning, Awaiting, Stepping, Records,
         Holding, FenceInv
    <2>2. \A s \in Seqs : RowInv(d, s)'
      BY <1>16, DaemonAssumption DEF UserSends, Typed, LoopInv, RowInv, Held, Turning, Awaiting,
         Stepping, Records, Holding, FenceInv
    <2> QED
      BY <1>16, <2>1, <2>2, SoloFrame DEF UserSends, Typed
  <1>17. CASE Escape(d)
    <2>1. LoopInv(d)'
      BY <1>17 DEF Escape, Typed, LoopInv, Held, Turning, Awaiting, Stepping, Records, Holding,
         FenceInv
    <2>2. \A s \in Seqs : RowInv(d, s)'
      BY <1>17, DaemonAssumption DEF Escape, Typed, LoopInv, RowInv, Held, Turning, Awaiting,
         Stepping, Records, Holding, FenceInv
    <2> QED
      BY <1>17, <2>1, <2>2, SoloFrame DEF Escape, Typed
  <1>18. CASE UserSettles(d)
    <2>1. LoopInv(d)'
      BY <1>18 DEF UserSettles, LoopInv, Held, Turning, Awaiting, Stepping, Records, Holding,
         FenceInv
    <2>2. \A s \in Seqs : RowInv(d, s)'
      BY <1>18, DaemonAssumption DEF UserSettles, LoopInv, RowInv, Held, Turning, Awaiting,
         Stepping, Records, Holding, FenceInv
    <2> QED
      BY <1>18, <2>1, <2>2, SoloFrame DEF UserSettles
  <1>19. CASE AskPause(d)
    <2>1. LoopInv(d)'
      BY <1>19 DEF AskPause, PauseOp, Typed, Command, LoopInv, Held, Turning, Awaiting, Stepping,
         Records, Holding, FenceInv
    <2>2. \A s \in Seqs : RowInv(d, s)'
      BY <1>19, DaemonAssumption DEF AskPause, PauseOp, Typed, Command, LoopInv, RowInv, Held, Turning,
         Awaiting, Stepping, Records, Holding, FenceInv
    <2> QED
      BY <1>19, <2>1, <2>2, SoloFrame DEF AskPause, PauseOp, Typed, Command
  <1>20. CASE AskClear(d)
    <2>1. LoopInv(d)'
      BY <1>20 DEF AskClear, ClearOp, Typed, Command, InFlight, Terminal, LoopInv, Held,
         Turning, Awaiting, Stepping, Records, Holding, FenceInv
    <2>2. \A s \in Seqs : RowInv(d, s)'
      BY <1>20, DaemonAssumption DEF AskClear, ClearOp, Typed, Command, InFlight, Terminal,
         LoopInv, RowInv, Held, Turning, Awaiting, Stepping, Records, Holding, FenceInv
    <2> QED
      BY <1>20, <2>1, <2>2, SoloFrame DEF AskClear, ClearOp, Typed, Command, InFlight, Terminal
  <1>21. CASE AskResume(d)
    <2>1. LoopInv(d)'
      BY <1>21 DEF AskResume, Typed, Command, Terminal, Resumable, LoopInv, Held, Turning,
         Awaiting, Stepping, Records, Holding, FenceInv
    <2>2. \A s \in Seqs : RowInv(d, s)'
      BY <1>21, DaemonAssumption DEF AskResume, Typed, Command, Terminal, Resumable, LoopInv,
         RowInv, Held, Turning, Awaiting, Stepping, Records, Holding, FenceInv
    <2> QED
      BY <1>21, <2>1, <2>2, SoloFrame DEF AskResume, Typed, Command, Terminal, Resumable
  <1>22. CASE CommandReads(d)
    <2>1. LoopInv(d)'
      BY <1>22 DEF CommandReads, PauseOp, LoopInv, Held, Turning, Awaiting, Stepping, Records, Holding,
         FenceInv
    <2>2. \A s \in Seqs : RowInv(d, s)'
      BY <1>22, DaemonAssumption DEF CommandReads, PauseOp, LoopInv, RowInv, Held, Turning, Awaiting,
         Stepping, Records, Holding, FenceInv
    <2> QED
      BY <1>22, <2>1, <2>2, SoloFrame DEF CommandReads
  <1>23. CASE DoCommand(d)
    <2>1. /\ pc' = pc /\ mine' = mine /\ att' = att
          /\ cmd'[d].op \in {"none", "reread"}
          /\ cmd'[d].op = "reread" => cmd[d].op = "discard" /\ rec' = Commanded(cmd[d])
      BY <1>23 DEF DoCommand, Command
    <2>2. pc[d] \in {"idle", "turn", "sent"}
      BY <1>23 DEF DoCommand, CmdInv
    <2>3. /\ rec'.seq = rec.seq
          /\ pc[d] # "idle" \/ cmd'[d].op = "reread" => rec'.status \notin Terminal
      <3>1. CASE rec' = rec
        BY <3>1, <2>1, <2>2, <1>23 DEF LoopInv, DoCommand
      <3>2. CASE rec' = Commanded(cmd[d])
        <4>1. CASE cmd[d].op = "pause"
          BY <3>2, <4>1 DEF Commanded, Records, Terminal
        <4>2. CASE cmd[d].op \in {"discard", "pauseReq", "clearReq"}
          BY <3>2, <4>2, <2>2 DEF Commanded, Records, LoopInv
        <4>3. CASE cmd[d].op = "clear"
          BY <3>2, <4>3, <2>1 DEF Commanded, Records, LoopInv
        <4>4. CASE cmd[d].op = "resume"
          BY <3>2, <4>4 DEF Commanded, Records, Terminal
        <4> QED
          BY <1>23, <4>1, <4>2, <4>3, <4>4 DEF DoCommand
      <3> QED
        BY <1>23, <3>1, <3>2 DEF DoCommand
    <2>4. LoopInv(d)'
      BY <2>1, <2>2, <2>3 DEF LoopInv, Held, Turning
    <2>5. ASSUME NEW s \in Seqs PROVE RowInv(d, s)'
      BY <2>1, <2>3 DEF RowInv
    <2> QED
      BY <2>1, <2>4, <2>5, SoloFrame
  <1>24. CASE CheckStalled(d)
    <2>1. LoopInv(d)'
      BY <1>24 DEF CheckStalled, Command, Terminal, LoopInv, Held, Turning, Awaiting, Stepping,
         Records, Holding, FenceInv
    <2>2. \A s \in Seqs : RowInv(d, s)'
      BY <1>24, DaemonAssumption DEF CheckStalled, Command, Terminal, LoopInv, RowInv, Held,
         Turning, Awaiting, Stepping, Records, Holding, FenceInv
    <2> QED
      BY <1>24, <2>1, <2>2, SoloFrame DEF CheckStalled, Command, Terminal
  <1>25. CASE Recover(d)
    <2>1. pc[d] = "idle" /\ pc' = pc /\ mine' = mine /\ cmd'[d].op = "none"
      BY <1>25 DEF Recover, LoopInv
    <2>2. LoopInv(d)'
      BY <2>1 DEF LoopInv, Held, Turning
    <2>3. rec'.seq = rec.seq
      BY <1>25 DEF Recover, Records
    <2>4. ASSUME NEW s \in Seqs PROVE RowInv(d, s)'
      <3>1. CASE att' = att
        BY <3>1, <2>1, <2>3 DEF RowInv
      <3>2. CASE lease \in {NoOne, d}
        <4>1. att' = [t \in Seqs |->
                        IF t \in InFlight
                        THEN [att[t] EXCEPT !.state = "ambiguous", !.epoch = rec.epoch + 1]
                        ELSE att[t]]
          BY <1>25, <3>2 DEF Recover
        <4>2. /\ att[s].state # "dispatched" => att'[s] = att[s]
              /\ att[s].state = "dispatched" => att'[s].state = "ambiguous"
          BY ONLY <4>1, att \in [Seqs -> Attempts], RowFenced
        <4> QED
          BY <4>2, <2>1, <2>3 DEF RowInv
      <3> QED
        BY <1>25, <3>1, <3>2 DEF Recover
    <2> QED
      BY <2>1, <2>2, <2>4, SoloFrame
  <1>26. CASE Crash(d)
    <2>1. LoopInv(d)'
      BY <1>26 DEF Crash, Leave, LoopInv, Held, Turning, Awaiting, Stepping, Records, Holding,
         FenceInv
    <2>2. \A s \in Seqs : RowInv(d, s)'
      BY <1>26, DaemonAssumption DEF Crash, Leave, LoopInv, RowInv, Held, Turning, Awaiting,
         Stepping, Records, Holding, FenceInv
    <2> QED
      BY <1>26, <2>1, <2>2, SoloFrame DEF Crash, Leave
  <1>27. CASE Open(d)
    <2>1. LoopInv(d)'
      BY <1>27 DEF Open, LoopInv, Held, Turning, Awaiting, Stepping, Records, Holding, FenceInv
    <2>2. \A s \in Seqs : RowInv(d, s)'
      BY <1>27, DaemonAssumption DEF Open, LoopInv, RowInv, Held, Turning, Awaiting, Stepping,
         Records, Holding, FenceInv
    <2> QED
      BY <1>27, <2>1, <2>2, SoloFrame DEF Open
  <1>28. CASE PauseMissing(d)
    <2>1. LoopInv(d)'
      BY <1>28 DEF PauseMissing, Terminal, LoopInv, Held, Turning, Stepping, Records, Holding,
         FenceInv
    <2>2. \A s \in Seqs : RowInv(d, s)'
      BY <1>28, DaemonAssumption DEF PauseMissing, LoopInv, RowInv, Held, Turning, Stepping,
         Records, Holding, FenceInv
    <2> QED
      BY <1>28, <2>1, <2>2, SoloFrame DEF PauseMissing
  <1> QED
    BY <1>1, <1>2, <1>3, <1>4, <1>5, <1>6, <1>7, <1>8, <1>9, <1>10, <1>11, <1>12, <1>13, <1>14,
       <1>15, <1>16, <1>17, <1>18, <1>19, <1>20, <1>21, <1>22, <1>23, <1>24, <1>25, <1>26, <1>27,
       <1>28 DEF DriverStep

\* A daemon that is down takes no step but opening the conversation.
LEMMA DownIsIdle ==
  ASSUME TypeOK, CmdInv, NEW e \in Daemons, pc[e] = "down",
         \/ DriverStep(e) \/ Report(e) \/ UserSends(e) \/ Escape(e) \/ UserSettles(e)
         \/ AskPause(e) \/ AskClear(e) \/ AskResume(e) \/ CommandReads(e) \/ DoCommand(e)
         \/ CheckStalled(e) \/ Recover(e) \/ Crash(e)
  PROVE  FALSE
  <1>1. cmd[e].op = "none"
    BY DEF CmdInv
  <1>2. ~DriverStep(e)
    BY DEF DriverStep, Awaiting, Start, Look, Check, Write, Insert, Begin, Send, Yield,
       TurnEnds, LoadAttachments, PauseMissing, Usage, Settle, Apply, Commit
  <1>3. ~(Report(e) \/ UserSends(e) \/ Escape(e) \/ UserSettles(e) \/ AskPause(e) \/ AskClear(e) \/ AskResume(e))
    BY DEF Awaiting, Typed, Report, UserSends, Escape, UserSettles, AskPause, AskClear, AskResume
  <1>4. ~(CommandReads(e) \/ DoCommand(e) \/ CheckStalled(e) \/ Recover(e) \/ Crash(e))
    BY <1>1 DEF CommandReads, DoCommand, CheckStalled, Recover, Crash
  <1> QED
    BY <1>2, <1>3, <1>4

\* Another process opens the conversation: it is the only one, or the goal is
\* shared from now on.
LEMMA SoloOpened ==
  ASSUME TypeOK, CmdInv, NEW d \in Daemons, Solo(d), NEW e \in Daemons \ {d}, Open(e)
  PROVE  SoloInv'
  <1>1. CASE pc[d] # "down"
    BY <1>1 DEF Open, SoloInv
  <1>2. CASE pc[d] = "down"
    <2>1. /\ pc' = [pc EXCEPT ![e] = "idle"]
          /\ UNCHANGED <<rec, att, cmd, mine, fresh>>
      BY DEF Open, GoTo, store
    <2>2. cmd[e].op = "none" /\ pc[e] = "down"
      BY DEF CmdInv, Solo, OthersDown
    <2>3. OthersDown(e)'
      BY <1>2, <2>1 DEF Solo, OthersDown, TypeOK
    <2>4. LoopInv(e)'
      BY <2>1, <2>2 DEF LoopInv, Held, Turning, TypeOK
    <2>5. ASSUME NEW s \in Seqs PROVE RowInv(e, s)'
      <3>1. RowInv(d, s)
        BY DEF Solo
      <3> QED
        BY <1>2, <2>1, <3>1 DEF RowInv, Turning, TypeOK
    <2> QED
      BY <2>3, <2>4, <2>5 DEF Solo, SoloInv
  <1> QED
    BY <1>1, <1>2

\* Every step keeps the invariant.
LEMMA SoloKept ==
  ASSUME TypeOK, CmdInv, FenceInv, SoloInv, [Next]_vars
  PROVE  SoloInv'
  <1>1. CASE shared
    BY <1>1, SharedStays DEF SoloInv
  <1>2. ASSUME NEW d \in Daemons, Solo(d)
        PROVE  SoloInv'
    <2>1. CASE LeaseExpires \/ UNCHANGED vars
      <3>1. UNCHANGED <<rec, att, fresh, pc, mine, cmd>>
        BY <2>1 DEF LeaseExpires, vars, store, loop
      <3> QED
        BY <1>2, <3>1 DEF SoloInv, Solo, OthersDown, LoopInv, RowInv
    <2>2. ASSUME NEW e \in Daemons,
                 \/ DriverStep(e) \/ Report(e) \/ UserSends(e) \/ Escape(e) \/ UserSettles(e)
                 \/ AskPause(e) \/ AskClear(e) \/ AskResume(e) \/ CommandReads(e) \/ DoCommand(e)
                 \/ CheckStalled(e) \/ Recover(e) \/ Crash(e) \/ Open(e)
          PROVE  SoloInv'
      <3>1. CASE e = d
        BY <1>2, <2>2, <3>1, SoloStep DEF SoloInv
      <3>2. CASE e # d
        <4>1. pc[e] = "down"
          BY <1>2, <3>2 DEF Solo, OthersDown
        <4>2. Open(e)
          BY <2>2, <4>1, DownIsIdle
        <4> QED
          BY <1>2, <3>2, <4>2, SoloOpened
      <3> QED
        BY <3>1, <3>2
    <2> QED
      BY <2>1, <2>2 DEF Next
  <1> QED
    BY <1>1, <1>2 DEF SoloInv

\* The daemon that creates the goal is alone.
LEMMA SoloAtFirst == Init => SoloInv
  <1> SUFFICES ASSUME Init PROVE SoloInv
    OBVIOUS
  <1>1. PICK c \in Daemons : pc = [d \in Daemons |-> IF d = c THEN "idle" ELSE "down"]
    BY DEF Init
  <1>2. OthersDown(c)
    BY <1>1 DEF OthersDown
  <1>3. LoopInv(c)
    BY <1>1, NoOp DEF Init, LoopInv, Held, Turning
  <1>4. \A s \in Seqs : RowInv(c, s)
    BY DEF Init, RowInv, NoAttempt
  <1> QED
    BY <1>2, <1>3, <1>4 DEF Solo, SoloInv

\* The inductive invariant.
AloneInv == TypeOK /\ CmdInv /\ FenceInv /\ SoloInv

\* It holds in every reachable state.
LEMMA AloneHolds == Spec => []AloneInv
  <1>1. Init => AloneInv
    BY InitTyped, InitInvs, SoloAtFirst DEF AloneInv
  <1>2. AloneInv /\ [Next]_vars => AloneInv'
    BY NextTyped, CmdKept, FenceKept, SoloKept DEF AloneInv
  <1> QED
    BY <1>1, <1>2, PTL DEF Spec

\* One process at a time, any number of turns and deaths: at most one turn of
\* a live process is unsettled (maybe_continue, finish_turn, recover_lease).
THEOREM OneTurnAlone == Spec => []OneLive
  <1>1. AloneInv => OneLive
    <2> SUFFICES ASSUME AloneInv, ~shared, NEW s \in InFlight, NEW t \in InFlight,
                        att[s].by # Gone, att[t].by # Gone
                 PROVE  s = t
      BY DEF OneLive
    <2>1. PICK d \in Daemons : Solo(d)
      BY DEF AloneInv, SoloInv
    <2>2. s \in Seqs /\ t \in Seqs /\ att[s].state = "dispatched" /\ att[t].state = "dispatched"
      BY DEF InFlight
    <2>3. att[s].by \in Daemons \cup {NoOne} /\ att[t].by \in Daemons \cup {NoOne}
      BY <2>2 DEF AloneInv, TypeOK, Attempts
    <2> QED
      BY <2>1, <2>2, <2>3 DEF Solo, RowInv
  <1> QED
    BY <1>1, AloneHolds, PTL

\* A step that changes the status of a goal that is over belongs to a process
\* that shares it.
LEMMA TerminalStep ==
  ASSUME AloneInv, [Next]_vars, ~shared, rec.status \in Terminal
  PROVE  rec'.status = rec.status
  <1>1. PICK d \in Daemons : Solo(d)
    BY DEF AloneInv, SoloInv
  <1>2. cmd[d].op = "none" /\ pc[d] \in {"down", "idle", "look"}
    BY <1>1 DEF Solo, LoopInv
  <1>3. CASE LeaseExpires \/ UNCHANGED vars
    BY <1>3 DEF LeaseExpires, vars, store
  <1>4. ASSUME NEW e \in Daemons, Open(e)
        PROVE  rec' = rec
    BY <1>4 DEF Open, store
  <1>5. CASE DriverStep(d)
    BY <1>2, <1>5 DEF DriverStep, Awaiting, store, Start, Look, Check, Write, Insert, Begin,
       Send, Yield, TurnEnds, LoadAttachments, PauseMissing, Usage, Settle, Apply, Commit
  <1>6. CASE \/ Report(d) \/ UserSends(d) \/ Escape(d) \/ UserSettles(d)
             \/ AskPause(d) \/ AskClear(d) \/ AskResume(d) \/ CommandReads(d) \/ DoCommand(d)
             \/ CheckStalled(d) \/ Recover(d) \/ Crash(d)
    BY <1>2, <1>6 DEF store, Report, UserSends, Escape, UserSettles, AskPause, AskClear,
       AskResume, CommandReads, DoCommand, CheckStalled, Recover, Crash
  <1>7. ASSUME NEW e \in Daemons, e # d,
               \/ DriverStep(e) \/ Report(e) \/ UserSends(e) \/ Escape(e) \/ UserSettles(e)
               \/ AskPause(e) \/ AskClear(e) \/ AskResume(e) \/ CommandReads(e) \/ DoCommand(e)
               \/ CheckStalled(e) \/ Recover(e) \/ Crash(e)
        PROVE  FALSE
    <2>1. pc[e] = "down"
      BY <1>1, <1>7 DEF Solo, OthersDown
    <2> QED
      BY <1>7, <2>1, DownIsIdle DEF AloneInv
  <1> QED
    BY <1>3, <1>4, <1>5, <1>6, <1>7 DEF Next

\* ... and a goal that completed or was cleared stays so (the unguarded
\* writes of driver.py, service.py and goal_store.py).
THEOREM TerminalStays == Spec => TerminalIsFinal
  <1>1. AloneInv /\ [Next]_vars =>
          [~shared /\ rec.status \in Terminal => rec'.status = rec.status]_vars
    BY TerminalStep
  <1> QED
    BY <1>1, AloneHolds, PTL DEF Spec, TerminalIsFinal

=============================================================================
