# TLA+ models of Kollab

Kollab is a terminal AI agent. It is concurrent in two places. Several Kollab
processes on one machine form a *hub*: they find each other through files in a
shared directory, elect a coordinator, pass messages over Unix sockets, and share
a work queue and a task ledger, with no server and files as shared memory. And
each process is an asyncio program that gives up control at every `await`: the
people typing into it, clients of its protocol, its hub peers, its own `/goal` loop
and several watchdogs all start *turns* of the same agent and stop each other's.

This project models the four parts of the hub that decide who leads and who owns
which work, and the three parts of a process that decide whose turn runs and how it
ends. It checks them with TLC on small instances and proves their central safety
properties with TLAPS for instances of any size.

Paths are relative to `src/`. `plugin.py`, `coordinator.py`, `task_ledger.py`
and `presence.py` are those of `plugins/hub/`. `PROJECT.json` maps every
definition to the lines it stands for.

| Part | Modules | Runs | Theorems |
|---|---|---|---|
| Coordinator election | `HubElection` | `election`, `election_supervisor` | 7 |
| Task cards, expected replies | `TaskLedger`, `CardLifecycle` | `ledger`, `ledger_replies`, `ledger_claim` | 7 |
| Work queue and sweep | `HubWork` | `work` | 3 |
| Dispatches and reports | `HubDispatch` | `dispatch` | 5 |
| Turn queue, client turns | `TurnQueue`, `ClientTurns` | `client_turns`, `client_turns_scope` | 5 |
| Goals | `GoalTurns` | `goals`, `goals_resumed`, `goals_shared` | 6 |

`MCX.tla` instantiates `X` for TLC (symmetry sets, model values), `XProofs.tla`
holds its theorems (`GoalAloneProofs` those of `GoalTurns` that need a single
process).

## 1. Inventory

### 1.1 The hub

**Coordinator election** (`coordinator.py` `CoordinatorElection`; `plugin.py`
`_start_hub`, `set_solo`, `shutdown`).
*State:* the flock on `hub.lock`; `state.json` (pid, epoch, name of the
coordinator); per process `is_coordinator`, `solo`, the local election result of
`_start_hub` and the coordinator-only tasks.
*Operations:* start, stand for election, publish, assign the identity, leave,
rejoin, shut down, crash.
*Hard:* the election result is kept across many awaits; leave and join await in
their middle and overtake each other; `state.json` is written after the lock is
taken and patched much later with the name; a failed write is only logged, and a
file that cannot be read counts as epoch 0.
*Correct when* at most one process leads, the file describes it, the epoch goes
back only where the file was unreadable, and nobody but the leader keeps the lock.

**Task ledger: cards** (`task_ledger.py`). *State:* one JSON file per card.
*Operations:* create, enqueue, claim, requeue, checkpoint, snooze, complete,
request QA, approve, reject, cancel, make obsolete, and the reminder cron.
*Hard:* `claim`, `requeue_stalled` and `terminalize(preserve_active=True)` hold
the card's lock from load to save; every other operation locks only the write,
so processes save over each other; and the cron loads all due cards, then delivers
and saves them one by one, so one process saves over itself. *Correct when* a card has one owner, a finished
card stays finished, and no file mixes two states.

**Task ledger: expected replies.** *State:* `_pending_replies.json`, locked for
every access. *Operations:* expect, resolve, expire, resolve all of a task.
*Hard:* a request may be replayed after it was answered or pruned, and a file that
cannot be read counts as empty. *Correct when* a request is recorded once and a
resolved one never comes back.

**Task ledger: dispatches** (`task_ledger.py` and the `hub_msg` and verify tools
and `_on_hub_message` of `plugin.py`). *State:* `_dispatches.json`, and the
in-memory `_seen_messages`. *Operations:* record, route, write the delivery result,
replay, file a report, verify. *Hard:* the worker may answer before the sender has
written its delivery result; reports come twice; the coordinator dies between any
two steps. *Correct when* nothing is sent that is not recorded, no report is
undone and none counts for two assignments.

**Work queue and sweep** (`coordinator.py` `WorkQueue`; `plugin.py` `/hub queue`,
`/hub claim`, `_coordinator_cleanup`, `_sweep_stale_work_queue`). *State:*
`work-queue.json`, each slot paired with a task card. *Operations:* add, link,
claim by slot or by card, assign, complete, requeue orphans, sweep (snapshot,
check, retire, cancel cards, restore). *Hard:* slot and card are two files written
one after the other, and the sweep decides on a snapshot taken without a lock.
*Correct when* claimed work is never retired, and a slot and card that disagree
are brought together again.

**Idle supervisor** (`supervisor.py`, `plugin.py:7350-7580`). *State:* nudge and
handoff records with counts and deadlines. *Operations:* evaluate, begin and
acknowledge a handoff. *Hard:* retry limits against late acknowledgements.
*Correct when* nobody is nudged beyond the limit and no acknowledged handoff is
retried.

**Presence** (`presence.py`). *State:* heartbeat files and sockets. *Operations:*
publish, discover, remove the dead. *Hard:* a busy agent looks like a dead one.
*Correct when* a live agent's files are never removed.

**Messenger and mailboxes** (`messenger.py`, `_route_message`). *State:* sockets,
mailbox files. *Operations:* send, fall back to the mailbox, drain, prune. *Hard:*
a message by both ways, a drain that dies halfway. *Correct when* an accepted
message is seen at least once and acted on once.

**Network kill switch, cron jobs, relay, enrollment, vault, change feed.** Smaller
parts; see `components` in `PROJECT.json` for the reason each is left or planned.

### 1.2 Turns of one agent

**Turn queue** (`kollabor_agent/queue_processor.py`; `process_user_input` and
`cancel_current_request` of `llm_coordinator.py`; `_hub_continue` of
`message_handler.py`; `turn_watchdog.py`). *State:* `processing_queue`,
`is_processing`, `turn_completed`, the cancellation latch, `active_request_ids`.
*Operations:* admit a message, drain, run a round, continue, wake for the hub,
stop, heal an orphaned queue. *Hard:* several chains of rounds may exist at once
and share all of this; whoever queues a message behind a running chain starts none.
*Correct when* queued messages are served and every followed request hears its end.

**Client turn broker** (`kollabor/llm/client_turns.py`, the fence of
`display_tap.py`). *State:* FIFO of turns, the one waiting, the one active, the
admitted ones. *Operations:* submit, run, cancel, close. *Hard:* the turn may be
ended by cancel, by its chain, by a refusal and by close; the input hooks await.
*Correct when* a turn ends once, never runs after its end, and its cancellation
stops nothing else.

**Goals** (`kollabor/goals/driver.py`, `goals/service.py`, `state/goal_store.py`,
the `/goal` command). *State:* the goal's row and its turn attempts in SQLite, a
lease, and per process the running loop, the yielded goals and the turn in flight.
*Operations:* create, the loop with its boundary checklist, dispatch, settle,
report, pause, clear, resume, wake, watchdog, recover. *Hard:* the dispatch is two
transactions, several writers set the status without looking at it, a process dies
in a turn, and user input, Stop and commands meet the loop at every await.
*Correct when* one turn runs at a time, no turn starts past a stop, a finished goal
stays finished, cut-off work is never taken up by itself, and an active goal is
driven.

| Other component | State | Hard behaviour | Correct when |
|---|---|---|---|
| RPC | pending requests by id | a timeout racing a late reply | each request completes once |
| Event bus and hooks | hooks by priority | timeouts and retries of a hook | order kept; one failure does not stop the others |
| Permissions | session grants, open prompts | prompts of concurrent tools | no call runs without a grant |
| ACP bridge, state service | sessions, wiring | as the parts they call | |
| Engine and daemon pool | a daemon per session | adoption and handover | one owner per session |
| Tool execution, MCP, providers, configuration, terminal UI, voice, web UI | mostly I/O and formats | | |

### 1.3 How the modelled parts interact

    _start_hub -- election --> the coordinator's loops
                                 |-- _coordinator_cleanup --> WorkQueue <-- /hub queue, /hub claim
                                 |                               |  slot and card are linked
                                 |-- task cron, supervisor ---> TaskLedger cards <-- tagged messages
    hub_msg tool -- record, route, update --> dispatches <-- reports (_on_hub_message)

    typed and chat messages --\
    client turns (broker) ------> turn queue and its chains --> terminal events --> followers
    hub wakes -----------------/        |  settled: wake_yielded        (display tap)
    /goal loop <------------------------/
       |-- boundary checklist, dispatch, settle --> goals.db <-- /goal pause, clear, resume
       |                                                     <-- watchdog, recovery, other processes

`HubWork` composes the queue with the cards: of a card it keeps the status, and of
the card operations that a slot does not see the pair `LoadCard`, `SaveCard`, with a
copy that may be outdated when it is saved. Which operation makes which copy is
`TaskLedger`'s subject, the races between slot and card are `HubWork`'s.
`TaskLedger` contains the second save of `/hub queue` and the sweep's cancellation
for the same reason. `ClientTurns` extends `TurnQueue`: broker and queue are one
specification, because the hazards are in the awaits between them. `GoalTurns` keeps
of the queue what the goal loop reads: whether the user has something queued or
running (`busy`), whether a message was admitted since the goal's ticket (`intr`)
and the cancellation latch.

## 2. The modules

### 2.1 HubElection

`life` is how far `_start_hub` or `shutdown` got, `step` the position inside
`try_become_coordinator`, `leaving` and `joining` the `set_solo` calls that still await
the hooks, `won` the local variable `is_coordinator` of `_start_hub`, `leads` the field
of the identity, `lock` the flock, `disk` the file.

| Action | Code |
|---|---|
| `StartHub` | a process reaches `_start_hub`; a solo agent skips the election |
| `TryLock` | `try_become_coordinator` up to the lock, of `_start_hub` or of a join; it fails when the lock is held or `hub.lock` cannot be opened |
| `PublishState` | the rest: epoch and `state.json`; then `hub.lock` is written, and an error there gives the lock back |
| `AssignIdentity` | identity assignment and `update_identity` |
| `FinishStart` | coordinator-only tasks start on the stale local |
| `StartupFails` | the error exits of `_start_hub`, which keep the lock |
| `LeaveHub`, `FinishLeave` | `set_solo(True)` before and after it awaits the removal of the hooks |
| `JoinHub` | `set_solo(False)` up to its await; `TryLock` goes on from there |
| `BeginShutdown`, `Release` | `shutdown`: tasks cancelled first, lock released last, or never when an exception escapes an await in between |
| `Exit` (external) | the process is gone at any point; the kernel drops the lock |

`_atomic_write` may fail silently at any election. The code does not notice, so the
properties about the file are stated for as long as the last election's write did not
fail (`unwritten`); `OneCoordinator` and `LockNotLeaked` hold either way. `_read_epoch`
turns every error into 0, so an election that cannot read the file (`unread`) starts
again at epoch 1: that is the exception `EpochGrows` names.

### 2.2 TaskLedger and CardLifecycle

`card` are the files. `op[p]` is the unlocked operation a handler of process `p`
has in flight, with its own copy of the card. `Load` tests the guard (`May`), `Save`
writes what the operation makes of its *own copy* (`Apply`). `due[p]` are the copies
of the reminder cron and `waiting[p]` whether it awaits a delivery: it loads every due
card at once (`CronLoad`), then saves the copies one by one, at once for a card of its
own (`CronTouch`), after an await for another's (`CronAsk`, then `CronSave` or
`CronFails`). Handlers of the process run in those awaits and nowhere else (`Free`).
`sweep[p]` is the card whose replies the sweep's thread has yet to settle.
`Claim`, `Requeue` and `SweepCancel` are one step, because the code holds the lock.
`replies` is `_pending_replies.json`; `ExpectReply` overwrites a file it cannot
read, while the other operations leave such a file alone. `claimed`
is a history variable: the workers told that their claim succeeded, emptied by a
requeue. Time is left out: a card may be due, stalled or expired whenever its
fields allow it. `Pruned` describes the file after an expiry by the positions of the
entries that stay, in their order, so that it can be reasoned about for a file of any
length.

`CardLifecycle` is the abstract specification: the lifecycle of
`task_ledger.py`'s module docstring, with no files, locks or copies.
The mapping forgets all but status and assignee. The code does not implement it as it
stands (3.2); `LifecycleUnlessStale` states how far it does: every step is a step of
`CardLifecycle`, or leaves status and assignee alone, or is the save of a copy that is
no longer what the file holds (`StaleSave`).

### 2.3 HubWork

`slot` is `work-queue.json`, `card` the paired cards, `queueing` and `syncing` the
commands in flight in each worker, `sweep` the coordinator's cleanup with its
snapshot and verdicts, `upstream` the state of the GitHub references of a slot.
`copies` are the copies of a card that operations elsewhere hold, at most `MaxCopies`
different ones, and `reopened` is a history variable: the items whose finished card
such a save made live again. `/hub queue` is four steps (`QueueAdd`, `QueueCard`, `QueueNote`, `QueueLink`) and a fifth,
`QueueCancel`, on its error path; a card claim is two (`ClaimCard`, `SyncSlot`).
The cleanup is `Discover`, `RequeueOrphans`, then either `NotDue` or a sweep:
`SweepSnapshot`, one `SweepCheck` per slot, `SweepRetire` under the lock,
`SweepCancel` per card, `SweepRestore` where a claim raced the retirement, and
`SweepEnds`. Every file access and lookup may fail (`Fault`, bounded by
`MaxFaults`), also silently: `_atomic_write` only logs a failed write of the queue,
so the operation goes on as if its change had been saved (`Write`). Workers die
and restart, and a live worker may be too busy to answer: `Discover` finds any
part of the live ones. `CompleteSlot` is narrower than `WorkQueue.complete`, which
takes a slot in any status and has no caller: the model completes work that was
assigned.

### 2.4 HubDispatch

`status` and `settledBy` are `_dispatches.json`, `order` its order by creation,
`call` the `hub_msg` call in flight, `inbox` what the worker's socket or mailbox
took, `transit` the copies of reports under way, `seen` the coordinator's memory.
All dispatches go to one worker, thread and task: a report can only match several
dispatches that share these three, so other combinations add nothing. `created_at`
is stamped just before the file is locked and is taken as the same step. A message
id is a fresh uuid per call, so calls with the same id (replays) are never
concurrent. `ForgetOldest` stands for the thousand-message limit of
`_seen_messages`.

### 2.5 TurnQueue and ClientTurns

A *chain* is a task: a drain of the queue or a hub continuation. `chain[o]` is how
far the chain started by message, turn or wake `o` is: scheduled, waiting for the
turn lock, or in a round. `batch[o]` is what it took from the queue, `answers`
are `active_request_ids`, `processing`, `turnCompleted` and `latch` the shared
flags. `told[i]` counts the ends its follower heard, `completed` is the broker's
completion record, which fences later events. `lost` is a history variable: the requests
for which, by one of the routes of 3.2, the code publishes no end that their follower
hears.

| Action | Code |
|---|---|
| `ChatArrives`, `PutChat`; `AdmitTurn`, `PutTurn` | the two halves of `process_user_input`: flags reset, then, after the log's await, the message queued |
| `StartDrain`, `Resume` | `_drain_queue`: take a batch under the lock, start, end or go round again |
| `Wake`, `StartHub` | `handle_llm_continue`, `_hub_continue` |
| `BeginRound`, `RoundCompletes`, `RoundHasTools`, `RoundRaises`, `RoundDenied`, `Backstop` | `_execute_llm_turn` and the bounded continuation loop |
| `Stop` | `cancel_current_request` by a person |
| `Heal` | the orphaned-queue mode of `TurnWatchdog` |
| `Submit`, `TakeNext`, `StartTurn`, `RefuseTurn`, `FinishTurn` | `submit` and the worker `_run` |
| `IgnoreTurn` | `handle_user_input` returns `empty_message` or `startup_timeout`: the turn is neither queued nor ended |
| `Cancel`, `CancelWaiting`, `CancelPending` | `cancel` of an active, held or queued turn |
| `CloseBegin`, `CloseEnd` | `close`, before and after it awaits the worker |

A client names every turn with a fresh uuid, so a turn is its number. A message held
during start-up (`startup_hold`) is put back through a method `emit` that the event bus
does not have, so it goes the way of `startup_timeout`. `RoundDenied` is the one exception
that passes `except Exception`, the `CancelledError` of a denied pre-request hook: a drain
then ends with its queue unread, and `Heal` is what serves it. `Backstop` counts neither
turns nor repeated tool errors, it may come after any continuation; `Put` leaves out the
overflow strategies of the queue.

### 2.6 GoalTurns

One goal of one conversation and every process that has the conversation open.
Inside a process everything between two awaits is uninterrupted; another process
may step between any two SQLite transactions. So a step is one transaction with the
reads before it, and `pc[d]` is where the loop of process `d` stands. `record_version`
is modelled by `fresh`, the processes whose last read of the record no write has
overtaken: a compare-and-set succeeds for exactly these. `rec` is the row, `att` the
attempts by `continuation_seq`, with the epoch of their fence and the process their
`turn_started` event names. `cmd` is a command or recovery between two of its
transactions. `shared` is a history variable: two processes have been up at once.

| Action | Code |
|---|---|
| `Start`, `Look` | `schedule`/`start`, the head of `_drive` |
| `Check` (`ApplyIntent`, `ApplyOutcome`, `Decline`, `StopAtBound`, `Dispatch`) | the branches of `maybe_continue` |
| `Write` | the transition of a stop, and `_safe_error_pause` |
| `Insert`, `Begin` | `insert_attempt`, then the `turn_started` transition |
| `LoadAttachments`, `PauseMissing` | `_run_one_turn` up to its first await; `pause_artifact_missing`, its read and its compare-and-set |
| `Send`, `Yield`, `TurnEnds` | `_run_turn_with_context`: the request is sent, the turn gives way to the user, or it ends |
| `Usage`, `Settle` | `finish_turn`: accounting, then the fenced settle |
| `Apply`, `Commit` | `apply_pending_completion` |
| `Report` | `handle_goal_report`, `note_blocker` |
| `UserSends`, `Escape`, `UserSettles` | user input, Stop, the end of a drain with `wake_yielded` |
| `AskPause`, `AskClear`, `AskResume`, `CommandReads`, `DoCommand` | the `/goal` commands, one step per transaction; a pause discards a held completion first and reads the record again |
| `CheckStalled`, `Recover`, `LeaseExpires` | the watchdog, `recover_lease` |
| `Crash`, `Open` | a process dies between any two transactions; one opens the conversation |

What is left to chance: the evidence audit, the blocker window, token and time
budgets, a missing image, a profile that cannot run goals. `MaxTurns` is
`auto_turn_limit` (`turn_count` moves with `continuation_seq`); `--turns` and
`--budget` of resume are left out. The attempt states `pending` and `acked` and
`GoalStore.claim` have no caller. `_settled_while_running` is never set: a goal
enters `_yielded_goals` with no await before its loop returns. Reuse of a
process id, and hub wakes, which would also lower the latch, are left out. So are two
ways in which a live process leaves its attempt dispatched: a `CancelledError` (a relay
cancellation, or a denied pre-request hook, `queue_processor.py:1681`), which is no
`Exception` and escapes `driver.py:131` and `:337`; and an SQLite error in `finish_turn`
that is not a `GoalStoreError`. The watchdog of that process takes such an attempt for
one that was cut off and recovers it (`driver.py:232`); other processes leave it alone.

## 3. What the runs show

States are distinct states. Every passing property is paired with a mutant of the code that TLC
finds violating it (`mutants`).

| Run | Instance | Shows |
|---|---|---|
| `election` | 2 agents, 2 process starts, epochs up to 2, 2 leave or join commands in flight, failing reads and writes, symmetric; 1.45M states | `OneCoordinator`, `StateNamesActing`, `NameMatchesPid`, `EpochGrows`, `LockNotLeaked` under every order of start, failure, leave, join and crash |
| `ledger` | 2 processes, 1 linked card, symmetric; 919k | `CardsConsistent` although copies overwrite each other; `LifecycleUnlessStale` |
| `ledger_replies` | 1 process, 2 workers, 1 card, 2 messages; 40k | `ReplyRecordedOnce`, `ResolvedStaysResolved` |
| `work` | 1 item, 1 worker, a budget of 1, 2 faults, 1 copy; 435k | well-formed slots (`TypeOK`), `AssignedNeverRetired`, `TornNeedsFault`, `TornIsRepaired`, `LandedIsRetired` |
| `dispatch` | 2 dispatches, 2 reports; 340k | `WriteAhead`, `NoReportCountsTwice`, `NamedReportsAreRight`, `ReportNotUndone` |
| `client_turns` | 2 client turns, 1 chat or wake beside them, 1 Stop, 1 waiting turn allowed; 185k | `OneEnd`, `EndedNeverRuns`, `StrayCancelsKnown`, `QueueServed`, `EndsUnlessLost` |
| `goals` | 1 process, 2 turns, 2 resumes, 2 crashes, 4 inputs; 258k | `OneLive`, `UncountedNeverRan`, `TerminalIsFinal`, `AmbiguousIsFinal`, `Driven` |

**Why the bounds are enough.** An election race needs a process that holds the
role and one that takes over; leaving and rejoining gives each of them the role again
without a new start, a crash and a start a new process. Two epochs tell an old
election from a new one, and two commands in flight let a leave and a join overtake each
other. A lost update needs two writers and one card. Replies are kept in one file under
its lock, so one process is enough for them, and two messages are what an operation can
confuse. The sweep treats each slot
on its own except for the budget, so one item and a claimant give every race
between snapshot, checks, retirement and claim; two faults allow a failure and a
failed repair, and one copy in flight is what reopens a finished card. A report can be misfiled only between two
dispatches, and a second report is what a first may be confused with. Two client
turns give an active and a waiting one, and with a limit of one the bound is met; a
foreign chain beside them is what they can be confused with. A goal needs a turn that
was cut off and the one after it, a crash in a turn and a crash in its recovery,
and inputs for pause, resume, Stop and a message in one behaviour. The theorems
of section 4 remove the bounds for the safety properties they cover.

**Deadlock.** All modules but `HubWork` may stop: their bounds on starts, cards,
messages, turns and inputs run out, and idle processes are a normal end. `HubWork` is
checked for deadlock.

**Fairness.** `HubElection`, `TaskLedger` and `HubDispatch` state safety only and assume
none. `HubWork`: weak fairness
of the coordinator's cleanup, a step of the heartbeat loop that runs for as long as
there is a coordinator, and strong fairness of `SweepSnapshot`: the sweep interval
passes again and again, so a due sweep cannot be found not due for ever. `ClientTurns`:
weak fairness of the broker's worker, of a close, of a message being admitted, of the
watchdog's check and of the chains together, since these are tasks the event loop
resumes and a model request ends or times out; strong fairness of `Backstop`,
since the continuation loop is bounded. `GoalTurns`: weak fairness of a lease's expiry
and of commands half done; strong fairness of the loop, of the end of a user's turn and
of the watchdog's poll, each of which shares its event loop with callbacks that may
disable it for a moment but cannot run for ever in its place: a callback that is
ready runs after finitely many others. No fairness is assumed of users, clients,
workers, upstreams, crashes, restarts or faults.

### 3.1 Where the code and its own words differ

Five runs are expected to fail; each checks one statement the repository makes.

| Run | Statement | What happens |
|---|---|---|
| `election_supervisor` | the supervisor is "Coordinator-only" (`plugin.py:7351`) | `/hub leave` gives the role back (`plugin.py:17167`) and leaves the supervisor running; so does a leave during start-up |
| `ledger_claim` | "First claim wins; the loser gets None" (`task_ledger.py:938`) | `/hub queue` publishes the open card and saves it again (`plugin.py:16662`); a claim in between is lost and a second one succeeds |
| `client_turns_scope` | the broker waits "rather than treating admission as completion or cancelling whatever happens to be running on the daemon" (`client_turns.py:4`) | `cancel` stops the agent although the turn is still in the input hooks (`client_turns.py:134`); a hub wake that started meanwhile is stopped |
| `goals_resumed` | "/goal resume ... resume after a stop" (`docs/features/goal-command.md:55`) | Stop on a goal's turn pauses the goal and stands until the next message. `/goal resume` makes the goal active and answers "resumed"; the loop declines (`driver.py:613`), and so does every later attempt of the watchdog |
| `goals_shared` | "the same conversation open in two daemons: ... the lease loser observes read-only" (`docs/specs/goal-command-harnesses.md:438`) | nobody claims the lease and the checklist does not look at attempts in flight; the watchdog of the second process starts a turn between two turns of the first (`driver.py:206`) |

### 3.2 Other observations

The models show these too; no run is kept for them.

Hub:

- A copy of a card loaded earlier is saved over a card another process has just
  finished, although "once a card is terminal" late directives "must not reopen it"
  (`task_ledger.py:650`): test and save are not under one lock. One process is enough:
  the task cron loads all due cards, awaits the delivery of each reminder and then
  saves the copy it had (`plugin.py:8018`-`8055`), so a card finished while
  reminders are delivered is active again. `TerminalIsFinal` fails in both instances of
  the ledger. If the sweep had just cancelled the card, its slot stays retired beside a
  live card until the next sweep.
- An election that cannot read or parse `state.json` starts again at epoch 1, below
  epochs peers may have seen (`coordinator.py:144`).
- `expect_reply` takes a replies file it cannot read for an empty one and saves it with
  the new entry alone (`task_ledger.py:322`): resolved entries are gone, and a replayed
  request is asked again.
- A `/hub leave` whose hooks are removed after a `/hub join` won the role gives up that
  role (`plugin.py:17167`): nobody leads, although the agent has just rejoined.
- "Work held by a dead agent goes back to pending" (`plugin.py:8238`), and so does
  that of a live agent that does not answer in time, since discovery leaves it out.
- `_route_message`: "Empty list means all recipients accepted" (`plugin.py:12022`). A
  target nobody finds yields the empty list too, so the dispatch becomes
  `in_flight` and later calls are "not sent again" (`plugin.py:4284`).
- After `/hub leave`, `state.json` still names the live solo process, and peers take
  it for the coordinator until the next election (`coordinator.py:96`).
- No running agent stands again when the coordinator dies (`plugin.py:5860`); a
  new one is elected when a process starts or rejoins.
- A failed start-up after a won election keeps the lock until that process ends.
- `qa_approve` closes a card nobody submitted for review (`task_ledger.py:1077`),
  and a card approved automatically can no longer be rejected (`plugin.py:9648`).
- One worker may hold the slot and another its card: `claim_by_id` does not look
  at the card (`coordinator.py:397`).
- The error path of `/hub queue` cancels the card without `preserve_active`, so it
  also cancels one claimed in between (`plugin.py:16705`; the sweep does preserve).
- The upstream budget is spent in queue order: with more slots than budget a later
  slot is never checked, and `LandedIsRetired` fails with `NumItems = 2`,
  `Budget = 1` (`coordinator.py:602`).
- A report without `reply_to`, delivered again after its dispatch was verified
  and the coordinator forgot it, settles the next assignment of that worker
  (`task_ledger.py:570`).
- A report is marked as seen before it is filed, so when filing fails a second
  copy is dropped (`plugin.py:9704`).

Turns (the routes that add to `lost`, and others):

- A client turn with an empty message, or one whose start-up wait times out, is neither
  queued nor ended (`message_handler.py:124`, `:151`): its follower waits until a
  cancel or a close, and so do the turns behind it (`Stuck`).
- Client input queued behind a foreign chain that started during its hooks is
  answered by an event that carries only `request_ids`.
- Stop between two rounds ends a chain without a `turn_complete`; Stop on a queued
  client turn publishes only `request_ids`.
- A message put into the queue after a Stop's sweep waits under the latch until the
  next message: only the overflow path ends it (`queue_processor.py:976`).
- The fence drops another person's `turn_complete` when it is published from the
  client turn's drain.

Goals:

- A process that dies between `insert_attempt` and `turn_started` leaves an attempt
  under the next sequence number. After recovery and `/goal resume` the next dispatch
  uses that number again and fails on the unique index, each time anew. The
  specification says resume "continues from the next continuation sequence"
  (`docs/specs/goal-command-harnesses.md:538`).
- A goal whose turn was cut off after its status had changed in the turn (blocked,
  image missing) is never recovered: the watchdog looks at active goals only. A
  pause or clear then waits for a boundary that a resume has to bring.
- A completion held before a crash or a blocker stop survives a resume and commits at
  the end of the next turn; one reported after a pause or clear was requested
  commits too.
- A wake after a user's turn is lost when that turn settles before the goal's turn
  yields; the watchdog makes up for it within a minute.
- With two processes `_safe_error_pause` and the second half of a resume can overwrite
  a status the other process wrote, a terminal one too, and a `finish_turn` that is
  overtaken leaves its attempt dispatched under a live process, which stops the
  watchdog of the other from driving or recovering the goal: `Driven` fails with two
  processes.

## 4. What is proved

All theorems are of the form `Spec => ...` or `Spec /\ H => ...`, for every value of
the constants that satisfies the named assumption of the module: `ElectionAssumption`
(bounds are
naturals, `NoName` is no agent), `LedgerAssumption` (`Nobody` is no process, linked
cards are cards), `WorkAssumption` (bounds are naturals, `Nobody` is no worker),
`DispatchAssumption` (`None` is no message), `TurnAssumption` and `LimitAssumption`
(bounds are naturals; chats, wakes, the watchdog and turn numbers are distinct),
`DaemonAssumption` and `BoundAssumption` (`NoOne` and `Gone` are no processes, bounds
are naturals). Agents, cards, items, workers, messages, turns and processes may be
any number; the bounds any natural number.

A hypothesis `H` is used where the property fails in general and a run or 3.2 shows how.
It names the one thing that separates the code from what it says, and the theorem shows
that nothing else does.

**HubElection.** `TypeCorrect`, `MutualExclusion`, `StateIsCurrent`,
`NameIsCurrent`, `EpochMonotone`, `LockIsFreed`. `OneCoordinator` is not inductive: nothing in it says
why a process that publishes is alone. `IndInv` adds `LockInv` (the lock has one
holder at most, and whoever leads or is about to publish holds it), `PidInv` (process
ids are fresh, so a dead pid in the file is nobody else's) and `StateInv` (the file
describes whoever leads). `LockNotLeaked` is the converse of a part of `LockInv`: in a
running hub a held lock belongs to a leader or to an election under way, also when a
leave is overtaken by a join. `EpochMonotone` needs no more than the step that writes the
file; its exception is the election that could not read it. `NameMatchesPid` rests on `StateInv`: the late rename
happens only in a process that still leads, and the file then carries its pid.
`SupervisorUnlessLeft` is the counterpart of `election_supervisor`: where nobody takes
`LeaveHub`, `SupervisorOnlyOnCoordinator` holds. `KeptInv` says that the result of the
election which `_start_hub` keeps in a local is then still the process's role. So the
awaits between election and `FinishStart` do no harm by themselves.

**TaskLedger**, for any number of processes. `CardsStayConsistent`: `CardsConsistent`
alone says nothing of the stale copies about to be saved. `CardInv` adds `CopiesOK`:
each copy in flight is consistent *and passed its operation's guard when it was loaded*.
That suffices because every operation saves a whole card computed from its own copy
(`ApplyConsistent`). It also explains why the lost updates of 3.1 change a card's
history and never its shape. `RecordedOnce` and `ResolvedStays` rest on `RepliesInv`
and on what each operation does to the file: entries keep their places, or one is
added for a message that is not there, or the entries that stay keep their order.
`TypeCorrect` joins the two halves.

`ResolvedStaysResolved` has one exception, which it names: an `expect_reply` that could not
read the file leaves its own entry alone there (`Overwritten`).

**TaskLedger, where lost updates come from.** `TerminalIsFinal`, `FirstClaimWins` and the
lifecycle of `CardLifecycle` all fail, already with one process and its cron. A `StaleSave`
is a step that ends an operation or a cron delivery whose copy is no longer what the file
holds. `FollowsLifecycle` (`LifecycleUnlessStale`): every other step of any number
of processes, with cron, sweep and crashes, follows `CardLifecycle`.
`FirstClaimWinsUnlessStale`: without such steps the first claim wins. So outdated
copies are the only cause of these failures, and a lock held from load to save, as
`claim` has it, would remove them. `OneCopyIsFinal` needs less: if at any time at most one
copy of a card is in flight that may be saved, finished cards are final, although claims
and requeues still fall between load and save; the invariant `LiveCopies` says that
the card of such a copy is not finished.

**HubWork.** `TypeCorrect`, whose type includes `WellFormed` slots, and
`AssignedIsSafe`. The latter follows from the types and from `Retired`, which decides on
the slot as it is under the lock, not as the snapshot had it. `WriteOK` carries both
over writes that fail silently. `TearsAreFaults` (`TornNeedsFault`): without a failed access
or a crash, and without an outdated copy saved over its finished card (`reopened`), no slot stays retired beside a live card once the sweep or the command that
made the pair is through, whatever was claimed, linked, closed or reopened in
between. The property is not inductive: nothing in it says that the sweep, when it comes
to a card, finds the slot as it retired it. `TearInv` adds `SweepInv` (the retired slots
the sweep goes by are still retired, for the reason it noted) and `CommandInv` (a
`/hub queue` command that has not linked its card yet is the only one that can, so
whoever links late is the one that cancels). With a fault or a reopened card the pair may stay until
a later sweep, which is `TornIsRepaired`.

**HubDispatch.** `TypeCorrect`, `SentIsRecorded` (`WriteAhead`), `LedgerIsSound`
(these and `NoReportCountsTwice`), `ReportIsFinal` and `NamedReportsStand`. `DispatchInv` adds `CallRecorded` (a call past its first step has
recorded its dispatch), `TransitSent` and `FiledCorrelates` (a filed report was sent
and still correlates with its dispatch): without the last one, a duplicate of a report
would not find the dispatch it is filed under. `NamedReportsStand`
(`NamedReportsAreRight`) marks the border of the misfiled report of 3.2: with
`reply_to` a report settles its own assignment alone, also after the verification.
`NamedInv` carries the correlation over verified dispatches and ties each report to an
assignment that the worker has.

**ClientTurns.** `TypeCorrect`, `EndsOnce`, `EndedStaysOut`, `CancelsAreKnown`,
`ScopedUnlessEarly`. `OneEnd` says nothing of
why the second of two enders stays silent. `TurnInv` adds that a turn which is admitted
and not completed has told its client nothing, that only the active turn can be both
admitted and completed, that a chain started by a turn belongs to the active
turn or to a completed one, and, through `InOrder`, that turns leave the broker in
the order of their numbers, so none is held in two places. `ChatInv` does the same for
other people's messages: each is in exactly one place (on its way, queued, in one
chain's batch, among the ids being answered), and as long as it is there its follower
has heard nothing. `CancelsAreKnown` (`StrayCancelsKnown`) is about several chains that
share `active_request_ids`: a turn that was submitted and has not ended is with the
agent, in the queue, in a batch or among the answers, whichever chain has it by now.
`HoldInv` is that statement and what it needs of the chains (`ChainsInv`: a batch is
held only while its chain waits for its round and is answered in it, rounds exclude
each other, no chain is started twice); `Carries` is what one step of a chain does with
the input it has. `ScopedUnlessEarly` follows: `CancelIsScoped`, which
`client_turns_scope` refutes, holds when nothing starts during the input hooks and the
terminal event of the active turn is not lost, so those two are the whole of what is wrong.

**GoalTurns**, for any number of processes at once. `TypeCorrect`; `StopsStand`
(`StopHonoured`) from `SnapInv`: a dispatch decided on a read that is still current
was decided on the record as it stands, because every write overtakes all reads;
`AmbiguousStays` from `FenceInv`: the epoch a loop holds is never ahead of the record's,
and an ambiguous row carries a later epoch than the loop that still holds it.
`StrandedNeverRan` (`UncountedNeverRan`): whatever dies or is overtaken between
`insert_attempt` and `turn_started`, an attempt beyond the record's counter is the next
one, names no process and was never settled or cancelled. `SeqInv` adds that a loop about
to insert or begin holds at most the next number, exactly that one if its read is current,
and that a loop in its turn holds a number the record counts. `StopHonoured` is stated by
no run: it needs the stop of another process between checklist and dispatch, and the
passing run of the goals has one process.

**GoalTurns**, as long as one process at a time is up (`GoalAloneProofs`, restarts
included): `OneTurnAlone` (`OneLive`) and `TerminalStays`
(`TerminalIsFinal`). Neither is inductive: the checklist does not
look at attempts in flight, so one has to know that the loop never reaches it while one
of a live process is in flight. `AloneInv` says for the only process which row its
loop may hold at each point (`RowInv`), that commands do not run while the loop is
between two transactions (`CmdInv`), and what the loop knows of the record there
(`LoopInv`). These theorems and the run `goals_shared` mark the border: with one
process the code needs no lease, with two it would.

**Only model-checked.** The liveness properties `TornIsRepaired`, `LandedIsRetired`, `QueueServed`, `EndsUnlessLost` and `Driven`, since
the prover does not handle fairness. Every invariant and action property of a
passing run is a theorem.

## 5. What is not modelled

Inside the modelled parts: time (deadlines and intervals are nondeterministic),
handoff notes, and the ledger operations without a caller (`cleanup_stale`, `cancel`,
`resolve_pending_reply`). Text, payloads and JSON are abstracted; a file is
read and replaced atomically, as the code does with a temporary file and a rename. Network
file systems, where `flock` may not exclude, are outside.

Beside the turns: the contents of a round (prompts, parsing, tools), voice turns, the
overflow strategies of the queue, the watchdog's stuck-busy mode, cancellation by a
relay task, staged image requests of goals, and errors of the goal store other than an
overtaken write (2.6).

Cryptographic protocols (relay, enrollment, configuration sync) would be assumed
rather than checked. Providers, MCP, shell tools, voice, terminal and web user
interfaces are I/O and formatting. `PROJECT.json` lists each with its reason.

## 6. Plan

Done, in this order: election, since all else depends on one coordinator; card
ledger with its abstract lifecycle; work queue composed with cards; dispatches; turn
queue with the client turn broker; goals.

Next:

1. Abstract specifications for more components, with proofs that they are
   implemented: the life of a dispatch (`HubDispatch`), a role that changes hands
   (`HubElection`).
2. `IdleSupervisor`: nudges and handoffs over the cards of `TaskLedger`, with retry
   limits and late acknowledgements.
3. `HubPresence` and `HubMailbox`: liveness files, socket against mailbox, the drain
   and its restart boundary; an abstract at-least-once channel which they
   implement and on which `HubDispatch`'s `transit` relies.
4. `RpcClient`: timeouts against late replies. Then event bus, permissions and kill
   switch.
