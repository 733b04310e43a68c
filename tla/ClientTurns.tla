----------------------------- MODULE ClientTurns -----------------------------
(***************************************************************************)
(* External client turns (kollabor/llm/client_turns.py, ClientTurnBroker)   *)
(* on top of the agent's own queue (module TurnQueue).  The broker admits   *)
(* turns in order, submits one at a time through the input hooks once the   *)
(* agent is idle, and follows it to its turn_complete.  A client may cancel *)
(* its turn at any time; the daemon may close.                              *)
(*                                                                          *)
(* A client names every turn with a fresh request id                        *)
(* (acp_server.py:359), so a turn is its turn_id here.                      *)
(***************************************************************************)
EXTENDS TurnQueue

CONSTANT Limit    \* turns that may wait, 10 in the code

ASSUME LimitAssumption == Limit \in Nat

VARIABLES
  lastTurn,     \* turn_id
  pending,      \* the broker's queue
  waiting,      \* the turn the worker holds until the agent is idle
  active,       \* the turn submitted to the agent
  admitted,     \* turns without a terminal event yet
  worker,       \* where _run is
  closing       \* close: not called, waiting for the worker, over

bvars == <<lastTurn, pending, waiting, active, admitted, worker, closing>>
vars == <<qvars, bvars>>

None == 0

TypeOK ==
  /\ QueueTypeOK
  /\ lastTurn \in 0..NumTurns
  /\ pending \in Seq(Turns)
  /\ waiting \in Turns \cup {None}
  /\ active \in Turns \cup {None}
  /\ admitted \in SUBSET Turns
  /\ worker \in {"none", "next", "wait", "hooks", "follow"}
  /\ closing \in {"no", "begun", "over"}
  /\ (waiting # None) <=> (worker = "wait")
  /\ (active # None) <=> (worker \in {"hooks", "follow"})

Init ==
  /\ QueueInit
  /\ lastTurn = 0
  /\ pending = <<>>
  /\ waiting = None
  /\ active = None
  /\ admitted = {}
  /\ worker = "none"
  /\ closing = "no"

---------------------------------------------------------------------------
(* submit *)

Waiting == IF waiting \in admitted THEN 1 ELSE 0

Submit ==
  LET t == lastTurn + 1 IN
  /\ closing # "over"
  /\ t \in Turns
  /\ Len(pending) + Waiting < Limit
  /\ lastTurn' = t
  /\ pending' = Append(pending, t)
  /\ admitted' = admitted \cup {t}
  /\ worker' = IF worker = "none" THEN "next" ELSE worker
  /\ UNCHANGED <<waiting, active, closing>>
  /\ UNCHANGED qvars

---------------------------------------------------------------------------
(* _run *)

\* A cancelled task does nothing but unwind.
WorkerRuns == closing = "no"

TakeNext ==
  /\ WorkerRuns
  /\ worker = "next"
  /\ IF pending = <<>>
     THEN worker' = "none" /\ UNCHANGED <<pending, waiting>>
     ELSE /\ worker' = "wait"
          /\ waiting' = Head(pending)
          /\ pending' = Tail(pending)
  /\ UNCHANGED <<lastTurn, active, admitted, closing>>
  /\ UNCHANGED qvars

\* Mutant of Unheld: the worker still holds the turn it started.
StillHeld == waiting

\* self.waiting is cleared however the wait ends.
Unheld == None

StillWanted(t) == t \in admitted

\* Polled while is_processing; a turn cancelled meanwhile is skipped.
StartTurn ==
  /\ WorkerRuns
  /\ worker = "wait"
  /\ ~processing \/ waiting \notin admitted
  /\ waiting' = Unheld
  /\ IF StillWanted(waiting)
     THEN active' = waiting /\ worker' = "hooks"
     ELSE worker' = "next" /\ UNCHANGED active
  /\ UNCHANGED <<lastTurn, pending, admitted, closing>>
  /\ UNCHANGED qvars

\* The input hooks reach process_user_input; nothing tests is_processing again.
AdmitTurn ==
  /\ WorkerRuns
  /\ worker = "hooks"
  /\ active \notin completed
  /\ active \notin admitting
  /\ Reset(active)
  /\ UNCHANGED <<toCome, queue, chain, hub, batch, answers, processing, stops>>
  /\ Silence
  /\ UNCHANGED bvars

PutTurn ==
  /\ worker = "hooks"
  /\ Put(active)
  /\ worker' = "follow"
  /\ UNCHANGED <<lastTurn, pending, waiting, active, admitted, closing>>

PutChat(c) ==
  /\ Put(c)
  /\ UNCHANGED bvars

\* _settle of the active turn reaches the client unless it was settled before or
\* the fence is closed.
SettleActive(t) ==
  /\ told' = IF t \in admitted /\ ~Fenced(t) THEN Tell({t}) ELSE told
  /\ completed' = completed \cup {t}

\* A hook refused or cancelled the input, or submitting it raised.
RefuseTurn ==
  /\ WorkerRuns
  /\ worker = "hooks"
  /\ active \notin admitting
  /\ SettleActive(active)
  /\ worker' = "next"
  /\ active' = None
  /\ admitted' = admitted \ {active}
  /\ UNCHANGED <<lastTurn, pending, waiting, closing>>
  /\ UNCHANGED <<toCome, admitting, queue, chain, hub, batch, answers,
                 processing, turnCompleted, latch, stops, lost>>

\* handle_user_input drops an empty message, and one for which the startup takes
\* too long: nothing is queued, and the worker follows a turn that never ends.
IgnoreTurn ==
  /\ WorkerRuns
  /\ worker = "hooks"
  /\ active \notin completed
  /\ active \notin admitting
  /\ worker' = "follow"
  /\ Lose({active})
  /\ UNCHANGED <<lastTurn, pending, waiting, active, admitted, closing>>
  /\ UNCHANGED <<toCome, admitting, queue, chain, hub, batch, answers,
                 processing, turnCompleted, latch, stops, completed, told>>

\* The terminal event of the turn arrived.
FinishTurn ==
  /\ WorkerRuns
  /\ active \in completed
  /\ worker' = "next"
  /\ active' = None
  /\ admitted' = admitted \ {active}
  /\ UNCHANGED <<lastTurn, pending, waiting, closing>>
  /\ UNCHANGED qvars

---------------------------------------------------------------------------
(* cancel and close *)

\* Mutant of Withdraw: the submission is not cancelled.
WithdrawNothing(t) == admitting

\* submitting.cancel(): input still on its way does not reach the queue.
Withdraw(t) == admitting \ {t}

\* cancel of the active turn: completion["cancelled"], the submission, then
\* whatever the agent is doing.
CancelActive ==
  /\ active \in admitted
  /\ active \notin completed
  /\ admitting' = Withdraw(active)
  /\ CancelCurrent({active})
  /\ completed' = completed \cup {active}
  /\ admitted' = admitted \ {active}
  /\ UNCHANGED <<toCome, chain, hub, batch, answers, processing, turnCompleted,
                 stops>>

Cancel ==
  /\ CancelActive
  /\ UNCHANGED <<lastTurn, pending, waiting, active, worker, closing>>

\* _settle of a turn that has not started.
SettleQueued(t) ==
  /\ t \in admitted
  /\ admitted' = admitted \ {t}
  /\ told' = Tell({t})
  /\ UNCHANGED <<lastTurn, waiting, active, worker, closing>>
  /\ UNCHANGED <<toCome, admitting, queue, chain, hub, batch, answers,
                 processing, turnCompleted, latch, stops, completed, lost>>

CancelWaiting ==
  /\ SettleQueued(waiting)
  /\ UNCHANGED pending

CancelPending(i) ==
  /\ SettleQueued(pending[i])
  /\ pending' = SubSeq(pending, 1, i - 1) \o SubSeq(pending, i + 1, Len(pending))

\* close: the active turn is cancelled, then the worker's task.
CloseBegin ==
  /\ closing = "no"
  /\ closing' = "begun"
  /\ \/ CancelActive
     \/ /\ ~(active \in admitted /\ active \notin completed)
        /\ UNCHANGED qvars
        /\ UNCHANGED admitted
  /\ UNCHANGED <<lastTurn, pending, waiting, active, worker>>

\* The worker unwinds and settles the turn it held; then the rest is settled.
CloseEnd ==
  LET left == (admitted \ completed) \ {active} IN
  /\ closing = "begun"
  /\ closing' = "over"
  /\ told' = Tell(left)
  /\ pending' = <<>>
  /\ waiting' = None
  /\ active' = None
  /\ worker' = "none"
  /\ admitted' = {}
  /\ UNCHANGED lastTurn
  /\ UNCHANGED <<toCome, admitting, queue, chain, hub, batch, answers,
                 processing, turnCompleted, latch, stops, completed, lost>>

---------------------------------------------------------------------------
\* What the broker has no part in.
Outside ==
  \/ \E c \in Chats : ChatArrives(c)
  \/ \E w \in Wakes : Wake(w)
  \/ \E o \in Owners : ChainStep(o)
  \/ Heal
  \/ Stop

WorkerStep ==
  TakeNext \/ StartTurn \/ AdmitTurn \/ PutTurn \/ RefuseTurn \/ IgnoreTurn
  \/ FinishTurn

Next ==
  \/ Submit
  \/ WorkerStep
  \/ Cancel
  \/ CancelWaiting
  \/ \E i \in 1..Len(pending) : CancelPending(i)
  \/ CloseBegin
  \/ CloseEnd
  \/ \E c \in Chats : PutChat(c)
  \/ Outside /\ UNCHANGED bvars

\* Tasks run on: the worker, a message being admitted, some chain, a close.
\* A model request ends sooner or later, and the continuation loop is bounded.  The
\* watchdog checks again and again.
Fairness ==
  /\ WF_vars(WorkerStep)
  /\ WF_vars(CloseEnd)
  /\ WF_vars(Heal /\ UNCHANGED bvars)
  /\ \A c \in Chats : WF_vars(PutChat(c))
  /\ WF_vars((\E o \in Owners : ChainStep(o)) /\ UNCHANGED bvars)
  /\ SF_vars((\E o \in Owners : Backstop(o)) /\ UNCHANGED bvars)

Spec == Init /\ [][Next]_vars /\ Fairness

---------------------------------------------------------------------------
(* Properties *)

\* No follower hears two ends: cancel, the native turn, a refusal, a raise and
\* close may each end the same turn, in any order (_settle, DisplayTap.publish).
OneEnd == \A i \in Ids : told[i] <= 1

\* A client turn that has ended never reaches the agent's queue: cancelled while
\* it waited, in the input hooks, or by close.
EndedNeverRuns ==
  [][\A t \in Turns :
       t \notin InQueue /\ t \in InQueue' => told[t] = 0 /\ t \in admitted]_vars

\* Queued messages do not wait forever while no Stop is in effect, although
\* whoever queues it behind a running chain starts none (process_user_input,
\* the outer loop of _drain_queue, _hub_continue, TurnWatchdog).
QueueServed == []<>(latch \/ queue = <<>>)

Asked(i) == i \in admitted \cup InQueue

\* The worker follows an active turn whose terminal event went missing; the
\* turns behind it wait for a cancel or a close.
Stuck(i) == active \in lost /\ i \in admitted \ {active}

\* A request that was admitted ends, unless its own terminal event went missing
\* in one of the known ways or it waits behind such a turn (process_user_input,
\* _drain_queue, _end_requests, _run, _settle).
EndsUnlessLost ==
  \A i \in Ids : Asked(i) ~> (told[i] = 1 \/ i \in lost \/ Stuck(i))

\* client_turns.py: the broker follows its turn "rather than ... cancelling
\* whatever happens to be running on the daemon".  A cancel that stops the agent
\* (a Stop counts in stops) comes when the agent has the turn's input.
CancelIsScoped ==
  [][~latch /\ latch' /\ stops' = stops => active \in Taken]_vars

\* The exceptions to it are two: the turn is still in the input hooks while a
\* chain that started meanwhile runs, or its own terminal event was lost.  Any other
\* turn that was submitted and has not ended is with the agent, whichever chain
\* has it by now (cancel, active_request_ids).
StrayCancelsKnown ==
  [][~latch /\ latch' /\ stops' = stops =>
       active \in Taken \/ (worker = "hooks" /\ processing) \/ active \in lost]_vars

=============================================================================
