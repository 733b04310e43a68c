------------------------------ MODULE TurnQueue ------------------------------
(***************************************************************************)
(* The input queue of one agent and the chains that answer it              *)
(* (kollabor_agent/queue_processor.py, class QueueProcessor), with the      *)
(* callers that admit a message (LLMCoordinator.process_user_input), wake   *)
(* the agent for its peers (MessageHandler._hub_continue) and stop it       *)
(* (cancel_current_request), and the fence of DisplayTap.publish.           *)
(*                                                                          *)
(* Everything runs on one event loop: an action is the code between two     *)
(* awaits.  A chain is a task, a drain of the queue or a hub continuation;  *)
(* several may run, and they share is_processing, turn_completed, the       *)
(* cancellation latch and active_request_ids.  A chain inherits the turn    *)
(* context of the task that created it, so what it publishes carries the    *)
(* client turn of that task, if it was one.                                 *)
(***************************************************************************)
EXTENDS Integers, Sequences, FiniteSets

CONSTANTS
  NumTurns,     \* bound: client turns ever submitted, numbered by turn_id
  Chats,        \* messages of other people: typed, or followed by request id
  Wakes,        \* hub wakes
  MaxOthers,    \* bound: chats and wakes of one behaviour
  Watchdog,     \* owns the drain that TurnWatchdog starts
  MaxStops      \* bound: Stops by a person

Turns == 1..NumTurns
Ids == Turns \cup Chats
Owners == Ids \cup Wakes \cup {Watchdog}

ASSUME TurnAssumption ==
  /\ NumTurns \in Nat
  /\ MaxOthers \in Nat
  /\ MaxStops \in Nat
  /\ Chats \cap Nat = {}
  /\ Wakes \cap (Chats \cup Nat) = {}
  /\ Watchdog \notin Chats \cup Wakes \cup Nat

VARIABLES
  toCome,       \* chats and wakes that have not happened yet
  admitting,    \* ids inside process_user_input, about to be queued
  queue,        \* processing_queue
  chain,        \* [Owners -> Phases]: the chain this message or wake started
  hub,          \* the wakes whose chain is still the hub continuation
  batch,        \* [Owners -> SUBSET Ids]: what the chain took from the queue
  answers,      \* active_request_ids
  processing,   \* is_processing
  turnCompleted,\* turn_completed
  latch,        \* cancel_processing
  stops,        \* Stops so far
  completed,    \* turns whose completion record says completed
  told,         \* [Ids -> Nat]: turn_complete events that reached its follower
  lost          \* history: the ids whose terminal event went missing (see Lose)

qvars == <<toCome, admitting, queue, chain, hub, batch, answers, processing,
           turnCompleted, latch, stops, completed, told, lost>>

Phases == {"none", "scheduled", "lock", "round"}

InQueue == {queue[i] : i \in 1..Len(queue)}

\* The ids whose input the agent has.
Taken == InQueue \cup answers \cup UNION {batch[o] : o \in Owners}

QueueTypeOK ==
  /\ toCome \in SUBSET (Chats \cup Wakes)
  /\ admitting \in SUBSET Ids
  /\ queue \in Seq(Ids)
  /\ chain \in [Owners -> Phases]
  /\ hub \in SUBSET Wakes
  /\ batch \in [Owners -> SUBSET Ids]
  /\ answers \in SUBSET Ids
  /\ processing \in BOOLEAN
  /\ turnCompleted \in BOOLEAN
  /\ latch \in BOOLEAN
  /\ stops \in Nat
  /\ completed \in SUBSET Turns
  /\ told \in [Ids -> Nat]
  /\ lost \in SUBSET Ids

QueueInit ==
  /\ toCome = Chats \cup Wakes
  /\ admitting = {}
  /\ queue = <<>>
  /\ chain = [o \in Owners |-> "none"]
  /\ hub = {}
  /\ batch = [o \in Owners |-> {}]
  /\ answers = {}
  /\ processing = FALSE
  /\ turnCompleted = FALSE
  /\ latch = FALSE
  /\ stops = 0
  /\ completed = {}
  /\ told = [i \in Ids |-> 0]
  /\ lost = {}

---------------------------------------------------------------------------
(* DisplayTap.publish of a turn_complete *)

\* A chat follows the events that list its id in request_ids; a client turn
\* only the one whose request_id is its own.
Tell(ids) == [i \in Ids |-> IF i \in ids THEN told[i] + 1 ELSE told[i]]

Heard(o, ids) == (ids \cap Chats) \cup ({o} \cap Turns)

\* The ids are left without the event they follow.
Lose(ids) == lost' = lost \cup ids

\* Mutant of Fenced: a second turn_complete of a client turn goes out.
FencedNever(o) == FALSE

\* The completion record of the context's client turn is closed.
Fenced(o) == o \in completed

\* The turn_complete of a chain that answers ids, in the chain's context.  The
\* fence drops the whole event.
Publish(o, ids) ==
  IF Fenced(o)
  THEN /\ Lose(ids)
       /\ UNCHANGED <<completed, told>>
  ELSE /\ completed' = completed \cup ({o} \cap Turns)
       /\ told' = Tell(Heard(o, ids))
       /\ Lose(ids \ Heard(o, ids))

Silence == UNCHANGED <<completed, told, lost>>

\* Mutant of EndRequests: a chain cut short says nothing.
EndRequestsNever(o) == Silence

\* _end_requests: a chain cut short still ends the ids it answers.
EndRequests(o) == IF answers = {} THEN Silence ELSE Publish(o, answers)

---------------------------------------------------------------------------
(* process_user_input *)

MoreToCome == Cardinality((Chats \cup Wakes) \ toCome) < MaxOthers

\* Up to the await that logs the message: the flags are reset.
Reset(i) ==
  /\ turnCompleted' = FALSE
  /\ latch' = FALSE
  /\ admitting' = admitting \cup {i}

ChatArrives(c) ==
  /\ c \in toCome \cap Chats
  /\ MoreToCome
  /\ toCome' = toCome \ {c}
  /\ Reset(c)
  /\ UNCHANGED <<queue, chain, hub, batch, answers, processing, stops>>
  /\ Silence

\* After the await: the message is queued and a drain is started unless a chain
\* is running.  A stop that came in between has left its latch behind.
Put(i) ==
  /\ i \in admitting
  /\ admitting' = admitting \ {i}
  /\ queue' = Append(queue, i)
  /\ chain' = [chain EXCEPT ![i] = IF processing THEN @ ELSE "scheduled"]
  /\ Lose(IF latch THEN {i} ELSE {})
  /\ UNCHANGED <<toCome, hub, batch, answers, processing, turnCompleted, latch,
                 stops, completed, told>>

---------------------------------------------------------------------------
(* Chains *)

\* The rest of a drain or hub continuation up to its next await: it waits for
\* the turn lock with a batch, or it ends.  A hub continuation that ends gives
\* what was queued meanwhile to a new drain.
Locks(o, ids) ==
  /\ chain' = [chain EXCEPT ![o] = "lock"]
  /\ batch' = [batch EXCEPT ![o] = ids]
  /\ processing' = TRUE
  /\ UNCHANGED hub

Relaunches(o) == o \in hub /\ queue # <<>> /\ ~latch

Ends(o) ==
  /\ chain' = [chain EXCEPT ![o] = IF Relaunches(o) THEN "scheduled" ELSE "none"]
  /\ batch' = [batch EXCEPT ![o] = {}]
  /\ processing' = FALSE
  /\ hub' = hub \ {o}

\* What is still owed when the last chain ends has no one left to answer it.
Owed(o) ==
  IF \A p \in Owners \ {o} : chain[p] = "none" THEN answers ELSE {}

\* LOOP 2 is left.
LoopOver(done) == done \/ latch \/ queue # <<>>

\* The outer loop goes around: the whole queue is the next batch.
Redraws(o) == o \notin hub /\ queue # <<>> /\ ~latch

\* After a round that left turn_completed at done.  The outer loop lowers it
\* before the next batch; LOOP 1, after a batch, keeps it.
Resume(o, done, kept) ==
  IF ~LoopOver(done)
  THEN /\ Locks(o, {})
       /\ turnCompleted' = done
       /\ UNCHANGED queue
  ELSE IF Redraws(o)
  THEN /\ Locks(o, InQueue)
       /\ turnCompleted' = kept
       /\ queue' = <<>>
  ELSE /\ Ends(o)
       /\ turnCompleted' = done
       /\ UNCHANGED queue

\* _drain_queue up to its first round.
StartDrain(o) ==
  /\ chain[o] = "scheduled"
  /\ o \notin hub
  /\ IF Redraws(o)
     THEN Locks(o, InQueue) /\ queue' = <<>> /\ UNCHANGED lost
     ELSE /\ UNCHANGED queue
          /\ IF LoopOver(turnCompleted)
             THEN Ends(o) /\ Lose(Owed(o))
             ELSE Locks(o, {}) /\ UNCHANGED lost
  /\ UNCHANGED <<toCome, admitting, answers, turnCompleted, latch, stops,
                 completed, told>>

\* handle_trigger_llm_continue, now or from its retry: nothing is running.
Wake(w) ==
  /\ w \in toCome \cap Wakes
  /\ MoreToCome
  /\ ~processing
  /\ toCome' = toCome \ {w}
  /\ hub' = hub \cup {w}
  /\ chain' = [chain EXCEPT ![w] = "scheduled"]
  /\ UNCHANGED <<admitting, queue, batch, answers, processing, turnCompleted,
                 latch, stops>>
  /\ Silence

\* _hub_continue: a turn that has started meanwhile sees the message itself.
StartHub(w) ==
  /\ chain[w] = "scheduled"
  /\ w \in hub
  /\ IF processing
     THEN /\ chain' = [chain EXCEPT ![w] = "none"]
          /\ hub' = hub \ {w}
          /\ UNCHANGED <<batch, processing, turnCompleted, latch>>
     ELSE /\ Locks(w, {})
          /\ turnCompleted' = FALSE
          /\ latch' = FALSE
  /\ UNCHANGED <<toCome, admitting, queue, answers, stops>>
  /\ Silence

\* Mutant of Answering: the batch replaces the ids of an unfinished chain.
AnsweringBatch(o) == batch[o]

\* A batch that cuts into an unfinished chain takes over the ids that chain
\* owes.
Answering(o) == answers \cup batch[o]

\* _execute_llm_turn under _turn_lock.
BeginRound(o) ==
  /\ chain[o] = "lock"
  /\ \A p \in Owners : chain[p] # "round"
  /\ answers' = Answering(o)
  /\ chain' = [chain EXCEPT ![o] = "round"]
  /\ UNCHANGED <<toCome, admitting, queue, hub, batch, processing,
                 turnCompleted, latch, stops>>
  /\ Silence

\* The model finished, or the request failed or was cancelled in the round.
RoundCompletes(o) ==
  /\ chain[o] = "round"
  /\ Publish(o, answers)
  /\ answers' = {}
  /\ Resume(o, TRUE, batch[o] # {})
  /\ UNCHANGED <<toCome, admitting, latch, stops>>

\* Tool results have to go back to the model: the next round, unless new input
\* or a stop ends the chain here.
RoundHasTools(o) ==
  /\ chain[o] = "round"
  /\ Resume(o, FALSE, FALSE)
  /\ Lose(IF LoopOver(FALSE) /\ ~Redraws(o) THEN Owed(o) ELSE {})
  /\ UNCHANGED <<toCome, admitting, answers, latch, stops, completed, told>>

\* MAX_CONTINUATION_TURNS, or the same tool error again and again.  Only a
\* drain ends the requests it answers.
Backstop(o) ==
  /\ chain[o] = "round"
  /\ batch[o] = {}
  /\ ~LoopOver(FALSE)
  /\ IF o \in hub
     THEN Lose(Owed(o)) /\ UNCHANGED <<answers, completed, told>>
     ELSE answers' = {} /\ EndRequests(o)
  /\ Resume(o, TRUE, FALSE)
  /\ UNCHANGED <<toCome, admitting, latch, stops>>

\* A turn that raises ends the ids it answers.  After a batch turn_completed is
\* left as it was, after a continuation it is set.
RoundRaises(o) ==
  /\ chain[o] = "round"
  /\ EndRequests(o)
  /\ answers' = {}
  /\ Resume(o, turnCompleted \/ batch[o] = {}, FALSE)
  /\ UNCHANGED <<toCome, admitting, latch, stops>>

\* A pre-request hook denies the round: CancelledError ends the ids it answers
\* and passes every handler.  A drain ends without a look at its queue.
RoundDenied(o) ==
  /\ chain[o] = "round"
  /\ EndRequests(o)
  /\ answers' = {}
  /\ Ends(o)
  /\ UNCHANGED <<toCome, admitting, queue, turnCompleted, latch, stops>>

\* Mutant of Orphaned: nobody looks after the queue.
OrphanedNever == FALSE

\* TurnWatchdog: work is queued, nothing processes it and nothing was stopped,
\* at two checks in a row; a task that was due to run has run in between.
Orphaned ==
  /\ ~latch /\ ~processing /\ queue # <<>>
  /\ \A o \in Owners : chain[o] # "scheduled"

Heal ==
  /\ Orphaned
  /\ chain[Watchdog] = "none"
  /\ chain' = [chain EXCEPT ![Watchdog] = "scheduled"]
  /\ UNCHANGED <<toCome, admitting, queue, hub, batch, answers, processing,
                 turnCompleted, latch, stops>>
  /\ Silence

---------------------------------------------------------------------------
(* cancel_current_request: a Stop, whoever it was meant for *)

\* request_cancellation raises the latch and ends what is queued, with an event
\* that lists the ids in request_ids.  With nothing running and no latch it
\* does nothing.  ids are told by the caller.
CancelCurrent(ids) ==
  IF processing \/ latch
  THEN /\ latch' = TRUE
       /\ queue' = <<>>
       /\ told' = Tell(ids \cup (InQueue \cap Chats))
       /\ Lose((InQueue \cap Turns) \ ids)
  ELSE /\ told' = Tell(ids)
       /\ UNCHANGED <<latch, queue, lost>>

\* ESC.
Stop ==
  /\ stops < MaxStops
  /\ stops' = stops + 1
  /\ CancelCurrent({})
  /\ UNCHANGED <<toCome, admitting, chain, hub, batch, answers, processing,
                 turnCompleted, completed>>

---------------------------------------------------------------------------
ChainStep(o) ==
  \/ StartDrain(o) \/ StartHub(o) \/ BeginRound(o)
  \/ RoundCompletes(o) \/ RoundHasTools(o) \/ RoundRaises(o) \/ RoundDenied(o)
  \/ Backstop(o)

=============================================================================
