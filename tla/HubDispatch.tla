---------------------------- MODULE HubDispatch ----------------------------
(***************************************************************************)
(* The dispatch ledger of the hub: the durable record a coordinator keeps  *)
(* of every task it assigns (task_ledger.py), the hub_msg tool that sends   *)
(* an assignment, the inbound path that files the worker's report, and the  *)
(* tool that verifies it (plugin.py).                                       *)
(*                                                                          *)
(* All dispatches here go to one worker, in one thread, for one task: the   *)
(* only case in which a report can match more than one of them.  Messages   *)
(* that are no completion report match nothing and are left out.            *)
(***************************************************************************)
EXTENDS Integers, Sequences

CONSTANTS
  Dispatches,  \* message ids of assignments
  Reports,     \* message ids of completion reports
  None         \* no message

ASSUME DispatchAssumption == None \notin Dispatches \cup Reports

VARIABLES
  status,      \* [Dispatches -> Statuses]: status in _dispatches.json
  settledBy,   \* [Dispatches -> Reports \cup {None}]: report_message_id
  order,       \* the recorded dispatches, oldest created_at first
  call,        \* [Dispatches -> Steps]: the hub_msg call that sends it
  inbox,       \* the assignments the worker's socket or mailbox has taken
  report,      \* [Reports -> ReportType]: what each report says
  transit,     \* reports with a copy still to arrive (socket or mailbox)
  seen         \* the coordinator's _seen_messages, in memory, oldest first

vars == <<status, settledBy, order, call, inbox, report, transit, seen>>

Unreported == {"dispatching", "in_flight", "delivery_failed"}
Settled == {"reported_unverified", "verified"}
Statuses == {"none"} \cup Unreported \cup Settled

\* "route": recorded and about to be routed; "in_flight" and "delivery_failed":
\* routed, and about to write that result.
Steps == {"idle", "route", "in_flight", "delivery_failed"}

\* about: the assignment it answers; exact: it names it in reply_to.
ReportType == [about : Dispatches, exact : BOOLEAN]
Unsent == [about |-> None, exact |-> FALSE]

\* A dispatch carries a report exactly when its status says so.
TypeOK ==
  /\ status \in [Dispatches -> Statuses]
  /\ settledBy \in [Dispatches -> Reports \cup {None}]
  /\ order \in Seq(Dispatches)
  /\ call \in [Dispatches -> Steps]
  /\ inbox \in SUBSET Dispatches
  /\ report \in [Reports -> {Unsent} \cup ReportType]
  /\ transit \in SUBSET Reports
  /\ seen \in Seq(Reports)
  /\ \A d \in Dispatches : settledBy[d] # None <=> status[d] \in Settled

Init ==
  /\ status = [d \in Dispatches |-> "none"]
  /\ settledBy = [d \in Dispatches |-> None]
  /\ order = <<>>
  /\ call = [d \in Dispatches |-> "idle"]
  /\ inbox = {}
  /\ report = [r \in Reports |-> Unsent]
  /\ transit = {}
  /\ seen = <<>>

---------------------------------------------------------------------------
(* The hub_msg tool: record, route, write the delivery result *)

\* record_dispatch for a new message id.
RecordDispatch(d) ==
  /\ call[d] = "idle"
  /\ status[d] = "none"
  /\ status' = [status EXCEPT ![d] = "dispatching"]
  /\ order' = Append(order, d)
  /\ call' = [call EXCEPT ![d] = "route"]
  /\ UNCHANGED <<settledBy, inbox, report, transit, seen>>

RoutesUnrecorded(d) == status[d] \in {"none", "dispatching", "delivery_failed"}

Reroutes(d) == status[d] \in {"dispatching", "delivery_failed"}

\* A replay of the message id finds its record, and is routed again unless it
\* was already delivered.
ReplayDispatch(d) ==
  /\ call[d] = "idle"
  /\ Reroutes(d)
  /\ call' = [call EXCEPT ![d] = "route"]
  /\ UNCHANGED <<status, settledBy, order, inbox, report, transit, seen>>

\* _route_message: the worker's socket or mailbox takes the message, or no such
\* agent is found and nobody does; the router refuses or fails, before or after
\* the worker has it.
Route(d) ==
  /\ call[d] = "route"
  /\ inbox' \in {inbox, inbox \cup {d}}
  /\ \E result \in {"in_flight", "delivery_failed"} :
       call' = [call EXCEPT ![d] = result]
  /\ UNCHANGED <<status, settledBy, order, report, transit, seen>>

TransitionsFromAny(current) == {"in_flight", "delivery_failed"}

DISPATCH_TRANSITIONS(current) ==
  IF current \in Unreported THEN {"in_flight", "delivery_failed"} ELSE {}

\* update_dispatch: the result is written, refused, or cannot be saved.
UpdateDispatch(d) ==
  /\ call[d] \in {"in_flight", "delivery_failed"}
  /\ \/ /\ call[d] \in DISPATCH_TRANSITIONS(status[d])
        /\ status' = [status EXCEPT ![d] = call[d]]
     \/ UNCHANGED status
  /\ call' = [call EXCEPT ![d] = "idle"]
  /\ UNCHANGED <<settledBy, order, inbox, report, transit, seen>>

---------------------------------------------------------------------------
(* The worker's report *)

\* The worker answers an assignment it has, and may name it in reply_to.
WorkerReports(r, d, exact) ==
  /\ report[r] = Unsent
  /\ d \in inbox
  /\ report' = [report EXCEPT ![r] = [about |-> d, exact |-> exact]]
  /\ transit' = transit \cup {r}
  /\ UNCHANGED <<status, settledBy, order, call, inbox, seen>>

\* Mutant of Correlates: worker, thread and task decide, reply_to does not.
CorrelatesByTask(r, d) == TRUE

Correlates(r, d) == report[r].exact => d = report[r].about

FiledNever(r) == FALSE

\* A dispatch that correlates and awaits verification of this very report.
Filed(r) ==
  \E d \in Dispatches :
    Correlates(r, d) /\ status[d] = "reported_unverified" /\ settledBy[d] = r

MatchUnverified(r, d) ==
  Correlates(r, d) /\ status[d] \in Unreported \cup {"reported_unverified"}

Match(r, d) == Correlates(r, d) /\ status[d] \in Unreported

\* record_dispatch_report: the oldest match takes the report.
RecordDispatchReport(r) ==
  \E i \in DOMAIN order :
    /\ ~Filed(r)
    /\ Match(r, order[i])
    /\ \A j \in 1..(i - 1) : ~Match(r, order[j])
    /\ status' = [status EXCEPT ![order[i]] = "reported_unverified"]
    /\ settledBy' = [settledBy EXCEPT ![order[i]] = r]

Seen(r) == \E i \in DOMAIN seen : seen[i] = r

\* _on_hub_message: a copy arrives, the last one or not.  One already seen is
\* dropped.  Otherwise the report is filed; it may match nothing, and a failed
\* write is only logged.
ReceiveReport(r) ==
  /\ r \in transit
  /\ transit' \in {transit, transit \ {r}}
  /\ ~Seen(r)
  /\ seen' = Append(seen, r)
  /\ RecordDispatchReport(r) \/ UNCHANGED <<status, settledBy>>
  /\ UNCHANGED <<order, call, inbox, report>>

DropDuplicate(r) ==
  /\ r \in transit
  /\ Seen(r)
  /\ transit' = transit \ {r}
  /\ UNCHANGED <<status, settledBy, order, call, inbox, report, seen>>

\* A thousand later messages have pushed the oldest one out.
ForgetOldest ==
  /\ seen # <<>>
  /\ seen' = Tail(seen)
  /\ UNCHANGED <<status, settledBy, order, call, inbox, report, transit>>

\* mark_dispatch_verified by the assigner.
MarkVerified(d) ==
  /\ status[d] = "reported_unverified"
  /\ status' = [status EXCEPT ![d] = "verified"]
  /\ UNCHANGED <<settledBy, order, call, inbox, report, transit, seen>>

\* The coordinator's process dies and starts again: the calls in flight and
\* the memory of seen messages are gone, the ledger is not.
Crash ==
  /\ seen # <<>> \/ \E d \in Dispatches : call[d] # "idle"
  /\ call' = [d \in Dispatches |-> "idle"]
  /\ seen' = <<>>
  /\ UNCHANGED <<status, settledBy, order, inbox, report, transit>>

Next ==
  \/ \E d \in Dispatches :
       RecordDispatch(d) \/ ReplayDispatch(d) \/ Route(d) \/ UpdateDispatch(d)
         \/ MarkVerified(d)
  \/ \E r \in Reports, d \in Dispatches, exact \in BOOLEAN :
       WorkerReports(r, d, exact)
  \/ \E r \in Reports : ReceiveReport(r) \/ DropDuplicate(r)
  \/ ForgetOldest
  \/ Crash

Spec == Init /\ [][Next]_vars

---------------------------------------------------------------------------
(* Properties *)

\* "Persist one immutable assignment" comes before routing: no worker has an
\* assignment the ledger would not show a reborn coordinator (hub_msg tool).
WriteAhead == \A d \in inbox : status[d] # "none"

\* update_dispatch records a delivery result "without allowing reports to be
\* bypassed": a late result, a replay or a second report never undoes a report
\* or a verification, nor changes which report it was.
ReportNotUndone ==
  [][\A d \in Dispatches :
       status[d] \in Settled =>
         /\ status'[d] \in Settled
         /\ status[d] = "verified" => status'[d] = "verified"
         /\ settledBy'[d] = settledBy[d]]_vars

\* One report never waits for verification under two dispatches, however often
\* it is delivered and whatever the coordinator has forgotten
\* (record_dispatch_report).
NoReportCountsTwice ==
  \A d, e \in Dispatches :
    status[d] = "reported_unverified" /\ status[e] = "reported_unverified"
      /\ settledBy[d] = settledBy[e] => d = e

\* A report that names its assignment settles that one alone, verified or not,
\* and only if the worker has it: replays, forgotten messages and a verification
\* in between do not let it reach another dispatch of the same worker, thread
\* and task, as one without reply_to does (record_dispatch_report).
NamedReportsAreRight ==
  \A d, e \in Dispatches :
    LET r == settledBy[d] IN
    r # None /\ report[r].exact =>
      /\ d \in inbox
      /\ r = settledBy[e] => d = e

=============================================================================
