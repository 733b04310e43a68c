------------------------- MODULE HubDispatchProofs -------------------------
(***************************************************************************)
(* What the dispatch ledger guarantees, for any number of dispatches and    *)
(* reports.  WriteAhead needs that a call past its first step has recorded; *)
(* NoReportCountsTwice needs that a filed report was sent and correlates    *)
(* with its dispatch, so that record_dispatch_report finds it again.        *)
(***************************************************************************)
EXTENDS HubDispatch, TLAPS

CallRecorded == \A d \in Dispatches : call[d] # "idle" => status[d] # "none"

TransitSent == \A r \in transit : report[r] # Unsent

FiledCorrelates ==
  \A d \in Dispatches :
    status[d] = "reported_unverified" =>
      /\ settledBy[d] \in Reports
      /\ report[settledBy[d]] # Unsent
      /\ Correlates(settledBy[d], d)

DispatchInv ==
  /\ TypeOK
  /\ WriteAhead
  /\ CallRecorded
  /\ TransitSent
  /\ FiledCorrelates
  /\ NoReportCountsTwice

\* The initial ledger satisfies the invariant.
LEMMA DispatchInit == Init => DispatchInv
  BY DispatchAssumption
     DEF Init, DispatchInv, TypeOK, WriteAhead, CallRecorded, TransitSent,
         FiledCorrelates, NoReportCountsTwice, Statuses, Settled, Steps, Unsent

\* What record_dispatch_report changes: one dispatch that had no report yet.
LEMMA ReportFiled ==
  ASSUME TypeOK, NEW r \in Reports, RecordDispatchReport(r)
  PROVE  \E d \in Dispatches :
           /\ ~Filed(r)
           /\ Match(r, d)
           /\ status' = [status EXCEPT ![d] = "reported_unverified"]
           /\ settledBy' = [settledBy EXCEPT ![d] = r]
  <1>1. PICK i \in DOMAIN order :
          /\ ~Filed(r)
          /\ Match(r, order[i])
          /\ status' = [status EXCEPT ![order[i]] = "reported_unverified"]
          /\ settledBy' = [settledBy EXCEPT ![order[i]] = r]
    BY DEF RecordDispatchReport
  <1>2. order[i] \in Dispatches
    BY <1>1 DEF TypeOK
  <1> QED
    BY <1>1, <1>2

\* Every step of the hub_msg tool, the inbound path, the verification and a
\* restart preserves the invariant.
LEMMA DispatchStep == DispatchInv /\ [Next]_vars => DispatchInv'
  <1> SUFFICES ASSUME DispatchInv, [Next]_vars
               PROVE  DispatchInv'
    OBVIOUS
  <1> USE DEF DispatchInv
  <1>1. ASSUME NEW d \in Dispatches, RecordDispatch(d)
        PROVE  DispatchInv'
    <2>1. TypeOK'
      BY <1>1 DEF RecordDispatch, TypeOK, Statuses, Unreported, Settled, Steps
    <2>2. WriteAhead' /\ CallRecorded' /\ TransitSent'
      BY <1>1 DEF RecordDispatch, TypeOK, WriteAhead, CallRecorded,
                  TransitSent
    <2>3. FiledCorrelates' /\ NoReportCountsTwice'
      BY <1>1 DEF RecordDispatch, TypeOK, FiledCorrelates,
                  NoReportCountsTwice, Correlates
    <2> QED
      BY <2>1, <2>2, <2>3
  <1>2. ASSUME NEW d \in Dispatches, ReplayDispatch(d) \/ Route(d)
        PROVE  DispatchInv'
    <2>1. TypeOK'
      BY <1>2 DEF ReplayDispatch, Route, TypeOK, Steps
    <2>2. WriteAhead' /\ CallRecorded' /\ TransitSent'
      BY <1>2 DEF ReplayDispatch, Reroutes, Route, TypeOK, WriteAhead,
                  CallRecorded, TransitSent
    <2>3. FiledCorrelates' /\ NoReportCountsTwice'
      BY <1>2 DEF ReplayDispatch, Route, FiledCorrelates, NoReportCountsTwice,
                  Correlates
    <2> QED
      BY <2>1, <2>2, <2>3
  <1>3. ASSUME NEW d \in Dispatches, UpdateDispatch(d)
        PROVE  DispatchInv'
    <2>1. TypeOK'
      BY <1>3 DEF UpdateDispatch, DISPATCH_TRANSITIONS, TypeOK, Steps, Statuses,
                  Unreported, Settled
    <2>2. WriteAhead' /\ CallRecorded' /\ TransitSent'
      BY <1>3 DEF UpdateDispatch, TypeOK, WriteAhead, CallRecorded, TransitSent
    <2>3. FiledCorrelates' /\ NoReportCountsTwice'
      BY <1>3 DEF UpdateDispatch, TypeOK, FiledCorrelates, NoReportCountsTwice,
                  Correlates
    <2> QED
      BY <2>1, <2>2, <2>3
  <1>4. ASSUME NEW r \in Reports, NEW d \in Dispatches, NEW exact \in BOOLEAN,
               WorkerReports(r, d, exact)
        PROVE  DispatchInv'
    <2>1. TypeOK'
      BY <1>4 DEF WorkerReports, TypeOK, ReportType
    <2>2. WriteAhead' /\ CallRecorded' /\ NoReportCountsTwice'
      BY <1>4 DEF WorkerReports, WriteAhead, CallRecorded, NoReportCountsTwice
    <2>3. report \in [Reports -> {Unsent} \cup ReportType] /\ transit \subseteq Reports
      BY DEF TypeOK
    <2>4. report'[r] # Unsent /\ \A s \in Reports \ {r} : report'[s] = report[s]
      BY <1>4, <2>3, DispatchAssumption DEF WorkerReports, Unsent
    <2>5. TransitSent'
      BY <1>4, <2>3, <2>4 DEF WorkerReports, TransitSent
    <2>6. FiledCorrelates'
      BY <1>4, <2>4 DEF WorkerReports, FiledCorrelates, Correlates
    <2> QED
      BY <2>1, <2>2, <2>5, <2>6
  <1>5. ASSUME NEW r \in Reports, ReceiveReport(r)
        PROVE  DispatchInv'
    <2>1. CASE UNCHANGED <<status, settledBy>>
      BY <1>5, <2>1 DEF ReceiveReport, TypeOK, WriteAhead, CallRecorded,
                        TransitSent, FiledCorrelates, NoReportCountsTwice, Correlates
    <2>2. CASE RecordDispatchReport(r)
      <3>1. PICK d \in Dispatches :
              /\ ~Filed(r)
              /\ Match(r, d)
              /\ status' = [status EXCEPT ![d] = "reported_unverified"]
              /\ settledBy' = [settledBy EXCEPT ![d] = r]
        BY <2>2, ReportFiled
      <3>2. TypeOK'
        BY <1>5, <3>1, DispatchAssumption
           DEF ReceiveReport, TypeOK, Match, Statuses, Unreported, Settled
      <3>3. WriteAhead' /\ CallRecorded' /\ TransitSent'
        BY <1>5, <3>1 DEF ReceiveReport, TypeOK, WriteAhead, CallRecorded, TransitSent
      <3>4. FiledCorrelates'
        BY <1>5, <3>1 DEF ReceiveReport, TypeOK, TransitSent, FiledCorrelates,
                          Correlates, Match
      <3>5. NoReportCountsTwice'
        BY <1>5, <3>1 DEF ReceiveReport, TypeOK, FiledCorrelates, Filed,
                          NoReportCountsTwice
      <3> QED
        BY <3>2, <3>3, <3>4, <3>5
    <2> QED
      BY <1>5, <2>1, <2>2 DEF ReceiveReport
  <1>6. ASSUME NEW d \in Dispatches, MarkVerified(d)
        PROVE  DispatchInv'
    BY <1>6 DEF MarkVerified, TypeOK, Statuses, Settled, WriteAhead, CallRecorded,
                TransitSent, FiledCorrelates, NoReportCountsTwice, Correlates
  <1>7. ASSUME NEW r \in Reports, DropDuplicate(r)
        PROVE  DispatchInv'
    BY <1>7 DEF DropDuplicate, TypeOK, WriteAhead, CallRecorded, TransitSent,
                FiledCorrelates, NoReportCountsTwice, Correlates
  <1>8. CASE ForgetOldest
    <2>1. TypeOK'
      BY <1>8 DEF ForgetOldest, TypeOK
    <2> QED
      BY <1>8, <2>1 DEF ForgetOldest, WriteAhead, CallRecorded, TransitSent,
                        FiledCorrelates, NoReportCountsTwice, Correlates
  <1>9. CASE Crash
    <2>1. TypeOK'
      BY <1>9 DEF Crash, TypeOK, Steps
    <2> QED
      BY <1>9, <2>1 DEF Crash, WriteAhead, CallRecorded, TransitSent,
                        FiledCorrelates, NoReportCountsTwice, Correlates
  <1>10. CASE UNCHANGED vars
    BY <1>10 DEF vars, TypeOK, WriteAhead, CallRecorded, TransitSent,
                FiledCorrelates, NoReportCountsTwice, Correlates
  <1> QED
    BY <1>1, <1>2, <1>3, <1>4, <1>5, <1>6, <1>7, <1>8, <1>9, <1>10 DEF Next

\* No worker ever has an assignment that is not in the ledger, and no report
\* waits for verification under two dispatches.
THEOREM LedgerIsSound == Spec => [](TypeOK /\ WriteAhead /\ NoReportCountsTwice)
  <1>1. DispatchInv => TypeOK /\ WriteAhead /\ NoReportCountsTwice
    BY DEF DispatchInv
  <1> QED
    BY <1>1, DispatchInit, DispatchStep, PTL DEF Spec

\* Every status, report, call and message in transit keeps its type.
THEOREM TypeCorrect == Spec => []TypeOK
  BY LedgerIsSound, PTL

\* No worker ever has an assignment that the ledger does not know: the record is
\* written before the message is routed, on replays and after restarts too.
THEOREM SentIsRecorded == Spec => []WriteAhead
  BY LedgerIsSound, PTL

\* Nothing that happens after a report undoes it: no late delivery result, no
\* replay of the assignment, no second report and no restart.
THEOREM ReportIsFinal == Spec => ReportNotUndone
  <1> DEFINE Final ==
        \A d \in Dispatches :
          status[d] \in Settled =>
            /\ status'[d] \in Settled
            /\ status[d] = "verified" => status'[d] = "verified"
            /\ settledBy'[d] = settledBy[d]
  <1>1. ASSUME TypeOK, [Next]_vars
        PROVE  Final
    <2>1. ASSUME NEW d \in Dispatches, RecordDispatch(d)
          PROVE  Final
      BY <1>1, <2>1 DEF RecordDispatch, TypeOK, Settled
    <2>2. ASSUME NEW d \in Dispatches, UpdateDispatch(d)
          PROVE  Final
      BY <1>1, <2>2 DEF UpdateDispatch, DISPATCH_TRANSITIONS, Unreported, TypeOK, Settled
    <2>3. ASSUME NEW r \in Reports, ReceiveReport(r)
          PROVE  Final
      <3>1. CASE UNCHANGED <<status, settledBy>>
        BY <3>1
      <3>2. CASE RecordDispatchReport(r)
        BY <1>1, <3>2, ReportFiled DEF Match, Unreported, TypeOK, Settled
      <3> QED
        BY <2>3, <3>1, <3>2 DEF ReceiveReport
    <2>4. ASSUME NEW d \in Dispatches, MarkVerified(d)
          PROVE  Final
      BY <1>1, <2>4 DEF MarkVerified, TypeOK, Settled
    <2>5. CASE UNCHANGED <<status, settledBy>>
      BY <2>5
    <2> QED
      BY <1>1, <2>1, <2>2, <2>3, <2>4, <2>5
         DEF Next, vars, ReplayDispatch, Route, WorkerReports, DropDuplicate, ForgetOldest,
             Crash
  <1>2. TypeOK /\ [Next]_vars => [Final]_vars
    BY <1>1
  <1> QED
    BY <1>2, LedgerIsSound, PTL DEF Spec, ReportNotUndone

---------------------------------------------------------------------------
(* Reports that name their assignment *)

\* A report was sent by a worker that has the assignment it is about, and every
\* report in the ledger, verified or not, correlates with its dispatch.
NamedInv ==
  /\ \A r \in Reports : report[r] # Unsent => report[r].about \in inbox
  /\ \A d \in Dispatches :
       settledBy[d] # None =>
         /\ settledBy[d] \in Reports
         /\ report[settledBy[d]] # Unsent
         /\ Correlates(settledBy[d], d)

LEMMA NamedInit == Init => NamedInv
  BY DEF Init, NamedInv

LEMMA NamedStep == DispatchInv /\ NamedInv /\ [Next]_vars => NamedInv'
  <1> SUFFICES ASSUME DispatchInv, NamedInv, [Next]_vars
               PROVE  NamedInv'
    OBVIOUS
  <1>1. CASE UNCHANGED <<settledBy, report>> /\ inbox \subseteq inbox'
    BY <1>1 DEF NamedInv, Correlates
  <1>2. ASSUME NEW r \in Reports, NEW d \in Dispatches, NEW exact \in BOOLEAN,
               WorkerReports(r, d, exact)
        PROVE  NamedInv'
    <2>1. report \in [Reports -> {Unsent} \cup ReportType]
      BY DEF DispatchInv, TypeOK
    <2>2. /\ \A s \in Reports \ {r} : report'[s] = report[s]
          /\ report'[r] = [about |-> d, exact |-> exact]
          /\ report[r] = Unsent /\ d \in inbox /\ UNCHANGED <<inbox, settledBy>>
      BY <1>2, <2>1 DEF WorkerReports
    <2>3. \A s \in Reports : report'[s] # Unsent => report'[s].about \in inbox'
      BY <2>2 DEF NamedInv
    <2>4. \A e \in Dispatches : settledBy[e] # None => settledBy[e] # r
      BY <2>2 DEF NamedInv
    <2> QED
      BY <2>2, <2>3, <2>4 DEF NamedInv, Correlates
  <1>3. ASSUME NEW r \in Reports, ReceiveReport(r)
        PROVE  NamedInv'
    <2>1. CASE UNCHANGED <<status, settledBy>>
      BY <1>1, <1>3, <2>1 DEF ReceiveReport
    <2>2. CASE RecordDispatchReport(r)
      <3>1. PICK d \in Dispatches :
              Match(r, d) /\ settledBy' = [settledBy EXCEPT ![d] = r]
        BY <2>2, ReportFiled DEF DispatchInv
      <3>2. report[r] # Unsent /\ UNCHANGED <<report, inbox>>
        BY <1>3 DEF ReceiveReport, DispatchInv, TransitSent
      <3> QED
        BY <3>1, <3>2 DEF NamedInv, Match, Correlates, DispatchInv, TypeOK
    <2> QED
      BY <1>3, <2>1, <2>2 DEF ReceiveReport
  <1> QED
    BY <1>1, <1>2, <1>3
       DEF Next, vars, RecordDispatch, ReplayDispatch, Route, UpdateDispatch,
           MarkVerified, DropDuplicate, ForgetOldest, Crash

\* A report with reply_to is filed under the assignment it answers and no
\* other, for any number of dispatches, copies and restarts, also after the
\* verification that lets NoReportCountsTwice forget it.
THEOREM NamedReportsStand == Spec => []NamedReportsAreRight
  <1>1. TypeOK /\ NamedInv => NamedReportsAreRight
    <2> SUFFICES ASSUME TypeOK, NamedInv, NEW d \in Dispatches, NEW e \in Dispatches,
                        settledBy[d] # None, report[settledBy[d]].exact
                 PROVE  d \in inbox /\ (settledBy[d] = settledBy[e] => d = e)
      BY DEF NamedReportsAreRight
    <2>1. d = report[settledBy[d]].about
      BY DEF NamedInv, Correlates
    <2>2. d \in inbox
      BY <2>1 DEF NamedInv
    <2>3. settledBy[d] = settledBy[e] => e = report[settledBy[d]].about
      BY DEF NamedInv, Correlates
    <2> QED
      BY <2>1, <2>2, <2>3
  <1>2. DispatchInv => TypeOK
    BY DEF DispatchInv
  <1> QED
    BY <1>1, <1>2, DispatchInit, DispatchStep, NamedInit, NamedStep, PTL DEF Spec
=============================================================================
