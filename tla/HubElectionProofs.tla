------------------------- MODULE HubElectionProofs -------------------------
(***************************************************************************)
(* Proofs about the coordinator election, for any set of agents and with   *)
(* no bound on starts or elections.  The inductive invariant ties the two  *)
(* flags a process keeps (identity.is_coordinator, the position inside     *)
(* try_become_coordinator) to the kernel's lock, and what state.json says  *)
(* to the process that holds the lock.                                     *)
(***************************************************************************)
EXTENDS HubElection, TLAPS

\* The flock has one holder, the process elected or about to publish, and a
\* running hub holds it for no other reason.
LockInv ==
  /\ \A a, b \in lock : a = b
  /\ \A a \in Agents : leads[a] /\ life[a] # "stopping" => a \in lock
  /\ \A a \in Agents : step[a] \in {"publishStart", "publishJoin"} => a \in lock
  /\ \A a \in Agents : life[a] = "down" => step[a] = "idle" /\ joining[a] = 0
                                           /\ leaving[a] = 0 /\ a \notin lock
  /\ LockNotLeaked

\* Process ids are fresh: no two live processes share one, and state.json
\* holds one that was handed out.
PidInv ==
  /\ \A a \in Agents : pid[a] <= lastPid
  /\ \A a \in Agents : life[a] = "down" => pid[a] = 0 /\ ~leads[a]
  /\ \A a, b \in Agents : pid[a] = pid[b] /\ pid[a] # 0 => a = b
  /\ disk.pid <= lastPid

\* state.json describes the process that holds the coordinator role.
StateInv ==
  unwritten \/ \A a \in Agents :
    leads[a] /\ life[a] # "stopping"
      => disk.pid = pid[a] /\ disk.epoch = epoch[a]

IndInv == TypeOK /\ LockInv /\ PidInv /\ StateInv /\ NameMatchesPid

\* The invariant holds before any process has started.
LEMMA InitIndInv == Init => IndInv
<1> SUFFICES ASSUME Init PROVE IndInv
  OBVIOUS
<1>1. TypeOK
  BY ElectionAssumption DEF Init, TypeOK, Lives, Steps
<1>2. LockInv /\ PidInv
  BY DEF Init, LockInv, LockNotLeaked, PidInv
<1>3. StateInv
  BY DEF Init, StateInv
<1>4. NameMatchesPid
  BY DEF Init, NameMatchesPid
<1> QED
  BY <1>1, <1>2, <1>3, <1>4 DEF IndInv

\* Every step keeps the types of the state (all actions of Next).
LEMMA TypeStep == TypeOK /\ [Next]_vars => TypeOK'
<1> SUFFICES ASSUME TypeOK, [Next]_vars PROVE TypeOK'
  OBVIOUS
<1> USE ElectionAssumption DEF TypeOK, Lives, Steps
<1>1. CASE UNCHANGED vars
  BY <1>1 DEF vars, calls, faults
<1>2. ASSUME NEW a \in Agents, NEW isSolo \in BOOLEAN, StartHub(a, isSolo)
      PROVE TypeOK'
  BY <1>2 DEF StartHub, calls, faults
<1>3. ASSUME NEW a \in Agents, TryLock(a) PROVE TypeOK'
  <2>1. joining' \in [Agents -> Nat]
    BY <1>3 DEF TryLock
  <2>2. lock' \in SUBSET Agents
    BY <1>3 DEF TryLock
  <2>3. step' \in [Agents -> Steps]
    BY <1>3 DEF TryLock
  <2>4. leads' \in [Agents -> BOOLEAN]
    BY <1>3 DEF TryLock
  <2> QED
    BY <1>3, <2>1, <2>2, <2>3, <2>4 DEF TryLock, faults
<1>4. ASSUME NEW a \in Agents, PublishState(a) PROVE TypeOK'
  <2>1. disk' \in [pid : Nat, epoch : Nat, name : Agents \cup {NoName}]
    BY <1>4 DEF PublishState, NextEpoch, NameOf
  <2>2. unwritten' \in BOOLEAN /\ unread' \in BOOLEAN
    BY <1>4 DEF PublishState
  <2>3. epoch' \in [Agents -> Nat]
    BY <1>4 DEF PublishState, NextEpoch
  <2>4. leads' \in [Agents -> BOOLEAN] /\ won' \in [Agents -> BOOLEAN]
    BY <1>4 DEF PublishState
  <2>5. lock' \in SUBSET Agents /\ step' \in [Agents -> Steps]
    BY <1>4 DEF PublishState
  <2> QED
    BY <1>4, <2>1, <2>2, <2>3, <2>4, <2>5 DEF PublishState, calls
<1>5. ASSUME NEW a \in Agents, AssignIdentity(a) PROVE TypeOK'
  BY <1>5 DEF AssignIdentity, calls, faults
<1>6. ASSUME NEW a \in Agents, FinishStart(a) PROVE TypeOK'
  BY <1>6 DEF FinishStart, calls, faults
<1>7. ASSUME NEW a \in Agents, StartupFails(a) PROVE TypeOK'
  BY <1>7 DEF StartupFails, calls, faults
<1>8. ASSUME NEW a \in Agents, LeaveHub(a) PROVE TypeOK'
  BY <1>8 DEF LeaveHub, calls, faults
<1>9. ASSUME NEW a \in Agents, JoinHub(a) PROVE TypeOK'
  BY <1>9 DEF JoinHub, calls, faults
<1>10. ASSUME NEW a \in Agents, BeginShutdown(a) PROVE TypeOK'
  BY <1>10 DEF BeginShutdown, calls, faults
<1>11. ASSUME NEW a \in Agents, Release(a) PROVE TypeOK'
  BY <1>11 DEF Release, calls, faults
<1>12. ASSUME NEW a \in Agents, Exit(a) PROVE TypeOK'
  BY <1>12 DEF Exit, calls, faults
<1>13. ASSUME NEW a \in Agents, FinishLeave(a) PROVE TypeOK'
  BY <1>13 DEF FinishLeave, calls, faults
<1> QED
  BY <1>1, <1>2, <1>3, <1>4, <1>5, <1>6, <1>7, <1>8, <1>9, <1>10, <1>11, <1>12, <1>13
  DEF Next

\* Every step keeps the lock's single holder and the flags tied to it
\* (try_become_coordinator, release, set_solo, process exit).
LEMMA LockStep == TypeOK /\ LockInv /\ PidInv /\ [Next]_vars => LockInv'
<1> SUFFICES ASSUME TypeOK, LockInv, PidInv, [Next]_vars PROVE LockInv'
  OBVIOUS
<1> USE DEF TypeOK, LockInv, LockNotLeaked, Up
<1>1. CASE UNCHANGED vars
  BY <1>1 DEF vars, calls, faults
<1>2. ASSUME NEW a \in Agents, NEW isSolo \in BOOLEAN, StartHub(a, isSolo)
      PROVE LockInv'
  BY <1>2 DEF StartHub, calls, faults, PidInv
<1>3. ASSUME NEW a \in Agents, TryLock(a) PROVE LockInv'
  BY <1>3 DEF TryLock, calls, faults, LockGranted
<1>4. ASSUME NEW a \in Agents, PublishState(a) PROVE LockInv'
  BY <1>4 DEF PublishState, calls, faults
<1>5. ASSUME NEW a \in Agents, AssignIdentity(a) PROVE LockInv'
  BY <1>5 DEF AssignIdentity, calls, faults
<1>6. ASSUME NEW a \in Agents, FinishStart(a) PROVE LockInv'
  BY <1>6 DEF FinishStart, calls, faults
<1>7. ASSUME NEW a \in Agents, StartupFails(a) PROVE LockInv'
  BY <1>7 DEF StartupFails, calls, faults
<1>8. ASSUME NEW a \in Agents, LeaveHub(a) PROVE LockInv'
  BY <1>8 DEF LeaveHub, calls, faults, Up
<1>9. ASSUME NEW a \in Agents, JoinHub(a) PROVE LockInv'
  BY <1>9 DEF JoinHub, calls, faults, Up
<1>10. ASSUME NEW a \in Agents, BeginShutdown(a) PROVE LockInv'
  BY <1>10 DEF BeginShutdown, calls, faults, Up
<1>11. ASSUME NEW a \in Agents, Release(a) PROVE LockInv'
  BY <1>11 DEF Release, calls, faults
<1>12. ASSUME NEW a \in Agents, Exit(a) PROVE LockInv'
  BY <1>12 DEF Exit, calls, faults
<1>13. ASSUME NEW a \in Agents, FinishLeave(a) PROVE LockInv'
  BY <1>13 DEF FinishLeave, calls, faults
<1> QED
  BY <1>1, <1>2, <1>3, <1>4, <1>5, <1>6, <1>7, <1>8, <1>9, <1>10, <1>11, <1>12, <1>13
  DEF Next
\* Process ids stay fresh and a process that is down leads nothing.
LEMMA PidStep ==
  TypeOK /\ LockInv /\ PidInv /\ [Next]_vars => PidInv'
<1> SUFFICES ASSUME TypeOK, LockInv, PidInv, [Next]_vars
             PROVE PidInv'
  OBVIOUS
<1> USE ElectionAssumption DEF TypeOK, LockInv, PidInv
<1>1. CASE UNCHANGED vars
  BY <1>1 DEF vars, calls, faults
<1>2. ASSUME NEW a \in Agents, NEW isSolo \in BOOLEAN, StartHub(a, isSolo)
      PROVE PidInv'
  BY <1>2 DEF StartHub, calls, faults
<1>3. ASSUME NEW a \in Agents, TryLock(a) PROVE PidInv'
  BY <1>3 DEF TryLock, calls, faults, LockGranted
<1>4. ASSUME NEW a \in Agents, PublishState(a) PROVE PidInv'
  BY <1>4 DEF PublishState, calls, faults, NextEpoch, NameOf
<1>5. ASSUME NEW a \in Agents, AssignIdentity(a) PROVE PidInv'
  BY <1>5 DEF AssignIdentity, calls, faults, MayRename
<1>6. ASSUME NEW a \in Agents, FinishStart(a) PROVE PidInv'
  BY <1>6 DEF FinishStart, calls, faults
<1>7. ASSUME NEW a \in Agents, StartupFails(a) PROVE PidInv'
  BY <1>7 DEF StartupFails, calls, faults
<1>8. ASSUME NEW a \in Agents, LeaveHub(a) PROVE PidInv'
  BY <1>8 DEF LeaveHub, calls, faults, Up
<1>9. ASSUME NEW a \in Agents, JoinHub(a) PROVE PidInv'
  BY <1>9 DEF JoinHub, calls, faults, Up
<1>10. ASSUME NEW a \in Agents, BeginShutdown(a) PROVE PidInv'
  BY <1>10 DEF BeginShutdown, calls, faults, Up
<1>11. ASSUME NEW a \in Agents, Release(a) PROVE PidInv'
  BY <1>11 DEF Release, calls, faults
<1>12. ASSUME NEW a \in Agents, Exit(a) PROVE PidInv'
  BY <1>12 DEF Exit, calls, faults
<1>13. ASSUME NEW a \in Agents, FinishLeave(a) PROVE PidInv'
  BY <1>13 DEF FinishLeave, calls, faults
<1> QED
  BY <1>1, <1>2, <1>3, <1>4, <1>5, <1>6, <1>7, <1>8, <1>9, <1>10, <1>11, <1>12, <1>13
  DEF Next

\* state.json keeps describing the lock holder: only the holder writes it.
LEMMA StateStep ==
  TypeOK /\ LockInv /\ PidInv /\ StateInv /\ [Next]_vars => StateInv'
<1> SUFFICES ASSUME TypeOK, LockInv, PidInv, StateInv, [Next]_vars
             PROVE StateInv'
  OBVIOUS
<1> USE ElectionAssumption DEF TypeOK, LockInv, PidInv, StateInv
<1>1. CASE UNCHANGED vars
  BY <1>1 DEF vars, calls, faults
<1>2. ASSUME NEW a \in Agents, NEW isSolo \in BOOLEAN, StartHub(a, isSolo)
      PROVE StateInv'
  BY <1>2 DEF StartHub, calls, faults
<1>3. ASSUME NEW a \in Agents, TryLock(a) PROVE StateInv'
  BY <1>3 DEF TryLock, calls, faults, LockGranted
<1>4. ASSUME NEW a \in Agents, PublishState(a) PROVE StateInv'
  BY <1>4 DEF PublishState, calls, faults, NextEpoch, NameOf
<1>5. ASSUME NEW a \in Agents, AssignIdentity(a) PROVE StateInv'
  BY <1>5 DEF AssignIdentity, calls, faults, MayRename
<1>6. ASSUME NEW a \in Agents, FinishStart(a) PROVE StateInv'
  BY <1>6 DEF FinishStart, calls, faults
<1>7. ASSUME NEW a \in Agents, StartupFails(a) PROVE StateInv'
  BY <1>7 DEF StartupFails, calls, faults
<1>8. ASSUME NEW a \in Agents, LeaveHub(a) PROVE StateInv'
  BY <1>8 DEF LeaveHub, calls, faults, Up
<1>9. ASSUME NEW a \in Agents, JoinHub(a) PROVE StateInv'
  BY <1>9 DEF JoinHub, calls, faults, Up
<1>10. ASSUME NEW a \in Agents, BeginShutdown(a) PROVE StateInv'
  BY <1>10 DEF BeginShutdown, calls, faults, Up
<1>11. ASSUME NEW a \in Agents, Release(a) PROVE StateInv'
  BY <1>11 DEF Release, calls, faults
<1>12. ASSUME NEW a \in Agents, Exit(a) PROVE StateInv'
  BY <1>12 DEF Exit, calls, faults
<1>13. ASSUME NEW a \in Agents, FinishLeave(a) PROVE StateInv'
  BY <1>13 DEF FinishLeave, calls, faults
<1> QED
  BY <1>1, <1>2, <1>3, <1>4, <1>5, <1>6, <1>7, <1>8, <1>9, <1>10, <1>11, <1>12, <1>13
  DEF Next

\* The name in state.json stays that of the process it names: update_identity
\* writes only for the coordinator state.json already describes.
LEMMA NameStep ==
  TypeOK /\ LockInv /\ PidInv /\ StateInv /\ NameMatchesPid /\ [Next]_vars => NameMatchesPid'
<1> SUFFICES ASSUME TypeOK, LockInv, PidInv, StateInv, NameMatchesPid, [Next]_vars
             PROVE NameMatchesPid'
  OBVIOUS
<1> USE ElectionAssumption DEF TypeOK, LockInv, PidInv, StateInv, NameMatchesPid, PidAlive
<1>1. CASE UNCHANGED vars
  BY <1>1 DEF vars, calls, faults
<1>2. ASSUME NEW a \in Agents, NEW isSolo \in BOOLEAN, StartHub(a, isSolo)
      PROVE NameMatchesPid'
  BY <1>2 DEF StartHub, calls, faults
<1>3. ASSUME NEW a \in Agents, TryLock(a) PROVE NameMatchesPid'
  BY <1>3 DEF TryLock, calls, faults, LockGranted
<1>4. ASSUME NEW a \in Agents, PublishState(a) PROVE NameMatchesPid'
  BY <1>4 DEF PublishState, calls, faults, NextEpoch, NameOf
<1>5. ASSUME NEW a \in Agents, AssignIdentity(a) PROVE NameMatchesPid'
  BY <1>5 DEF AssignIdentity, calls, faults, MayRename
<1>6. ASSUME NEW a \in Agents, FinishStart(a) PROVE NameMatchesPid'
  BY <1>6 DEF FinishStart, calls, faults
<1>7. ASSUME NEW a \in Agents, StartupFails(a) PROVE NameMatchesPid'
  BY <1>7 DEF StartupFails, calls, faults
<1>8. ASSUME NEW a \in Agents, LeaveHub(a) PROVE NameMatchesPid'
  BY <1>8 DEF LeaveHub, calls, faults, Up
<1>9. ASSUME NEW a \in Agents, JoinHub(a) PROVE NameMatchesPid'
  BY <1>9 DEF JoinHub, calls, faults, Up
<1>10. ASSUME NEW a \in Agents, BeginShutdown(a) PROVE NameMatchesPid'
  BY <1>10 DEF BeginShutdown, calls, faults, Up
<1>11. ASSUME NEW a \in Agents, Release(a) PROVE NameMatchesPid'
  BY <1>11 DEF Release, calls, faults
<1>12. ASSUME NEW a \in Agents, Exit(a) PROVE NameMatchesPid'
  BY <1>12 DEF Exit, calls, faults
<1>13. ASSUME NEW a \in Agents, FinishLeave(a) PROVE NameMatchesPid'
  BY <1>13 DEF FinishLeave, calls, faults
<1> QED
  BY <1>1, <1>2, <1>3, <1>4, <1>5, <1>6, <1>7, <1>8, <1>9, <1>10, <1>11, <1>12, <1>13
  DEF Next

\* The conjunction is inductive.
THEOREM Invariance == Spec => []IndInv
<1>1. IndInv /\ [Next]_vars => IndInv'
  BY TypeStep, LockStep, PidStep, StateStep, NameStep DEF IndInv
<1> QED
  BY InitIndInv, <1>1, PTL DEF Spec

\* Every reachable state is well typed.
THEOREM TypeCorrect == Spec => []TypeOK
<1>1. IndInv => TypeOK
  BY DEF IndInv
<1> QED
  BY Invariance, <1>1, PTL

\* No two processes act as the coordinator at the same time, whatever the
\* order of starts, crashes, failures, /hub leave and /hub join.
THEOREM MutualExclusion == Spec => []OneCoordinator
<1>1. IndInv => OneCoordinator
  BY DEF IndInv, LockInv, OneCoordinator, Acting, Up
<1> QED
  BY Invariance, <1>1, PTL

\* Unless the write of the last election failed, state.json always names the acting coordinator's
\* process and epoch.
THEOREM StateIsCurrent == Spec => []StateNamesActing
<1>1. IndInv => StateNamesActing
  <2> SUFFICES ASSUME IndInv, ~unwritten, NEW a \in Agents, Acting(a)
               PROVE  CurrentCoordinator = pid[a] /\ disk.epoch = epoch[a]
    BY DEF StateNamesActing
  <2>1. disk.pid = pid[a] /\ disk.epoch = epoch[a]
    BY DEF IndInv, StateInv, Acting, Up
  <2> QED
    BY <2>1 DEF CurrentCoordinator, PidAlive
<1> QED
  BY Invariance, <1>1, PTL

\* Unless the write of the last election failed, the name and the pid in state.json never belong to
\* two live processes, although they are written at different times.
THEOREM NameIsCurrent == Spec => []NameMatchesPid
<1>1. IndInv => NameMatchesPid
  BY DEF IndInv
<1> QED
  BY Invariance, <1>1, PTL

\* A running hub that does not lead leaves the lock to the others.
THEOREM LockIsFreed == Spec => []LockNotLeaked
<1>1. IndInv => LockNotLeaked
  BY DEF IndInv, LockInv
<1> QED
  BY Invariance, <1>1, PTL

\* The epoch in state.json never goes back and grows with every new
\* coordinator_pid, unless an election could not read the file.
THEOREM EpochMonotone == Spec => EpochGrows
<1> DEFINE Step == \/ /\ disk'.epoch >= disk.epoch
                      /\ disk'.pid # disk.pid => disk'.epoch > disk.epoch
                   \/ unread' /\ disk'.epoch = 1
<1>1. IndInv /\ [Next]_vars => [Step]_disk
  <2> SUFFICES ASSUME IndInv, [Next]_vars, disk' # disk PROVE Step
    OBVIOUS
  <2> USE DEF IndInv, TypeOK
  <2>1. ASSUME NEW a \in Agents, PublishState(a) PROVE Step
    <3>1. PICK read \in BOOLEAN :
            /\ unread' = ~read
            /\ disk' = [pid |-> pid[a], epoch |-> NextEpoch(a, read),
                        name |-> NameOf(a)]
      BY <2>1 DEF PublishState
    <3>2. CASE read
      BY <3>1, <3>2 DEF NextEpoch
    <3>3. CASE ~read
      <4>1. disk'.epoch = NextEpoch(a, read)
        BY <3>1
      <4>2. NextEpoch(a, read) = 1
        BY <3>3 DEF NextEpoch
      <4>3. unread'
        BY <3>1, <3>3, Zenon
      <4> QED
        BY <4>1, <4>2, <4>3
    <3> QED
      BY <3>2, <3>3
  <2>2. ASSUME NEW a \in Agents, AssignIdentity(a) PROVE Step
    BY <2>2 DEF AssignIdentity
  <2> QED
    BY <2>1, <2>2 DEF Next, vars, StartHub, TryLock, FinishStart, StartupFails,
       LeaveHub, FinishLeave, JoinHub, BeginShutdown, Release, Exit
<1> QED
  BY Invariance, <1>1, PTL DEF Spec, EpochGrows

---------------------------------------------------------------------------
(* Why a supervisor can run without the role: only /hub leave takes it away. *)

Leaves == \E a \in Agents : LeaveHub(a)

\* While nobody leaves, the election won at start-up is still this process's,
\* and no set_solo call of it is in flight.
KeptInv ==
  \A a \in Agents :
    /\ leaving[a] = 0
    /\ won[a] \/ supervisor[a] => /\ leads[a] /\ ~solo[a]
                                  /\ step[a] = "idle" /\ joining[a] = 0
    /\ step[a] \in {"start", "publishStart"} => ~solo[a] /\ joining[a] = 0
    /\ life[a] = "down" => /\ ~won[a] /\ ~supervisor[a]
                           /\ step[a] = "idle" /\ joining[a] = 0

\* A step in which nobody leaves keeps it (_start_hub, try_become_coordinator).
LEMMA KeptStep == TypeOK /\ KeptInv /\ [Next /\ ~Leaves]_vars => KeptInv'
<1> SUFFICES ASSUME TypeOK, KeptInv, [Next /\ ~Leaves]_vars PROVE KeptInv'
  OBVIOUS
<1> USE DEF TypeOK, KeptInv
<1>1. CASE UNCHANGED vars
  BY <1>1 DEF vars, calls, faults
<1>2. ASSUME NEW a \in Agents, NEW isSolo \in BOOLEAN, StartHub(a, isSolo)
      PROVE KeptInv'
  BY <1>2 DEF StartHub, calls, faults
<1>3. ASSUME NEW a \in Agents, TryLock(a) PROVE KeptInv'
  <2>1. /\ ~won[a] /\ ~supervisor[a]
        /\ step[a] = "start" \/ joining[a] > 0
        /\ life[a] # "down"
    BY <1>3 DEF TryLock
  <2>2. /\ UNCHANGED <<life, solo, leaving, won, supervisor>>
        /\ \A b \in Agents \ {a} : /\ leads'[b] = leads[b] /\ step'[b] = step[b]
                                   /\ joining'[b] = joining[b]
    BY <1>3 DEF TryLock
  <2>3. step'[a] \in {"start", "publishStart"}
          => step[a] = "start" /\ joining'[a] = joining[a]
    BY <1>3 DEF TryLock
  <2> QED
    BY <2>1, <2>2, <2>3
<1>4. ASSUME NEW a \in Agents, PublishState(a) PROVE KeptInv'
  <2>1. /\ step'[a] = "idle"
        /\ \A b \in Agents \ {a} : /\ leads'[b] = leads[b] /\ step'[b] = step[b]
                                   /\ won'[b] = won[b]
        /\ UNCHANGED <<life, solo, supervisor, leaving, joining>>
    BY <1>4 DEF PublishState, calls
  <2>2. ~won[a] /\ ~supervisor[a] /\ life[a] # "down"
    BY <1>4 DEF PublishState
  <2>3. won'[a] => step[a] = "publishStart" /\ leads'[a]
    BY <1>4, <2>2 DEF PublishState
  <2> QED
    BY <2>1, <2>2, <2>3
<1>5. ASSUME NEW a \in Agents, AssignIdentity(a) PROVE KeptInv'
  BY <1>5 DEF AssignIdentity, calls, faults
<1>6. ASSUME NEW a \in Agents, FinishStart(a) PROVE KeptInv'
  BY <1>6 DEF FinishStart, calls, faults
<1>7. ASSUME NEW a \in Agents, StartupFails(a) PROVE KeptInv'
  BY <1>7 DEF StartupFails, calls, faults
<1>8. ASSUME NEW a \in Agents, JoinHub(a) PROVE KeptInv'
  BY <1>8 DEF JoinHub, calls, faults, Up
<1>9. ASSUME NEW a \in Agents, BeginShutdown(a) PROVE KeptInv'
  BY <1>9 DEF BeginShutdown, calls, faults, Up
<1>10. ASSUME NEW a \in Agents, Release(a) PROVE KeptInv'
  BY <1>10 DEF Release, calls, faults
<1>11. ASSUME NEW a \in Agents, Exit(a) PROVE KeptInv'
  BY <1>11 DEF Exit, calls, faults
<1>12. ASSUME NEW a \in Agents, FinishLeave(a) PROVE KeptInv'
  BY <1>12 DEF FinishLeave
<1> QED
  BY <1>1, <1>2, <1>3, <1>4, <1>5, <1>6, <1>7, <1>8, <1>9, <1>10, <1>11,
     <1>12
  DEF Next, Leaves

\* Where nobody uses /hub leave, the idle supervisor runs on the coordinator
\* only, through failed start-ups, solo agents that join, crashes and
\* shutdowns: the awaits of _start_hub between the election and the start of
\* the supervisor are harmless by themselves.
THEOREM SupervisorUnlessLeft ==
  Spec /\ [][~Leaves]_vars => []SupervisorOnlyOnCoordinator
<1>1. Init => KeptInv
  BY DEF Init, KeptInv
<1>2. KeptInv => SupervisorOnlyOnCoordinator
  BY DEF KeptInv, SupervisorOnlyOnCoordinator
<1>3. [Next]_vars /\ [~Leaves]_vars => [Next /\ ~Leaves]_vars
  OBVIOUS
<1> QED
  BY TypeCorrect, KeptStep, <1>1, <1>2, <1>3, PTL DEF Spec
=============================================================================
