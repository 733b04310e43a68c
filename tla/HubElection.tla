---------------------------- MODULE HubElection ----------------------------
(***************************************************************************)
(* Coordinator election of the agent hub (plugins/hub/coordinator.py,      *)
(* class CoordinatorElection) together with its callers in                 *)
(* plugins/hub/plugin.py: _start_hub, set_solo and shutdown.               *)
(*                                                                         *)
(* Every agent is one process.  The election is a non-blocking flock() on  *)
(* hub.lock; the winner bumps the epoch kept in state.json and writes its  *)
(* own pid there.  The kernel drops the lock when the process dies.  Peers *)
(* find the coordinator by reading state.json and probing the pid.         *)
(*                                                                         *)
(* _start_hub keeps the election result in the local is_coordinator across *)
(* many awaits and only then starts the coordinator-only tasks; set_solo   *)
(* (the /hub leave and /hub join commands) may run in between, and awaits  *)
(* itself between flipping identity.solo and touching the election.        *)
(***************************************************************************)
EXTENDS Integers, FiniteSets

CONSTANTS
  Agents,      \* the agent processes of one hub directory
  MaxPid,      \* bound: process starts in one behaviour
  MaxEpoch,    \* bound: the highest epoch of one behaviour
  MaxCommands, \* bound: set_solo calls of one process in flight
  NoName       \* the empty identity of a coordinator not yet named

ASSUME ElectionAssumption ==
  /\ MaxPid \in Nat
  /\ MaxEpoch \in Nat
  /\ MaxCommands \in Nat
  /\ NoName \notin Agents

VARIABLES
  life,        \* [Agents -> Lives], how far _start_hub or shutdown got
  step,        \* [Agents -> Steps], position inside try_become_coordinator
  solo,        \* identity.solo
  leaving,     \* set_solo(True) calls still awaiting the hooks
  joining,     \* set_solo(False) calls still awaiting the hooks
  leads,       \* identity.is_coordinator
  won,         \* the local is_coordinator of _start_hub, while that runs
  epoch,       \* CoordinatorElection._epoch
  supervisor,  \* the idle supervisor task of _supervisor_loop is running
  pid,         \* process id, 0 while the process does not exist
  lastPid,     \* last process id handed out
  lock,        \* holders of the flock on hub.lock: {} or one agent
  disk,        \* state.json: coordinator_pid, epoch, coordinator_identity
  unwritten,   \* history: the last election's write of state.json failed
  unread       \* history: the last election could not read state.json

vars == <<life, step, solo, leaving, joining, leads, won, epoch, supervisor,
          pid, lastPid, lock, disk, unwritten, unread>>

calls == <<leaving, joining>>
faults == <<unwritten, unread>>

Lives == {"down", "booting", "named", "running", "failed", "stopping"}
Steps == {"idle", "start", "publishStart", "publishJoin"}

TypeOK ==
  /\ life \in [Agents -> Lives]
  /\ step \in [Agents -> Steps]
  /\ solo \in [Agents -> BOOLEAN]
  /\ leaving \in [Agents -> Nat]
  /\ joining \in [Agents -> Nat]
  /\ leads \in [Agents -> BOOLEAN]
  /\ won \in [Agents -> BOOLEAN]
  /\ epoch \in [Agents -> Nat]
  /\ supervisor \in [Agents -> BOOLEAN]
  /\ pid \in [Agents -> Nat]
  /\ lastPid \in Nat
  /\ lock \in SUBSET Agents
  /\ disk \in [pid : Nat, epoch : Nat, name : Agents \cup {NoName}]
  /\ unwritten \in BOOLEAN
  /\ unread \in BOOLEAN

Init ==
  /\ life = [a \in Agents |-> "down"]
  /\ step = [a \in Agents |-> "idle"]
  /\ solo = [a \in Agents |-> FALSE]
  /\ leaving = [a \in Agents |-> 0]
  /\ joining = [a \in Agents |-> 0]
  /\ leads = [a \in Agents |-> FALSE]
  /\ won = [a \in Agents |-> FALSE]
  /\ epoch = [a \in Agents |-> 0]
  /\ supervisor = [a \in Agents |-> FALSE]
  /\ pid = [a \in Agents |-> 0]
  /\ lastPid = 0
  /\ lock = {}
  /\ disk = [pid |-> 0, epoch |-> 0, name |-> NoName]
  /\ unwritten = FALSE
  /\ unread = FALSE

---------------------------------------------------------------------------
(* What a peer sees: get_current_coordinator and pid_alive.                *)

PidAlive(n) == n # 0 /\ \E a \in Agents : pid[a] = n

\* 0 stands for None: no state.json, or its process is gone.
CurrentCoordinator == IF PidAlive(disk.pid) THEN disk.pid ELSE 0

\* The hub of this process is up, or still inside _start_hub.
Up(a) == life[a] \in {"booting", "named", "running"}

\* The process may act as the coordinator: its loops run and test
\* identity.is_coordinator.
Acting(a) == leads[a] /\ Up(a)

---------------------------------------------------------------------------
(* A new process reaches _start_hub.  A solo agent skips the election.     *)
StartHub(a, isSolo) ==
  /\ life[a] = "down"
  /\ lastPid < MaxPid
  /\ lastPid' = lastPid + 1
  /\ pid' = [pid EXCEPT ![a] = lastPid + 1]
  /\ life' = [life EXCEPT ![a] = "booting"]
  /\ solo' = [solo EXCEPT ![a] = isSolo]
  /\ step' = [step EXCEPT ![a] = IF isSolo THEN "idle" ELSE "start"]
  /\ UNCHANGED <<calls, leads, won, epoch, supervisor, lock, disk, faults>>

LockIgnored(a) == joining[a] > 0 \/ lock \subseteq {a}

\* The flock is free, or this process holds it: opening hub.lock again drops
\* the file object that held it.
LockGranted(a) == lock \subseteq {a}

(* try_become_coordinator of _start_hub, or of a set_solo(False) whose     *)
(* hooks are registered.  It fails when another process holds the lock or  *)
(* hub.lock cannot be opened, and closes the file it had open before.      *)
TryLock(a) ==
  /\ step[a] = "start" \/ (step[a] = "idle" /\ joining[a] > 0)
  /\ disk.epoch < MaxEpoch
  /\ joining' = [joining EXCEPT ![a] = IF step[a] = "start" THEN @ ELSE @ - 1]
  /\ \/ /\ LockGranted(a)
        /\ lock' = lock \cup {a}
        /\ step' = [step EXCEPT ![a] = IF @ = "start" THEN "publishStart"
                                                      ELSE "publishJoin"]
        /\ UNCHANGED leads
     \/ /\ lock' = lock \ {a}
        /\ step' = [step EXCEPT ![a] = "idle"]
        /\ leads' = [leads EXCEPT ![a] = FALSE]
  /\ UNCHANGED <<life, solo, leaving, won, epoch, supervisor, pid, lastPid,
                 disk, faults>>

EpochUnset(a, read) == (IF read THEN disk.epoch ELSE 0) - 1

EpochFromMemory(a, read) == (IF read THEN epoch[a] ELSE 0) + 1

\* _read_epoch() + 1: the next epoch counts on from the file, or from 0 when
\* the file cannot be read or parsed.
NextEpoch(a, read) == (IF read THEN disk.epoch ELSE 0) + 1

\* identity.identity at election time: empty until the identity is assigned.
NameOf(a) == IF life[a] = "booting" THEN NoName ELSE a

(* The winner takes the next epoch and writes state.json.  _atomic_write   *)
(* swallows its errors, so the file may keep the previous election.  If    *)
(* hub.lock itself cannot be written, the election is lost after all: the  *)
(* lock is dropped, and state.json keeps what was written.                 *)
PublishState(a) ==
  /\ step[a] \in {"publishStart", "publishJoin"}
  /\ \E read \in BOOLEAN :
       /\ unread' = ~read
       /\ epoch' = [epoch EXCEPT ![a] = NextEpoch(a, read)]
       /\ \/ /\ disk' = [pid |-> pid[a], epoch |-> NextEpoch(a, read),
                         name |-> NameOf(a)]
             /\ unwritten' = FALSE
          \/ UNCHANGED disk /\ unwritten' = TRUE
  /\ \/ /\ leads' = [leads EXCEPT ![a] = TRUE]
        /\ won' = [won EXCEPT ![a] = @ \/ step[a] = "publishStart"]
        /\ UNCHANGED lock
     \/ /\ leads' = [leads EXCEPT ![a] = FALSE]
        /\ lock' = lock \ {a}
        /\ UNCHANGED won
  /\ step' = [step EXCEPT ![a] = "idle"]
  /\ UNCHANGED <<life, solo, calls, supervisor, pid, lastPid>>

RenameIfElectedAtStart(a) == won[a]

\* identity.is_coordinator and CoordinatorElection._is_coordinator, which
\* _start_hub and update_identity test before they touch state.json.
MayRename(a) == leads[a]

(* _start_hub assigns the identity, long after the election, and           *)
(* update_identity patches it into state.json, a write that may fail too.  *)
AssignIdentity(a) ==
  /\ life[a] = "booting"
  /\ step[a] = "idle"
  /\ life' = [life EXCEPT ![a] = "named"]
  /\ \/ MayRename(a) /\ disk.epoch > 0 /\ disk' = [disk EXCEPT !.name = a]
     \/ UNCHANGED disk
  /\ UNCHANGED <<step, solo, calls, leads, won, epoch, supervisor, pid, lastPid,
                 lock, faults>>

(* The end of _start_hub: coordinator-only tasks start on the strength of  *)
(* the local is_coordinator, read many awaits earlier.                     *)
FinishStart(a) ==
  /\ life[a] = "named"
  /\ step[a] = "idle"
  /\ life' = [life EXCEPT ![a] = "running"]
  /\ supervisor' = [supervisor EXCEPT ![a] = won[a]]
  /\ won' = [won EXCEPT ![a] = FALSE]
  /\ UNCHANGED <<step, solo, calls, leads, epoch, pid, lastPid, lock, disk,
                 faults>>

(* _start_hub gives up (the socket does not bind, or any exception): the   *)
(* process lives on without a hub and nothing releases the lock.           *)
StartupFails(a) ==
  /\ life[a] \in {"booting", "named"}
  /\ step[a] = "idle"
  /\ life' = [life EXCEPT ![a] = "failed"]
  /\ won' = [won EXCEPT ![a] = FALSE]
  /\ UNCHANGED <<step, solo, calls, leads, epoch, supervisor, pid, lastPid,
                 lock, disk, faults>>

(* set_solo(True), the /hub leave command, up to the awaits that take the  *)
(* hooks off.                                                              *)
LeaveHub(a) ==
  /\ Up(a) \/ life[a] = "failed"
  /\ step[a] = "idle"
  /\ ~solo[a]
  /\ leaving[a] + joining[a] < MaxCommands
  /\ solo' = [solo EXCEPT ![a] = TRUE]
  /\ leaving' = [leaving EXCEPT ![a] = @ + 1]
  /\ UNCHANGED <<life, step, joining, leads, won, epoch, supervisor, pid,
                 lastPid, lock, disk, faults>>

LeaveKeepsLock(a) ==
  /\ step[a] = "idle"
  /\ leaving[a] > 0
  /\ leaving' = [leaving EXCEPT ![a] = @ - 1]
  /\ lock' = IF leads[a] /\ solo[a] THEN lock \ {a} ELSE lock
  /\ leads' = [leads EXCEPT ![a] = FALSE]
  /\ UNCHANGED <<life, step, solo, joining, won, epoch, supervisor, pid,
                 lastPid, disk, faults>>

(* The rest of set_solo(True): a coordinator gives the role up, also when  *)
(* a set_solo(False) overtook it.  The supervisor keeps running and        *)
(* state.json keeps naming this process.                                   *)
FinishLeave(a) ==
  /\ step[a] = "idle"
  /\ leaving[a] > 0
  /\ leaving' = [leaving EXCEPT ![a] = @ - 1]
  /\ lock' = IF leads[a] THEN lock \ {a} ELSE lock
  /\ leads' = [leads EXCEPT ![a] = FALSE]
  /\ UNCHANGED <<life, step, solo, joining, won, epoch, supervisor, pid,
                 lastPid, disk, faults>>

(* set_solo(False), the /hub join command, up to the await that puts the   *)
(* hooks back; TryLock goes on from there.  No coordinator-only task is    *)
(* started.                                                                *)
JoinHub(a) ==
  /\ Up(a) \/ life[a] = "failed"
  /\ step[a] = "idle"
  /\ solo[a]
  /\ leaving[a] + joining[a] < MaxCommands
  /\ solo' = [solo EXCEPT ![a] = FALSE]
  /\ joining' = [joining EXCEPT ![a] = @ + 1]
  /\ UNCHANGED <<life, step, leaving, leads, won, epoch, supervisor, pid,
                 lastPid, lock, disk, faults>>

(* shutdown: the tasks are cancelled first, the lock is released last.     *)
BeginShutdown(a) ==
  /\ Up(a) \/ life[a] = "failed"
  /\ step[a] = "idle"
  /\ life' = [life EXCEPT ![a] = "stopping"]
  /\ won' = [won EXCEPT ![a] = FALSE]
  /\ supervisor' = [supervisor EXCEPT ![a] = FALSE]
  /\ UNCHANGED <<step, solo, calls, leads, epoch, pid, lastPid, lock, disk,
                 faults>>

(* The last step of shutdown: release() drops the flock.  It comes after   *)
(* many awaits, or never, when an exception escapes one of them (only the  *)
(* departure messages are guarded).                                        *)
Release(a) ==
  /\ life[a] = "stopping"
  /\ step[a] = "idle"
  /\ lock' = lock \ {a}
  /\ UNCHANGED <<life, step, solo, calls, leads, won, epoch, supervisor, pid,
                 lastPid, disk, faults>>

(* The process is gone: after shutdown, or killed at any point.  The       *)
(* kernel closes its files, which drops the flock.                         *)
Exit(a) ==
  /\ life[a] # "down"
  /\ life' = [life EXCEPT ![a] = "down"]
  /\ step' = [step EXCEPT ![a] = "idle"]
  /\ solo' = [solo EXCEPT ![a] = FALSE]
  /\ leaving' = [leaving EXCEPT ![a] = 0]
  /\ joining' = [joining EXCEPT ![a] = 0]
  /\ leads' = [leads EXCEPT ![a] = FALSE]
  /\ won' = [won EXCEPT ![a] = FALSE]
  /\ epoch' = [epoch EXCEPT ![a] = 0]
  /\ supervisor' = [supervisor EXCEPT ![a] = FALSE]
  /\ pid' = [pid EXCEPT ![a] = 0]
  /\ lock' = lock \ {a}
  /\ UNCHANGED <<lastPid, disk, faults>>

Next ==
  \E a \in Agents :
    \/ \E isSolo \in BOOLEAN : StartHub(a, isSolo)
    \/ TryLock(a)
    \/ PublishState(a)
    \/ AssignIdentity(a)
    \/ FinishStart(a)
    \/ StartupFails(a)
    \/ LeaveHub(a)
    \/ FinishLeave(a)
    \/ JoinHub(a)
    \/ BeginShutdown(a)
    \/ Release(a)
    \/ Exit(a)

Spec == Init /\ [][Next]_vars

---------------------------------------------------------------------------
(* Properties *)

\* At most one process acts as the coordinator, through starts, crashes,
\* failed start-ups, /hub leave and /hub join in any order and overlapping
\* (try_become_coordinator, release, set_solo).
OneCoordinator ==
  \A a, b \in Agents : Acting(a) /\ Acting(b) => a = b

\* Whoever acts as the coordinator is the process state.json sends the peers
\* to, under the epoch it believes it was elected in (get_current_coordinator),
\* unless the write of that election failed.
StateNamesActing ==
  unwritten \/ \A a \in Agents :
    Acting(a) => CurrentCoordinator = pid[a] /\ disk.epoch = epoch[a]

\* The name and the pid in state.json are never those of two live processes:
\* update_identity runs long after the election and must not rename the
\* coordinator elected in between.  A failed write of an election lasts until
\* the next election.
NameMatchesPid ==
  \/ unwritten
  \/ disk.name = NoName
  \/ PidAlive(disk.pid) => pid[disk.name] = disk.pid

\* The epoch in state.json never goes back, and a new coordinator_pid comes
\* with a new epoch (try_become_coordinator): the one exception is an election
\* that could not read the file, which starts again at 1 (_read_epoch).
EpochGrows ==
  [][ \/ /\ disk'.epoch >= disk.epoch
         /\ disk'.pid # disk.pid => disk'.epoch > disk.epoch
      \/ unread' /\ disk'.epoch = 1 ]_disk

\* hub.lock is not leaked: a process whose hub runs holds it only while it
\* leads or is inside an election, through lost elections, leaves overtaken by
\* joins and failed writes.  Only a failed start-up and a shutdown keep the lock
\* from the mesh (try_become_coordinator, release, set_solo).
LockNotLeaked ==
  \A a \in lock : Up(a) => leads[a] \/ step[a] # "idle"

\* plugin.py:7351 and 6490: the idle supervisor is "coordinator only".
SupervisorOnlyOnCoordinator ==
  \A a \in Agents : supervisor[a] => leads[a]

=============================================================================
