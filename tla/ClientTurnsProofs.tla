--------------------------- MODULE ClientTurnsProofs ---------------------------
(***************************************************************************)
(* One end per request and no run after the end, for any number of turns,   *)
(* chats, wakes and stops.  OneEnd is not inductive: TurnInv says who may   *)
(* still end a client turn, ChatInv that a chat is in one place at a time   *)
(* and unanswered while it is in any.                                       *)
(***************************************************************************)
EXTENDS ClientTurns, TLAPS

\* Turns are numbered in order of admission and leave the broker in that order.
InOrder ==
  /\ waiting <= lastTurn
  /\ \A i \in 1..Len(pending) :
       /\ pending[i] <= lastTurn
       /\ active < pending[i]
       /\ waiting < pending[i]
  /\ \A i, j \in 1..Len(pending) : i < j => pending[i] < pending[j]

\* A turn nobody has ended has told its client nothing, and only the active one
\* may still be ended by a chain.
TurnInv ==
  /\ InOrder
  /\ \A t \in Turns :
       /\ told[t] <= 1
       /\ t \in admitted \ completed => told[t] = 0
       /\ t \in admitted \cap completed => t = active
       /\ t > lastTurn => told[t] = 0 /\ t \notin admitted \cup completed
       /\ chain[t] # "none" => t \in completed \/ t = active
       /\ t \in admitting => t = active /\ t \notin completed /\ worker = "hooks"
  /\ active # None => active \in completed \cup admitted
  /\ closing = "begun" => active = None \/ active \in completed
  /\ worker = "hooks" => chain[active] = "none"

Waits(o, c) == chain[o] = "lock" /\ c \in batch[o]

\* A chat is on its way, in the queue, in the batch of one chain or among the
\* ids a chain answers; as long as it is, its follower has heard nothing.
ChatInv ==
  \A c \in Chats :
    /\ told[c] <= 1
    /\ c \in toCome \cup admitting \cup InQueue \cup answers => told[c] = 0
    /\ c \in toCome => c \notin admitting \cup InQueue \cup answers
    /\ c \in admitting => c \notin InQueue \cup answers
    /\ c \in InQueue => c \notin answers
    /\ \A o \in Owners :
         Waits(o, c) =>
           /\ told[c] = 0
           /\ c \notin toCome \cup admitting \cup InQueue \cup answers
           /\ \A p \in Owners \ {o} : ~Waits(p, c)

IndInv == TypeOK /\ TurnInv /\ ChatInv

---------------------------------------------------------------------------
(* The building blocks of the actions *)

LEMMA Sorts ==
  /\ Turns \subseteq Ids /\ Chats \subseteq Ids /\ Ids \subseteq Owners
  /\ Wakes \subseteq Owners /\ Watchdog \in Owners
  /\ Turns \subseteq Nat /\ None \notin Turns
  /\ Turns \cap Chats = {} /\ Turns \cap Wakes = {} /\ Watchdog \notin Turns
  /\ \A t \in Turns : t > None
  BY TurnAssumption DEF Turns, Ids, Owners, None

LEMMA QueueKept ==
  ASSUME queue' = queue
  PROVE  InQueue' = InQueue
  BY DEF InQueue

LEMMA QueueEmptied ==
  ASSUME queue' = <<>>
  PROVE  InQueue' = {}
  BY DEF InQueue

LEMMA QueueGrows ==
  ASSUME QueueTypeOK, NEW i \in Ids, queue' = Append(queue, i)
  PROVE  InQueue' = InQueue \cup {i} /\ queue' \in Seq(Ids)
  <1>1. queue \in Seq(Ids)
    BY DEF QueueTypeOK
  <1>2. Len(queue') = Len(queue) + 1 /\ queue' \in Seq(Ids)
    BY <1>1
  <1>3. \A k \in 1..Len(queue) : queue'[k] = queue[k]
    BY <1>1
  <1>4. queue'[Len(queue) + 1] = i
    BY <1>1
  <1>5. Len(queue) \in Nat
    BY <1>1
  <1>6. 1..Len(queue') = 1..Len(queue) \cup {Len(queue) + 1}
    BY <1>2, <1>5
  <1> QED
    BY <1>2, <1>3, <1>4, <1>6 DEF InQueue

LEMMA QueueTyped ==
  ASSUME QueueTypeOK
  PROVE  InQueue \subseteq Ids
  BY DEF QueueTypeOK, InQueue

\* What an event of a chain of o that answers ids may change: the end of o's own
\* client turn, if it was open, and the chats among ids, once.
Speaks(o, ids) ==
  /\ completed' \in SUBSET Turns
  /\ told' \in [Ids -> Nat]
  /\ lost' \in SUBSET Ids
  /\ completed \subseteq completed' /\ completed' \subseteq completed \cup {o}
  /\ \A t \in Turns :
       \/ told'[t] = told[t] /\ (t = o /\ t \notin completed => t \notin completed')
       \/ t = o /\ t \notin completed /\ t \in completed' /\ told'[t] = told[t] + 1
  /\ \A c \in Chats : told'[c] = told[c] \/ (c \in ids /\ told'[c] = told[c] + 1)

LEMMA PublishSpeaks ==
  ASSUME QueueTypeOK, NEW o \in Owners, NEW ids \in SUBSET Ids, Publish(o, ids)
  PROVE  Speaks(o, ids)
  <1>1. CASE Fenced(o)
    BY <1>1 DEF Publish, Fenced, Lose, QueueTypeOK, Speaks
  <1>2. CASE ~Fenced(o)
    <2>1. completed' = completed \cup ({o} \cap Turns) /\ told' = Tell(Heard(o, ids))
      BY <1>2 DEF Publish
    <2>2. o \notin completed /\ lost' \in SUBSET Ids
      BY <1>2 DEF Publish, Fenced, Lose, QueueTypeOK
    <2>3. \A i \in Ids : told'[i] = IF i \in Heard(o, ids) THEN told[i] + 1 ELSE told[i]
      BY <2>1 DEF Tell
    <2>4. told' \in [Ids -> Nat]
      BY <2>1 DEF Tell, QueueTypeOK
    <2>5. \A t \in Turns : t \in Heard(o, ids) <=> t = o
      BY Sorts DEF Heard
    <2>6. \A c \in Chats : c \in Heard(o, ids) => c \in ids
      BY Sorts DEF Heard
    <2> QED
      BY <2>1, <2>2, <2>3, <2>4, <2>5, <2>6, Sorts DEF QueueTypeOK, Speaks
  <1> QED
    BY <1>1, <1>2

LEMMA SilenceSpeaks ==
  ASSUME QueueTypeOK, NEW o, NEW ids, Silence
  PROVE  Speaks(o, ids)
  BY DEF Silence, Speaks, QueueTypeOK

LEMMA EndRequestsSpeaks ==
  ASSUME QueueTypeOK, NEW o \in Owners, EndRequests(o)
  PROVE  Speaks(o, answers)
  <1>1. answers \in SUBSET Ids
    BY DEF QueueTypeOK
  <1> QED
    BY <1>1, PublishSpeaks, SilenceSpeaks DEF EndRequests

---------------------------------------------------------------------------
(* The steps of a chain *)

\* What a chain does to the queue between two awaits: it takes all of it as its
\* batch, or leaves it alone and has no batch to wait with.
Draws(o) ==
  /\ queue' \in Seq(Ids)
  /\ chain' \in [Owners -> Phases]
  /\ batch' \in [Owners -> SUBSET Ids]
  /\ hub' \in SUBSET Wakes
  /\ processing' \in BOOLEAN
  /\ \A p \in Owners \ {o} : chain'[p] = chain[p] /\ batch'[p] = batch[p]
  /\ \/ InQueue' = InQueue /\ (chain'[o] = "lock" => batch'[o] = {})
     \/ InQueue' = {} /\ batch'[o] = InQueue

LEMMA LocksDraws ==
  ASSUME QueueTypeOK, NEW o \in Owners,
         \/ Locks(o, {}) /\ UNCHANGED queue
         \/ Locks(o, InQueue) /\ queue' = <<>>
  PROVE  Draws(o)
  <1>1. CASE Locks(o, {}) /\ UNCHANGED queue
    <2>1. InQueue' = InQueue
      BY <1>1, QueueKept
    <2> QED
      BY <1>1, <2>1 DEF Draws, Locks, QueueTypeOK, Phases
  <1>2. CASE Locks(o, InQueue) /\ queue' = <<>>
    <2>1. InQueue' = {} /\ queue' \in Seq(Ids)
      BY <1>2, QueueEmptied
    <2> QED
      BY <1>2, <2>1, QueueTyped DEF Draws, Locks, QueueTypeOK, Phases
  <1> QED
    BY <1>1, <1>2

LEMMA EndsDraws ==
  ASSUME QueueTypeOK, NEW o \in Owners, Ends(o), UNCHANGED queue
  PROVE  Draws(o)
  <1>1. InQueue' = InQueue
    BY QueueKept
  <1> QED
    BY <1>1 DEF Draws, Ends, QueueTypeOK, Phases

LEMMA ResumeDraws ==
  ASSUME QueueTypeOK, NEW o \in Owners, NEW done \in BOOLEAN, NEW kept \in BOOLEAN,
         Resume(o, done, kept)
  PROVE  Draws(o) /\ turnCompleted' \in BOOLEAN
  BY LocksDraws, EndsDraws DEF Resume

\* A step of a chain: it draws and speaks, with nothing left to answer once it
\* has spoken of its answers, or it starts its round and answers its batch.
Progress(o) ==
  /\ chain[o] # "none"
  /\ UNCHANGED <<toCome, admitting, stops>>
  /\ turnCompleted' \in BOOLEAN /\ latch' \in BOOLEAN
  /\ \/ /\ Draws(o)
        /\ \/ answers' = {} /\ Speaks(o, answers)
           \/ answers' = answers /\ Speaks(o, {}) /\ UNCHANGED <<told, completed>>
     \/ /\ chain[o] = "lock"
        /\ chain' = [chain EXCEPT ![o] = "round"]
        /\ answers' = answers \cup batch[o]
        /\ UNCHANGED <<queue, hub, batch, processing, told, completed, lost>>

LEMMA ChainProgress ==
  ASSUME QueueTypeOK, NEW o \in Owners, ChainStep(o)
  PROVE  Progress(o)
  <1> USE DEF QueueTypeOK
  <1>0. answers \in SUBSET Ids /\ TRUE \in BOOLEAN /\ FALSE \in BOOLEAN
        /\ (batch[o] # {}) \in BOOLEAN /\ (turnCompleted \/ batch[o] = {}) \in BOOLEAN
    OBVIOUS
  <1>1. CASE StartDrain(o)
    <2>1. Draws(o)
      BY <1>1, LocksDraws, EndsDraws DEF StartDrain
    <2>2. Speaks(o, {})
      BY <1>1 DEF StartDrain, Lose, Owed, Speaks
    <2> QED
      BY <1>1, <2>1, <2>2 DEF StartDrain, Progress
  <1>2. CASE StartHub(o)
    <2>1. Draws(o)
      <3>1. CASE processing
        <4>1. InQueue' = InQueue
          BY <1>2, QueueKept DEF StartHub
        <4> QED
          BY <1>2, <3>1, <4>1 DEF StartHub, Draws, Phases
      <3>2. CASE ~processing
        BY <1>2, <3>2, LocksDraws DEF StartHub
      <3> QED
        BY <3>1, <3>2
    <2>2. Speaks(o, {})
      BY <1>2, SilenceSpeaks DEF StartHub
    <2> QED
      BY <1>2, <2>1, <2>2 DEF StartHub, Silence, Progress
  <1>3. CASE BeginRound(o)
    BY <1>3 DEF BeginRound, Answering, Silence, Progress
  <1>4. CASE RoundCompletes(o)
    <2>1. Draws(o) /\ turnCompleted' \in BOOLEAN
      BY <1>0, <1>4, ResumeDraws DEF RoundCompletes
    <2>2. Speaks(o, answers)
      BY <1>0, <1>4, PublishSpeaks DEF RoundCompletes
    <2> QED
      BY <1>4, <2>1, <2>2 DEF RoundCompletes, Progress
  <1>5. CASE RoundHasTools(o)
    <2>1. Draws(o) /\ turnCompleted' \in BOOLEAN
      BY <1>0, <1>5, ResumeDraws DEF RoundHasTools
    <2>2. Speaks(o, {})
      BY <1>5 DEF RoundHasTools, Lose, Owed, Speaks
    <2> QED
      BY <1>5, <2>1, <2>2 DEF RoundHasTools, Progress
  <1>6. CASE RoundRaises(o)
    <2>1. Draws(o) /\ turnCompleted' \in BOOLEAN
      BY <1>0, <1>6, ResumeDraws DEF RoundRaises
    <2>2. Speaks(o, answers)
      BY <1>6, EndRequestsSpeaks DEF RoundRaises
    <2> QED
      BY <1>6, <2>1, <2>2 DEF RoundRaises, Progress
  <1>8. CASE RoundDenied(o)
    <2>1. Draws(o) /\ turnCompleted' \in BOOLEAN
      BY <1>0, <1>8, EndsDraws DEF RoundDenied
    <2>2. Speaks(o, answers)
      BY <1>8, EndRequestsSpeaks DEF RoundDenied
    <2> QED
      BY <1>8, <2>1, <2>2 DEF RoundDenied, Progress
  <1>7. CASE Backstop(o)
    <2>1. Draws(o) /\ turnCompleted' \in BOOLEAN
      BY <1>0, <1>7, ResumeDraws DEF Backstop
    <2>2. CASE o \in hub
      <3>1. Speaks(o, {}) /\ UNCHANGED <<answers, told, completed>>
        BY <1>7, <2>2 DEF Backstop, Lose, Owed, Speaks
      <3> QED
        BY <1>7, <2>1, <3>1 DEF Backstop, Progress
    <2>3. CASE o \notin hub
      <3>1. Speaks(o, answers) /\ answers' = {}
        BY <1>7, <2>3, EndRequestsSpeaks DEF Backstop
      <3> QED
        BY <1>7, <2>1, <3>1 DEF Backstop, Progress
    <2> QED
      BY <2>2, <2>3
  <1> QED
    BY <1>1, <1>2, <1>3, <1>4, <1>5, <1>6, <1>7, <1>8 DEF ChainStep

\* A step of a chain preserves the invariant.
LEMMA ProgressOK ==
  ASSUME IndInv, NEW o \in Owners, Progress(o), UNCHANGED bvars
  PROVE  IndInv'
  <1> USE DEF IndInv
  <1>1. QueueTypeOK'
    BY DEF Progress, Draws, Speaks, QueueTypeOK, TypeOK, Phases
  <1>2. TypeOK'
    BY <1>1 DEF TypeOK, bvars
  <1>3. TurnInv'
    <2>1. InOrder'
      BY DEF TurnInv, InOrder, bvars
    <2>2. \A t \in Turns : t = o => t \in completed \/ t = active
      BY DEF TurnInv, Progress
    <2>3. completed \subseteq completed' /\ completed' \subseteq completed \cup {o}
      BY DEF Progress, Speaks
    <2>4. \A t \in Turns :
            \/ told'[t] = told[t] /\ (t \in completed' => t \in completed)
            \/ t = o /\ t \notin completed /\ t \in completed' /\ told'[t] = told[t] + 1
      BY Sorts DEF Progress, Speaks
    <2>5. \A p \in Owners : chain'[p] # "none" => chain[p] # "none"
      BY DEF Progress, Draws, TypeOK, QueueTypeOK
    <2>6. admitting' = admitting
      BY DEF Progress
    <2>7. \A t \in Turns : t \in admitting => t # o
      BY DEF TurnInv, Progress
    <2>8. UNCHANGED bvars /\ told \in [Ids -> Nat]
      BY DEF TypeOK, QueueTypeOK
    <2>9. ASSUME NEW t \in Turns
          PROVE  /\ told'[t] <= 1
                 /\ t \in admitted' \ completed' => told'[t] = 0
                 /\ t \in admitted' \cap completed' => t = active'
                 /\ t > lastTurn' => told'[t] = 0 /\ t \notin admitted' \cup completed'
                 /\ chain'[t] # "none" => t \in completed' \/ t = active'
                 /\ t \in admitting' => t = active' /\ t \notin completed' /\ worker' = "hooks"
      BY <2>2, <2>3, <2>4, <2>5, <2>6, <2>7, <2>8, Sorts DEF TurnInv, bvars
    <2>10. worker' = "hooks" => chain'[active'] = "none"
      BY <2>5, <2>8, Sorts DEF TurnInv, bvars, TypeOK
    <2> QED
      BY <2>1, <2>3, <2>9, <2>10, <2>8 DEF TurnInv, bvars
  <1>4. ChatInv'
    <2>1. CASE Draws(o) /\ (\A c \in Chats : told'[c] = told[c] \/ (c \in answers /\ told'[c] = told[c] + 1 /\ answers' = {}))
               /\ answers' \subseteq answers
      <3> SUFFICES ASSUME NEW c \in Chats
                   PROVE  /\ told'[c] <= 1
                          /\ c \in toCome' \cup admitting' \cup InQueue' \cup answers' => told'[c] = 0
                          /\ c \in toCome' => c \notin admitting' \cup InQueue' \cup answers'
                          /\ c \in admitting' => c \notin InQueue' \cup answers'
                          /\ c \in InQueue' => c \notin answers'
                          /\ \A q \in Owners :
                               Waits(q, c)' =>
                                 /\ told'[c] = 0
                                 /\ c \notin toCome' \cup admitting' \cup InQueue' \cup answers'
                                 /\ \A p \in Owners \ {q} : ~Waits(p, c)'
        BY DEF ChatInv
      <3>1. told[c] \in Nat /\ (told'[c] = told[c] \/ (c \in answers /\ told'[c] = told[c] + 1 /\ answers' = {}))
        BY <2>1, Sorts DEF TypeOK, QueueTypeOK
      <3>2. UNCHANGED <<toCome, admitting>> /\ answers' \subseteq answers /\ InQueue' \subseteq InQueue
        BY <2>1 DEF Progress, Draws
      <3>3. \A q \in Owners : Waits(q, c)' => Waits(q, c) \/ (q = o /\ InQueue' = {} /\ c \in InQueue)
        BY <2>1 DEF Draws, Waits
      <3> QED
        BY <3>1, <3>2, <3>3 DEF ChatInv
    <2>2. CASE /\ chain[o] = "lock"
               /\ chain' = [chain EXCEPT ![o] = "round"]
               /\ answers' = answers \cup batch[o]
               /\ UNCHANGED <<queue, hub, batch, processing, told, completed, lost>>
      <3>1. InQueue' = InQueue
        BY <2>2, QueueKept
      <3> QED
        BY <2>2, <3>1, Sorts DEF ChatInv, Waits, Progress, TypeOK, QueueTypeOK
    <2> QED
      BY <2>1, <2>2 DEF Progress, Speaks
  <1> QED
    BY <1>2, <1>3, <1>4

---------------------------------------------------------------------------
(* The other actors *)

\* A step that moves no chat to a new place, and tells a chat only what a Stop
\* tells the queue, preserves ChatInv.
LEMMA ChatFrame ==
  ASSUME TypeOK, ChatInv,
         \A c \in Chats :
           /\ c \in toCome' => c \in toCome
           /\ c \in admitting' => c \in admitting
           /\ c \in InQueue' => c \in InQueue
           /\ c \in answers' => c \in answers
           /\ \A o \in Owners : Waits(o, c)' => Waits(o, c)
           /\ \/ told'[c] = told[c]
              \/ c \in InQueue /\ InQueue' = {} /\ told'[c] = told[c] + 1
  PROVE  ChatInv'
  <1>1. \A c \in Chats : told[c] \in Nat
    BY Sorts DEF TypeOK, QueueTypeOK
  <1> QED
    BY <1>1 DEF ChatInv

LEMMA ChatArrivesOK ==
  ASSUME IndInv, NEW c \in Chats, ChatArrives(c), UNCHANGED bvars
  PROVE  IndInv'
  <1> USE DEF IndInv
  <1>1. InQueue' = InQueue
    BY QueueKept DEF ChatArrives
  <1>2. TypeOK'
    BY Sorts DEF ChatArrives, Reset, Silence, TypeOK, QueueTypeOK, bvars
  <1>3. TurnInv'
    BY Sorts DEF ChatArrives, Reset, Silence, TurnInv, InOrder, bvars
  <1>4. ChatInv'
    BY <1>1 DEF ChatArrives, Reset, Silence, ChatInv, Waits
  <1> QED
    BY <1>2, <1>3, <1>4

LEMMA StarterOK ==
  ASSUME IndInv, NEW w \in Wakes \cup {Watchdog}, Wake(w) \/ (w = Watchdog /\ Heal),
         UNCHANGED bvars
  PROVE  IndInv'
  <1> USE DEF IndInv
  <1>1. /\ chain' = [chain EXCEPT ![w] = "scheduled"]
        /\ toCome' \subseteq toCome /\ hub' \in SUBSET Wakes
        /\ UNCHANGED <<admitting, queue, batch, answers, processing,
                       turnCompleted, latch, stops, completed, told, lost>>
    BY DEF Wake, Heal, Silence, TypeOK, QueueTypeOK
  <1>2. InQueue' = InQueue
    BY <1>1, QueueKept
  <1>3. TypeOK'
    BY <1>1 DEF TypeOK, QueueTypeOK, Phases, bvars
  <1>4. \A t \in Turns : chain'[t] = chain[t]
    BY <1>1, Sorts DEF TypeOK, QueueTypeOK
  <1>5. TurnInv'
    BY <1>1, <1>4, Sorts DEF TurnInv, InOrder, TypeOK, bvars
  <1>6. ChatInv'
    BY <1>1, <1>2, ChatFrame DEF Waits, TypeOK, QueueTypeOK
  <1> QED
    BY <1>3, <1>5, <1>6

\* cancel_current_request, for ids the caller tells.
LEMMA CancelCurrentOK ==
  ASSUME QueueTypeOK, NEW ids \in SUBSET Turns, CancelCurrent(ids)
  PROVE  /\ told' \in [Ids -> Nat] /\ queue' \in Seq(Ids)
         /\ latch' \in BOOLEAN /\ lost' \in SUBSET Ids
         /\ \A t \in Turns : told'[t] = IF t \in ids THEN told[t] + 1 ELSE told[t]
         /\ \A c \in Chats :
              \/ told'[c] = told[c]
              \/ c \in InQueue /\ InQueue' = {} /\ told'[c] = told[c] + 1
         /\ InQueue' \subseteq InQueue
  <1>1. CASE processing \/ latch
    <2>1. queue' = <<>> /\ told' = Tell(ids \cup (InQueue \cap Chats))
      BY <1>1 DEF CancelCurrent
    <2>2. InQueue' = {}
      BY <2>1, QueueEmptied
    <2>3. latch' \in BOOLEAN /\ lost' \in SUBSET Ids
      BY <1>1, Sorts DEF CancelCurrent, Lose, QueueTypeOK
    <2>4. told' \in [Ids -> Nat]
      BY <2>1 DEF Tell, QueueTypeOK
    <2>5. \A i \in Ids : told'[i] = IF i \in ids \cup (InQueue \cap Chats) THEN told[i] + 1 ELSE told[i]
      BY <2>1 DEF Tell
    <2>6. \A t \in Turns : t \notin Chats
      BY Sorts
    <2>7. \A c \in Chats : c \notin ids
      BY Sorts
    <2>8. queue' \in Seq(Ids)
      BY <2>1
    <2>9. \A t \in Turns : told'[t] = IF t \in ids THEN told[t] + 1 ELSE told[t]
      BY <2>5, <2>6, Sorts
    <2>10. \A c \in Chats :
             \/ told'[c] = told[c]
             \/ c \in InQueue /\ InQueue' = {} /\ told'[c] = told[c] + 1
      BY <2>2, <2>5, <2>7, Sorts
    <2> QED
      BY <2>2, <2>3, <2>4, <2>8, <2>9, <2>10
  <1>2. CASE ~(processing \/ latch)
    <2>1. InQueue' = InQueue
      BY <1>2, QueueKept DEF CancelCurrent
    <2>2. told' = Tell(ids) /\ UNCHANGED <<latch, queue, lost>>
      BY <1>2 DEF CancelCurrent
    <2>3. \A i \in Ids : told'[i] = IF i \in ids THEN told[i] + 1 ELSE told[i]
      BY <2>2 DEF Tell
    <2>4. told' \in [Ids -> Nat]
      BY <2>2 DEF Tell, QueueTypeOK
    <2>5. \A c \in Chats : c \notin ids
      BY Sorts
    <2> QED
      BY <2>1, <2>2, <2>3, <2>4, <2>5, Sorts DEF QueueTypeOK
  <1> QED
    BY <1>1, <1>2

LEMMA StopOK ==
  ASSUME IndInv, Stop, UNCHANGED bvars
  PROVE  IndInv'
  <1> USE DEF IndInv
  <1>1. CancelCurrent({}) /\ QueueTypeOK
    BY DEF Stop, TypeOK
  <1>2. /\ told' \in [Ids -> Nat] /\ queue' \in Seq(Ids)
        /\ latch' \in BOOLEAN /\ lost' \in SUBSET Ids
        /\ \A t \in Turns : told'[t] = told[t]
        /\ \A c \in Chats :
              \/ told'[c] = told[c]
              \/ c \in InQueue /\ InQueue' = {} /\ told'[c] = told[c] + 1
        /\ InQueue' \subseteq InQueue
    BY <1>1, CancelCurrentOK
  <1>3. TypeOK'
    BY <1>2 DEF Stop, TypeOK, QueueTypeOK, bvars
  <1>4. TurnInv'
    BY <1>2 DEF Stop, TurnInv, InOrder, bvars
  <1>5. ChatInv'
    BY <1>2, ChatFrame DEF Stop, Waits
  <1> QED
    BY <1>3, <1>4, <1>5

---------------------------------------------------------------------------
(* The broker *)

\* Nothing of the agent's own changes.
LEMMA Idle ==
  ASSUME QueueTypeOK, ChatInv, UNCHANGED qvars
  PROVE  QueueTypeOK' /\ ChatInv'
  <1>1. InQueue' = InQueue
    BY QueueKept DEF qvars
  <1>2. QueueTypeOK'
    BY DEF QueueTypeOK, qvars
  <1>3. ChatInv'
    BY <1>1 DEF ChatInv, Waits, qvars
  <1> QED
    BY <1>2, <1>3

LEMMA SubmitOK ==
  ASSUME IndInv, Submit
  PROVE  IndInv'
  <1> USE DEF IndInv
  <1> DEFINE t == lastTurn + 1
  <1>1. /\ t \in Turns /\ pending' = Append(pending, t) /\ lastTurn' = t
        /\ admitted' = admitted \cup {t} /\ UNCHANGED <<waiting, active, closing>>
        /\ worker' = IF worker = "none" THEN "next" ELSE worker
        /\ UNCHANGED qvars
    BY DEF Submit
  <1>2. QueueTypeOK' /\ ChatInv'
    BY <1>1, Idle DEF TypeOK
  <1>3. TypeOK'
    BY <1>1, <1>2 DEF TypeOK, Turns
  <1>4. lastTurn \in Nat /\ active <= lastTurn /\ told[t] = 0
        /\ t \notin admitted \cup completed
    BY <1>1, Sorts DEF TypeOK, TurnInv, None, Turns
  <1>5. InOrder'
    <2>1. pending \in Seq(Turns) /\ waiting \in Nat /\ active \in Nat
      BY Sorts DEF TypeOK, None
    <2>2. Len(pending') = Len(pending) + 1 /\ Len(pending) \in Nat
      BY <1>1, <2>1
    <2>3. \A k \in 1..Len(pending) : pending'[k] = pending[k] /\ pending[k] \in Nat
      <3>1. \A k \in 1..Len(pending) : pending'[k] = pending[k]
        BY <1>1, <2>1
      <3>2. \A k \in 1..Len(pending) : pending[k] \in Turns
        BY <2>1
      <3> QED
        BY <3>1, <3>2, Sorts
    <2>4. pending'[Len(pending) + 1] = t
      BY <1>1, <2>1
    <2>5. \A k \in 1..Len(pending') : k \in 1..Len(pending) \/ k = Len(pending) + 1
      BY <2>2
    <2>6. waiting <= lastTurn /\ t > lastTurn /\ t \in Nat
          /\ \A k \in 1..Len(pending) :
               pending[k] <= lastTurn /\ active < pending[k] /\ waiting < pending[k]
      BY <1>4 DEF TurnInv, InOrder
    <2>7. \A k \in 1..Len(pending') :
            pending'[k] <= t /\ active < pending'[k] /\ waiting < pending'[k]
      BY <1>4, <2>1, <2>3, <2>4, <2>5, <2>6
    <2>8. \A k, l \in 1..Len(pending') : k < l => pending'[k] < pending'[l]
      <3> SUFFICES ASSUME NEW k \in 1..Len(pending'), NEW l \in 1..Len(pending'), k < l
                   PROVE  pending'[k] < pending'[l]
        OBVIOUS
      <3>1. k \in 1..Len(pending)
        BY <2>2
      <3>2. CASE l \in 1..Len(pending)
        BY <2>3, <3>1, <3>2 DEF TurnInv, InOrder
      <3>3. CASE l = Len(pending) + 1
        BY <1>4, <2>3, <2>4, <2>6, <3>1, <3>3
      <3> QED
        BY <2>5, <3>2, <3>3
    <2> QED
      BY <1>1, <1>4, <2>1, <2>6, <2>7, <2>8 DEF InOrder
  <1>6. \A u \in Turns : u > lastTurn' => u > lastTurn /\ u # t
    BY <1>1, <1>4, Sorts
  <1>7. UNCHANGED <<told, completed, chain, admitting>>
    BY <1>1 DEF qvars
  <1>8. TurnInv'
    BY <1>1, <1>4, <1>5, <1>6, <1>7 DEF TurnInv
  <1> QED
    BY <1>2, <1>3, <1>8

LEMMA TakeNextOK ==
  ASSUME IndInv, TakeNext
  PROVE  IndInv'
  <1> USE DEF IndInv
  <1>1. QueueTypeOK' /\ ChatInv'
    BY Idle DEF TypeOK, TakeNext
  <1>2. CASE pending = <<>>
    <2>1. TypeOK'
      BY <1>1, <1>2 DEF TypeOK, TakeNext
    <2>2. TurnInv'
      BY <1>2 DEF TurnInv, InOrder, TakeNext, qvars
    <2> QED
      BY <1>1, <2>1, <2>2
  <1>3. CASE pending # <<>>
    <2>1. pending \in Seq(Turns) /\ active = None
      BY DEF TypeOK, TakeNext
    <2>2. Len(pending) \in Nat /\ Len(pending) > 0
      BY <1>3, <2>1
    <2>3. waiting' = pending[1] /\ pending' = Tail(pending) /\ worker' = "wait"
          /\ UNCHANGED <<lastTurn, active, admitted, closing>> /\ UNCHANGED qvars
      BY <1>3, <2>1 DEF TakeNext
    <2>4. Len(pending') = Len(pending) - 1 /\ pending' \in Seq(Turns)
          /\ \A k \in 1..Len(pending') : pending'[k] = pending[k + 1]
      BY <2>1, <2>2, <2>3
    <2>5. pending[1] \in Turns
      BY <2>1, <2>2
    <2>6. TypeOK'
      BY <1>1, <2>1, <2>3, <2>4, <2>5, Sorts DEF TypeOK, TakeNext
    <2>7. \A k \in 1..Len(pending') : k + 1 \in 1..Len(pending) /\ 1 < k + 1
      BY <2>2, <2>4
    <2>8. InOrder'
      BY <2>1, <2>2, <2>3, <2>4, <2>5, <2>7 DEF TurnInv, InOrder
    <2>9. TurnInv'
      BY <2>1, <2>3, <2>8 DEF TurnInv, TakeNext, qvars
    <2> QED
      BY <1>1, <2>6, <2>9
  <1> QED
    BY <1>2, <1>3

LEMMA StartTurnOK ==
  ASSUME IndInv, StartTurn
  PROVE  IndInv'
  <1> USE DEF IndInv
  <1>1. QueueTypeOK' /\ ChatInv'
    BY Idle DEF TypeOK, StartTurn
  <1>2. waiting \in Turns /\ active = None /\ waiting' = None
    BY DEF TypeOK, StartTurn, Unheld
  <1>3. TypeOK'
    BY <1>1, <1>2, Sorts DEF TypeOK, StartTurn, StillWanted
  <1>4. InOrder'
    BY <1>2, Sorts DEF TurnInv, InOrder, StartTurn, TypeOK, None
  <1>5. StillWanted(waiting) => waiting \in admitted /\ waiting \notin completed /\ chain[waiting] = "none"
    BY <1>2, Sorts DEF StillWanted, TurnInv
  <1>6. TurnInv'
    BY <1>2, <1>4, <1>5, Sorts DEF TurnInv, StartTurn, WorkerRuns, qvars
  <1> QED
    BY <1>1, <1>3, <1>6

LEMMA AdmitTurnOK ==
  ASSUME IndInv, AdmitTurn
  PROVE  IndInv'
  <1> USE DEF IndInv
  <1>1. active \in Turns
    BY DEF TypeOK, AdmitTurn
  <1>2. InQueue' = InQueue
    BY QueueKept DEF AdmitTurn
  <1>3. TypeOK'
    BY <1>1, Sorts DEF TypeOK, QueueTypeOK, AdmitTurn, Reset, Silence, bvars
  <1>4. TurnInv'
    BY <1>1 DEF TurnInv, InOrder, AdmitTurn, Reset, Silence, bvars
  <1>5. ChatInv'
    BY <1>1, <1>2, ChatFrame, Sorts DEF AdmitTurn, Reset, Silence, Waits
  <1> QED
    BY <1>3, <1>4, <1>5

LEMMA PutOK ==
  ASSUME TypeOK, NEW i \in Ids, Put(i)
  PROVE  /\ QueueTypeOK'
         /\ InQueue' = InQueue \cup {i}
         /\ \A o \in Owners : o # i => chain'[o] = chain[o]
         /\ \A o \in Owners : chain'[o] = "lock" => chain[o] = "lock"
         /\ \A o \in Owners : chain[o] # "none" => chain'[o] # "none"
  <1>1. InQueue' = InQueue \cup {i} /\ queue' \in Seq(Ids)
    BY QueueGrows DEF Put, TypeOK
  <1>2. i \in Owners
    BY Sorts
  <1> QED
    BY <1>1, <1>2 DEF Put, Lose, TypeOK, QueueTypeOK, Phases

LEMMA PutTurnOK ==
  ASSUME IndInv, PutTurn
  PROVE  IndInv'
  <1> USE DEF IndInv
  <1>1. active \in Turns /\ active \in admitting
    BY DEF TypeOK, PutTurn, Put
  <1>2. Put(active) /\ active \in Ids
    BY <1>1, Sorts DEF PutTurn
  <1>3. /\ QueueTypeOK'
        /\ InQueue' = InQueue \cup {active}
        /\ \A o \in Owners : o # active => chain'[o] = chain[o]
        /\ \A o \in Owners : chain'[o] = "lock" => chain[o] = "lock"
    BY <1>2, PutOK
  <1>4. TypeOK'
    BY <1>1, <1>3, Sorts DEF TypeOK, PutTurn
  <1>5. TurnInv'
    BY <1>1, <1>3, Sorts DEF TurnInv, InOrder, PutTurn, Put
  <1>6. ChatInv'
    BY <1>1, <1>3, ChatFrame, Sorts DEF PutTurn, Put, Waits
  <1> QED
    BY <1>4, <1>5, <1>6

LEMMA PutChatOK ==
  ASSUME IndInv, NEW c \in Chats, PutChat(c)
  PROVE  IndInv'
  <1> USE DEF IndInv
  <1>1. Put(c) /\ c \in Ids /\ c \notin Turns
    BY Sorts DEF PutChat
  <1>2. /\ QueueTypeOK'
        /\ InQueue' = InQueue \cup {c}
        /\ \A o \in Owners : o # c => chain'[o] = chain[o]
        /\ \A o \in Owners : chain'[o] = "lock" => chain[o] = "lock"
    BY <1>1, PutOK
  <1>3. TypeOK'
    BY <1>2 DEF TypeOK, PutChat, bvars
  <1>4. \A t \in Turns : chain'[t] = chain[t] /\ (t \in admitting' => t \in admitting)
    BY <1>1, <1>2, Sorts DEF Put
  <1>5. TurnInv'
    BY <1>1, <1>4, Sorts DEF TurnInv, InOrder, PutChat, Put, bvars, TypeOK
  <1>6. ChatInv'
    BY <1>1, <1>2 DEF PutChat, Put, Waits, ChatInv
  <1> QED
    BY <1>3, <1>5, <1>6

\* The turn the worker lets go of has ended.
LEMMA LetGo ==
  ASSUME IndInv, active \in Turns,
         completed \subseteq completed', completed' \subseteq completed \cup {active},
         active \in completed',
         active \in admitting => active \in completed,
         active' = None, admitted' = admitted \ {active}, worker' = "next",
         \A t \in Turns \ {active} : told'[t] = told[t],
         told'[active] <= 1,
         UNCHANGED <<lastTurn, pending, waiting, closing, chain, admitting>>
  PROVE  TurnInv'
  <1> USE DEF IndInv
  <1>1. \A t \in Turns : t \in admitting => t = active /\ t \notin completed
    BY DEF TurnInv
  <1>2. admitting \cap Turns = {}
    BY <1>1
  <1>3. InOrder'
    BY Sorts DEF TurnInv, InOrder, TypeOK, None, Turns
  <1>4. active <= lastTurn
    BY Sorts DEF TurnInv, TypeOK, Turns
  <1>5. ~(active > lastTurn)
    BY <1>4 DEF TypeOK, Turns
  <1> QED
    BY <1>2, <1>3, <1>5 DEF TurnInv

LEMMA RefuseTurnOK ==
  ASSUME IndInv, RefuseTurn
  PROVE  IndInv'
  <1> USE DEF IndInv
  <1>1. active \in Turns
    BY DEF TypeOK, RefuseTurn
  <1>2. told' \in [Ids -> Nat] /\ \A i \in Ids \ {active} : told'[i] = told[i]
    BY <1>1, Sorts DEF TypeOK, QueueTypeOK, RefuseTurn, SettleActive, Tell
  <1>3. told'[active] <= 1
    <2>1. CASE active \in admitted /\ ~Fenced(active)
      <3>1. told[active] = 0
        BY <1>1, <2>1 DEF TurnInv, Fenced
      <3>2. told'[active] = told[active] + 1
        BY <1>1, <2>1, Sorts DEF RefuseTurn, SettleActive, Tell
      <3> QED
        BY <3>1, <3>2
    <2>2. CASE ~(active \in admitted /\ ~Fenced(active))
      BY <1>1, <2>2 DEF RefuseTurn, SettleActive, TurnInv
    <2> QED
      BY <2>1, <2>2
  <1>4. InQueue' = InQueue
    BY QueueKept DEF RefuseTurn
  <1>5. TypeOK'
    BY <1>1, <1>2 DEF TypeOK, QueueTypeOK, RefuseTurn, SettleActive, WorkerRuns
  <1>6. TurnInv'
    BY <1>1, <1>2, <1>3, LetGo, Sorts DEF RefuseTurn, SettleActive
  <1>7. ChatInv'
    BY <1>1, <1>2, <1>4, ChatFrame, Sorts DEF RefuseTurn, Waits
  <1> QED
    BY <1>5, <1>6, <1>7

LEMMA IgnoreTurnOK ==
  ASSUME IndInv, IgnoreTurn
  PROVE  IndInv'
  <1> USE DEF IndInv
  <1>1. active \in Turns /\ active \in Ids
    BY Sorts DEF TypeOK, IgnoreTurn
  <1>2. InQueue' = InQueue
    BY QueueKept DEF IgnoreTurn
  <1>3. TypeOK'
    BY <1>1 DEF TypeOK, QueueTypeOK, IgnoreTurn, Lose
  <1>4. TurnInv'
    BY <1>1 DEF TurnInv, InOrder, IgnoreTurn
  <1>5. ChatInv'
    BY <1>2, ChatFrame DEF IgnoreTurn, Waits
  <1> QED
    BY <1>3, <1>4, <1>5

LEMMA FinishTurnOK ==
  ASSUME IndInv, FinishTurn
  PROVE  IndInv'
  <1> USE DEF IndInv
  <1>1. active \in Turns
    BY DEF TypeOK, QueueTypeOK, FinishTurn
  <1>2. QueueTypeOK' /\ ChatInv'
    BY Idle DEF TypeOK, FinishTurn
  <1>3. TypeOK'
    BY <1>1, <1>2, Sorts DEF TypeOK, FinishTurn
  <1>4. TurnInv'
    <2>1. told'[active] <= 1 /\ told' = told /\ completed' = completed
          /\ UNCHANGED <<chain, admitting>>
      BY <1>1 DEF TurnInv, FinishTurn, qvars
    <2> QED
      BY <1>1, <2>1, LetGo DEF FinishTurn
  <1> QED
    BY <1>2, <1>3, <1>4

LEMMA CancelActiveOK ==
  ASSUME IndInv, CancelActive,
         UNCHANGED <<lastTurn, pending, waiting, active, worker>>,
         closing' \in {"begun", closing}
  PROVE  IndInv'
  <1> USE DEF IndInv
  <1>1. active \in Turns /\ active \notin completed /\ told[active] = 0
    BY DEF TypeOK, CancelActive, TurnInv
  <1>2. CancelCurrent({active}) /\ QueueTypeOK /\ {active} \in SUBSET Turns
    BY <1>1 DEF CancelActive, TypeOK
  <1>3. /\ told' \in [Ids -> Nat] /\ queue' \in Seq(Ids)
        /\ latch' \in BOOLEAN /\ lost' \in SUBSET Ids
        /\ \A t \in Turns : told'[t] = IF t \in {active} THEN told[t] + 1 ELSE told[t]
        /\ \A c \in Chats :
              \/ told'[c] = told[c]
              \/ c \in InQueue /\ InQueue' = {} /\ told'[c] = told[c] + 1
        /\ InQueue' \subseteq InQueue
    BY <1>2, CancelCurrentOK
  <1>4. TypeOK'
    BY <1>1, <1>3 DEF TypeOK, QueueTypeOK, CancelActive, Withdraw
  <1>5. active <= lastTurn
    BY <1>1, Sorts DEF TurnInv, TypeOK, Turns
  <1>6. TurnInv'
    <2>1. InOrder'
      BY DEF TurnInv, InOrder
    <2>2. completed' = completed \cup {active} /\ admitted' = admitted \ {active}
          /\ admitting' = admitting \ {active} /\ UNCHANGED chain
      BY DEF CancelActive, Withdraw
    <2>3. ~(active > lastTurn)
      BY <1>5 DEF TypeOK, Turns
    <2> QED
      BY <1>1, <1>3, <2>1, <2>2, <2>3 DEF TurnInv
  <1>7. ChatInv'
    BY <1>1, <1>3, ChatFrame, Sorts DEF CancelActive, Withdraw, Waits
  <1> QED
    BY <1>4, <1>6, <1>7

LEMMA SettleQueuedOK ==
  ASSUME IndInv, NEW t \in Turns, t # active, SettleQueued(t),
         pending' \in Seq(Turns), InOrder'
  PROVE  IndInv'
  <1> USE DEF IndInv
  <1>1. told[t] = 0
    BY DEF SettleQueued, TurnInv
  <1>2. told' \in [Ids -> Nat] /\ told'[t] = 1 /\ \A i \in Ids \ {t} : told'[i] = told[i]
    BY <1>1, Sorts DEF SettleQueued, Tell, TypeOK, QueueTypeOK
  <1>3. InQueue' = InQueue
    BY QueueKept DEF SettleQueued
  <1>4. TypeOK'
    BY <1>2 DEF TypeOK, QueueTypeOK, SettleQueued
  <1>5. ~(t > lastTurn)
    BY DEF SettleQueued, TurnInv
  <1>6. TurnInv'
    <2>1. admitted' = admitted \ {t}
          /\ UNCHANGED <<lastTurn, active, worker, closing, admitting, chain, completed>>
      BY DEF SettleQueued
    <2>2. t \notin completed /\ \A u \in Turns \ {t} : told'[u] = told[u]
      BY <1>2, Sorts DEF TurnInv, SettleQueued
    <2> QED
      BY <1>2, <1>5, <2>1, <2>2 DEF TurnInv
  <1>7. ChatInv'
    BY <1>2, <1>3, ChatFrame, Sorts DEF SettleQueued, Waits
  <1> QED
    BY <1>4, <1>6, <1>7

LEMMA CancelWaitingOK ==
  ASSUME IndInv, CancelWaiting
  PROVE  IndInv'
  <1> USE DEF IndInv
  <1>1. waiting \in Turns /\ waiting # active
    BY Sorts DEF TypeOK, CancelWaiting, SettleQueued
  <1>2. pending' \in Seq(Turns) /\ InOrder'
    BY DEF TypeOK, TurnInv, InOrder, CancelWaiting, SettleQueued
  <1> QED
    BY <1>1, <1>2, SettleQueuedOK DEF CancelWaiting

LEMMA CancelPendingOK ==
  ASSUME IndInv, NEW i \in 1..Len(pending), CancelPending(i)
  PROVE  IndInv'
  <1> USE DEF IndInv
  <1>1. pending \in Seq(Turns) /\ Len(pending) \in Nat /\ i \in Nat
        /\ 1 <= i /\ i <= Len(pending)
    BY DEF TypeOK
  <1>2. pending[i] \in Turns /\ active < pending[i] /\ active \in Nat
    BY <1>1, Sorts DEF TypeOK, TurnInv, InOrder, None
  <1>3. pending[i] # active
    BY <1>2, Sorts
  <1> DEFINE a == SubSeq(pending, 1, i - 1)
             b == SubSeq(pending, i + 1, Len(pending))
  <1>4. a \in Seq(Turns) /\ Len(a) = i - 1 /\ \A k \in 1..Len(a) : a[k] = pending[k]
    BY <1>1
  <1>5. b \in Seq(Turns) /\ Len(b) = Len(pending) - i
        /\ \A k \in 1..Len(b) : b[k] = pending[k + i]
    BY <1>1
  <1>6. pending' = a \o b
    BY DEF CancelPending
  <1> HIDE DEF a, b
  <1>7. pending' \in Seq(Turns) /\ Len(pending') = Len(pending) - 1
    <2>1. a \in Seq(Turns) /\ b \in Seq(Turns)
      BY <1>4, <1>5
    <2>2. (a \o b) \in Seq(Turns) /\ Len(a \o b) = Len(a) + Len(b)
      BY <2>1
    <2> QED
      BY <1>1, <1>4, <1>5, <1>6, <2>2
  <1>8. \A k \in 1..Len(pending') :
          pending'[k] = IF k < i THEN pending[k] ELSE pending[k + 1]
    <2> SUFFICES ASSUME NEW k \in 1..Len(pending')
                 PROVE  pending'[k] = IF k < i THEN pending[k] ELSE pending[k + 1]
      OBVIOUS
    <2>1. CASE k < i
      BY <1>1, <1>4, <1>5, <1>6, <1>7, <2>1
    <2>2. CASE ~(k < i)
      <3>1. k - (i - 1) \in 1..Len(b)
        BY <1>1, <1>5, <1>7, <2>2
      <3>2. pending'[k] = b[k - (i - 1)]
        BY <1>1, <1>4, <1>5, <1>6, <1>7, <2>2, <3>1
      <3>3. k - (i - 1) + i = k + 1
        BY <1>1, <1>7
      <3> QED
        BY <1>5, <2>2, <3>1, <3>2, <3>3
    <2> QED
      BY <2>1, <2>2
  <1>9. InOrder'
    <2>1. \A k \in 1..Len(pending') :
            \E l \in 1..Len(pending) : pending'[k] = pending[l]
      BY <1>1, <1>7, <1>8
    <2>2. \A k \in 1..Len(pending') :
            pending'[k] <= lastTurn /\ active < pending'[k] /\ waiting < pending'[k]
      BY <2>1 DEF TurnInv, InOrder
    <2>3. \A k, l \in 1..Len(pending') : k < l => pending'[k] < pending'[l]
      <3> SUFFICES ASSUME NEW k \in 1..Len(pending'), NEW l \in 1..Len(pending'), k < l
                   PROVE  pending'[k] < pending'[l]
        OBVIOUS
      <3>1. \A m, n \in 1..Len(pending) : m < n => pending[m] < pending[n]
        BY DEF TurnInv, InOrder
      <3>2. k \in 1..Len(pending) /\ k + 1 \in 1..Len(pending)
            /\ l \in 1..Len(pending) /\ l + 1 \in 1..Len(pending)
        BY <1>1, <1>7
      <3>3. CASE l < i
        BY <1>1, <1>7, <1>8, <3>1, <3>2, <3>3
      <3>4. CASE ~(l < i) /\ k < i
        BY <1>1, <1>7, <1>8, <3>1, <3>2, <3>4
      <3>5. CASE ~(k < i) /\ ~(l < i)
        BY <1>1, <1>7, <1>8, <3>1, <3>2, <3>5
      <3> QED
        BY <1>1, <3>3, <3>4, <3>5
    <2> QED
      BY <2>2, <2>3 DEF TurnInv, InOrder, CancelPending, SettleQueued
  <1> QED
    BY <1>2, <1>3, <1>7, <1>9, SettleQueuedOK DEF CancelPending

LEMMA CloseBeginOK ==
  ASSUME IndInv, CloseBegin
  PROVE  IndInv'
  <1> USE DEF IndInv
  <1>1. CASE CancelActive
    BY <1>1, CancelActiveOK DEF CloseBegin
  <1>2. CASE ~(active \in admitted /\ active \notin completed) /\ UNCHANGED qvars
             /\ UNCHANGED admitted
    <2>1. QueueTypeOK' /\ ChatInv'
      BY <1>2, Idle DEF TypeOK
    <2>2. TypeOK'
      BY <1>2, <2>1 DEF TypeOK, CloseBegin
    <2>3. TurnInv'
      BY <1>2 DEF TurnInv, InOrder, CloseBegin, qvars
    <2> QED
      BY <2>1, <2>2, <2>3
  <1> QED
    BY <1>1, <1>2 DEF CloseBegin

LEMMA CloseEndOK ==
  ASSUME IndInv, CloseEnd
  PROVE  IndInv'
  <1> USE DEF IndInv
  <1> DEFINE left == (admitted \ completed) \ {active}
  <1>1. left \subseteq Turns /\ told' = Tell(left)
    BY DEF CloseEnd, TypeOK
  <1>2. told' \in [Ids -> Nat]
        /\ \A i \in Ids : told'[i] = IF i \in left THEN told[i] + 1 ELSE told[i]
    BY <1>1 DEF Tell, TypeOK, QueueTypeOK
  <1>3. InQueue' = InQueue
    BY QueueKept DEF CloseEnd
  <1>4. TypeOK'
    <2>1. QueueTypeOK'
      BY <1>2 DEF TypeOK, QueueTypeOK, CloseEnd
    <2>2. pending' \in Seq(Turns)
      BY DEF CloseEnd
    <2> QED
      BY <2>1, <2>2, Sorts DEF TypeOK, CloseEnd
  <1>5. active = None \/ active \in completed
    BY DEF CloseEnd, TurnInv
  <1>6. admitting \cap Turns = {}
    BY <1>5, Sorts DEF TurnInv
  <1>7. \A t \in Turns : told'[t] <= 1 /\ (t > lastTurn => told'[t] = 0)
    BY <1>2, Sorts DEF TurnInv
  <1>8. InOrder'
    <2>1. pending' = <<>> /\ Len(pending') = 0 /\ waiting' = None /\ lastTurn' \in Nat
      BY DEF CloseEnd, TypeOK
    <2> QED
      BY <2>1 DEF InOrder, None
  <1>9. TurnInv'
    BY <1>5, <1>6, <1>7, <1>8, Sorts DEF TurnInv, CloseEnd
  <1>10. ChatInv'
    BY <1>1, <1>2, <1>3, ChatFrame, Sorts DEF CloseEnd, Waits
  <1> QED
    BY <1>4, <1>9, <1>10

---------------------------------------------------------------------------
(* The theorems *)

LEMMA InvInit == Init => IndInv
  <1> SUFFICES ASSUME Init PROVE IndInv
    OBVIOUS
  <1>1. InQueue = {}
    BY DEF Init, QueueInit, InQueue
  <1>2. TypeOK
    <2>1. QueueTypeOK
      <3>1. queue \in Seq(Ids)
        BY DEF Init, QueueInit
      <3> QED
        BY <3>1 DEF Init, QueueInit, QueueTypeOK, Phases
    <2>2. pending \in Seq(Turns) /\ lastTurn \in 0..NumTurns
      BY TurnAssumption DEF Init
    <2> QED
      BY <2>1, <2>2 DEF Init, TypeOK
  <1>3. TurnInv
    BY Sorts DEF Init, QueueInit, TurnInv, InOrder, None
  <1>4. ChatInv
    BY <1>1, Sorts DEF Init, QueueInit, ChatInv, Waits
  <1> QED
    BY <1>2, <1>3, <1>4 DEF IndInv

LEMMA InvStep == IndInv /\ [Next]_vars => IndInv'
  <1> SUFFICES ASSUME IndInv, [Next]_vars PROVE IndInv'
    OBVIOUS
  <1>1. CASE Submit
    BY <1>1, SubmitOK
  <1>2. CASE WorkerStep
    BY <1>2, TakeNextOK, StartTurnOK, AdmitTurnOK, PutTurnOK, RefuseTurnOK,
       IgnoreTurnOK, FinishTurnOK
       DEF WorkerStep
  <1>3. CASE Cancel
    BY <1>3, CancelActiveOK DEF Cancel
  <1>4. CASE CancelWaiting
    BY <1>4, CancelWaitingOK
  <1>5. CASE \E i \in 1..Len(pending) : CancelPending(i)
    BY <1>5, CancelPendingOK
  <1>6. CASE CloseBegin
    BY <1>6, CloseBeginOK
  <1>7. CASE CloseEnd
    BY <1>7, CloseEndOK
  <1>8. CASE \E c \in Chats : PutChat(c)
    BY <1>8, PutChatOK
  <1>9. CASE Outside /\ UNCHANGED bvars
    <2>1. CASE \E c \in Chats : ChatArrives(c)
      BY <1>9, <2>1, ChatArrivesOK
    <2>2. CASE (\E w \in Wakes : Wake(w)) \/ Heal
      BY <1>9, <2>2, StarterOK
    <2>3. CASE \E o \in Owners : ChainStep(o)
      BY <1>9, <2>3, ChainProgress, ProgressOK DEF IndInv, TypeOK
    <2>4. CASE Stop
      BY <1>9, <2>4, StopOK
    <2> QED
      BY <1>9, <2>1, <2>2, <2>3, <2>4 DEF Outside
  <1>10. CASE UNCHANGED vars
    <2>1. QueueTypeOK' /\ ChatInv'
      BY <1>10, Idle DEF IndInv, TypeOK, vars
    <2>2. TypeOK'
      BY <1>10, <2>1 DEF IndInv, TypeOK, vars, bvars
    <2>3. TurnInv'
      BY <1>10 DEF IndInv, TurnInv, InOrder, vars, bvars, qvars
    <2> QED
      BY <2>1, <2>2, <2>3 DEF IndInv
  <1> QED
    BY <1>1, <1>2, <1>3, <1>4, <1>5, <1>6, <1>7, <1>8, <1>9, <1>10 DEF Next

\* The broker and the agent's queue stay well typed; the worker holds a turn
\* exactly while it waits and has an active one exactly while it submits or
\* follows it (_run).
THEOREM TypeCorrect == Spec => []TypeOK
  <1>1. IndInv => TypeOK
    BY DEF IndInv
  <1> QED
    BY <1>1, InvInit, InvStep, PTL DEF Spec

\* No follower hears two ends of one request, for any number of turns, messages,
\* wakes and stops: the fence of DisplayTap.publish and _settle suffice.
THEOREM EndsOnce == Spec => []OneEnd
  <1>1. IndInv => OneEnd
    BY DEF IndInv, TurnInv, ChatInv, OneEnd, Ids
  <1> QED
    BY <1>1, InvInit, InvStep, PTL DEF Spec

\* A client turn that was cancelled, refused or closed never enters the agent's
\* queue: cancel of the submission reaches process_user_input in time.
THEOREM EndedStaysOut == Spec => EndedNeverRuns
  <1>1. ASSUME IndInv, [Next]_vars
        PROVE  [\A t \in Turns :
                  t \notin InQueue /\ t \in InQueue' => told[t] = 0 /\ t \in admitted]_vars
    <2> SUFFICES ASSUME NEW t \in Turns, t \notin InQueue, t \in InQueue'
                 PROVE  told[t] = 0 /\ t \in admitted
      OBVIOUS
    <2>1. queue' # queue /\ queue' # <<>>
      BY QueueKept, QueueEmptied
    <2>2. CASE PutTurn
      <3>1. active \in Turns /\ active \in admitting /\ Put(active) /\ active \in Ids
        BY <1>1, <2>2, Sorts DEF PutTurn, Put, IndInv, TypeOK
      <3>2. InQueue' = InQueue \cup {active}
        BY <1>1, <3>1, PutOK DEF IndInv
      <3> QED
        BY <1>1, <3>1, <3>2, Sorts DEF IndInv, TurnInv
    <2>3. CASE \E c \in Chats : PutChat(c)
      <3>1. PICK c \in Chats : PutChat(c)
        BY <2>3
      <3>2. InQueue' = InQueue \cup {c}
        BY <1>1, <3>1, PutOK, Sorts DEF IndInv, PutChat
      <3> QED
        BY <3>2, Sorts
    <2>4. CASE Outside
      <3>1. \A o \in Owners : ChainStep(o) => InQueue' \subseteq InQueue
        BY <1>1, ChainProgress, QueueKept DEF IndInv, TypeOK, Progress, Draws
      <3> QED
        BY <2>1, <2>4, <3>1 DEF Outside, ChatArrives, Wake, Heal, Stop, CancelCurrent
    <2>5. CASE CancelActive
      BY <2>1, <2>5 DEF CancelActive, CancelCurrent
    <2> QED
      BY <1>1, <2>1, <2>2, <2>3, <2>4, <2>5
         DEF Next, Submit, WorkerStep, TakeNext, StartTurn, AdmitTurn, RefuseTurn,
             IgnoreTurn, FinishTurn, Cancel, CancelWaiting, CancelPending, SettleQueued,
             CloseBegin, CloseEnd, vars, qvars
  <1> QED
    BY <1>1, InvInit, InvStep, PTL DEF Spec, EndedNeverRuns

---------------------------------------------------------------------------
(* Where the input of the active turn is *)

\* A chain has a batch while it waits for its round, and answers it in the
\* round; rounds exclude each other; nobody starts a chain twice.
ChainsInv ==
  \A o \in Owners :
    /\ chain[o] \in {"none", "scheduled"} => batch[o] = {}
    /\ chain[o] = "round" => batch[o] \subseteq answers
    /\ \A p \in Owners : chain[o] = "round" /\ chain[p] = "round" => o = p
    /\ o \in toCome \cup (admitting \cap Chats) => chain[o] = "none"

\* A turn that was submitted and has not ended is with the agent.
FollowInv ==
  worker = "follow" /\ active \notin completed => active \in lost \/ active \in Taken

\* An event names every client turn that it answers, or is on record as lost.
LEMMA PublishEnds ==
  ASSUME QueueTypeOK, NEW o, NEW ids, Publish(o, ids), NEW t \in Turns, t \in ids
  PROVE  t \in completed' \/ t \in lost'
  <1>1. CASE Fenced(o)
    BY <1>1 DEF Publish, Lose
  <1>2. CASE ~Fenced(o)
    <2>1. t \notin Chats
      BY Sorts
    <2>2. completed' = completed \cup ({o} \cap Turns) /\ lost' = lost \cup (ids \ Heard(o, ids))
      BY <1>2 DEF Publish, Lose
    <2>3. t = o \/ t \in ids \ Heard(o, ids)
      BY <2>1 DEF Heard
    <2> QED
      BY <2>2, <2>3
  <1> QED
    BY <1>1, <1>2

\* What one step of a chain does with the input it has: it starts its round, or
\* it ends the round and has ended what it answered or goes on answering it.
Carries(o) ==
  /\ lost \subseteq lost'
  /\ \A p \in Owners \ {o} : chain'[p] = chain[p] /\ batch'[p] = batch[p]
  /\ UNCHANGED <<toCome, admitting>>
  /\ \/ /\ chain[o] = "lock" /\ chain'[o] = "round" /\ batch'[o] = batch[o]
        /\ \A p \in Owners : chain[p] # "round"
        /\ answers' = answers \cup batch[o]
        /\ InQueue' = InQueue
     \/ /\ chain[o] \in {"scheduled", "round"}
        /\ chain'[o] # "round"
        /\ chain'[o] # "lock" => batch'[o] = {}
        /\ InQueue' = InQueue \/ batch'[o] = InQueue
        /\ \/ answers' = answers
           \/ /\ answers' = {} /\ chain[o] = "round"
              /\ \A t \in Turns : t \in answers => t \in completed' \/ t \in lost'

\* Up to the next await.
Parks(o) ==
  /\ \A p \in Owners \ {o} : chain'[p] = chain[p] /\ batch'[p] = batch[p]
  /\ chain'[o] # "round"
  /\ chain'[o] # "lock" => batch'[o] = {}
  /\ InQueue' = InQueue \/ batch'[o] = InQueue

LEMMA LocksParks ==
  ASSUME QueueTypeOK, NEW o \in Owners,
         \/ Locks(o, {}) /\ UNCHANGED queue
         \/ Locks(o, InQueue) /\ queue' = <<>>
  PROVE  Parks(o)
  <1>1. UNCHANGED queue => InQueue' = InQueue
    BY QueueKept
  <1> QED
    BY <1>1 DEF Locks, Parks, QueueTypeOK

LEMMA EndsParks ==
  ASSUME QueueTypeOK, NEW o \in Owners, Ends(o), UNCHANGED queue
  PROVE  Parks(o)
  <1>1. InQueue' = InQueue
    BY QueueKept
  <1> QED
    BY <1>1 DEF Ends, Parks, QueueTypeOK

LEMMA ResumeParks ==
  ASSUME QueueTypeOK, NEW o \in Owners, NEW done, NEW kept, Resume(o, done, kept)
  PROVE  Parks(o)
  BY LocksParks, EndsParks DEF Resume

LEMMA EndRequestsEnds ==
  ASSUME QueueTypeOK, NEW o, EndRequests(o)
  PROVE  /\ lost \subseteq lost'
         /\ \A t \in Turns : t \in answers => t \in completed' \/ t \in lost'
  BY PublishEnds DEF EndRequests, Silence, Publish, Lose, QueueTypeOK

LEMMA ChainCarries ==
  ASSUME QueueTypeOK, ChainsInv, NEW o \in Owners, ChainStep(o)
  PROVE  Carries(o)
  <1>1. CASE StartDrain(o)
    <2>1. Parks(o)
      BY <1>1, LocksParks, EndsParks DEF StartDrain
    <2> QED
      BY <1>1, <2>1 DEF StartDrain, Parks, Carries, Lose
  <1>2. CASE StartHub(o)
    <2>1. Parks(o)
      <3>1. CASE processing
        <4>1. InQueue' = InQueue
          BY <1>2, QueueKept DEF StartHub
        <4>2. batch[o] = {} /\ batch' = batch /\ chain' = [chain EXCEPT ![o] = "none"]
          BY <1>2, <3>1 DEF StartHub, ChainsInv
        <4> QED
          BY <4>1, <4>2 DEF Parks, QueueTypeOK
      <3>2. CASE ~processing
        BY <1>2, <3>2, LocksParks DEF StartHub
      <3> QED
        BY <3>1, <3>2
    <2> QED
      BY <1>2, <2>1 DEF StartHub, Parks, Carries, Silence
  <1>3. CASE BeginRound(o)
    <2>1. InQueue' = InQueue
      BY <1>3, QueueKept DEF BeginRound
    <2> QED
      BY <1>3, <2>1 DEF BeginRound, Answering, Silence, Carries, QueueTypeOK
  <1>4. CASE RoundCompletes(o)
    <2>1. Parks(o)
      BY <1>4, ResumeParks DEF RoundCompletes
    <2>2. \A t \in Turns : t \in answers => t \in completed' \/ t \in lost'
      BY <1>4, PublishEnds DEF RoundCompletes
    <2>3. lost \subseteq lost'
      BY <1>4 DEF RoundCompletes, Publish, Lose
    <2> QED
      BY <1>4, <2>1, <2>2, <2>3 DEF RoundCompletes, Parks, Carries
  <1>5. CASE RoundHasTools(o)
    <2>1. Parks(o)
      BY <1>5, ResumeParks DEF RoundHasTools
    <2> QED
      BY <1>5, <2>1 DEF RoundHasTools, Parks, Carries, Lose
  <1>6. CASE RoundRaises(o)
    <2>1. Parks(o)
      BY <1>6, ResumeParks DEF RoundRaises
    <2>2. /\ lost \subseteq lost'
          /\ \A t \in Turns : t \in answers => t \in completed' \/ t \in lost'
      BY <1>6, EndRequestsEnds DEF RoundRaises
    <2> QED
      BY <1>6, <2>1, <2>2 DEF RoundRaises, Parks, Carries
  <1>8. CASE RoundDenied(o)
    <2>1. Parks(o)
      BY <1>8, EndsParks DEF RoundDenied
    <2>2. /\ lost \subseteq lost'
          /\ \A t \in Turns : t \in answers => t \in completed' \/ t \in lost'
      BY <1>8, EndRequestsEnds DEF RoundDenied
    <2> QED
      BY <1>8, <2>1, <2>2 DEF RoundDenied, Parks, Carries
  <1>7. CASE Backstop(o)
    <2>1. Parks(o)
      BY <1>7, ResumeParks DEF Backstop
    <2>2. CASE o \in hub
      BY <1>7, <2>1, <2>2 DEF Backstop, Parks, Carries, Lose
    <2>3. CASE o \notin hub
      <3>1. /\ lost \subseteq lost'
            /\ \A t \in Turns : t \in answers => t \in completed' \/ t \in lost'
        BY <1>7, <2>3, EndRequestsEnds DEF Backstop
      <3> QED
        BY <1>7, <2>1, <2>3, <3>1 DEF Backstop, Parks, Carries
    <2> QED
      BY <2>2, <2>3
  <1> QED
    BY <1>1, <1>2, <1>3, <1>4, <1>5, <1>6, <1>7, <1>8 DEF ChainStep

\* A step of a chain keeps the chains in order.
LEMMA CarriesChains ==
  ASSUME TypeOK, ChainsInv, NEW o \in Owners, Carries(o)
  PROVE  ChainsInv'
  <1>1. ASSUME NEW p \in Owners
        PROVE  /\ chain'[p] \in {"none", "scheduled"} => batch'[p] = {}
               /\ p \in toCome' \cup (admitting' \cap Chats) => chain'[p] = "none"
    <2>1. chain'[p] \in {"none", "scheduled"} => batch'[p] = {}
      BY DEF Carries, ChainsInv
    <2>2. p = o => chain[p] # "none"
      BY DEF Carries
    <2> QED
      BY <2>1, <2>2 DEF Carries, ChainsInv
  <1>2. ASSUME NEW p \in Owners, chain'[p] = "round"
        PROVE  batch'[p] \subseteq answers'
    <2>1. CASE p = o
      BY <1>2, <2>1 DEF Carries
    <2>2. CASE p # o
      <3>1. chain[p] = "round" /\ batch'[p] = batch[p] /\ chain[o] # "round"
        BY <1>2, <2>2 DEF Carries, ChainsInv
      <3>2. answers \subseteq answers'
        BY <3>1 DEF Carries
      <3> QED
        BY <3>1, <3>2 DEF ChainsInv
    <2> QED
      BY <2>1, <2>2
  <1>3. ASSUME NEW p \in Owners, NEW q \in Owners, chain'[p] = "round", chain'[q] = "round"
        PROVE  p = q
    BY <1>3 DEF Carries, ChainsInv
  <1> QED
    BY <1>1, <1>2, <1>3 DEF ChainsInv

\* The input of a turn stays with the agent until the turn ends.
LEMMA CarriesTurn ==
  ASSUME TypeOK, ChainsInv, NEW o \in Owners, Carries(o), NEW t \in Turns, t \in Taken
  PROVE  t \in Taken' \/ t \in completed' \/ t \in lost'
  <1>1. CASE t \in InQueue
    BY <1>1 DEF Carries, Taken
  <1>2. CASE t \in answers
    BY <1>2 DEF Carries, Taken
  <1>3. ASSUME NEW p \in Owners, t \in batch[p]
        PROVE  t \in Taken' \/ t \in completed' \/ t \in lost'
    <2>1. CASE p # o
      BY <1>3, <2>1 DEF Carries, Taken
    <2>2. CASE p = o /\ chain[o] = "lock"
      BY <1>3, <2>2 DEF Carries, Taken
    <2>3. CASE p = o /\ chain[o] # "lock"
      <3>1. t \in answers
        BY <1>3, <2>3 DEF Carries, ChainsInv
      <3> QED
        BY <1>2, <3>1
    <2> QED
      BY <2>1, <2>2, <2>3
  <1> QED
    BY <1>1, <1>2, <1>3 DEF Taken

HoldInv == ChainsInv /\ FollowInv

LEMMA HoldInit == Init => HoldInv
  BY Sorts DEF Init, QueueInit, HoldInv, ChainsInv, FollowInv

\* A step that leaves queue and chains alone.
LEMMA HoldFrame ==
  ASSUME HoldInv, UNCHANGED <<queue, chain, batch, answers>>,
         toCome' \cup (admitting' \cap Chats) \subseteq toCome \cup (admitting \cap Chats),
         lost \subseteq lost', completed \subseteq completed',
         worker' = "follow" => worker = "follow" /\ active' = active
  PROVE  HoldInv'
  <1>1. InQueue' = InQueue
    BY QueueKept
  <1>2. Taken' = Taken
    BY <1>1 DEF Taken
  <1> QED
    BY <1>2 DEF HoldInv, ChainsInv, FollowInv

LEMMA BrokerHolds ==
  ASSUME IndInv, HoldInv,
         \/ Submit \/ TakeNext \/ StartTurn \/ AdmitTurn \/ RefuseTurn \/ IgnoreTurn
         \/ FinishTurn
         \/ CancelWaiting \/ (\E i \in 1..Len(pending) : CancelPending(i)) \/ CloseEnd
         \/ UNCHANGED vars
  PROVE  HoldInv'
  <1>1. CASE Submit \/ TakeNext \/ StartTurn \/ FinishTurn \/ UNCHANGED vars
    BY <1>1, HoldFrame
    DEF Submit, TakeNext, StartTurn, FinishTurn, vars, qvars, bvars, IndInv, TypeOK
  <1>2. CASE AdmitTurn
    <2>1. active \notin Chats
      BY <1>2, Sorts DEF AdmitTurn, IndInv, TypeOK
    <2> QED
      BY <1>2, <2>1, HoldFrame DEF AdmitTurn, Reset, Silence, bvars
  <1>3. CASE RefuseTurn \/ CloseEnd
    BY <1>3, HoldFrame DEF RefuseTurn, SettleActive, CloseEnd
  <1>4. CASE CancelWaiting \/ (\E i \in 1..Len(pending) : CancelPending(i))
    <2>1. PICK t : SettleQueued(t)
      BY <1>4 DEF CancelWaiting, CancelPending
    <2> QED
      BY <2>1, HoldFrame DEF SettleQueued
  <1>5. CASE IgnoreTurn
    <2>1. ChainsInv'
      BY <1>5 DEF IgnoreTurn, HoldInv, ChainsInv
    <2> QED
      BY <1>5, <2>1 DEF IgnoreTurn, Lose, HoldInv, FollowInv
  <1> QED
    BY <1>1, <1>2, <1>3, <1>4, <1>5

LEMMA ChainsKept ==
  ASSUME ChainsInv, UNCHANGED <<chain, batch, answers, toCome>>,
         admitting' \subseteq admitting
  PROVE  ChainsInv'
  BY DEF ChainsInv

\* A cancelled turn has ended.
LEMMA CancelHolds ==
  ASSUME HoldInv, CancelActive, UNCHANGED <<active, worker>>
  PROVE  HoldInv'
  <1>1. ChainsInv'
    BY ChainsKept DEF HoldInv, CancelActive, Withdraw
  <1>2. FollowInv'
    BY DEF FollowInv, CancelActive
  <1> QED
    BY <1>1, <1>2 DEF HoldInv

\* A Stop that sweeps a client turn from the queue loses its end.
LEMMA StopHolds ==
  ASSUME IndInv, HoldInv, Stop, UNCHANGED bvars
  PROVE  HoldInv'
  <1>1. ChainsInv'
    BY ChainsKept DEF HoldInv, Stop
  <1>2. FollowInv'
    <2> SUFFICES ASSUME worker = "follow", active \notin completed, active \notin lost'
                 PROVE  active \in Taken'
      BY DEF FollowInv, Stop, bvars
    <2>1. active \in Turns
      BY DEF IndInv, TypeOK
    <2>2. active \notin lost /\ UNCHANGED <<answers, batch, active>>
      BY DEF Stop, CancelCurrent, Lose, bvars
    <2>3. active \in InQueue => InQueue' = InQueue
      BY <2>1, QueueKept DEF Stop, CancelCurrent, Lose
    <2>4. active \in Taken
      BY <2>2 DEF HoldInv, FollowInv
    <2> QED
      BY <2>2, <2>3, <2>4 DEF Taken
  <1> QED
    BY <1>1, <1>2 DEF HoldInv

\* A chain starts without a batch.
LEMMA StarterHolds ==
  ASSUME IndInv, HoldInv, NEW w \in Owners, Wake(w) \/ (w = Watchdog /\ Heal),
         UNCHANGED bvars
  PROVE  HoldInv'
  <1>1. /\ chain' = [chain EXCEPT ![w] = "scheduled"]
        /\ UNCHANGED <<admitting, queue, batch, answers, completed, lost>>
        /\ toCome' \subseteq toCome /\ w \notin toCome' \cup (admitting' \cap Chats)
    <2>1. CASE Wake(w)
      <3>1. w \notin Chats
        BY <2>1, TurnAssumption DEF Wake
      <3> QED
        BY <2>1, <3>1 DEF Wake, Silence
    <2>2. CASE w = Watchdog /\ Heal
      <3>1. w \notin Chats \cup Wakes
        BY <2>2, TurnAssumption
      <3> QED
        BY <2>2, <3>1 DEF Heal, Silence, IndInv, TypeOK, QueueTypeOK
    <2> QED
      BY <2>1, <2>2
  <1>2. chain[w] = "none"
    BY DEF Wake, Heal, HoldInv, ChainsInv
  <1>3. batch[w] = {}
    BY <1>2 DEF HoldInv, ChainsInv
  <1>4. ChainsInv'
    BY <1>1, <1>2, <1>3 DEF HoldInv, ChainsInv, IndInv, TypeOK, QueueTypeOK
  <1>5. Taken' = Taken
    BY <1>1, QueueKept DEF Taken
  <1> QED
    BY <1>1, <1>4, <1>5 DEF HoldInv, FollowInv, bvars

\* Input that is put into the queue is with the agent.
LEMMA PutHolds ==
  ASSUME IndInv, HoldInv, NEW i \in Ids, Put(i), chain[i] = "none",
         worker' = "follow" => active' = i \/ (worker = "follow" /\ active' = active)
  PROVE  HoldInv'
  <1>1. InQueue' = InQueue \cup {i} /\ \A o \in Owners : o # i => chain'[o] = chain[o]
    BY PutOK DEF IndInv
  <1>2. i \in Owners
    BY Sorts
  <1>3. chain'[i] \in {"none", "scheduled"}
    BY <1>2 DEF Put, IndInv, TypeOK, QueueTypeOK
  <1>4. /\ UNCHANGED <<toCome, batch, answers, completed>>
        /\ admitting' = admitting \ {i} /\ lost \subseteq lost'
    BY DEF Put, Lose
  <1>5. i \in toCome => i \notin admitting
    <2>0. toCome \subseteq Chats \cup Wakes
      BY DEF IndInv, TypeOK, QueueTypeOK
    <2>1. i \in toCome => i \in Chats
      BY <2>0, TurnAssumption DEF Ids, Turns
    <2> QED
      BY <2>1 DEF IndInv, ChatInv
  <1>6. ChainsInv'
    <2> SUFFICES ASSUME NEW o \in Owners
                 PROVE  /\ chain'[o] \in {"none", "scheduled"} => batch'[o] = {}
                        /\ chain'[o] = "round" => batch'[o] \subseteq answers'
                        /\ \A p \in Owners : chain'[o] = "round" /\ chain'[p] = "round" => o = p
                        /\ o \in toCome' \cup (admitting' \cap Chats) => chain'[o] = "none"
      BY DEF ChainsInv
    <2>1. i \notin toCome' \cup (admitting' \cap Chats)
      BY <1>4, <1>5 DEF Put
    <2> QED
      BY <1>1, <1>2, <1>3, <1>4, <2>1 DEF HoldInv, ChainsInv
  <1>7. Taken \cup {i} \subseteq Taken'
    BY <1>1, <1>4 DEF Taken
  <1> QED
    BY <1>4, <1>6, <1>7 DEF HoldInv, FollowInv

LEMMA HoldStep == IndInv /\ HoldInv /\ [Next]_vars => HoldInv'
  <1> SUFFICES ASSUME IndInv, HoldInv, [Next]_vars PROVE HoldInv'
    OBVIOUS
  <1>1. CASE PutTurn
    <2>1. active \in Ids /\ Put(active) /\ chain[active] = "none"
      BY <1>1, Sorts DEF PutTurn, IndInv, TypeOK, TurnInv
    <2> QED
      BY <1>1, <2>1, PutHolds DEF PutTurn
  <1>2. CASE \E c \in Chats : PutChat(c)
    <2>1. PICK c \in Chats : PutChat(c)
      BY <1>2
    <2>2. c \in Ids /\ Put(c) /\ chain[c] = "none"
      BY <2>1, Sorts DEF PutChat, Put, HoldInv, ChainsInv
    <2> QED
      BY <2>1, <2>2, PutHolds DEF PutChat, bvars
  <1>3. CASE CloseBegin
    <2>1. CASE CancelActive
      BY <1>3, <2>1, CancelHolds DEF CloseBegin
    <2>2. CASE ~CancelActive
      BY <1>3, <2>2, HoldFrame DEF CloseBegin, qvars
    <2> QED
      BY <2>1, <2>2
  <1>4. CASE Outside /\ UNCHANGED bvars
    <2>1. ASSUME NEW c \in Chats, ChatArrives(c) PROVE HoldInv'
      BY <1>4, <2>1, HoldFrame DEF ChatArrives, Reset, Silence, bvars
    <2>2. ASSUME NEW w \in Wakes, Wake(w) PROVE HoldInv'
      BY <1>4, <2>2, StarterHolds, Sorts
    <2>3. ASSUME NEW o \in Owners, ChainStep(o) PROVE HoldInv'
      <3>1. Carries(o) /\ TypeOK
        BY <2>3, ChainCarries DEF IndInv, TypeOK, HoldInv
      <3>2. ChainsInv'
        BY <3>1, CarriesChains DEF HoldInv
      <3>3. completed \subseteq completed' /\ UNCHANGED <<active, worker>>
        BY <1>4, <2>3, ChainProgress DEF IndInv, TypeOK, Progress, Speaks, bvars
      <3>4. worker = "follow" => active \in Turns
        BY <3>1 DEF TypeOK
      <3>5. FollowInv'
        BY <3>1, <3>3, <3>4, CarriesTurn DEF HoldInv, FollowInv, Carries
      <3> QED
        BY <3>2, <3>5 DEF HoldInv
    <2>4. CASE Heal
      BY <1>4, <2>4, StarterHolds, Sorts
    <2>5. CASE Stop
      BY <1>4, <2>5, StopHolds
    <2> QED
      BY <1>4, <2>1, <2>2, <2>3, <2>4, <2>5 DEF Outside
  <1>5. CASE Cancel
    BY <1>5, CancelHolds DEF Cancel
  <1> QED
    BY <1>1, <1>2, <1>3, <1>4, <1>5, BrokerHolds DEF Next, WorkerStep

\* A cancel stops work that has nothing to do with its turn in two situations
\* only, for any number of turns, messages, wakes, stops and chains: in the
\* input hooks, and after its own terminal event was lost (ClientTurnBroker.cancel).
THEOREM CancelsAreKnown == Spec => StrayCancelsKnown
  <1>1. ASSUME IndInv, HoldInv, [Next]_vars, ~latch, latch', stops' = stops
        PROVE  active \in Taken \/ (worker = "hooks" /\ processing) \/ active \in lost
    <2>1. CASE CancelActive
      <3>1. processing /\ active \in Turns /\ active \notin completed
        BY <1>1, <2>1 DEF CancelActive, CancelCurrent, IndInv, TypeOK
      <3>2. worker \in {"hooks", "follow"}
        BY <1>1, <3>1, Sorts DEF IndInv, TypeOK
      <3> QED
        BY <1>1, <3>1, <3>2 DEF HoldInv, FollowInv
    <2>2. CASE Outside
      <3>1. \A o \in Owners : ChainStep(o) => (latch' => latch)
        BY DEF ChainStep, StartDrain, StartHub, BeginRound, RoundCompletes,
               RoundHasTools, RoundRaises,
               RoundDenied, Backstop
      <3>2. ~Stop
        BY <1>1 DEF Stop, IndInv, TypeOK, QueueTypeOK
      <3> QED
        BY <1>1, <2>2, <3>1, <3>2 DEF Outside, ChatArrives, Reset, Wake, Heal
    <2>3. CASE ~CancelActive /\ ~Outside
      BY <1>1, <2>3
      DEF Next, Submit, WorkerStep, TakeNext, StartTurn, AdmitTurn, PutTurn,
          RefuseTurn, IgnoreTurn, FinishTurn, Cancel, CancelWaiting, CancelPending,
          SettleQueued, CloseBegin, CloseEnd, PutChat, Put, Reset, vars, qvars
    <2> QED
      BY <2>1, <2>2, <2>3
  <1>2. IndInv /\ HoldInv /\ [Next]_vars =>
          [~latch /\ latch' /\ stops' = stops =>
             active \in Taken \/ (worker = "hooks" /\ processing) \/ active \in lost]_vars
    BY <1>1
  <1> QED
    BY <1>2, InvInit, InvStep, HoldInit, HoldStep, PTL DEF Spec, StrayCancelsKnown

\* So the broker keeps its word if nothing else starts while a turn is in the
\* input hooks and no active turn's terminal event is lost (client_turns.py, module
\* docstring).
THEOREM ScopedUnlessEarly ==
  Spec /\ [](active \notin lost) /\ [](worker = "hooks" => ~processing) => CancelIsScoped
  <1> DEFINE Strays == active \in Taken \/ (worker = "hooks" /\ processing) \/ active \in lost
  <1>1. active \notin lost /\ (worker = "hooks" => ~processing)
          /\ [~latch /\ latch' /\ stops' = stops => Strays]_vars
          => [~latch /\ latch' /\ stops' = stops => active \in Taken]_vars
    OBVIOUS
  <1> QED
    BY <1>1, CancelsAreKnown, PTL DEF StrayCancelsKnown, CancelIsScoped

=============================================================================
