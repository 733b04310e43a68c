--------------------------- MODULE CardLifecycle ---------------------------
(***************************************************************************)
(* What the task ledger promises about one card, whatever files and locks  *)
(* it uses: the lifecycle in the module docstring of                       *)
(* plugins/hub/task_ledger.py.  A card is open or owned, work moves between *)
(* them by claim and requeue only, and a finished card stays as it is.     *)
(***************************************************************************)
CONSTANTS
  Cards,     \* task card ids
  Workers,   \* agent identities that can own a card
  Nobody     \* the empty assignee

VARIABLES
  status,    \* [Cards -> Statuses]
  owner      \* [Cards -> Workers \cup {Nobody}]

cardVars == <<status, owner>>

Finished == {"done", "closed", "cancelled", "obsolete"}
Live == {"open", "active", "qa_review"}

LInit ==
  /\ status = [c \in Cards |-> "absent"]
  /\ owner = [c \in Cards |-> Nobody]

\* Only the status changes, to s.
Becomes(c, s) ==
  /\ status' = [status EXCEPT ![c] = s]
  /\ UNCHANGED owner

Open(c) ==
  /\ status[c] = "absent"
  /\ Becomes(c, "open")

Assign(c, w) ==
  /\ status[c] = "absent"
  /\ status' = [status EXCEPT ![c] = "active"]
  /\ owner' = [owner EXCEPT ![c] = w]

\* An open card gets its one owner.
Take(c, w) ==
  /\ status[c] = "open"
  /\ status' = [status EXCEPT ![c] = "active"]
  /\ owner' = [owner EXCEPT ![c] = w]

GiveBack(c) ==
  /\ status[c] = "active"
  /\ status' = [status EXCEPT ![c] = "open"]
  /\ owner' = [owner EXCEPT ![c] = Nobody]

Review(c) ==
  /\ status[c] \in Live
  /\ Becomes(c, "qa_review")

Rework(c) ==
  /\ status[c] = "qa_review"
  /\ Becomes(c, "active")

Finish(c) ==
  /\ status[c] \in Live
  /\ \E s \in Finished : Becomes(c, s)

LNext ==
  \E c \in Cards :
    \/ Open(c)
    \/ \E w \in Workers : Assign(c, w) \/ Take(c, w)
    \/ GiveBack(c)
    \/ Review(c)
    \/ Rework(c)
    \/ Finish(c)

LSpec == LInit /\ [][LNext]_cardVars
=============================================================================
