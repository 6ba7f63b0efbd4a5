------------------------- MODULE InterviewScheduling -------------------------
(***************************************************************************)
(* Interview scheduling of one application: the ATS service                *)
(* (internal/service/ats.go) and its PostgreSQL transactions               *)
(* (internal/repository/ats_postgres.go).  Different applications share no *)
(* row, so one is enough.                                                  *)
(*                                                                         *)
(* Requests run concurrently at PostgreSQL's READ COMMITTED level: a       *)
(* transaction's writes are seen by others from its commit, a statement    *)
(* sees what was committed when it began, and a row lock is waited for,    *)
(* after which the row is read again.  A transaction that holds all its    *)
(* locks writes and commits in one step here.  A slot is never Locked: no  *)
(* code sets that status.                                                  *)
(***************************************************************************)
EXTENDS Integers, FiniteSets

CONSTANTS MaxSlots,      \* bound: slots created in a behaviour
          Request,       \* requests, each made once
          NoRequest,     \* a lock nobody holds
          NoSlot,        \* a request that has chosen no slot
          OfferSize,     \* slots of one offer (3 in ats.go)
          Given,         \* bound: the statuses employers set themselves
          MaxFaults      \* bound: transactions and inserts that fail

Slot == 1..MaxSlots      \* slots in the order of their insertion

ASSUME SchedulingAssumption ==
    /\ MaxSlots \in Nat
    /\ NoRequest \notin Request
    /\ NoSlot \notin Slot
    /\ OfferSize \in Nat \ {0}
    /\ Given \subseteq {"Applied", "Shortlisted", "Slot_Selection_Pending",
                     "Interview_Scheduled", "Selected", "Rejected"}
    /\ MaxFaults \in Nat

VARIABLES application,   \* applications.status, committed
          slot,          \* slot[s]: interview_slots.status, committed
          offer,         \* offer[s]: the request that created slot s
          appLock,       \* who has locked the application row
          slotLock,      \* slotLock[s]: who has locked slot s
          pc,            \* pc[r]: where request r is
          chosen,        \* chosen[r]: the slot r selects
          todo,          \* todo[r]: rows r's cancelling UPDATE has yet to visit
          cancels,       \* cancels[r]: rows it has visited and will cancel
          answer,        \* answer[r]: the response
          committed,     \* requests whose change is committed
          notified,      \* requests whose notification event is queued
          faults         \* faults so far

tables == <<application, slot, offer>>
locks == <<appLock, slotLock>>
local == <<pc, chosen, todo, cancels, answer>>
vars == <<tables, locks, local, committed, notified, faults>>

ApplicationStatus == {"Applied", "Shortlisted", "Slot_Selection_Pending",
                      "Interview_Scheduled", "Selected", "Rejected"}
SlotStatus == {"Absent", "Available", "Confirmed", "Cancelled"}

TypeOK ==
    /\ application \in ApplicationStatus
    /\ slot \in [Slot -> SlotStatus]
    /\ offer \in [Slot -> Request \cup {NoRequest}]
    /\ appLock \in Request \cup {NoRequest}
    /\ slotLock \in [Slot -> Request \cup {NoRequest}]
    /\ pc \in [Request -> {"new", "direct", "offer", "confirm", "cancel",
                           "notify", "done"}]
    /\ chosen \in [Request -> Slot \cup {NoSlot}]
    /\ todo \in [Request -> SUBSET Slot]
    /\ cancels \in [Request -> SUBSET Slot]
    /\ answer \in [Request -> {"none", "ok", "conflict", "error"}]
    /\ committed \in SUBSET Request
    /\ notified \in SUBSET Request
    /\ faults \in 0..MaxFaults

Init ==
    /\ application = "Applied"
    /\ slot = [s \in Slot |-> "Absent"]
    /\ offer = [s \in Slot |-> NoRequest]
    /\ appLock = NoRequest
    /\ slotLock = [s \in Slot |-> NoRequest]
    /\ pc = [r \in Request |-> "new"]
    /\ chosen = [r \in Request |-> NoSlot]
    /\ todo = [r \in Request |-> {}]
    /\ cancels = [r \in Request |-> {}]
    /\ answer = [r \in Request |-> "none"]
    /\ committed = {}
    /\ notified = {}
    /\ faults = 0

-----------------------------------------------------------------------------
Absent == {s \in Slot : slot[s] = "Absent"}

\* The next n rows to be inserted.
NextSlots(n) == {s \in Absent : Cardinality({t \in Absent : t < s}) < n}

\* Commit or rollback: the row locks of r are released.
ReleaseLocks(r) ==
    /\ appLock' = IF appLock = r THEN NoRequest ELSE appLock
    /\ slotLock' = [s \in Slot |-> IF slotLock[s] = r THEN NoRequest ELSE slotLock[s]]

Reply(r, a) ==
    /\ pc' = [pc EXCEPT ![r] = "done"]
    /\ answer' = [answer EXCEPT ![r] = a]

\* Mutant: a change whose event nobody queues.
CommitUntold(r) ==
    /\ committed' = committed \cup {r}
    /\ Reply(r, "ok")
    /\ ReleaseLocks(r)
    /\ UNCHANGED <<chosen, todo, cancels, notified, faults>>

\* Committed: createStatusNotification is next.
Commit(r) ==
    /\ committed' = committed \cup {r}
    /\ pc' = [pc EXCEPT ![r] = "notify"]
    /\ ReleaseLocks(r)
    /\ UNCHANGED <<chosen, todo, cancels, answer, notified, faults>>

-----------------------------------------------------------------------------
(* UpdateApplicationStatus: one UPDATE, then the row is read back.         *)

\* The read back succeeds, or fails with the change committed.
ReadBack(r) ==
    \/ Reply(r, "ok") /\ UNCHANGED faults
    \/ Reply(r, "error") /\ faults < MaxFaults /\ faults' = faults + 1

UpdateApplicationStatus(r, status) ==
    /\ pc[r] = "new"
    /\ appLock = NoRequest
    /\ application' = status
    /\ IF status = "Applied"      \* notificationEventType: no event
       THEN /\ ReadBack(r)
            /\ committed' = committed \cup {r}
            /\ notified' = notified \cup {r}
            /\ UNCHANGED <<locks, chosen, todo, cancels>>
       ELSE Commit(r)
    /\ UNCHANGED <<slot, offer>>

-----------------------------------------------------------------------------
(* CreateDirectInterview and CreateInterviewSlots lock the application     *)
(* first (lockEmployerApplication).                                        *)

LockApplication(r, kind, n) ==
    /\ pc[r] = "new"
    /\ Cardinality(Absent) >= n
    /\ appLock = NoRequest
    /\ appLock' = r
    /\ pc' = [pc EXCEPT ![r] = kind]
    /\ UNCHANGED <<tables, slotLock, chosen, todo, cancels, answer,
                   committed, notified, faults>>

Insert(r, S, status) ==
    /\ slot' = [s \in Slot |-> IF s \in S THEN status ELSE slot[s]]
    /\ offer' = [s \in Slot |-> IF s \in S THEN r ELSE offer[s]]

CreateDirectInterview(r) ==
    /\ pc[r] = "direct"
    /\ Insert(r, NextSlots(1), "Confirmed")
    /\ application' = "Interview_Scheduled"
    /\ Commit(r)

CreateInterviewSlots(r) ==
    /\ pc[r] = "offer"
    /\ Insert(r, NextSlots(OfferSize), "Available")
    /\ application' = "Slot_Selection_Pending"
    /\ Commit(r)

-----------------------------------------------------------------------------
(* SelectInterviewSlot locks slots first and the application last.         *)

\* Mutant: the status of the locked slot is not checked.
SelectableUnchecked(s) == slot[s] # "Absent"

Selectable(s) == slot[s] = "Available"

\* SELECT ... FOR UPDATE, then the check of the row's status.
LockChosen(r, s) ==
    /\ pc[r] = "new"
    /\ slot[s] # "Absent"
    /\ slotLock[s] = NoRequest
    /\ chosen' = [chosen EXCEPT ![r] = s]
    /\ IF Selectable(s)
       THEN /\ slotLock' = [slotLock EXCEPT ![s] = r]
            /\ pc' = [pc EXCEPT ![r] = "confirm"]
            /\ UNCHANGED answer
       ELSE /\ Reply(r, "conflict")
            /\ UNCHANGED slotLock
    /\ UNCHANGED <<tables, appLock, todo, cancels, committed, notified, faults>>

\* Mutant: only the chosen slot is written, the others are left alone.
NoOthers(r) == {}

\* WHERE application_id = $1 AND id <> $2 AND status IN ('Available', 'Locked')
Others(r) == {t \in Slot \ {chosen[r]} : slot[t] = "Available"}

\* The chosen row becomes Confirmed; the UPDATE of the others takes its snapshot.
ConfirmChosen(r) ==
    /\ pc[r] = "confirm"
    /\ todo' = [todo EXCEPT ![r] = Others(r)]
    /\ pc' = [pc EXCEPT ![r] = "cancel"]
    /\ UNCHANGED <<tables, locks, chosen, cancels, answer, committed, notified, faults>>

\* PostgreSQL evaluates the WHERE clause again on the row it had to wait for.
StillMatches(t) == slot[t] = "Available"

\* It visits its rows in some order and waits for the locked ones.
CancelOther(r, t) ==
    /\ pc[r] = "cancel"
    /\ t \in todo[r]
    /\ slotLock[t] = NoRequest
    /\ todo' = [todo EXCEPT ![r] = @ \ {t}]
    /\ IF StillMatches(t)
       THEN /\ slotLock' = [slotLock EXCEPT ![t] = r]
            /\ cancels' = [cancels EXCEPT ![r] = @ \cup {t}]
       ELSE UNCHANGED <<slotLock, cancels>>
    /\ UNCHANGED <<tables, appLock, pc, chosen, answer, committed, notified, faults>>

\* UPDATE applications waits for the application row, then the commit.
SelectInterviewSlot(r) ==
    /\ pc[r] = "cancel"
    /\ todo[r] = {}
    /\ appLock = NoRequest
    /\ application' = "Interview_Scheduled"
    /\ slot' = [s \in Slot |-> CASE s = chosen[r] -> "Confirmed"
                                 [] s \in cancels[r] -> "Cancelled"
                                 [] OTHER -> slot[s]]
    /\ Commit(r)
    /\ UNCHANGED offer

-----------------------------------------------------------------------------
(* Notifications and failures.                                             *)

CreateNotificationEvent(r) ==
    /\ pc[r] = "notify"
    /\ notified' = notified \cup {r}
    /\ Reply(r, "ok")
    /\ UNCHANGED <<tables, locks, chosen, todo, cancels, committed, faults>>

\* Mutant: the error of the notification is dropped.
NotificationFailsSilently(r) ==
    /\ pc[r] = "notify"
    /\ faults < MaxFaults
    /\ faults' = faults + 1
    /\ Reply(r, "ok")
    /\ UNCHANGED <<tables, locks, chosen, todo, cancels, committed, notified>>

\* The insert, or a read of the application before it, fails or the process
\* dies; the change is committed.
NotificationFails(r) ==
    /\ pc[r] = "notify"
    /\ faults < MaxFaults
    /\ faults' = faults + 1
    /\ Reply(r, "error")
    /\ UNCHANGED <<tables, locks, chosen, todo, cancels, committed, notified>>

InTransaction(r) == pc[r] \in {"direct", "offer", "confirm", "cancel"}

\* Mutant: an error is returned without the deferred rollback.
RollbackForgotten(r) ==
    /\ UNCHANGED locks
    /\ todo' = [todo EXCEPT ![r] = {}]
    /\ cancels' = [cancels EXCEPT ![r] = {}]
    /\ Reply(r, "error")
    /\ UNCHANGED <<tables, chosen, committed, notified>>

Rollback(r) ==
    /\ ReleaseLocks(r)
    /\ todo' = [todo EXCEPT ![r] = {}]
    /\ cancels' = [cancels EXCEPT ![r] = {}]
    /\ Reply(r, "error")
    /\ UNCHANGED <<tables, chosen, committed, notified>>

\* A statement or the commit fails, or the connection is lost.
TransactionFails(r) ==
    /\ InTransaction(r)
    /\ faults < MaxFaults
    /\ faults' = faults + 1
    /\ Rollback(r)

WaitsFor(r, q) ==
    /\ pc[r] = "cancel"
    /\ \E t \in todo[r] : slotLock[t] = q

\* PostgreSQL aborts a transaction that waits in a circle.
DeadlockAborted(r) ==
    /\ pc[r] = "cancel"
    /\ \E circle \in SUBSET Request :
          /\ r \in circle
          /\ \A q \in circle : /\ \E p \in circle : WaitsFor(q, p)
                               /\ \E p \in circle : WaitsFor(p, q)
    /\ Rollback(r)
    /\ UNCHANGED faults

-----------------------------------------------------------------------------
\* What an accepted request does until its response.
Progress(r) ==
    \/ CreateDirectInterview(r) \/ CreateInterviewSlots(r)
    \/ ConfirmChosen(r) \/ (\E t \in Slot : CancelOther(r, t))
    \/ SelectInterviewSlot(r) \/ DeadlockAborted(r)
    \/ CreateNotificationEvent(r)

Next ==
    \E r \in Request :
        \/ \E status \in Given : UpdateApplicationStatus(r, status)
        \/ LockApplication(r, "direct", 1)
        \/ LockApplication(r, "offer", OfferSize)
        \/ \E s \in Slot : LockChosen(r, s)
        \/ Progress(r) \/ NotificationFails(r) \/ TransactionFails(r)

Spec == Init /\ [][Next]_vars

\* A request in progress is executed; nobody has to send one.
FairSpec == Spec /\ \A r \in Request : WF_vars(Progress(r))

-----------------------------------------------------------------------------
(* Properties.                                                             *)

\* Two requests that select the same slot: at most one is committed, whatever
\* the order of their statements ("Duplicate selection of the same slot returns
\* a conflict error", docs_api.md:339).
OneWinnerPerSlot ==
    \A r, q \in committed : chosen[r] = chosen[q] /\ chosen[r] # NoSlot => r = q

\* Of the slots offered together the worker gets at most one, even when two of
\* them are selected at the same time: the two transactions block each other
\* and PostgreSQL aborts one.
OneConfirmedPerOffer ==
    \A s, t \in Slot :
        s # t /\ offer[s] = offer[t] /\ slot[s] = "Confirmed" => slot[t] # "Confirmed"

\* A slot that was confirmed or cancelled stays so: no transaction overwrites
\* the outcome of another.
SettledSlotsStay ==
    [][\A s \in Slot : slot[s] \in {"Confirmed", "Cancelled"} => slot'[s] = slot[s]]_vars

\* Requests that committed a change and were answered with an error.
Misreported == {r \in committed : answer[r] = "error"}

\* A success response means the change is committed and its event is queued; a
\* conflict means that nothing was changed; and an error means the same, except of
\* one request for each call that failed after a commit, before the event was in
\* (ats.go:106) or the row read back (ats_postgres.go:144): a rollback, a deadlock
\* or a second application is never an error with a change behind it.
AnswerIsTrue ==
    /\ \A r \in Request : /\ answer[r] = "ok" => r \in committed \cap notified
                          /\ answer[r] = "conflict" => r \notin committed
    /\ Cardinality(Misreported) <= faults

\* The interleaved transactions implement scheduling in atomic steps.
Promise == INSTANCE InterviewPromise WITH
    Slot <- Slot,
    Request <- Request,
    NoRequest <- NoRequest,
    application <- application,
    slot <- slot,
    offer <- offer
KeepsPromise == Promise!Spec

\* Every request that has begun gets its response: no wait is for ever.
EveryRequestEnds ==
    \A r \in Request : pc[r] # "new" ~> pc[r] = "done"
=============================================================================
