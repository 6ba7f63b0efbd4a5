----------------------------- MODULE HiringProofs -----------------------------
(***************************************************************************)
(* Proofs about InterviewScheduling and Hiring for any number of slots,    *)
(* requests and faults and any size of an offer: the transactions, the     *)
(* composition, its refinement of JobApplications step by step, and what   *)
(* the queued events say of the committed changes.                         *)
(***************************************************************************)
EXTENDS MCHiring, FiniteSetTheorems, TLAPS

-----------------------------------------------------------------------------
(* The transactions of the ATS service.                                    *)

\* Success and conflict mean what they say.
Truthful ==
    \A r \in Request : /\ answer[r] = "ok" => r \in committed \cap notified
                       /\ answer[r] = "conflict" => r \notin committed

\* Responses, commits and events follow one another in each request.
AnswersFit ==
    /\ Truthful
    /\ notified \subseteq committed
    /\ \A r \in Request :
          /\ answer[r] = "none" <=> pc[r] # "done"
          /\ r \in committed => pc[r] \in {"notify", "done"}
          /\ pc[r] = "notify" => r \in committed \ notified

\* A row lock has an owner that is in the transaction that took it.
LocksFit ==
    /\ \A r \in Request : appLock = r <=> pc[r] \in {"direct", "offer"}
    /\ \A r \in Request, s \in Slot :
          slotLock[s] = r => /\ pc[r] \in {"confirm", "cancel"}
                             /\ s \in {chosen[r]} \cup cancels[r]

\* What a selection has read of a slot is still true when it commits: the slots it
\* will write are locked by it and Available, and of the slots offered with the
\* chosen one it has cancelled, or will visit, every Available one.
SelectionsFit ==
    \A r \in Request :
        /\ pc[r] \in {"new", "direct", "offer"} => chosen[r] = NoSlot
        /\ pc[r] \in {"new", "direct", "offer", "confirm"} => todo[r] = {} /\ cancels[r] = {}
        /\ pc[r] \in {"confirm", "cancel"} =>
              /\ chosen[r] \in Slot /\ chosen[r] \notin todo[r] \cup cancels[r]
              /\ \A s \in {chosen[r]} \cup cancels[r] :
                    slot[s] = "Available" /\ slotLock[s] = r
        /\ pc[r] = "cancel" =>
              \A t \in Slot \ {chosen[r]} :
                  slot[t] = "Available" /\ offer[t] = offer[chosen[r]] =>
                      t \in todo[r] \cup cancels[r]

\* Once a slot of an offer is confirmed, the others are cancelled.
OffersFit ==
    /\ \A s \in Slot : offer[s] = NoRequest <=> slot[s] = "Absent"
    /\ \A s \in Slot : offer[s] \in Request => pc[offer[s]] \in {"notify", "done"}
    /\ \A s, t \in Slot :
          s # t /\ offer[s] = offer[t] /\ slot[s] = "Confirmed" => slot[t] = "Cancelled"

\* The slot of a committed selection is confirmed.
WinnersFit ==
    /\ OneWinnerPerSlot
    /\ \A r \in committed : chosen[r] # NoSlot => slot[chosen[r]] = "Confirmed"

\* The inductive invariant of the transactions.
IInv ==
    /\ TypeOK
    /\ AnswersFit
    /\ LocksFit
    /\ SelectionsFit
    /\ OffersFit
    /\ WinnersFit
-----------------------------------------------------------------------------
\* The initial states satisfy the inductive invariant.
LEMMA Initial == Init => IInv
  BY SchedulingAssumption DEF Init, IInv, TypeOK, ApplicationStatus, SlotStatus, AnswersFit,
     Truthful, LocksFit, SelectionsFit, OffersFit, WinnersFit, OneWinnerPerSlot

\* Only absent rows are inserted.
LEMMA NextAreAbsent == \A n : NextSlots(n) \subseteq Absent
  BY DEF NextSlots

\* A direct interview is one row.
LEMMA FirstIsOne == TypeOK => \A s, t \in NextSlots(1) : s = t
  <1> SUFFICES ASSUME NEW s \in NextSlots(1), NEW t \in NextSlots(1), s < t
               PROVE  FALSE
    BY SchedulingAssumption DEF NextSlots, Absent, Slot
  <1> DEFINE Before == {u \in Absent : u < t}
  <1>1. IsFiniteSet(Slot)
    BY SchedulingAssumption, FS_Interval, 1 \in Int, MaxSlots \in Int DEF Slot
  <1>2. IsFiniteSet(Before) /\ Cardinality(Before) \in Nat
    BY <1>1, FS_Subset, FS_CardinalityType DEF Absent
  <1>3. Cardinality(Before) < 1
    BY DEF NextSlots
  <1>4. Before = {}
    BY <1>2, <1>3, FS_EmptySet
  <1>5. s \in Before
    BY DEF NextSlots
  <1> QED
    BY <1>4, <1>5

\* Every step of the ATS service preserves the inductive invariant.
LEMMA Inductive == IInv /\ [Next]_vars => IInv'
  <1> USE SchedulingAssumption DEF tables, locks, local
  <1> SUFFICES ASSUME IInv, [Next]_vars PROVE IInv'
    OBVIOUS
  <1> USE DEF IInv
  <1>1. ASSUME NEW r \in Request, NEW status \in Given, UpdateApplicationStatus(r, status)
        PROVE  IInv'
    <2>1. TypeOK'
      BY <1>1 DEF UpdateApplicationStatus, ReadBack, Commit, Reply, ReleaseLocks, TypeOK,
         ApplicationStatus, SlotStatus
    <2>2. AnswersFit'
      BY <1>1 DEF UpdateApplicationStatus, ReadBack, Commit, Reply, ReleaseLocks, TypeOK,
         AnswersFit, Truthful
    <2>3. LocksFit'
      BY <1>1 DEF UpdateApplicationStatus, ReadBack, Commit, Reply, ReleaseLocks, TypeOK,
         LocksFit, SelectionsFit
    <2>4. SelectionsFit'
      BY <1>1 DEF UpdateApplicationStatus, ReadBack, Commit, Reply, ReleaseLocks, TypeOK,
         LocksFit, SelectionsFit, OffersFit
    <2>5. OffersFit'
      BY <1>1 DEF UpdateApplicationStatus, ReadBack, Commit, Reply, ReleaseLocks, TypeOK,
         SelectionsFit, OffersFit
    <2>6. WinnersFit'
      BY <1>1 DEF UpdateApplicationStatus, ReadBack, Commit, Reply, ReleaseLocks, TypeOK,
         AnswersFit, SelectionsFit, WinnersFit, OneWinnerPerSlot
    <2> QED
      BY <2>1, <2>2, <2>3, <2>4, <2>5, <2>6
  <1>2. ASSUME NEW r \in Request, NEW kind \in {"direct", "offer"}, NEW n, LockApplication(r, kind, n)
        PROVE  IInv'
    <2>1. TypeOK'
      BY <1>2 DEF LockApplication, TypeOK, ApplicationStatus, SlotStatus
    <2>2. AnswersFit'
      BY <1>2 DEF LockApplication, TypeOK, AnswersFit, Truthful
    <2>3. LocksFit'
      BY <1>2 DEF LockApplication, TypeOK, LocksFit, SelectionsFit
    <2>4. SelectionsFit'
      BY <1>2 DEF LockApplication, TypeOK, LocksFit, SelectionsFit, OffersFit
    <2>5. OffersFit'
      BY <1>2 DEF LockApplication, TypeOK, SelectionsFit, OffersFit
    <2>6. WinnersFit'
      BY <1>2 DEF LockApplication, TypeOK, AnswersFit, SelectionsFit, WinnersFit,
         OneWinnerPerSlot
    <2> QED
      BY <2>1, <2>2, <2>3, <2>4, <2>5, <2>6
  <1>3. ASSUME NEW r \in Request, CreateDirectInterview(r)
        PROVE  IInv'
    <2>1. TypeOK'
      BY <1>3, NextAreAbsent DEF CreateDirectInterview, Insert, Commit, ReleaseLocks,
         TypeOK, Absent, ApplicationStatus, SlotStatus
    <2>2. AnswersFit'
      BY <1>3, NextAreAbsent DEF CreateDirectInterview, Insert, Commit, ReleaseLocks,
         TypeOK, AnswersFit, Truthful, Absent
    <2>3. LocksFit'
      BY <1>3, NextAreAbsent DEF CreateDirectInterview, Insert, Commit, ReleaseLocks,
         TypeOK, LocksFit, SelectionsFit, Absent
    <2>4. SelectionsFit'
      BY <1>3, NextAreAbsent DEF CreateDirectInterview, Insert, Commit, ReleaseLocks,
         TypeOK, LocksFit, SelectionsFit, OffersFit, Absent
    <2>5. OffersFit'
      <3>1. \A t \in NextSlots(1) : slot[t] = "Absent" /\ offer[t] = NoRequest
        BY NextAreAbsent DEF Absent, OffersFit
      <3>2. \A s \in Slot : offer[s] # r
        BY <1>3 DEF CreateDirectInterview, OffersFit
      <3>3. /\ \A s \in Slot : offer'[s] = NoRequest <=> slot'[s] = "Absent"
            /\ \A s \in Slot : offer'[s] \in Request => pc'[offer'[s]] \in {"notify", "done"}
        BY <1>3, <3>1 DEF CreateDirectInterview, Insert, Commit, TypeOK, OffersFit
      <3>4. ASSUME NEW s \in Slot, NEW t \in Slot, s # t, offer'[s] = offer'[t],
                   slot'[s] = "Confirmed"
            PROVE  slot'[t] = "Cancelled"
        BY <1>3, <3>1, <3>2, <3>4, FirstIsOne DEF CreateDirectInterview, Insert, TypeOK,
           OffersFit
      <3> QED
        BY <3>3, <3>4 DEF OffersFit
    <2>6. WinnersFit'
      BY <1>3, NextAreAbsent DEF CreateDirectInterview, Insert, Commit, ReleaseLocks,
         TypeOK, AnswersFit, SelectionsFit, WinnersFit, OneWinnerPerSlot, Absent
    <2> QED
      BY <2>1, <2>2, <2>3, <2>4, <2>5, <2>6
  <1>4. ASSUME NEW r \in Request, CreateInterviewSlots(r)
        PROVE  IInv'
    <2>1. TypeOK'
      BY <1>4, NextAreAbsent DEF CreateInterviewSlots, Insert, Commit, ReleaseLocks,
         TypeOK, Absent, ApplicationStatus, SlotStatus
    <2>2. AnswersFit'
      BY <1>4, NextAreAbsent DEF CreateInterviewSlots, Insert, Commit, ReleaseLocks,
         TypeOK, AnswersFit, Truthful, Absent
    <2>3. LocksFit'
      BY <1>4, NextAreAbsent DEF CreateInterviewSlots, Insert, Commit, ReleaseLocks,
         TypeOK, LocksFit, SelectionsFit, Absent
    <2>4. SelectionsFit'
      BY <1>4, NextAreAbsent DEF CreateInterviewSlots, Insert, Commit, ReleaseLocks,
         TypeOK, LocksFit, SelectionsFit, OffersFit, Absent
    <2>5. OffersFit'
      BY <1>4, NextAreAbsent DEF CreateInterviewSlots, Insert, Commit, ReleaseLocks,
         TypeOK, SelectionsFit, OffersFit, Absent
    <2>6. WinnersFit'
      BY <1>4, NextAreAbsent DEF CreateInterviewSlots, Insert, Commit, ReleaseLocks,
         TypeOK, AnswersFit, SelectionsFit, WinnersFit, OneWinnerPerSlot, Absent
    <2> QED
      BY <2>1, <2>2, <2>3, <2>4, <2>5, <2>6
  <1>5. ASSUME NEW r \in Request, NEW s \in Slot, LockChosen(r, s)
        PROVE  IInv'
    <2>1. TypeOK'
      BY <1>5 DEF LockChosen, Selectable, Reply, TypeOK, ApplicationStatus, SlotStatus
    <2>2. AnswersFit'
      BY <1>5 DEF LockChosen, Selectable, Reply, TypeOK, AnswersFit, Truthful
    <2>3. LocksFit'
      BY <1>5 DEF LockChosen, Selectable, Reply, TypeOK, LocksFit, SelectionsFit
    <2>4. SelectionsFit'
      BY <1>5 DEF LockChosen, Selectable, Reply, TypeOK, LocksFit, SelectionsFit,
         OffersFit
    <2>5. OffersFit'
      BY <1>5 DEF LockChosen, Selectable, Reply, TypeOK, SelectionsFit, OffersFit
    <2>6. WinnersFit'
      BY <1>5 DEF LockChosen, Selectable, Reply, TypeOK, AnswersFit, SelectionsFit,
         WinnersFit, OneWinnerPerSlot
    <2> QED
      BY <2>1, <2>2, <2>3, <2>4, <2>5, <2>6
  <1>6. ASSUME NEW r \in Request, ConfirmChosen(r)
        PROVE  IInv'
    <2>1. TypeOK'
      BY <1>6 DEF ConfirmChosen, Others, TypeOK, ApplicationStatus, SlotStatus
    <2>2. AnswersFit'
      BY <1>6 DEF ConfirmChosen, Others, TypeOK, AnswersFit, Truthful
    <2>3. LocksFit'
      BY <1>6 DEF ConfirmChosen, Others, TypeOK, LocksFit, SelectionsFit
    <2>4. SelectionsFit'
      BY <1>6 DEF ConfirmChosen, Others, TypeOK, LocksFit, SelectionsFit, OffersFit
    <2>5. OffersFit'
      BY <1>6 DEF ConfirmChosen, Others, TypeOK, SelectionsFit, OffersFit
    <2>6. WinnersFit'
      BY <1>6 DEF ConfirmChosen, Others, TypeOK, AnswersFit, SelectionsFit, WinnersFit,
         OneWinnerPerSlot
    <2> QED
      BY <2>1, <2>2, <2>3, <2>4, <2>5, <2>6
  <1>7. ASSUME NEW r \in Request, NEW t \in Slot, CancelOther(r, t)
        PROVE  IInv'
    <2>1. TypeOK'
      BY <1>7 DEF CancelOther, StillMatches, TypeOK, ApplicationStatus, SlotStatus
    <2>2. AnswersFit'
      BY <1>7 DEF CancelOther, StillMatches, TypeOK, AnswersFit, Truthful
    <2>3. LocksFit'
      BY <1>7 DEF CancelOther, StillMatches, TypeOK, LocksFit, SelectionsFit
    <2>4. SelectionsFit'
      BY <1>7 DEF CancelOther, StillMatches, TypeOK, LocksFit, SelectionsFit, OffersFit
    <2>5. OffersFit'
      BY <1>7 DEF CancelOther, StillMatches, TypeOK, SelectionsFit, OffersFit
    <2>6. WinnersFit'
      BY <1>7 DEF CancelOther, StillMatches, TypeOK, AnswersFit, SelectionsFit,
         WinnersFit, OneWinnerPerSlot
    <2> QED
      BY <2>1, <2>2, <2>3, <2>4, <2>5, <2>6
  <1>8. ASSUME NEW r \in Request, SelectInterviewSlot(r)
        PROVE  IInv'
    <2>1. TypeOK'
      BY <1>8 DEF SelectInterviewSlot, Commit, ReleaseLocks, TypeOK, ApplicationStatus,
         SlotStatus
    <2>2. AnswersFit'
      BY <1>8 DEF SelectInterviewSlot, Commit, ReleaseLocks, TypeOK, AnswersFit,
         Truthful
    <2>3. LocksFit'
      BY <1>8 DEF SelectInterviewSlot, Commit, ReleaseLocks, TypeOK, LocksFit,
         SelectionsFit
    <2>4. SelectionsFit'
      BY <1>8 DEF SelectInterviewSlot, Commit, ReleaseLocks, TypeOK, LocksFit,
         SelectionsFit, OffersFit
    <2>5. OffersFit'
      <3> DEFINE c == chosen[r]
      <3>1. /\ c \in Slot /\ c \notin cancels[r] /\ slot[c] = "Available"
            /\ \A t \in cancels[r] : slot[t] = "Available"
            /\ \A t \in Slot \ {c} :
                  slot[t] = "Available" /\ offer[t] = offer[c] => t \in cancels[r]
        BY <1>8 DEF SelectInterviewSlot, SelectionsFit
      <3>2. /\ slot'[c] = "Confirmed"
            /\ \A t \in Slot : t # c /\ t \in cancels[r] => slot'[t] = "Cancelled"
            /\ \A t \in Slot : t # c /\ t \notin cancels[r] => slot'[t] = slot[t]
        BY <1>8, <3>1 DEF SelectInterviewSlot
      <3>3. offer' = offer /\ pc' = [pc EXCEPT ![r] = "notify"]
        BY <1>8 DEF SelectInterviewSlot, Commit
      <3>4. \A t \in Slot \ {c} : offer[t] = offer[c] => slot'[t] = "Cancelled"
        BY <3>1, <3>2 DEF TypeOK, SlotStatus, OffersFit
      <3>5. ASSUME NEW t \in Slot, NEW u \in Slot, t # u, offer[t] = offer[u],
                   slot'[t] = "Confirmed"
            PROVE  slot'[u] = "Cancelled"
        BY <3>1, <3>2, <3>4, <3>5 DEF OffersFit
      <3>6. \A t \in Slot : offer[t] = NoRequest <=> slot'[t] = "Absent"
        BY <3>1, <3>2 DEF OffersFit
      <3> HIDE DEF c
      <3> QED
        BY <3>3, <3>5, <3>6 DEF OffersFit, TypeOK
    <2>6. WinnersFit'
      BY <1>8 DEF SelectInterviewSlot, Commit, ReleaseLocks, TypeOK, AnswersFit,
         SelectionsFit, WinnersFit, OneWinnerPerSlot
    <2> QED
      BY <2>1, <2>2, <2>3, <2>4, <2>5, <2>6
  <1>9. ASSUME NEW r \in Request, CreateNotificationEvent(r)
        PROVE  IInv'
    <2>1. TypeOK'
      BY <1>9 DEF CreateNotificationEvent, Reply, TypeOK, ApplicationStatus, SlotStatus
    <2>2. AnswersFit'
      BY <1>9 DEF CreateNotificationEvent, Reply, TypeOK, AnswersFit, Truthful
    <2>3. LocksFit'
      BY <1>9 DEF CreateNotificationEvent, Reply, TypeOK, LocksFit, SelectionsFit
    <2>4. SelectionsFit'
      BY <1>9 DEF CreateNotificationEvent, Reply, TypeOK, LocksFit, SelectionsFit,
         OffersFit
    <2>5. OffersFit'
      BY <1>9 DEF CreateNotificationEvent, Reply, TypeOK, SelectionsFit, OffersFit
    <2>6. WinnersFit'
      BY <1>9 DEF CreateNotificationEvent, Reply, TypeOK, AnswersFit, SelectionsFit,
         WinnersFit, OneWinnerPerSlot
    <2> QED
      BY <2>1, <2>2, <2>3, <2>4, <2>5, <2>6
  <1>10. ASSUME NEW r \in Request, NotificationFails(r)
        PROVE  IInv'
    <2>1. TypeOK'
      BY <1>10 DEF NotificationFails, Reply, TypeOK, ApplicationStatus, SlotStatus
    <2>2. AnswersFit'
      BY <1>10 DEF NotificationFails, Reply, TypeOK, AnswersFit, Truthful
    <2>3. LocksFit'
      BY <1>10 DEF NotificationFails, Reply, TypeOK, LocksFit, SelectionsFit
    <2>4. SelectionsFit'
      BY <1>10 DEF NotificationFails, Reply, TypeOK, LocksFit, SelectionsFit, OffersFit
    <2>5. OffersFit'
      BY <1>10 DEF NotificationFails, Reply, TypeOK, SelectionsFit, OffersFit
    <2>6. WinnersFit'
      BY <1>10 DEF NotificationFails, Reply, TypeOK, AnswersFit, SelectionsFit,
         WinnersFit, OneWinnerPerSlot
    <2> QED
      BY <2>1, <2>2, <2>3, <2>4, <2>5, <2>6
  <1>11. ASSUME NEW r \in Request, InTransaction(r), Rollback(r), faults' \in {faults, faults + 1}, faults' \in 0..MaxFaults
        PROVE  IInv'
    <2>1. TypeOK'
      BY <1>11 DEF InTransaction, Rollback, ReleaseLocks, Reply, TypeOK,
         ApplicationStatus, SlotStatus
    <2>2. AnswersFit'
      BY <1>11 DEF InTransaction, Rollback, ReleaseLocks, Reply, TypeOK, AnswersFit,
         Truthful
    <2>3. LocksFit'
      BY <1>11 DEF InTransaction, Rollback, ReleaseLocks, Reply, TypeOK, LocksFit,
         SelectionsFit
    <2>4. SelectionsFit'
      BY <1>11 DEF InTransaction, Rollback, ReleaseLocks, Reply, TypeOK, LocksFit,
         SelectionsFit, OffersFit
    <2>5. OffersFit'
      BY <1>11 DEF InTransaction, Rollback, ReleaseLocks, Reply, TypeOK, SelectionsFit,
         OffersFit
    <2>6. WinnersFit'
      BY <1>11 DEF InTransaction, Rollback, ReleaseLocks, Reply, TypeOK, AnswersFit,
         SelectionsFit, WinnersFit, OneWinnerPerSlot
    <2> QED
      BY <2>1, <2>2, <2>3, <2>4, <2>5, <2>6
  <1>12. CASE UNCHANGED vars
    BY <1>12 DEF vars, TypeOK, AnswersFit, Truthful, LocksFit, SelectionsFit, OffersFit,
       WinnersFit, OneWinnerPerSlot
  <1>13. ASSUME NEW r \in Request, TransactionFails(r) \/ DeadlockAborted(r)
        PROVE  IInv'
    <2>1. /\ InTransaction(r) /\ Rollback(r)
          /\ faults' \in {faults, faults + 1} /\ faults' \in 0..MaxFaults
      BY <1>13 DEF TransactionFails, DeadlockAborted, InTransaction, TypeOK
    <2> QED
      BY <2>1, <1>11
  <1> QED
    BY <1>1, <1>2, <1>3, <1>4, <1>5, <1>6, <1>7, <1>8, <1>9, <1>10, <1>11, <1>12, <1>13
       DEF Next, Progress

\* The inductive invariant says what the runs check of the slots.
LEMMA IInvSays == IInv => OneWinnerPerSlot /\ OneConfirmedPerOffer
  BY DEF IInv, WinnersFit, OffersFit, OneConfirmedPerOffer, AnswersFit

\* No step changes a slot that is confirmed or cancelled: what is inserted was
\* absent, and what a selection writes is locked by it and Available.
LEMMA StepKeepsSettled ==
    ASSUME IInv, [Next]_vars, NEW s \in Slot, slot[s] \in {"Confirmed", "Cancelled"}
    PROVE  slot'[s] = slot[s]
  <1> USE DEF tables
  <1>1. ASSUME NEW r \in Request, CreateDirectInterview(r) \/ CreateInterviewSlots(r)
        PROVE  slot'[s] = slot[s]
    BY <1>1, NextAreAbsent DEF CreateDirectInterview, CreateInterviewSlots, Insert, Absent
  <1>2. ASSUME NEW r \in Request, SelectInterviewSlot(r) PROVE slot'[s] = slot[s]
    <2>1. s # chosen[r] /\ s \notin cancels[r]
      BY <1>2 DEF SelectInterviewSlot, IInv, SelectionsFit
    <2> QED
      BY <1>2, <2>1 DEF SelectInterviewSlot
  <1>3. ASSUME NEW r \in Request,
               \/ \E status \in Given : UpdateApplicationStatus(r, status)
               \/ \E kind \in {"direct", "offer"}, n \in {1, OfferSize} :
                     LockApplication(r, kind, n)
               \/ \E t \in Slot : LockChosen(r, t) \/ CancelOther(r, t)
               \/ ConfirmChosen(r) \/ DeadlockAborted(r) \/ CreateNotificationEvent(r)
               \/ NotificationFails(r) \/ TransactionFails(r)
        PROVE  slot' = slot
    BY <1>3 DEF UpdateApplicationStatus, LockApplication, LockChosen, CancelOther,
       ConfirmChosen, DeadlockAborted, CreateNotificationEvent, NotificationFails,
       TransactionFails, Rollback
  <1>4. CASE UNCHANGED vars
    BY <1>4 DEF vars
  <1> QED
    BY <1>1, <1>2, <1>3, <1>4 DEF Next, Progress

\* A commit is a step of the promise, and everything before and after it a stutter.
LEMMA StepKeepsPromise == IInv /\ [Next]_vars => [Promise!Next]_(Promise!vars)
  <1> USE SchedulingAssumption DEF tables, Promise!vars
  <1> SUFFICES ASSUME IInv, [Next]_vars PROVE [Promise!Next]_(Promise!vars)
    OBVIOUS
  <1>1. ASSUME NEW r \in Request, NEW status \in Given, UpdateApplicationStatus(r, status)
        PROVE  Promise!Next
    <2>1. Promise!SetStatus(status)
      BY <1>1 DEF UpdateApplicationStatus, Promise!SetStatus
    <2> QED
      BY <2>1 DEF Promise!Next
  <1>2. ASSUME NEW r \in Request, NEW n, NEW status, Insert(r, NextSlots(n), status),
               pc[r] \in {"direct", "offer"}
        PROVE  /\ NextSlots(n) \in SUBSET Slot
               /\ Promise!Create(r, NextSlots(n), status)
    <2>1. NextSlots(n) \in SUBSET Slot /\ \A s \in NextSlots(n) : slot[s] = "Absent"
      BY NextAreAbsent DEF Absent
    <2>2. \A s \in Slot : offer[s] # r
      BY <1>2 DEF IInv, OffersFit
    <2> QED
      BY <1>2, <2>1, <2>2 DEF Insert, Promise!Create
  <1>3. ASSUME NEW r \in Request, CreateDirectInterview(r) PROVE Promise!Next
    <2>1. Promise!Create(r, NextSlots(1), "Confirmed") /\ NextSlots(1) \in SUBSET Slot
      BY <1>2, <1>3 DEF CreateDirectInterview
    <2>2. CASE NextSlots(1) = {}
      <3>1. slot' = slot /\ offer' = offer
        BY <2>1, <2>2 DEF Promise!Create, IInv, TypeOK
      <3>2. Promise!SetStatus("Interview_Scheduled")
        BY <1>3, <3>1 DEF CreateDirectInterview, Promise!SetStatus
      <3> QED
        BY <3>2 DEF Promise!Next
    <2>3. ASSUME NEW s \in NextSlots(1) PROVE Promise!Next
      <3>1. NextSlots(1) = {s} /\ s \in Slot
        BY <2>1, FirstIsOne DEF IInv
      <3>2. Promise!Schedule(r, s)
        BY <1>3, <2>1, <3>1 DEF CreateDirectInterview, Promise!Schedule
      <3> QED
        BY <3>1, <3>2 DEF Promise!Next
    <2> QED
      BY <2>2, <2>3
  <1>4. ASSUME NEW r \in Request, CreateInterviewSlots(r) PROVE Promise!Next
    <2>1. NextSlots(OfferSize) \in SUBSET Slot /\ Promise!Offer(r, NextSlots(OfferSize))
      BY <1>2, <1>4 DEF CreateInterviewSlots, Promise!Offer
    <2> QED
      BY <2>1 DEF Promise!Next
  <1>5. ASSUME NEW r \in Request, SelectInterviewSlot(r) PROVE Promise!Next
    <2> DEFINE c == chosen[r]
    <2>1. /\ c \in Slot /\ slot[c] = "Available"
          /\ cancels[r] \in SUBSET Slot
          /\ \A t \in cancels[r] : slot[t] = "Available"
          /\ \A t \in Slot \ {c} :
                offer[t] = offer[c] /\ slot[t] = "Available" => t \in cancels[r]
      BY <1>5 DEF SelectInterviewSlot, IInv, TypeOK, SelectionsFit
    <2>2. slot' = [t \in Slot |-> CASE t = c -> "Confirmed"
                                    [] t \in cancels[r] \ {c} -> "Cancelled"
                                    [] OTHER -> slot[t]]
      BY <1>5 DEF SelectInterviewSlot
    <2>3. Promise!Select(c, cancels[r])
      BY <1>5, <2>1, <2>2 DEF SelectInterviewSlot, Promise!Select
    <2> QED
      BY <2>1, <2>3 DEF Promise!Next
  <1>6. ASSUME NEW r \in Request,
               \/ \E kind \in {"direct", "offer"}, n \in {1, OfferSize} :
                     LockApplication(r, kind, n)
               \/ \E t \in Slot : LockChosen(r, t) \/ CancelOther(r, t)
               \/ ConfirmChosen(r) \/ DeadlockAborted(r) \/ CreateNotificationEvent(r)
               \/ NotificationFails(r) \/ TransactionFails(r)
        PROVE  UNCHANGED Promise!vars
    BY <1>6 DEF LockApplication, LockChosen, CancelOther, ConfirmChosen, DeadlockAborted,
       CreateNotificationEvent, NotificationFails, TransactionFails, Rollback
  <1>7. CASE UNCHANGED vars
    BY <1>7 DEF vars
  <1> QED
    BY <1>1, <1>3, <1>4, <1>5, <1>6, <1>7 DEF Next, Progress

\* The inductive invariant holds in every behaviour of the ATS service.
THEOREM SchedulingInvariance == Spec => []IInv
  BY Initial, Inductive, PTL DEF Spec

\* The interleaved transactions of the ATS service, their deadlocks and rollbacks
\* included, implement scheduling in atomic steps.
THEOREM SchedulingKeepsPromise == Spec => KeepsPromise
  <1>1. Init => Promise!Init
    BY DEF Init, Promise!Init
  <1> QED
    BY <1>1, StepKeepsPromise, SchedulingInvariance, PTL DEF Spec, KeepsPromise, Promise!Spec
-----------------------------------------------------------------------------
(* The composition with the applications and their events.                 *)

\* An application preserves the inductive invariant: it locks no row and ends in a
\* commit or in an error.
LEMMA ApplyKeeps == ASSUME IInv, NEW r \in Request, Apply(r) PROVE IInv'
  <1> USE SchedulingAssumption DEF tables, locks, IInv
  <1>1. CASE News!Unique(App)
    <2> USE <1>1 DEF Apply, Commit, ReleaseLocks
    <2>1. TypeOK'
      BY DEF TypeOK
    <2>2. AnswersFit'
      BY DEF TypeOK, AnswersFit, Truthful
    <2>3. LocksFit'
      BY DEF TypeOK, LocksFit, SelectionsFit
    <2>4. SelectionsFit'
      BY DEF TypeOK, LocksFit, SelectionsFit
    <2>5. OffersFit'
      BY DEF TypeOK, OffersFit
    <2>6. WinnersFit'
      BY DEF TypeOK, SelectionsFit, WinnersFit, OneWinnerPerSlot
    <2> QED
      BY <2>1, <2>2, <2>3, <2>4, <2>5, <2>6
  <1>2. CASE ~News!Unique(App)
    <2> USE <1>2 DEF Apply, Reply
    <2>1. TypeOK'
      BY DEF TypeOK
    <2>2. AnswersFit'
      BY DEF TypeOK, AnswersFit, Truthful
    <2>3. LocksFit'
      BY DEF TypeOK, LocksFit, SelectionsFit
    <2>4. SelectionsFit'
      BY DEF TypeOK, LocksFit, SelectionsFit
    <2>5. OffersFit'
      BY DEF TypeOK, OffersFit
    <2>6. WinnersFit'
      BY DEF TypeOK, SelectionsFit, WinnersFit, OneWinnerPerSlot
    <2> QED
      BY <2>1, <2>2, <2>3, <2>4, <2>5, <2>6
  <1> QED
    BY <1>1, <1>2

\* Every step of the composition is one of the ATS service or an application, which
\* leaves slots and status alone.
LEMMA HiringProjects ==
    ASSUME [HiringNext]_hiringVars
    PROVE  [Next]_vars \/ \E r \in Request : Apply(r) /\ UNCHANGED tables
  BY DEF HiringNext, Schedule, hiringVars, Apply

\* Every step of the composition preserves the inductive invariant.
LEMMA HiringInductive == IInv /\ [HiringNext]_hiringVars => IInv'
  BY HiringProjects, Inductive, ApplyKeeps

\* What the invariant says of the ATS service holds of the composition.
THEOREM HiringInvariance == HiringSpec => []IInv
  <1>1. HiringInit => IInv
    BY Initial DEF HiringInit
  <1> QED
    BY <1>1, HiringInductive, PTL DEF HiringSpec

\* Of any number of requests that select a slot, one is committed at most.
THEOREM OneWinner == HiringSpec => []OneWinnerPerSlot
  BY IInvSays, HiringInvariance, PTL

\* A worker is confirmed for one slot of an offer at most, whatever number of
\* selections race, deadlock or fail.
THEOREM OneConfirmed == HiringSpec => []OneConfirmedPerOffer
  BY IInvSays, HiringInvariance, PTL

\* No transaction overwrites the outcome of another.
THEOREM SettledStay == HiringSpec => SettledSlotsStay
  <1> DEFINE Stay == \A s \in Slot :
                         slot[s] \in {"Confirmed", "Cancelled"} => slot'[s] = slot[s]
  <1>1. IInv /\ [HiringNext]_hiringVars => [Stay]_vars
    BY HiringProjects, StepKeepsSettled DEF tables
  <1>2. HiringSpec => [][Stay]_vars
    <2> HIDE DEF Stay
    <2> QED
      BY <1>1, HiringInvariance, PTL DEF HiringSpec
  <1> QED
    BY <1>2 DEF SettledSlotsStay

\* The composition implements scheduling in atomic steps.
THEOREM HiringKeepsPromise == HiringSpec => KeepsPromise
  <1>1. HiringInit => Promise!Init
    BY DEF HiringInit, Init, Promise!Init
  <1>2. IInv /\ [HiringNext]_hiringVars => [Promise!Next]_(Promise!vars)
    BY HiringProjects, StepKeepsPromise DEF tables, Promise!vars
  <1> QED
    BY <1>1, <1>2, HiringInvariance, PTL DEF HiringSpec, KeepsPromise, Promise!Spec
-----------------------------------------------------------------------------
(* The events of the application.                                          *)

\* The committed changes whose events are lost: the failures of JobApplications.
Lost == Misreported \ notified

\* The requests between their commit and their event have news, every commit is a
\* change, and every commit behind an error is a fault.
NewsFit ==
    /\ changes \in Seq(ApplicationStatus)
    /\ Len(changes) = Cardinality(committed)
    /\ news \in [Request -> News!Event \cup {"none"}]
    /\ \A r \in Request : news[r] = "none" <=> pc[r] # "notify"
    /\ Cardinality(Misreported) <= faults

\* The counted sets are finite, and what is added to one is one more.
LEMMA Counted ==
    ASSUME TypeOK
    PROVE  /\ IsFiniteSet(committed) /\ Cardinality(committed) \in Nat
           /\ IsFiniteSet(Misreported) /\ Cardinality(Misreported) \in Nat
           /\ IsFiniteSet(Lost) /\ Cardinality(Lost) \in 0..Cardinality(Misreported)
           /\ \A r \in Request \ committed :
                 /\ Cardinality(committed \cup {r}) = Cardinality(committed) + 1
                 /\ Cardinality(committed) < Cardinality(Request)
           /\ \A r \in Request \ Misreported :
                 Cardinality(Misreported \cup {r}) = Cardinality(Misreported) + 1
           /\ \A r \in Request \ Lost :
                 Cardinality(Lost \cup {r}) = Cardinality(Lost) + 1
  <1>1. /\ IsFiniteSet(committed) /\ Cardinality(committed) \in Nat
        /\ IsFiniteSet(Misreported) /\ Cardinality(Misreported) \in Nat
        /\ IsFiniteSet(Lost) /\ Cardinality(Lost) \in 0..Cardinality(Misreported)
    <2>1. committed \subseteq Request /\ Misreported \subseteq committed /\ Lost \subseteq Misreported
      BY DEF TypeOK, Misreported, Lost
    <2>2. IsFiniteSet(committed) /\ Cardinality(committed) \in Nat
      BY <2>1, HiringAssumption, FS_Subset, FS_CardinalityType
    <2>3. IsFiniteSet(Misreported) /\ Cardinality(Misreported) \in Nat
      BY <2>1, <2>2, FS_Subset, FS_CardinalityType
    <2>4. IsFiniteSet(Lost) /\ Cardinality(Lost) \in Nat /\ Cardinality(Lost) <= Cardinality(Misreported)
      BY <2>1, <2>3, FS_Subset, FS_CardinalityType
    <2> QED
      BY <2>2, <2>3, <2>4
  <1>2. ASSUME NEW r \in Request \ committed
        PROVE  /\ Cardinality(committed \cup {r}) = Cardinality(committed) + 1
               /\ Cardinality(committed) < Cardinality(Request)
    <2>1. Cardinality(committed \cup {r}) = Cardinality(committed) + 1
      BY <1>1, FS_AddElement
    <2>2. committed \cup {r} \subseteq Request
      BY DEF TypeOK
    <2>3. /\ Cardinality(committed \cup {r}) <= Cardinality(Request)
          /\ Cardinality(Request) \in Nat
      BY <2>2, HiringAssumption, FS_Subset, FS_CardinalityType
    <2> QED
      BY <1>1, <2>1, <2>3
  <1>3. ASSUME NEW r \in Request \ Lost
        PROVE  Cardinality(Lost \cup {r}) = Cardinality(Lost) + 1
    BY <1>1, FS_AddElement
  <1>4. ASSUME NEW r \in Request \ Misreported
        PROVE  Cardinality(Misreported \cup {r}) = Cardinality(Misreported) + 1
    BY <1>1, FS_AddElement
  <1> QED
    BY <1>1, <1>2, <1>3, <1>4

\* A step that commits nothing and tells nothing leaves the news as it is.
LEMMA NoNews ==
    ASSUME IInv, NewsFit, Chronicle, NEW r \in Request,
           committed' = committed, notified' = notified,
           pc[r] # "notify", pc'[r] # "notify", faults' >= faults, faults' \in Nat,
           \A q \in Request \ {r} : pc'[q] = pc[q],
           \A q \in committed : answer'[q] = answer[q]
    PROVE  NewsFit' /\ UNCHANGED News!vars
  <1>1. changes' = changes /\ events' = events
    BY DEF Chronicle, Changed, Told
  <1>2. news' = news
    BY DEF Chronicle, NewsOf, NewsFit, IInv, AnswersFit
  <1>3. Lost' = Lost /\ Misreported' = Misreported
        /\ [q \in Request |-> IF pc'[q] = "notify" THEN App ELSE NoApp]
              = [q \in Request |-> IF pc[q] = "notify" THEN App ELSE NoApp]
    BY DEF Lost, Misreported
  <1>4. NewsFit'
    <2>1. Cardinality(Misreported) <= faults'
      BY Counted DEF NewsFit, IInv, TypeOK
    <2>2. \A q \in Request : news'[q] = "none" <=> pc'[q] # "notify"
      BY <1>2 DEF NewsFit
    <2> QED
      BY <1>1, <1>2, <1>3, <2>1, <2>2 DEF NewsFit
  <1> QED
    BY <1>1, <1>2, <1>3, <1>4 DEF News!vars, Lost

\* A request that commits status s, and then tells it.
LEMMA CommitIsChange ==
    ASSUME IInv, NewsFit, Chronicle, changes # <<>>,
           NEW r \in Request, NEW s \in ApplicationStatus,
           pc[r] \in {"new", "direct", "offer", "cancel"},
           application' = s, committed' = committed \cup {r},
           \/ /\ s = "Applied"
              /\ notified' = notified \cup {r}
              /\ ReadBack(r)
           \/ /\ s # "Applied"
              /\ notified' = notified /\ faults' = faults
              /\ pc' = [pc EXCEPT ![r] = "notify"] /\ answer' = answer
    PROVE  NewsFit' /\ News!UpdateApplicationStatus(r, App, s)
  <1> USE HiringAssumption
  <1>1. /\ TypeOK /\ r \notin committed /\ r \notin notified
        /\ answer[r] = "none" /\ news[r] = "none"
    BY DEF IInv, AnswersFit, NewsFit
  <1>2. /\ changes' = Append(changes, s) /\ events' = events
        /\ Len(changes') = Cardinality(committed')
        /\ changes' \in Seq(ApplicationStatus)
        /\ Len(changes) < Cardinality(Request)
    <2>1. changes' = Append(changes, s)
      BY <1>1 DEF Chronicle, Changed
    <2>2. Told = {}
      BY <1>1 DEF Told
    <2> QED
      BY <1>1, <2>1, <2>2, Counted DEF NewsFit, Chronicle
  <1>3. news' = [news EXCEPT ![r] = News!EventType(s)]
    <2>1. NewsOf(r) = News!EventType(s)
      BY <1>1 DEF NewsOf
    <2>2. \A q \in Request \ {r} : NewsOf(q) = news[q]
      BY <1>1 DEF NewsOf, NewsFit, ReadBack, Reply, TypeOK
    <2> QED
      BY <2>1, <2>2 DEF Chronicle, NewsFit
  <1>4. News!EventType(s) \in News!Event \cup {"none"} /\ (News!EventType(s) = "none" <=> s = "Applied")
    BY DEF News!EventType, News!Event, News!Status, ApplicationStatus
  <1>5. Lost' = Lost /\ Cardinality(Misreported') <= faults'
    <2>1. Lost' = Lost
      BY <1>1 DEF Lost, Misreported, ReadBack, Reply, TypeOK
    <2>2. Cardinality(Misreported) \in Nat /\ Cardinality(Misreported) <= faults /\ faults \in Nat
      BY <1>1, Counted DEF NewsFit, TypeOK
    <2>3. CASE Reply(r, "error") /\ faults' = faults + 1
      <3>1. Misreported' = Misreported \cup {r} /\ r \notin Misreported
        BY <1>1, <2>3 DEF Misreported, Reply, TypeOK
      <3>2. Cardinality(Misreported') = Cardinality(Misreported) + 1
        BY <1>1, <3>1, Counted
      <3> QED
        BY <2>1, <2>2, <2>3, <3>2
    <2>4. CASE (Reply(r, "ok") \/ answer' = answer) /\ faults' = faults
      <3>1. Misreported' = Misreported
        BY <1>1, <2>4 DEF Misreported, Reply, TypeOK
      <3> QED
        BY <2>1, <2>2, <2>4, <3>1
    <2> QED
      BY <2>3, <2>4 DEF ReadBack
  <1>6. [q \in Request |-> IF pc'[q] = "notify" THEN App ELSE NoApp]
           = [[q \in Request |-> IF pc[q] = "notify" THEN App ELSE NoApp]
                 EXCEPT ![r] = IF s = "Applied" THEN NoApp ELSE App]
    BY <1>1 DEF ReadBack, Reply, TypeOK
  <1>7. NewsFit'
    <2>1. \A q \in Request : news'[q] = "none" <=> pc'[q] # "notify"
      BY <1>1, <1>3, <1>4 DEF NewsFit, ReadBack, Reply, TypeOK
    <2>2. news' \in [Request -> News!Event \cup {"none"}]
      BY <1>3, <1>4 DEF NewsFit
    <2> QED
      BY <1>2, <1>5, <2>1, <2>2 DEF NewsFit
  <1>8. News!UpdateApplicationStatus(r, App, s)
    <2>1. News!Idle(r)
      BY DEF News!Idle
    <2>2. News!Change(App, s)
      BY <1>2 DEF News!Change
    <2>3. IF News!EventType(s) = "none" THEN News!Finish(r) ELSE News!Tell(r, App, News!EventType(s))
      BY <1>3, <1>4, <1>6 DEF News!Finish, News!Tell
    <2>4. UNCHANGED <<[a \in {App} |-> events], Cardinality(Lost)>>
      BY <1>2, <1>5
    <2> QED
      BY <2>1, <2>2, <2>3, <2>4 DEF News!UpdateApplicationStatus, Lost
  <1> QED
    BY <1>7, <1>8

\* A request that ends after its commit: its event is queued, or it reports an error.
LEMMA NewsIsOver ==
    ASSUME IInv, NewsFit, Chronicle, NEW r \in Request, pc[r] = "notify",
           committed' = committed,
           \/ notified' = notified \cup {r} /\ Reply(r, "ok") /\ faults' = faults
           \/ /\ notified' = notified /\ Reply(r, "error")
              /\ faults < MaxFaults /\ faults' = faults + 1
    PROVE  NewsFit' /\ (News!CreateNotificationEvent(r) \/ News!RequestFails(r))
  <1> USE HiringAssumption
  <1>1. /\ TypeOK /\ r \in committed \ notified
        /\ answer[r] = "none" /\ news[r] # "none"
    BY DEF IInv, AnswersFit, NewsFit
  <1>2. changes' = changes
    BY DEF Chronicle, Changed
  <1>3. news' = [news EXCEPT ![r] = "none"]
    <2>1. NewsOf(r) = "none"
      BY <1>1 DEF NewsOf, Reply, TypeOK
    <2>2. \A q \in Request \ {r} : NewsOf(q) = news[q]
      BY <1>1 DEF NewsOf, NewsFit, Reply, TypeOK
    <2> QED
      BY <2>1, <2>2 DEF Chronicle, NewsFit
  <1>4. [q \in Request |-> IF pc'[q] = "notify" THEN App ELSE NoApp]
           = [[q \in Request |-> IF pc[q] = "notify" THEN App ELSE NoApp] EXCEPT ![r] = NoApp]
    BY <1>1 DEF Reply, TypeOK
  <1>5. ~News!Idle(r) /\ News!Finish(r)
    BY <1>3, <1>4 DEF News!Idle, News!Finish
  <1>6. /\ news' \in [Request -> News!Event \cup {"none"}]
        /\ \A q \in Request : news'[q] = "none" <=> pc'[q] # "notify"
    BY <1>1, <1>3 DEF NewsFit, Reply, TypeOK
  <1>7. CASE notified' = notified \cup {r} /\ Reply(r, "ok") /\ faults' = faults
    <2>1. Lost' = Lost /\ Misreported' = Misreported
      BY <1>1, <1>7 DEF Lost, Misreported, Reply, TypeOK
    <2>2. events' = News!Queued(events, news[r])
      <3>1. Told = {r}
        BY <1>1, <1>7 DEF Told
      <3> QED
        BY <3>1 DEF Chronicle
    <2>3. News!CreateNotificationEvent(r)
      BY <1>2, <1>5, <2>1, <2>2 DEF News!CreateNotificationEvent, Lost
    <2> QED
      BY <1>2, <1>6, <1>7, <2>1, <2>3 DEF NewsFit
  <1>8. CASE /\ notified' = notified /\ Reply(r, "error")
             /\ faults < MaxFaults /\ faults' = faults + 1
    <2>1. /\ Lost' = Lost \cup {r} /\ r \notin Lost
          /\ Misreported' = Misreported \cup {r} /\ r \notin Misreported
      BY <1>1, <1>8 DEF Lost, Misreported, Reply, TypeOK
    <2>2. /\ Cardinality(Lost') = Cardinality(Lost) + 1
          /\ Cardinality(Misreported') = Cardinality(Misreported) + 1
          /\ Cardinality(Lost) \in Nat /\ Cardinality(Misreported) \in Nat
          /\ Cardinality(Lost) <= Cardinality(Misreported) /\ Cardinality(Misreported) <= faults
      BY <1>1, <2>1, Counted DEF NewsFit
    <2>3. /\ Cardinality(Lost) < MaxFaults
          /\ Cardinality(Misreported') <= faults'
      BY <1>1, <1>8, <2>2, SchedulingAssumption DEF TypeOK
    <2>4. events' = events
      BY <1>8 DEF Chronicle, Told
    <2>5. News!RequestFails(r)
      BY <1>2, <1>5, <2>2, <2>3, <2>4 DEF News!RequestFails, Lost
    <2> QED
      BY <1>2, <1>6, <1>8, <2>3, <2>5 DEF NewsFit
  <1> QED
    BY <1>7, <1>8

\* An application is created and then told, or refused.
LEMMA ApplyIsNews ==
    ASSUME IInv, NewsFit, NEW r \in Request, Apply(r)
    PROVE  NewsFit' /\ (News!CreateApplication(r, App) \/ UNCHANGED News!vars)
  <1> USE HiringAssumption
  <1>1. /\ TypeOK /\ r \notin committed /\ pc[r] = "new"
        /\ answer[r] = "none" /\ news[r] = "none"
    BY DEF IInv, AnswersFit, NewsFit, Apply
  <1>2. events' = events
    BY DEF Apply
  <1>3. CASE News!Unique(App)
    <2>1. /\ changes' = Append(changes, "Applied")
          /\ news' = [news EXCEPT ![r] = "application_submitted"]
          /\ committed' = committed \cup {r} /\ notified' = notified /\ faults' = faults
          /\ pc' = [pc EXCEPT ![r] = "notify"] /\ answer' = answer
      BY <1>3 DEF Apply, Commit
    <2>2. Lost' = Lost /\ Misreported' = Misreported
      BY <1>1, <2>1 DEF Lost, Misreported
    <2>3. Len(changes') = Cardinality(committed') /\ Len(changes) < Cardinality(Request)
      BY <1>1, <2>1, Counted DEF NewsFit
    <2>4. NewsFit'
      <3>1. changes' \in Seq(ApplicationStatus)
        BY <2>1 DEF NewsFit, ApplicationStatus
      <3>2. news' \in [Request -> News!Event \cup {"none"}]
        BY <2>1 DEF NewsFit, News!Event
      <3>3. \A q \in Request : news'[q] = "none" <=> pc'[q] # "notify"
        BY <1>1, <2>1 DEF NewsFit, TypeOK
      <3> QED
        BY <2>1, <2>2, <2>3, <3>1, <3>2, <3>3 DEF NewsFit
    <2>5. [q \in Request |-> IF pc'[q] = "notify" THEN App ELSE NoApp]
             = [[q \in Request |-> IF pc[q] = "notify" THEN App ELSE NoApp] EXCEPT ![r] = App]
      BY <1>1, <2>1 DEF TypeOK
    <2>6. News!Idle(r) /\ News!Tell(r, App, "application_submitted")
      BY <1>1, <2>1, <2>5 DEF News!Idle, News!Tell
    <2>7. News!Change(App, "Applied")
      BY <2>1, <2>3 DEF News!Change
    <2>8. News!CreateApplication(r, App)
      BY <1>2, <1>3, <2>2, <2>6, <2>7 DEF News!CreateApplication, Lost
    <2> QED
      BY <2>4, <2>8
  <1>4. CASE ~News!Unique(App)
    <2>1. /\ changes' = changes /\ news' = news
          /\ committed' = committed /\ notified' = notified /\ faults' = faults
          /\ Reply(r, "error")
      BY <1>4 DEF Apply
    <2>2. Lost' = Lost /\ Misreported' = Misreported
      BY <1>1, <2>1 DEF Lost, Misreported, Reply, TypeOK
    <2>3. \A q \in Request : pc'[q] = "notify" <=> pc[q] = "notify"
      BY <1>1, <2>1 DEF Reply, TypeOK
    <2>4. [q \in Request |-> IF pc'[q] = "notify" THEN App ELSE NoApp]
             = [q \in Request |-> IF pc[q] = "notify" THEN App ELSE NoApp]
      BY <2>3
    <2> QED
      BY <1>2, <2>1, <2>2, <2>3, <2>4 DEF NewsFit, News!vars, Lost
  <1> QED
    BY <1>3, <1>4

\* Every step of the composition is one of JobApplications or leaves the news alone.
LEMMA StepTellsNews ==
    IInv /\ NewsFit /\ [HiringNext]_hiringVars => NewsFit' /\ [News!Next]_(News!vars)
  <1> USE SchedulingAssumption
  <1> SUFFICES ASSUME IInv, NewsFit, [HiringNext]_hiringVars
               PROVE  NewsFit' /\ [News!Next]_(News!vars)
    OBVIOUS
  <1> DEFINE Fits == NewsFit' /\ [News!Next]_(News!vars)
  <1>0. TypeOK /\ AnswersFit /\ SelectionsFit /\ LocksFit
    BY DEF IInv
  <1>1. ASSUME NEW r \in Request, Apply(r) PROVE Fits
    BY <1>1, ApplyIsNews DEF News!Next
  <1>2. ASSUME NEW r \in Request, NEW s \in ApplicationStatus, News!UpdateApplicationStatus(r, App, s)
        PROVE  News!Next
    BY <1>2 DEF News!Next, News!Status, ApplicationStatus
  <1>3. ASSUME Chronicle, changes # <<>>, NEW r \in Request, NEW status \in Given,
               UpdateApplicationStatus(r, status)
        PROVE  Fits
    <2>1. status \in ApplicationStatus
      BY DEF ApplicationStatus
    <2>2. /\ pc[r] = "new" /\ application' = status
          /\ committed' = committed \cup {r}
          /\ \/ /\ status = "Applied"
                /\ notified' = notified \cup {r}
                /\ ReadBack(r)
             \/ /\ status # "Applied"
                /\ notified' = notified /\ faults' = faults
                /\ pc' = [pc EXCEPT ![r] = "notify"] /\ answer' = answer
      BY <1>3 DEF UpdateApplicationStatus, Commit
    <2> QED
      BY <1>2, <1>3, <2>1, <2>2, CommitIsChange
  <1>4. ASSUME Chronicle, changes # <<>>, NEW r \in Request,
               CreateDirectInterview(r) \/ CreateInterviewSlots(r) \/ SelectInterviewSlot(r)
        PROVE  Fits
    <2>1. PICK s \in {"Interview_Scheduled", "Slot_Selection_Pending"} :
              application' = s
      BY <1>4 DEF CreateDirectInterview, CreateInterviewSlots, SelectInterviewSlot
    <2>2. s \in ApplicationStatus /\ s # "Applied"
      BY DEF ApplicationStatus
    <2>3. pc[r] \in {"new", "direct", "offer", "cancel"} /\ Commit(r)
      BY <1>4 DEF CreateDirectInterview, CreateInterviewSlots, SelectInterviewSlot
    <2>4. /\ committed' = committed \cup {r} /\ faults' = faults /\ notified' = notified
          /\ pc' = [pc EXCEPT ![r] = "notify"] /\ answer' = answer
      BY <2>3 DEF Commit
    <2> QED
      BY <1>2, <1>4, <2>1, <2>2, <2>3, <2>4, CommitIsChange
  <1>5. ASSUME Chronicle, NEW r \in Request,
               CreateNotificationEvent(r) \/ NotificationFails(r)
        PROVE  Fits
    <2>1. /\ pc[r] = "notify" /\ committed' = committed
          /\ \/ notified' = notified \cup {r} /\ Reply(r, "ok") /\ faults' = faults
             \/ /\ notified' = notified /\ Reply(r, "error")
                /\ faults < MaxFaults /\ faults' = faults + 1
      BY <1>5 DEF CreateNotificationEvent, NotificationFails
    <2> QED
      BY <1>5, <2>1, NewsIsOver DEF News!Next
  <1>6. ASSUME Chronicle, NEW r \in Request,
               \/ \E kind \in {"direct", "offer"}, n \in {1, OfferSize} :
                     LockApplication(r, kind, n)
               \/ \E t \in Slot : LockChosen(r, t) \/ CancelOther(r, t)
               \/ ConfirmChosen(r) \/ DeadlockAborted(r) \/ TransactionFails(r)
        PROVE  Fits
    <2>1. /\ committed' = committed /\ notified' = notified
          /\ faults' \in {faults, faults + 1}
      BY <1>6 DEF LockApplication, LockChosen, CancelOther, ConfirmChosen, DeadlockAborted,
         TransactionFails, Rollback, locks, local
    <2>2. pc[r] # "notify" /\ r \notin committed
      BY <1>0, <1>6 DEF LockApplication, LockChosen, CancelOther, ConfirmChosen,
         DeadlockAborted, TransactionFails, InTransaction, AnswersFit
    <2>3. pc'[r] # "notify" /\ \A q \in Request \ {r} : pc'[q] = pc[q] /\ answer'[q] = answer[q]
      BY <1>0, <1>6 DEF LockApplication, LockChosen, CancelOther, ConfirmChosen,
         DeadlockAborted, TransactionFails, Rollback, Reply, TypeOK
    <2>4. \A q \in committed : q \in Request \ {r}
      BY <1>0, <2>2 DEF TypeOK
    <2>5. faults' >= faults /\ faults' \in Nat
      BY <1>0, <2>1 DEF TypeOK
    <2> QED
      BY <1>6, <2>1, <2>2, <2>3, <2>4, <2>5, NoNews
  <1>7. CASE UNCHANGED hiringVars
    BY <1>7 DEF hiringVars, vars, local, NewsFit, Lost, Misreported, News!vars
  <1> HIDE DEF Fits
  <1>8. ASSUME Schedule PROVE Fits
    <2>1. Chronicle /\ changes # <<>> /\ Next
      BY <1>8 DEF Schedule
    <2>2. PICK r \in Request :
              \/ \E status \in Given : UpdateApplicationStatus(r, status)
              \/ LockApplication(r, "direct", 1) \/ LockApplication(r, "offer", OfferSize)
              \/ \E s \in Slot : LockChosen(r, s)
              \/ Progress(r) \/ NotificationFails(r) \/ TransactionFails(r)
      BY <2>1 DEF Next
    <2>3. CASE \E status \in Given : UpdateApplicationStatus(r, status)
      BY <1>3, <2>1, <2>3
    <2>4. CASE CreateDirectInterview(r) \/ CreateInterviewSlots(r) \/ SelectInterviewSlot(r)
      BY <1>4, <2>1, <2>4
    <2>5. CASE CreateNotificationEvent(r) \/ NotificationFails(r)
      BY <1>5, <2>1, <2>5
    <2>6. CASE LockApplication(r, "direct", 1) \/ LockApplication(r, "offer", OfferSize)
      BY <1>6, <2>1, <2>6
    <2>7. CASE \/ \E t \in Slot : LockChosen(r, t) \/ CancelOther(r, t)
               \/ ConfirmChosen(r) \/ DeadlockAborted(r) \/ TransactionFails(r)
      BY <1>6, <2>1, <2>7
    <2> QED
      BY <2>2, <2>3, <2>4, <2>5, <2>6, <2>7 DEF Progress
  <1> QED
    BY <1>1, <1>7, <1>8 DEF HiringNext, Fits

\* The initial states have no news.
LEMMA NewsBegins == HiringInit => NewsFit /\ News!Init
  <1> SUFFICES ASSUME HiringInit PROVE NewsFit /\ News!Init
    OBVIOUS
  <1>1. Lost = {} /\ Misreported = {} /\ committed = {} /\ faults = 0 /\ Cardinality({}) = 0
    BY FS_EmptySet DEF HiringInit, Init, Lost, Misreported
  <1>2. NewsFit
    BY <1>1 DEF HiringInit, Init, NewsFit
  <1>3. News!Init
    BY <1>1 DEF HiringInit, Init, News!Init, Lost
  <1> QED
    BY <1>2, <1>3

\* The ATS service, with its transactions, deadlocks and failures, and the creation
\* of applications implement JobApplications: every committed status is told by an
\* event of its own, or lost in a failure that the request reports.
THEOREM HiringTellsNews == HiringSpec => TellsNews
  <1>1. HiringInit => NewsFit /\ News!Init
    BY NewsBegins
  <1> QED
    BY <1>1, StepTellsNews, HiringInvariance, HiringInductive, PTL
       DEF HiringSpec, TellsNews, News!Spec

\* A response never claims more or less than was committed, except for one error for
\* each call that failed between a commit and its response.
THEOREM TrueAnswers == HiringSpec => []AnswerIsTrue
  <1>1. HiringInit => NewsFit
    BY NewsBegins
  <1>2. IInv /\ NewsFit => AnswerIsTrue
    BY DEF IInv, AnswersFit, Truthful, NewsFit, AnswerIsTrue
  <1> QED
    BY <1>1, <1>2, StepTellsNews, HiringInvariance, PTL DEF HiringSpec
-----------------------------------------------------------------------------
(* What the events say of the changes.                                     *)

\* The event that status s is told by, if it is the next the application gets.
NextEvent(s) == IF changes = <<>> THEN "application_submitted" ELSE News!EventType(s)

\* A commit: status s is the next, and r has its event to queue.
IsChanged(r, s) ==
    /\ news[r] = "none"
    /\ changes' = Append(changes, s) /\ events' = events
    /\ news' = [news EXCEPT ![r] = NextEvent(s)]
    /\ Cardinality(Lost)' = Cardinality(Lost)

\* The event of r is queued.
IsTold(r) ==
    /\ news[r] # "none"
    /\ changes' = changes /\ events' = Append(events, news[r])
    /\ news' = [news EXCEPT ![r] = "none"]
    /\ Cardinality(Lost)' = Cardinality(Lost)

\* The event of r is lost, and reported.
IsLost(r) ==
    /\ news[r] # "none"
    /\ changes' = changes /\ events' = events
    /\ news' = [news EXCEPT ![r] = "none"]
    /\ Cardinality(Lost)' = Cardinality(Lost) + 1

\* To changes, events and news, a step of the composition is one of these.
LEMMA StepsOfNews ==
    ASSUME IInv, NewsFit, [HiringNext]_hiringVars
    PROVE  \/ UNCHANGED <<changes, events, news, Cardinality(Lost)>>
           \/ \E r \in Request :
                 \/ \E s \in ApplicationStatus : IsChanged(r, s)
                 \/ IsTold(r) \/ IsLost(r)
  <1> USE HiringAssumption
  <1>1. [News!Next]_(News!vars)
    BY StepTellsNews
  <1>2. CASE UNCHANGED News!vars
    <2>1. /\ [a \in {App} |-> changes'] = [a \in {App} |-> changes]
          /\ [a \in {App} |-> events'] = [a \in {App} |-> events]
          /\ news' = news /\ Cardinality(Lost)' = Cardinality(Lost)
      BY <1>2 DEF News!vars, Lost
    <2>2. [a \in {App} |-> changes'][App] = changes' /\ [a \in {App} |-> events'][App] = events'
      OBVIOUS
    <2>3. changes' = changes /\ events' = events
      BY <2>1, <2>2
    <2> QED
      BY <2>1, <2>3
  <1>3. ASSUME NEW r \in Request, News!CreateApplication(r, App)
        PROVE  IsChanged(r, "Applied")
    BY <1>3 DEF News!CreateApplication, News!Idle, News!Unique, News!Change, News!Tell,
       IsChanged, NextEvent, NewsFit, Lost
  <1>4. ASSUME NEW r \in Request, NEW s \in News!Status, News!UpdateApplicationStatus(r, App, s)
        PROVE  IsChanged(r, s)
    BY <1>4 DEF News!UpdateApplicationStatus, News!Idle, News!Change, News!Tell, News!Finish,
       IsChanged, NextEvent, NewsFit, Lost
  <1>5. ASSUME NEW r \in Request, News!CreateNotificationEvent(r) PROVE IsTold(r)
    BY <1>5 DEF News!CreateNotificationEvent, News!Idle, News!Queued, News!Finish,
       IsTold, NewsFit, Lost
  <1>6. ASSUME NEW r \in Request, News!RequestFails(r) PROVE IsLost(r)
    BY <1>6 DEF News!RequestFails, News!Idle, News!Finish, IsLost, NewsFit, Lost
  <1>7. News!Status = ApplicationStatus /\ "Applied" \in ApplicationStatus
    BY DEF News!Status, ApplicationStatus
  <1> QED
    BY <1>1, <1>2, <1>3, <1>4, <1>5, <1>6, <1>7 DEF News!Next

\* The event of the i-th change, the changes that are told by e, the events that
\* are e, and the requests that have e to queue.
DueAt(i) == IF i = 1 THEN "application_submitted" ELSE News!EventType(changes[i])
Due(e) == {i \in DOMAIN changes : DueAt(i) = e}
Queue(e) == {i \in DOMAIN events : events[i] = e}
Waiting(e) == {r \in Request : news[r] = e}

\* As long as no failure is reported, every change is told or waits to be.
AllTold ==
    /\ events \in Seq(News!Event)
    /\ Cardinality(Lost) = 0 =>
          \A e \in News!Event :
              Cardinality(Due(e)) = Cardinality(Queue(e)) + Cardinality(Waiting(e))

\* A place more in a sequence is one more of what it holds.
LEMMA OneMorePlace ==
    ASSUME NEW S, NEW q \in Seq(S), NEW P \in SUBSET DOMAIN q
    PROVE  /\ IsFiniteSet(P) /\ Cardinality(P) \in Nat
           /\ Cardinality(P \cup {Len(q) + 1}) = Cardinality(P) + 1
  <1>1. IsFiniteSet(1..Len(q)) /\ DOMAIN q = 1..Len(q) /\ Len(q) \in Nat
    BY FS_Interval
  <1>2. IsFiniteSet(P) /\ Len(q) + 1 \notin P
    BY <1>1, FS_Subset
  <1> QED
    BY <1>2, FS_CardinalityType, FS_AddElement

\* A request more or less that waits with an event is one more or less.
LEMMA OneMoreWaits ==
    ASSUME NEW e, NEW r \in Request
    PROVE  /\ IsFiniteSet(Waiting(e)) /\ Cardinality(Waiting(e)) \in Nat
           /\ r \notin Waiting(e) =>
                 Cardinality(Waiting(e) \cup {r}) = Cardinality(Waiting(e)) + 1
           /\ r \in Waiting(e) =>
                 Cardinality(Waiting(e) \ {r}) = Cardinality(Waiting(e)) - 1
  <1>1. IsFiniteSet(Waiting(e))
    BY HiringAssumption, FS_Subset DEF Waiting
  <1> QED
    BY <1>1, FS_CardinalityType, FS_AddElement, FS_RemoveElement

\* Every step keeps the count.
LEMMA AllToldKept ==
    ASSUME IInv, NewsFit, NewsFit', AllTold, [HiringNext]_hiringVars
    PROVE  AllTold'
  <1> DEFINE Rest == UNCHANGED <<changes, events, news, Cardinality(Lost)>>
  <1>1. CASE Rest
    <2>1. \A e : Due(e)' = Due(e) /\ Queue(e)' = Queue(e) /\ Waiting(e)' = Waiting(e)
      BY <1>1 DEF Due, DueAt, Queue, Waiting
    <2> QED
      BY <1>1, <2>1 DEF AllTold
  <1>2. ASSUME NEW r \in Request, NEW s \in ApplicationStatus, IsChanged(r, s)
        PROVE  AllTold'
    <2>1. /\ Len(changes) \in Nat /\ DOMAIN changes = 1..Len(changes)
          /\ DOMAIN changes' = 1..(Len(changes) + 1)
          /\ changes'[Len(changes) + 1] = s
          /\ \A i \in 1..Len(changes) : changes'[i] = changes[i]
          /\ changes = <<>> <=> Len(changes) = 0
      BY <1>2 DEF IsChanged, NewsFit
    <2>2. events' \in Seq(News!Event)
      BY <1>2 DEF IsChanged, AllTold
    <2>3. ASSUME NEW e \in News!Event, Cardinality(Lost)' = 0
          PROVE  Cardinality(Due(e)') = Cardinality(Queue(e)') + Cardinality(Waiting(e)')
      <3>1. /\ e # "none" /\ Queue(e)' = Queue(e)
            /\ Cardinality(Due(e)) = Cardinality(Queue(e)) + Cardinality(Waiting(e))
        BY <1>2, <2>3 DEF News!Event, News!Status, Queue, IsChanged, AllTold
      <3>2. /\ Cardinality(Due(e)) \in Nat
            /\ Cardinality(Due(e) \cup {Len(changes) + 1}) = Cardinality(Due(e)) + 1
        BY OneMorePlace DEF NewsFit, Due
      <3>3. Cardinality(Queue(e)) \in Nat
        BY OneMorePlace DEF AllTold, Queue
      <3>4. CASE NextEvent(s) = e
        <4>1. Due(e)' = Due(e) \cup {Len(changes) + 1}
          BY <2>1, <3>4 DEF Due, DueAt, NextEvent
        <4>2. Waiting(e)' = Waiting(e) \cup {r} /\ r \notin Waiting(e)
          BY <1>2, <3>1, <3>4 DEF IsChanged, Waiting, NewsFit
        <4>3. /\ Cardinality(Waiting(e)) \in Nat
              /\ Cardinality(Waiting(e) \cup {r}) = Cardinality(Waiting(e)) + 1
          BY <4>2, OneMoreWaits
        <4> QED
          BY <3>1, <3>2, <3>3, <4>1, <4>2, <4>3
      <3>5. CASE NextEvent(s) # e
        <4>1. Due(e)' = Due(e)
          BY <2>1, <3>5 DEF Due, DueAt, NextEvent
        <4>2. Waiting(e)' = Waiting(e)
          BY <1>2, <3>1, <3>5 DEF IsChanged, Waiting, NewsFit
        <4> QED
          BY <3>1, <4>1, <4>2
      <3> QED
        BY <3>4, <3>5
    <2> QED
      BY <2>2, <2>3 DEF AllTold
  <1>3. ASSUME NEW r \in Request, IsTold(r) PROVE AllTold'
    <2>1. /\ events' = Append(events, news[r]) /\ news[r] \in News!Event
          /\ events' \in Seq(News!Event)
      BY <1>3 DEF IsTold, AllTold, NewsFit
    <2>2. /\ Len(events) \in Nat /\ DOMAIN events = 1..Len(events)
          /\ DOMAIN events' = 1..(Len(events) + 1)
          /\ events'[Len(events) + 1] = news[r]
          /\ \A i \in 1..Len(events) : events'[i] = events[i]
      BY <2>1 DEF AllTold
    <2>3. ASSUME NEW e \in News!Event, Cardinality(Lost)' = 0
          PROVE  Cardinality(Due(e)') = Cardinality(Queue(e)') + Cardinality(Waiting(e)')
      <3>1. /\ e # "none" /\ Due(e)' = Due(e)
            /\ Cardinality(Due(e)) = Cardinality(Queue(e)) + Cardinality(Waiting(e))
        BY <1>3, <2>3 DEF News!Event, News!Status, Due, DueAt, IsTold, AllTold
      <3>2. /\ Cardinality(Queue(e)) \in Nat
            /\ Cardinality(Queue(e) \cup {Len(events) + 1}) = Cardinality(Queue(e)) + 1
        BY OneMorePlace DEF AllTold, Queue
      <3>3. CASE news[r] = e
        <4>1. Queue(e)' = Queue(e) \cup {Len(events) + 1}
          BY <2>2, <3>3 DEF Queue
        <4>2. Waiting(e)' = Waiting(e) \ {r} /\ r \in Waiting(e)
          BY <1>3, <3>1, <3>3 DEF IsTold, Waiting, NewsFit
        <4>3. /\ Cardinality(Waiting(e)) \in Nat
              /\ Cardinality(Waiting(e) \ {r}) = Cardinality(Waiting(e)) - 1
          BY <4>2, OneMoreWaits
        <4> QED
          BY <3>1, <3>2, <4>1, <4>2, <4>3
      <3>4. CASE news[r] # e
        <4>1. Queue(e)' = Queue(e)
          BY <2>2, <3>4 DEF Queue
        <4>2. Waiting(e)' = Waiting(e)
          BY <1>3, <3>1, <3>4 DEF IsTold, Waiting, NewsFit
        <4> QED
          BY <3>1, <4>1, <4>2
      <3> QED
        BY <3>3, <3>4
    <2> QED
      BY <2>1, <2>3 DEF AllTold
  <1>4. ASSUME NEW r \in Request, IsLost(r) PROVE AllTold'
    <2>1. Cardinality(Lost)' # 0
      BY <1>4, Counted DEF IsLost, IInv
    <2> QED
      BY <1>4, <2>1 DEF IsLost, AllTold
  <1> QED
    BY <1>1, <1>2, <1>3, <1>4, StepsOfNews

\* The news of the composition, with every change told or waiting to be.
LEMMA AllToldHolds == HiringSpec => [](IInv /\ NewsFit /\ AllTold)
  <1>1. HiringInit => IInv /\ NewsFit /\ AllTold
    <2> SUFFICES ASSUME HiringInit PROVE NewsFit /\ AllTold
      BY Initial DEF HiringInit
    <2>1. NewsFit
      BY NewsBegins
    <2>2. \A e \in News!Event : Due(e) = {} /\ Queue(e) = {} /\ Waiting(e) = {}
      BY DEF HiringInit, Due, Queue, Waiting, News!Event, News!Status
    <2>3. Cardinality({}) = 0
      BY FS_EmptySet
    <2>4. events \in Seq(News!Event)
      BY DEF HiringInit
    <2>5. \A e \in News!Event :
              Cardinality(Due(e)) = Cardinality(Queue(e)) + Cardinality(Waiting(e))
      BY <2>2, <2>3
    <2> QED
      BY <2>1, <2>4, <2>5 DEF AllTold
  <1>2. IInv /\ NewsFit /\ AllTold /\ [HiringNext]_hiringVars => (IInv /\ NewsFit /\ AllTold)'
    BY HiringInductive, StepTellsNews, AllToldKept
  <1> QED
    BY <1>1, <1>2, PTL DEF HiringSpec

\* The two modules count alike.
LEMMA SameCount == \A S : News!Cardinality(S) = Cardinality(S)
  BY DEF News!Cardinality, Cardinality

\* However many requests of the worker and its employer race, and whatever the
\* transactions before their commits do to each other: with no failure reported and
\* no request between its commit and its event, each event is queued as often as the
\* changes call for it.
THEOREM ChangesToldOnce == HiringSpec => []EveryChangeIsToldOnce
  <1>1. ASSUME IInv, NewsFit, AllTold PROVE EveryChangeIsToldOnce
    <2>1. SUFFICES ASSUME Cardinality(Lost) = 0, \A r \in Request : pc[r] # "notify",
                          NEW e \in News!Event
                   PROVE  Cardinality(Queue(e)) = Cardinality(Due(e))
      <3>1. \A a \in {App} : [b \in {App} |-> events][a] = events
                             /\ [b \in {App} |-> changes][a] = changes
        OBVIOUS
      <3>2. (\A r \in Request : pc[r] # "notify") <=> ~News!Busy(App)
        BY HiringAssumption DEF News!Busy
      <3>3. \A e \in News!Event :
                /\ Queue(e) = {i \in DOMAIN [b \in {App} |-> events][App] :
                                    [b \in {App} |-> events][App][i] = e}
                /\ Due(e) = {i \in DOMAIN [b \in {App} |-> changes][App] : News!Due(App, i) = e}
        BY <3>1 DEF Queue, Due, DueAt, News!Due
      <3>4. \A e \in News!Event : Cardinality(Queue(e)) = Cardinality(Due(e)) =>
                News!Cardinality({i \in DOMAIN [b \in {App} |-> events][App] :
                                      [b \in {App} |-> events][App][i] = e})
                  = News!Cardinality({i \in DOMAIN [b \in {App} |-> changes][App] :
                                          News!Due(App, i) = e})
        BY <3>3, SameCount
      <3> QED
        BY <2>1, <3>2, <3>4 DEF EveryChangeIsToldOnce, News!EveryChangeIsToldOnce, Lost
    <2>2. Waiting(e) = {}
      BY <1>1, <2>1 DEF Waiting, NewsFit, News!Event, News!Status
    <2>3. Cardinality(Queue(e)) \in Nat
      BY <1>1, OneMorePlace DEF AllTold, Queue
    <2>4. Cardinality(Waiting(e)) = 0
      BY <2>2, FS_EmptySet
    <2> QED
      BY <1>1, <2>1, <2>3, <2>4 DEF AllTold
  <1> QED
    BY <1>1, AllToldHolds, PTL
-----------------------------------------------------------------------------
(* Changes that are told one after the other.                              *)

\* The places of the events among the changes, in order.
Places(at) ==
    \A i, j \in DOMAIN events : events[i] = DueAt(at[i]) /\ (i < j => at[i] < at[j])

\* The next events to queue have places after those.
LaterPlaces(at) ==
    \A r \in Request : news[r] # "none" =>
        \E k \in DOMAIN changes : /\ news[r] = DueAt(k)
                                  /\ \A i \in DOMAIN events : at[i] < k

\* While no two changes have waited for their events at a time, the events are in the
\* order of the changes, and the one that waits comes after them.
OrderFits ==
    /\ \A r, q \in Request : news[r] # "none" /\ news[q] # "none" => r = q
    /\ \E at \in [DOMAIN events -> DOMAIN changes] : Places(at) /\ LaterPlaces(at)

\* A step that leaves one change to tell at most keeps the order.
LEMMA OrderKept ==
    ASSUME IInv, NewsFit, NewsFit', AllTold, OrderFits, [HiringNext]_hiringVars,
           \A r, q \in Request : pc'[r] = "notify" /\ pc'[q] = "notify" => r = q
    PROVE  OrderFits'
  <1>1. \A r, q \in Request : news'[r] # "none" /\ news'[q] # "none" => r = q
    BY DEF NewsFit
  <1>2. PICK at \in [DOMAIN events -> DOMAIN changes] : Places(at) /\ LaterPlaces(at)
    BY DEF OrderFits
  <1>3. /\ Len(changes) \in Nat /\ DOMAIN changes = 1..Len(changes)
        /\ Len(events) \in Nat /\ DOMAIN events = 1..Len(events)
    BY DEF NewsFit, AllTold
  <1>4. CASE UNCHANGED <<changes, events, news, Cardinality(Lost)>>
    BY <1>1, <1>2, <1>4 DEF OrderFits, Places, LaterPlaces, DueAt
  <1>5. ASSUME NEW r \in Request, NEW s \in ApplicationStatus, IsChanged(r, s)
        PROVE  OrderFits'
    <2>0. PICK n \in Nat : n = Len(changes) + 1
      BY <1>3
    <2>1. /\ DOMAIN changes' = 1..n
          /\ changes'[n] = s
          /\ \A i \in DOMAIN changes : changes'[i] = changes[i]
          /\ changes = <<>> <=> Len(changes) = 0
          /\ events' = events
      BY <1>3, <1>5, <2>0 DEF IsChanged, NewsFit
    <2>2. \A i \in DOMAIN changes : DueAt(i)' = DueAt(i)
      BY <2>1 DEF DueAt
    <2>3. DueAt(n)' = NextEvent(s)
      BY <1>3, <2>0, <2>1 DEF DueAt, NextEvent
    <2>4. at \in [DOMAIN events' -> DOMAIN changes']
      BY <1>2, <1>3, <2>0, <2>1
    <2>5. Places(at)'
      BY <1>2, <2>1, <2>2 DEF Places
    <2>6. LaterPlaces(at)'
      <3>1. SUFFICES ASSUME NEW q \in Request, news'[q] # "none"
                     PROVE  \E k \in DOMAIN changes' :
                                /\ news'[q] = DueAt(k)'
                                /\ \A i \in DOMAIN events' : at[i] < k
        BY DEF LaterPlaces
      <3>2. CASE q = r
        <4>1. news'[q] = DueAt(n)'
          BY <1>5, <2>3, <3>2 DEF IsChanged, NewsFit
        <4>2. \A i \in DOMAIN events' : at[i] < n
          BY <1>2, <1>3, <2>0, <2>1
        <4> QED
          BY <1>3, <2>0, <2>1, <4>1, <4>2
      <3>3. CASE q # r
        <4>1. news'[q] = news[q]
          BY <1>5, <3>3 DEF IsChanged, NewsFit
        <4>2. PICK k \in DOMAIN changes : /\ news[q] = DueAt(k)
                                          /\ \A i \in DOMAIN events : at[i] < k
          BY <1>2, <3>1, <4>1 DEF LaterPlaces
        <4> QED
          BY <1>3, <2>0, <2>1, <2>2, <4>1, <4>2
      <3> QED
        BY <3>2, <3>3
    <2> QED
      BY <1>1, <2>4, <2>5, <2>6 DEF OrderFits
  <1>6. ASSUME NEW r \in Request, IsTold(r) PROVE OrderFits'
    <2>1. /\ changes' = changes /\ events' = Append(events, news[r])
          /\ news[r] # "none" /\ news'[r] = "none"
      BY <1>6 DEF IsTold, NewsFit
    <2>2. \A q \in Request : news'[q] = "none"
      BY <1>6, <2>1 DEF OrderFits, IsTold, NewsFit
    <2>3. /\ DOMAIN events' = 1..(Len(events) + 1)
          /\ events'[Len(events) + 1] = news[r]
          /\ \A i \in DOMAIN events : events'[i] = events[i]
      BY <1>3, <2>1 DEF AllTold
    <2>4. PICK k \in DOMAIN changes : /\ news[r] = DueAt(k)
                                      /\ \A i \in DOMAIN events : at[i] < k
      BY <1>2, <2>1 DEF LaterPlaces
    <2>5. \A i : DueAt(i)' = DueAt(i)
      BY <2>1 DEF DueAt
    <2>6. PICK then \in [1..(Len(events) + 1) -> DOMAIN changes] :
              /\ then[Len(events) + 1] = k
              /\ \A i \in DOMAIN events : then[i] = at[i]
      <3> DEFINE f == [i \in 1..(Len(events) + 1) |-> IF i \in DOMAIN events THEN at[i] ELSE k]
      <3>1. /\ f \in [1..(Len(events) + 1) -> DOMAIN changes]
            /\ f[Len(events) + 1] = k
            /\ \A i \in DOMAIN events : f[i] = at[i]
        BY <1>2, <1>3
      <3> QED
        BY <3>1
    <2>7. \A i \in DOMAIN events' : events'[i] = DueAt(then[i])'
      <3>1. SUFFICES ASSUME NEW i \in DOMAIN events' PROVE events'[i] = DueAt(then[i])
        BY <2>5
      <3>2. CASE i \in DOMAIN events
        BY <1>2, <2>3, <2>6, <3>2 DEF Places
      <3>3. CASE i = Len(events) + 1
        BY <2>3, <2>4, <2>6, <3>3
      <3> QED
        BY <1>3, <2>3, <3>1, <3>2, <3>3
    <2>8. \A i, j \in DOMAIN events' : i < j => then[i] < then[j]
      <3>1. SUFFICES ASSUME NEW i \in DOMAIN events', NEW j \in DOMAIN events', i < j
                     PROVE  then[i] < then[j]
        OBVIOUS
      <3>2. i \in DOMAIN events
        BY <1>3, <2>3, <3>1
      <3>3. CASE j \in DOMAIN events
        BY <1>2, <2>6, <3>1, <3>2, <3>3 DEF Places
      <3>4. CASE j = Len(events) + 1
        BY <2>4, <2>6, <3>2, <3>4
      <3> QED
        BY <1>3, <2>3, <3>3, <3>4
    <2>9. then \in [DOMAIN events' -> DOMAIN changes']
      BY <2>1, <2>3, <2>6
    <2>10. Places(then)'
      BY <2>7, <2>8 DEF Places
    <2>11. LaterPlaces(then)'
      BY <2>2 DEF LaterPlaces
    <2> QED
      BY <1>1, <2>9, <2>10, <2>11 DEF OrderFits
  <1>7. ASSUME NEW r \in Request, IsLost(r) PROVE OrderFits'
    <2>1. /\ changes' = changes /\ events' = events
          /\ \A q \in Request : news'[q] \in {news[q], "none"}
      BY <1>7 DEF IsLost, NewsFit
    <2> QED
      BY <1>1, <1>2, <2>1 DEF OrderFits, Places, LaterPlaces, DueAt
  <1> QED
    BY <1>4, <1>5, <1>6, <1>7, StepsOfNews

\* As long as no two changes wait for their events at a time, the worker is told of
\* the changes in their order, whatever failed and however the transactions before
\* the commits interleave.
THEOREM NewsInOrder == MCSpec => []NewsInOrderInTurn
  <1>1. MCInit => OrderFits
    <2> SUFFICES ASSUME MCInit PROVE OrderFits
      OBVIOUS
    <2>1. changes = <<>> /\ events = <<>> /\ \A r \in Request : news[r] = "none"
      BY DEF MCInit, HiringInit
    <2>2. <<>> \in [DOMAIN events -> DOMAIN changes] /\ DOMAIN events = {}
      BY <2>1
    <2> QED
      BY <2>1, <2>2 DEF OrderFits, Places, LaterPlaces
  <1>2. ASSUME IInv, NewsFit, NewsFit', AllTold, ~overlapped => OrderFits,
               [HiringNext /\ Remember]_mcVars
        PROVE  ~overlapped' => OrderFits'
    <2>1. CASE HiringNext /\ Remember
      <3>1. ~overlapped' => /\ ~overlapped
                            /\ \A r, q \in Request :
                                   pc'[r] = "notify" /\ pc'[q] = "notify" => r = q
        BY <2>1 DEF Remember
      <3> QED
        BY <1>2, <2>1, <3>1, OrderKept
    <2>2. CASE UNCHANGED mcVars
      BY <1>2, <2>2 DEF mcVars, hiringVars, OrderFits, Places, LaterPlaces, DueAt
    <2> QED
      BY <1>2, <2>1, <2>2
  <1>3. OrderFits => News!InOrder(App)
    <2>1. /\ [b \in {App} |-> events][App] = events
          /\ [b \in {App} |-> changes][App] = changes
      OBVIOUS
    <2>2. \A i : News!Due(App, i) = DueAt(i)
      BY <2>1 DEF News!Due, DueAt
    <2> QED
      BY <2>1, <2>2 DEF OrderFits, Places, News!InOrder
  <1>4. MCSpec => HiringSpec
    <2>1. MCInit => HiringInit
      BY DEF MCInit
    <2>2. [HiringNext /\ Remember]_mcVars => [HiringNext]_hiringVars
      BY DEF mcVars
    <2> QED
      BY <2>1, <2>2, PTL DEF MCSpec, HiringSpec
  <1> QED
    BY <1>1, <1>2, <1>3, <1>4, AllToldHolds, PTL DEF MCSpec, NewsInOrderInTurn
===============================================================================
