----------------------- MODULE NotificationQueueProofs -----------------------
(***************************************************************************)
(* Proofs about NotificationQueue for any number of events, workers,       *)
(* attempts and faults and any batch size.                                 *)
(***************************************************************************)
EXTENDS NotificationQueue, FiniteSetTheorems, TLAPS

\* What a claim statement has locked is pending and held for its duration only.
LocksArePending ==
    \A w \in Worker :
        /\ pc[w] # "claim" => locked[w] = {}
        /\ \A e \in locked[w] : status[e] = "Pending"

\* What a worker holds between claim and mark is being processed.
HandsAreProcessing ==
    \A w \in Worker :
        /\ pc[w] \in Busy <=> current[w] # NoEvent
        /\ pc[w] \notin Busy \cup {"loop"} => batch[w] = {}
        /\ current[w] \notin batch[w]
        /\ \A e \in batch[w] : status[e] = "Processing"
        /\ current[w] # NoEvent => status[current[w]] = "Processing"

\* ExclusiveClaim, without sets of sets: each row has one holder.
Holds(w, e) == e \in locked[w] \/ e \in batch[w] \/ e = current[w]
OneHolder ==
    \A v, w \in Worker : \A e \in Event : Holds(v, e) /\ Holds(w, e) => v = w

\* How much of its allowance an event has used, by where its worker is.
DeliveredSoFar ==
    /\ \A e \in Event : delivered[e] <= MaxAttempts
    /\ \A e \in Event : status[e] \in {"Absent", "Pending"} => delivered[e] = 0
    /\ \A e \in Event : status[e] = "Sent" => delivered[e] > 0
    /\ \A w \in Worker :
          /\ \A e \in batch[w] : delivered[e] = 0
          /\ pc[w] = "send" => delivered[current[w]] < attempt[w]
          /\ pc[w] = "backoff" => delivered[current[w]] <= attempt[w]
                                  /\ attempt[w] < MaxAttempts
          /\ pc[w] = "markSent" => delivered[current[w]] > 0

IInv ==
    /\ TypeOK
    /\ LocksArePending
    /\ HandsAreProcessing
    /\ OneHolder
    /\ DeliveredSoFar
    /\ ClaimedOnce
-----------------------------------------------------------------------------
\* The initial states satisfy the inductive invariant.
LEMMA Initial == Init => IInv
  BY QueueAssumption DEF Init, IInv, TypeOK, LocksArePending, HandsAreProcessing,
     OneHolder, Holds, DeliveredSoFar, ClaimedOnce, Event, Busy, Status

\* Every step, of a worker or a fault, preserves it.
LEMMA Inductive == IInv /\ [Next]_vars => IInv'
<1> USE QueueAssumption DEF Event, Busy, Status, rows, local
<1> SUFFICES ASSUME IInv, [Next]_vars PROVE IInv'
  OBVIOUS
<1> USE DEF IInv
<1>0. ASSUME NEW e \in Event, CreateNotificationEvent(e) PROVE IInv'
  <2>1. TypeOK'
    BY <1>0 DEF CreateNotificationEvent, TypeOK, HandsAreProcessing
  <2>2. LocksArePending'
    BY <1>0 DEF CreateNotificationEvent, TypeOK, LocksArePending, HandsAreProcessing
  <2>3. HandsAreProcessing'
    BY <1>0 DEF CreateNotificationEvent, TypeOK, HandsAreProcessing
  <2>4. OneHolder'
    BY <1>0 DEF CreateNotificationEvent, TypeOK, HandsAreProcessing, OneHolder,
       Holds
  <2>5. DeliveredSoFar'
    BY <1>0 DEF CreateNotificationEvent, TypeOK, HandsAreProcessing, DeliveredSoFar
  <2>6. ClaimedOnce'
    BY <1>0 DEF CreateNotificationEvent, TypeOK, HandsAreProcessing, ClaimedOnce
  <2> QED
    BY <2>1, <2>2, <2>3, <2>4, <2>5, <2>6
<1>1. ASSUME NEW w \in Worker, ClaimSelect(w) PROVE IInv'
  <2>1. TypeOK'
    BY <1>1 DEF ClaimSelect, Claimable, OldestOf, TypeOK, HandsAreProcessing
  <2>2. LocksArePending'
    BY <1>1 DEF ClaimSelect, Claimable, OldestOf, TypeOK, LocksArePending,
       HandsAreProcessing
  <2>3. HandsAreProcessing'
    BY <1>1 DEF ClaimSelect, Claimable, OldestOf, TypeOK, HandsAreProcessing
  <2>4. OneHolder'
    <3>1. \A e \in OldestOf(Claimable) :
              status[e] = "Pending" /\ \A v \in Worker : e \notin locked[v]
      BY DEF OldestOf, Claimable
    <3>2. \A e \in OldestOf(Claimable) : \A v \in Worker : ~Holds(v, e)
      BY <3>1 DEF Holds, HandsAreProcessing, OldestOf, Claimable
    <3>3. \A v \in Worker : \A e \in Event :
              Holds(v, e)' => Holds(v, e) \/ (v = w /\ e \in OldestOf(Claimable))
      BY <1>1 DEF ClaimSelect, Holds, TypeOK
    <3> QED
      BY <3>2, <3>3 DEF OneHolder
  <2>5. DeliveredSoFar'
    BY <1>1 DEF ClaimSelect, Claimable, OldestOf, TypeOK, HandsAreProcessing,
       DeliveredSoFar
  <2>6. ClaimedOnce'
    BY <1>1 DEF ClaimSelect, Claimable, OldestOf, TypeOK, HandsAreProcessing,
       ClaimedOnce
  <2> QED
    BY <2>1, <2>2, <2>3, <2>4, <2>5, <2>6
<1>2. ASSUME NEW w \in Worker, ClaimUpdate(w) PROVE IInv'
  <2>1. TypeOK'
    <3>1. status' \in [Event -> Status] /\ attempts' \in [Event -> Nat]
      BY <1>2 DEF ClaimUpdate, MarkClaimed, TypeOK
    <3>2. batch' \in [Worker -> SUBSET Event] /\ locked' \in [Worker -> SUBSET Event]
      BY <1>2 DEF ClaimUpdate, TypeOK
    <3> QED
      BY <1>2, <3>1, <3>2 DEF ClaimUpdate, MarkClaimed, TypeOK
  <2>2. LocksArePending'
    <3>1. SUFFICES ASSUME NEW v \in Worker, NEW e \in locked'[v]
                   PROVE  status'[e] = "Pending"
      BY <1>2 DEF ClaimUpdate, TypeOK, LocksArePending
    <3>2. v # w /\ e \in locked[v] /\ e \in Event
      BY <1>2, <3>1 DEF ClaimUpdate, TypeOK
    <3>3. e \notin locked[w]
      BY <3>2 DEF OneHolder, Holds
    <3> QED
      BY <1>2, <3>2, <3>3 DEF ClaimUpdate, MarkClaimed, LocksArePending
  <2>3. HandsAreProcessing'
    BY <1>2 DEF ClaimUpdate, MarkClaimed, TypeOK, HandsAreProcessing
  <2>4. OneHolder'
    BY <1>2 DEF ClaimUpdate, MarkClaimed, TypeOK, HandsAreProcessing, OneHolder,
       Holds
  <2>5. DeliveredSoFar'
    BY <1>2 DEF ClaimUpdate, MarkClaimed, TypeOK, LocksArePending,
       HandsAreProcessing, DeliveredSoFar
  <2>6. ClaimedOnce'
    BY <1>2 DEF ClaimUpdate, MarkClaimed, TypeOK, LocksArePending,
       HandsAreProcessing, ClaimedOnce
  <2> QED
    BY <2>1, <2>2, <2>3, <2>4, <2>5, <2>6
<1>3. ASSUME NEW w \in Worker, StartEvent(w) PROVE IInv'
  <2>1. TypeOK'
    <3>1. PICK e \in batch[w] :
             /\ current' = [current EXCEPT ![w] = e]
             /\ batch' = [batch EXCEPT ![w] = @ \ {e}]
      BY <1>3 DEF StartEvent
    <3>2. current' \in [Worker -> Event \cup {NoEvent}]
      BY <3>1 DEF TypeOK
    <3>3. batch' \in [Worker -> SUBSET Event]
      BY <3>1 DEF TypeOK
    <3>4. attempt' \in [Worker -> 1..MaxAttempts]
      <4>1. 1 \in 1..MaxAttempts
        OBVIOUS
      <4> QED
        BY <1>3, <4>1 DEF StartEvent, TypeOK
    <3>5. UNCHANGED <<status, attempts, delivered, locked, ctxDone, faults>>
      BY <1>3 DEF StartEvent
    <3>6. pc' = [pc EXCEPT ![w] = "send"]
      BY <1>3 DEF StartEvent
    <3> QED
      BY <3>2, <3>3, <3>4, <3>5, <3>6 DEF TypeOK
  <2>2. LocksArePending'
    BY <1>3 DEF StartEvent, TypeOK, LocksArePending, HandsAreProcessing
  <2>3. HandsAreProcessing'
    BY <1>3 DEF StartEvent, TypeOK, HandsAreProcessing
  <2>4. OneHolder'
    BY <1>3 DEF StartEvent, TypeOK, HandsAreProcessing, OneHolder, Holds
  <2>5. DeliveredSoFar'
    BY <1>3 DEF StartEvent, TypeOK, HandsAreProcessing, DeliveredSoFar
  <2>6. ClaimedOnce'
    BY <1>3 DEF StartEvent, TypeOK, HandsAreProcessing, ClaimedOnce
  <2> QED
    BY <2>1, <2>2, <2>3, <2>4, <2>5, <2>6
<1>4. ASSUME NEW w \in Worker, FinishBatch(w) PROVE IInv'
  <2>1. TypeOK'
    BY <1>4 DEF FinishBatch, TypeOK, HandsAreProcessing
  <2>2. LocksArePending'
    BY <1>4 DEF FinishBatch, TypeOK, LocksArePending, HandsAreProcessing
  <2>3. HandsAreProcessing'
    BY <1>4 DEF FinishBatch, TypeOK, HandsAreProcessing
  <2>4. OneHolder'
    BY <1>4 DEF FinishBatch, TypeOK, HandsAreProcessing, OneHolder, Holds
  <2>5. DeliveredSoFar'
    BY <1>4 DEF FinishBatch, TypeOK, HandsAreProcessing, DeliveredSoFar
  <2>6. ClaimedOnce'
    BY <1>4 DEF FinishBatch, TypeOK, HandsAreProcessing, ClaimedOnce
  <2> QED
    BY <2>1, <2>2, <2>3, <2>4, <2>5, <2>6
<1>5. ASSUME NEW w \in Worker, SendAccepted(w) PROVE IInv'
  <2>1. TypeOK'
    <3>1. delivered' \in [Event -> Nat]
      <4>1. current[w] \in Event
        BY <1>5 DEF SendAccepted, TypeOK, HandsAreProcessing
      <4> QED
        BY <1>5, <4>1 DEF SendAccepted, Delivers, TypeOK
    <3> QED
      BY <1>5, <3>1 DEF SendAccepted, TypeOK
  <2>2. LocksArePending'
    BY <1>5 DEF SendAccepted, Delivers, TypeOK, LocksArePending, HandsAreProcessing
  <2>3. HandsAreProcessing'
    BY <1>5 DEF SendAccepted, Delivers, TypeOK, HandsAreProcessing
  <2>4. OneHolder'
    BY <1>5 DEF SendAccepted, Delivers, TypeOK, HandsAreProcessing, OneHolder, Holds
  <2>5. DeliveredSoFar'
    BY <1>5 DEF SendAccepted, Delivers, TypeOK, HandsAreProcessing, OneHolder,
       Holds, DeliveredSoFar
  <2>6. ClaimedOnce'
    BY <1>5 DEF SendAccepted, Delivers, TypeOK, HandsAreProcessing, ClaimedOnce
  <2> QED
    BY <2>1, <2>2, <2>3, <2>4, <2>5, <2>6
<1>6. ASSUME NEW w \in Worker, SendTemporaryError(w) PROVE IInv'
  <2>1. TypeOK'
    <3>1. delivered' \in [Event -> Nat]
      <4>1. current[w] \in Event
        BY <1>6 DEF SendTemporaryError, TypeOK, HandsAreProcessing
      <4> QED
        <5>1. CASE Delivers(w)
          BY <4>1, <5>1 DEF Delivers, TypeOK
        <5>2. CASE UNCHANGED delivered
          BY <5>2 DEF TypeOK
        <5> QED
          BY <1>6, <5>1, <5>2 DEF SendTemporaryError
    <3> QED
      BY <1>6, <3>1 DEF SendTemporaryError, TypeOK
  <2>2. LocksArePending'
    BY <1>6 DEF SendTemporaryError, Delivers, LastAttempt, TypeOK,
       LocksArePending, HandsAreProcessing
  <2>3. HandsAreProcessing'
    BY <1>6 DEF SendTemporaryError, Delivers, LastAttempt, TypeOK,
       HandsAreProcessing
  <2>4. OneHolder'
    BY <1>6 DEF SendTemporaryError, Delivers, LastAttempt, TypeOK,
       HandsAreProcessing, OneHolder, Holds
  <2>5. DeliveredSoFar'
    <3> DEFINE c == current[w]
    <3>1. /\ pc[w] = "send" /\ c \in Event /\ status[c] = "Processing"
          /\ delivered[c] < attempt[w] /\ attempt[w] \in 1..MaxAttempts
      BY <1>6 DEF SendTemporaryError, TypeOK, HandsAreProcessing, DeliveredSoFar
    <3>2. \A v \in Worker : v # w => c # current[v] /\ c \notin batch[v]
      BY <3>1 DEF OneHolder, Holds
    <3>3. c \notin batch[w]
      BY DEF HandsAreProcessing
    <3>4. /\ delivered'[c] \in Nat /\ delivered'[c] <= attempt[w]
          /\ \A e \in Event : e # c => delivered'[e] = delivered[e]
      BY <1>6, <3>1 DEF SendTemporaryError, Delivers, TypeOK
    <3>5. /\ \A e \in Event : delivered'[e] <= MaxAttempts
          /\ \A e \in Event : status'[e] \in {"Absent", "Pending"} => delivered'[e] = 0
          /\ \A e \in Event : status'[e] = "Sent" => delivered'[e] > 0
      <4>1. UNCHANGED status
        BY <1>6 DEF SendTemporaryError
      <4>2. c \in Event /\ delivered'[c] <= MaxAttempts
        BY <3>1, <3>4
      <4> QED
        BY <3>1, <3>4, <4>1, <4>2 DEF DeliveredSoFar
    <3>6. ASSUME NEW v \in Worker, v # w
          PROVE  /\ \A e \in batch'[v] : delivered'[e] = 0
                 /\ pc'[v] = "send" => delivered'[current'[v]] < attempt'[v]
                 /\ pc'[v] = "backoff" => delivered'[current'[v]] <= attempt'[v]
                                           /\ attempt'[v] < MaxAttempts
                 /\ pc'[v] = "markSent" => delivered'[current'[v]] > 0
      <4>1. /\ pc'[v] = pc[v] /\ batch'[v] = batch[v]
            /\ current'[v] = current[v] /\ attempt'[v] = attempt[v]
        BY <1>6, <3>6 DEF SendTemporaryError, TypeOK
      <4>2. pc[v] \in Busy => current[v] \in Event
        BY DEF TypeOK, HandsAreProcessing
      <4>3. batch[v] \in SUBSET Event
        BY DEF TypeOK
      <4> QED
        BY <3>2, <3>4, <3>6, <4>1, <4>2, <4>3 DEF DeliveredSoFar
    <3>7. /\ \A e \in batch'[w] : delivered'[e] = 0
          /\ pc'[w] # "send" /\ pc'[w] # "markSent"
          /\ pc'[w] = "backoff" => delivered'[current'[w]] <= attempt'[w]
                                    /\ attempt'[w] < MaxAttempts
      BY <1>6, <3>1, <3>3, <3>4 DEF SendTemporaryError, LastAttempt, TypeOK,
         DeliveredSoFar
    <3> QED
      BY <3>5, <3>6, <3>7 DEF DeliveredSoFar
  <2>6. ClaimedOnce'
    BY <1>6 DEF SendTemporaryError, Delivers, LastAttempt, TypeOK,
       HandsAreProcessing, ClaimedOnce
  <2> QED
    BY <2>1, <2>2, <2>3, <2>4, <2>5, <2>6
<1>7. ASSUME NEW w \in Worker, SendRejected(w) PROVE IInv'
  <2>1. TypeOK'
    BY <1>7 DEF SendRejected, TypeOK, HandsAreProcessing
  <2>2. LocksArePending'
    BY <1>7 DEF SendRejected, TypeOK, LocksArePending, HandsAreProcessing
  <2>3. HandsAreProcessing'
    BY <1>7 DEF SendRejected, TypeOK, HandsAreProcessing
  <2>4. OneHolder'
    BY <1>7 DEF SendRejected, TypeOK, HandsAreProcessing, OneHolder, Holds
  <2>5. DeliveredSoFar'
    BY <1>7 DEF SendRejected, TypeOK, HandsAreProcessing, DeliveredSoFar
  <2>6. ClaimedOnce'
    BY <1>7 DEF SendRejected, TypeOK, HandsAreProcessing, ClaimedOnce
  <2> QED
    BY <2>1, <2>2, <2>3, <2>4, <2>5, <2>6
<1>8. ASSUME NEW w \in Worker, BackoffElapsed(w) PROVE IInv'
  <2>1. TypeOK'
    <3>1. attempt[w] + 1 \in 1..MaxAttempts
      BY <1>8 DEF BackoffElapsed, TypeOK, DeliveredSoFar
    <3>2. attempt' \in [Worker -> 1..MaxAttempts]
      BY <1>8, <3>1 DEF BackoffElapsed, TypeOK
    <3> QED
      BY <1>8, <3>2 DEF BackoffElapsed, TypeOK
  <2>2. LocksArePending'
    BY <1>8 DEF BackoffElapsed, TypeOK, LocksArePending, HandsAreProcessing
  <2>3. HandsAreProcessing'
    BY <1>8 DEF BackoffElapsed, TypeOK, HandsAreProcessing
  <2>4. OneHolder'
    BY <1>8 DEF BackoffElapsed, TypeOK, HandsAreProcessing, OneHolder, Holds
  <2>5. DeliveredSoFar'
    BY <1>8 DEF BackoffElapsed, TypeOK, HandsAreProcessing, DeliveredSoFar
  <2>6. ClaimedOnce'
    BY <1>8 DEF BackoffElapsed, TypeOK, HandsAreProcessing, ClaimedOnce
  <2> QED
    BY <2>1, <2>2, <2>3, <2>4, <2>5, <2>6
<1>9. ASSUME NEW w \in Worker, BackoffCancelled(w) PROVE IInv'
  <2>1. TypeOK'
    BY <1>9 DEF BackoffCancelled, TypeOK, HandsAreProcessing
  <2>2. LocksArePending'
    BY <1>9 DEF BackoffCancelled, TypeOK, LocksArePending, HandsAreProcessing
  <2>3. HandsAreProcessing'
    BY <1>9 DEF BackoffCancelled, TypeOK, HandsAreProcessing
  <2>4. OneHolder'
    BY <1>9 DEF BackoffCancelled, TypeOK, HandsAreProcessing, OneHolder, Holds
  <2>5. DeliveredSoFar'
    BY <1>9 DEF BackoffCancelled, TypeOK, HandsAreProcessing, DeliveredSoFar
  <2>6. ClaimedOnce'
    BY <1>9 DEF BackoffCancelled, TypeOK, HandsAreProcessing, ClaimedOnce
  <2> QED
    BY <2>1, <2>2, <2>3, <2>4, <2>5, <2>6
<1>10. ASSUME NEW w \in Worker, Mark(w) PROVE IInv'
  <2>1. TypeOK'
    BY <1>10 DEF Mark, Verdict, TypeOK, HandsAreProcessing
  <2>2. LocksArePending'
    BY <1>10 DEF Mark, TypeOK, LocksArePending, HandsAreProcessing
  <2>3. HandsAreProcessing'
    BY <1>10 DEF Mark, TypeOK, HandsAreProcessing, OneHolder, Holds
  <2>4. OneHolder'
    BY <1>10 DEF Mark, TypeOK, HandsAreProcessing, OneHolder, Holds
  <2>5. DeliveredSoFar'
    BY <1>10 DEF Mark, Verdict, TypeOK, HandsAreProcessing, DeliveredSoFar
  <2>6. ClaimedOnce'
    BY <1>10 DEF Mark, Verdict, TypeOK, HandsAreProcessing, ClaimedOnce
  <2> QED
    BY <2>1, <2>2, <2>3, <2>4, <2>5, <2>6
<1>11. ASSUME NEW w \in Worker, ClaimFails(w) PROVE IInv'
  <2>1. TypeOK'
    <3>1. status' \in [Event -> Status] /\ attempts' \in [Event -> Nat]
      <4>1. CASE MarkClaimed(locked[w])
        BY <4>1 DEF MarkClaimed, TypeOK
      <4>2. CASE UNCHANGED rows
        BY <4>2 DEF TypeOK
      <4> QED
        BY <1>11, <4>1, <4>2 DEF ClaimFails
    <3>2. /\ batch' \in [Worker -> SUBSET Event] /\ locked' \in [Worker -> SUBSET Event]
          /\ current' \in [Worker -> Event \cup {NoEvent}]
      BY <1>11 DEF ClaimFails, Abandon, TypeOK
    <3>3. faults' \in 0..MaxFaults
      BY <1>11 DEF ClaimFails, DatabaseFails, TypeOK
    <3> QED
      BY <1>11, <3>1, <3>2, <3>3 DEF ClaimFails, MarkClaimed, Abandon, TypeOK
  <2>2. LocksArePending'
    <3>1. SUFFICES ASSUME NEW v \in Worker, NEW e \in locked'[v]
                   PROVE  status'[e] = "Pending"
      BY <1>11 DEF ClaimFails, Abandon, TypeOK, LocksArePending
    <3>2. v # w /\ e \in locked[v] /\ e \in Event
      BY <1>11, <3>1 DEF ClaimFails, Abandon, TypeOK
    <3>3. e \notin locked[w]
      BY <3>2 DEF OneHolder, Holds
    <3> QED
      BY <1>11, <3>2, <3>3 DEF ClaimFails, MarkClaimed, LocksArePending
  <2>3. HandsAreProcessing'
    <3>1. \A e \in Event : status[e] = "Processing" => status'[e] = "Processing"
      BY <1>11 DEF ClaimFails, MarkClaimed, TypeOK
    <3>2. \A v \in Worker : /\ batch'[v] = IF v = w THEN {} ELSE batch[v]
                            /\ current'[v] = IF v = w THEN NoEvent ELSE current[v]
                            /\ pc'[v] = IF v = w THEN "idle" ELSE pc[v]
      BY <1>11 DEF ClaimFails, Abandon, TypeOK
    <3>3. \A v \in Worker : batch[v] \subseteq Event /\ current[v] \in Event \cup {NoEvent}
      BY DEF TypeOK
    <3> QED
      BY <3>1, <3>2, <3>3 DEF HandsAreProcessing
  <2>4. OneHolder'
    <3>1. \A v \in Worker, e \in Event :
             e \in locked'[v] \/ e \in batch'[v] \/ e = current'[v] => Holds(v, e)
      BY <1>11 DEF ClaimFails, Abandon, TypeOK, Holds
    <3> QED
      BY <3>1 DEF OneHolder, Holds
  <2>5. DeliveredSoFar'
    <3>1. CASE MarkClaimed(locked[w])
      BY <1>11, <3>1 DEF ClaimFails, MarkClaimed, Abandon, TypeOK,
         HandsAreProcessing, DeliveredSoFar
    <3>2. CASE UNCHANGED rows
      BY <1>11, <3>2 DEF ClaimFails, Abandon, TypeOK, DeliveredSoFar
    <3> QED
      BY <1>11, <3>1, <3>2 DEF ClaimFails
  <2>6. ClaimedOnce'
    <3>1. CASE MarkClaimed(locked[w])
      BY <3>1 DEF MarkClaimed, TypeOK, LocksArePending, ClaimedOnce
    <3>2. CASE UNCHANGED rows
      BY <3>2 DEF ClaimedOnce
    <3> QED
      BY <1>11, <3>1, <3>2 DEF ClaimFails
  <2> QED
    BY <2>1, <2>2, <2>3, <2>4, <2>5, <2>6
<1>12. ASSUME NEW w \in Worker, MarkFails(w) PROVE IInv'
  <2>1. TypeOK'
    <3>1. status' \in [Event -> Status]
      BY <1>12 DEF MarkFails, LostMark, Verdict, TypeOK
    <3>2. /\ batch' \in [Worker -> SUBSET Event] /\ locked' \in [Worker -> SUBSET Event]
          /\ current' \in [Worker -> Event \cup {NoEvent}]
      BY <1>12 DEF MarkFails, Abandon, TypeOK
    <3>3. faults' \in 0..MaxFaults
      BY <1>12 DEF MarkFails, DatabaseFails, TypeOK
    <3> QED
      BY <1>12, <3>1, <3>2, <3>3 DEF MarkFails, Abandon, TypeOK
  <2>2. LocksArePending'
    BY <1>12 DEF MarkFails, Abandon, LostMark, TypeOK, LocksArePending,
       HandsAreProcessing
  <2>3. HandsAreProcessing'
    <3>1. \A v \in Worker : v # w =>
              \A e \in Event : Holds(v, e) => status'[e] = status[e]
      BY <1>12 DEF MarkFails, LostMark, TypeOK, OneHolder, Holds
    <3>2. ASSUME NEW v \in Worker
          PROVE  /\ pc'[v] \in Busy <=> current'[v] # NoEvent
                 /\ pc'[v] \notin Busy \cup {"loop"} => batch'[v] = {}
                 /\ current'[v] \notin batch'[v]
      BY <1>12 DEF MarkFails, Abandon, TypeOK, HandsAreProcessing
    <3>3. ASSUME NEW v \in Worker
          PROVE  /\ \A e \in batch'[v] : status'[e] = "Processing"
                 /\ current'[v] # NoEvent => status'[current'[v]] = "Processing"
      BY <1>12, <3>1 DEF MarkFails, Abandon, TypeOK, HandsAreProcessing, Holds
    <3> QED
      BY <3>2, <3>3 DEF HandsAreProcessing
  <2>4. OneHolder'
    <3>1. \A v \in Worker, e \in Event :
             e \in locked'[v] \/ e \in batch'[v] \/ e = current'[v] => Holds(v, e)
      BY <1>12 DEF MarkFails, Abandon, TypeOK, Holds
    <3> QED
      BY <3>1 DEF OneHolder, Holds
  <2>5. DeliveredSoFar'
    <3>1. \A e \in Event : status'[e] # status[e] =>
              e = current[w] /\ status'[e] = Verdict(w)
      BY <1>12 DEF MarkFails, LostMark, TypeOK
    <3>2. current[w] \in Event /\ (pc[w] = "markSent" => delivered[current[w]] > 0)
      BY <1>12 DEF MarkFails, TypeOK, HandsAreProcessing, DeliveredSoFar
    <3>3. /\ \A e \in Event : delivered'[e] <= MaxAttempts
          /\ \A e \in Event : status'[e] \in {"Absent", "Pending"} => delivered'[e] = 0
          /\ \A e \in Event : status'[e] = "Sent" => delivered'[e] > 0
      BY <1>12, <3>1, <3>2 DEF MarkFails, Verdict, TypeOK, DeliveredSoFar
    <3>4. \A v \in Worker :
             /\ \A e \in batch'[v] : delivered'[e] = 0
             /\ pc'[v] = "send" => delivered'[current'[v]] < attempt'[v]
             /\ pc'[v] = "backoff" => delivered'[current'[v]] <= attempt'[v]
                                       /\ attempt'[v] < MaxAttempts
             /\ pc'[v] = "markSent" => delivered'[current'[v]] > 0
      BY <1>12 DEF MarkFails, Abandon, TypeOK, DeliveredSoFar
    <3> QED
      BY <3>3, <3>4 DEF DeliveredSoFar
  <2>6. ClaimedOnce'
    BY <1>12 DEF MarkFails, Abandon, LostMark, Verdict, TypeOK,
       HandsAreProcessing, ClaimedOnce
  <2> QED
    BY <2>1, <2>2, <2>3, <2>4, <2>5, <2>6
<1>13. ASSUME NEW w \in Worker, Cancel(w) PROVE IInv'
  <2>1. TypeOK'
    <3>1. faults' \in 0..MaxFaults
      BY <1>13 DEF Cancel, TypeOK
    <3>2. ctxDone' \in [Worker -> BOOLEAN]
      BY <1>13 DEF Cancel, TypeOK
    <3> QED
      BY <1>13, <3>1, <3>2 DEF Cancel, TypeOK
  <2>2. LocksArePending'
    BY <1>13 DEF Cancel, LocksArePending
  <2>3. HandsAreProcessing'
    BY <1>13 DEF Cancel, HandsAreProcessing
  <2>4. OneHolder'
    BY <1>13 DEF Cancel, OneHolder, Holds
  <2>5. DeliveredSoFar'
    BY <1>13 DEF Cancel, DeliveredSoFar
  <2>6. ClaimedOnce'
    BY <1>13 DEF Cancel, ClaimedOnce
  <2> QED
    BY <2>1, <2>2, <2>3, <2>4, <2>5, <2>6
<1>14. ASSUME NEW w \in Worker, Stop(w) PROVE IInv'
  <2>1. TypeOK'
    BY <1>14 DEF Stop, TypeOK, HandsAreProcessing
  <2>2. LocksArePending'
    BY <1>14 DEF Stop, TypeOK, LocksArePending, HandsAreProcessing
  <2>3. HandsAreProcessing'
    BY <1>14 DEF Stop, TypeOK, HandsAreProcessing
  <2>4. OneHolder'
    BY <1>14 DEF Stop, TypeOK, HandsAreProcessing, OneHolder, Holds
  <2>5. DeliveredSoFar'
    BY <1>14 DEF Stop, TypeOK, HandsAreProcessing, DeliveredSoFar
  <2>6. ClaimedOnce'
    BY <1>14 DEF Stop, TypeOK, HandsAreProcessing, ClaimedOnce
  <2> QED
    BY <2>1, <2>2, <2>3, <2>4, <2>5, <2>6
<1>15. ASSUME NEW w \in Worker, Crash(w) PROVE IInv'
  <2>1. TypeOK'
    <3>1. /\ batch' \in [Worker -> SUBSET Event] /\ locked' \in [Worker -> SUBSET Event]
          /\ current' \in [Worker -> Event \cup {NoEvent}]
      BY <1>15 DEF Crash, Abandon, TypeOK
    <3>2. pc' = [pc EXCEPT ![w] = "idle"] /\ ctxDone' = [ctxDone EXCEPT ![w] = FALSE]
      BY <1>15 DEF Crash, Abandon
    <3>3. UNCHANGED <<status, attempts, delivered, attempt>> /\ faults' \in 0..MaxFaults
      BY <1>15 DEF Crash, Abandon, TypeOK
    <3> QED
      BY <3>1, <3>2, <3>3 DEF TypeOK
  <2>2. LocksArePending'
    BY <1>15 DEF Crash, Abandon, TypeOK, LocksArePending, HandsAreProcessing
  <2>3. HandsAreProcessing'
    BY <1>15 DEF Crash, Abandon, TypeOK, HandsAreProcessing
  <2>4. OneHolder'
    <3>1. \A v \in Worker, e \in Event :
             e \in locked'[v] \/ e \in batch'[v] \/ e = current'[v] => Holds(v, e)
      BY <1>15 DEF Crash, Abandon, TypeOK, Holds
    <3> QED
      BY <3>1 DEF OneHolder, Holds
  <2>5. DeliveredSoFar'
    BY <1>15 DEF Crash, Abandon, TypeOK, HandsAreProcessing, DeliveredSoFar
  <2>6. ClaimedOnce'
    BY <1>15 DEF Crash, Abandon, TypeOK, HandsAreProcessing, ClaimedOnce
  <2> QED
    BY <2>1, <2>2, <2>3, <2>4, <2>5, <2>6
<1>16. ASSUME NEW w \in Worker, Restart(w) PROVE IInv'
  <2>1. TypeOK'
    BY <1>16 DEF Restart, TypeOK, HandsAreProcessing
  <2>2. LocksArePending'
    BY <1>16 DEF Restart, TypeOK, LocksArePending, HandsAreProcessing
  <2>3. HandsAreProcessing'
    BY <1>16 DEF Restart, TypeOK, HandsAreProcessing
  <2>4. OneHolder'
    BY <1>16 DEF Restart, TypeOK, HandsAreProcessing, OneHolder, Holds
  <2>5. DeliveredSoFar'
    BY <1>16 DEF Restart, TypeOK, HandsAreProcessing, DeliveredSoFar
  <2>6. ClaimedOnce'
    BY <1>16 DEF Restart, TypeOK, HandsAreProcessing, ClaimedOnce
  <2> QED
    BY <2>1, <2>2, <2>3, <2>4, <2>5, <2>6
<1>17. CASE UNCHANGED vars
  BY <1>17 DEF vars, TypeOK, LocksArePending, HandsAreProcessing, OneHolder,
     Holds, DeliveredSoFar, ClaimedOnce
<1> QED
  BY <1>0, <1>1, <1>2, <1>3, <1>4, <1>5, <1>6, <1>7, <1>8, <1>9, <1>10, <1>11,
     <1>12, <1>13, <1>14, <1>15, <1>16, <1>17 DEF Next, Progress

\* Every behaviour satisfies the inductive invariant.
THEOREM Invariance == Spec => []IInv
  BY Initial, Inductive, PTL DEF Spec

\* The rows and the workers' local state keep their types.
THEOREM TypeCorrect == Spec => []TypeOK
<1>1. IInv => TypeOK
  BY DEF IInv
<1> QED
  BY Invariance, <1>1, PTL

\* No event is ever in the hands of two workers (the SKIP LOCKED claim).
THEOREM Exclusive == Spec => []ExclusiveClaim
<1>1. IInv => ExclusiveClaim
  BY QueueAssumption DEF IInv, TypeOK, OneHolder, Holds, ExclusiveClaim, InHand
<1> QED
  BY Invariance, <1>1, PTL

\* No event is delivered more than MaxAttempts times, whatever fails.
THEOREM Bounded == Spec => []BoundedDelivery
<1>1. IInv => BoundedDelivery
  BY DEF IInv, DeliveredSoFar, BoundedDelivery
<1> QED
  BY Invariance, <1>1, PTL

\* A row marked Sent was accepted by the provider.
THEOREM Truthful == Spec => []SentMeansDelivered
<1>1. IInv => SentMeansDelivered
  BY DEF IInv, DeliveredSoFar, SentMeansDelivered
<1> QED
  BY Invariance, <1>1, PTL

\* No row is claimed a second time.
THEOREM NoSecondClaim == Spec => []ClaimedOnce
<1>1. IInv => ClaimedOnce
  BY DEF IInv
<1> QED
  BY Invariance, <1>1, PTL

-----------------------------------------------------------------------------
\* A step of the queue is a step of the promise, or changes no row.
LEMMA StepKeepsPromise == IInv /\ [Next]_vars => [Promise!Next]_(Promise!vars)
<1> USE QueueAssumption DEF Event
<1> SUFFICES ASSUME IInv, [Next]_vars PROVE [Promise!Next]_(Promise!vars)
  OBVIOUS
<1> USE DEF Promise!vars
<1>1. ASSUME NEW e \in Event, CreateNotificationEvent(e) PROVE Promise!Next
  <2>1. Promise!Enqueue(e)
    BY <1>1 DEF CreateNotificationEvent, Promise!Enqueue
  <2> QED
    BY <2>1 DEF Promise!Next
<1>2. ASSUME NEW w \in Worker, MarkClaimed(locked[w]) PROVE Promise!Next
  <2>1. locked[w] \in SUBSET Event /\ \A e \in locked[w] : status[e] = "Pending"
    BY DEF IInv, TypeOK, LocksArePending
  <2>2. Promise!Take(locked[w])
    BY <1>2, <2>1 DEF MarkClaimed, Promise!Take
  <2> QED
    BY <2>1, <2>2 DEF Promise!Next
<1>3. ASSUME NEW w \in Worker, pc[w] = "send", Delivers(w), UNCHANGED status
      PROVE  Promise!Next
  <2>1. /\ current[w] \in Event /\ status[current[w]] = "Processing"
        /\ delivered[current[w]] < MaxAttempts
    <3>1. current[w] \in Event /\ status[current[w]] = "Processing"
      BY <1>3 DEF IInv, TypeOK, HandsAreProcessing, Busy
    <3>2. delivered[current[w]] < attempt[w] /\ attempt[w] \in 1..MaxAttempts
      BY <1>3 DEF IInv, TypeOK, DeliveredSoFar
    <3>3. delivered[current[w]] \in Nat
      BY <3>1 DEF IInv, TypeOK
    <3> QED
      BY <3>1, <3>2, <3>3
  <2>2. Promise!Deliver(current[w])
    BY <1>3, <2>1 DEF Delivers, Promise!Deliver
  <2> QED
    BY <2>1, <2>2 DEF Promise!Next
<1>4. ASSUME NEW w \in Worker, pc[w] \in {"markSent", "markFailed"},
             status' = [status EXCEPT ![current[w]] = Verdict(w)], UNCHANGED delivered
      PROVE  Promise!Next
  <2>1. /\ current[w] \in Event /\ status[current[w]] = "Processing"
        /\ delivered[current[w]] \in Nat
        /\ pc[w] = "markSent" => delivered[current[w]] > 0
    BY <1>4 DEF IInv, TypeOK, HandsAreProcessing, DeliveredSoFar, Busy
  <2>2. CASE pc[w] = "markSent"
    <3>1. Promise!SettleSent(current[w])
      BY <1>4, <2>1, <2>2 DEF Verdict, Promise!SettleSent
    <3> QED
      BY <2>1, <3>1 DEF Promise!Next
  <2>3. CASE pc[w] = "markFailed"
    <3>1. Promise!SettleFailed(current[w])
      BY <1>4, <2>1, <2>3 DEF Verdict, Promise!SettleFailed
    <3> QED
      BY <2>1, <3>1 DEF Promise!Next
  <2> QED
    BY <1>4, <2>2, <2>3
<1>5. ASSUME NEW w \in Worker, Progress(w) PROVE [Promise!Next]_(Promise!vars)
  <2>1. CASE ClaimUpdate(w)
    BY <1>2, <2>1 DEF ClaimUpdate
  <2>2. CASE ClaimFails(w)
    BY <1>2, <2>2 DEF ClaimFails, rows
  <2>3. CASE SendAccepted(w)
    BY <1>3, <2>3 DEF SendAccepted
  <2>4. CASE SendTemporaryError(w)
    BY <1>3, <2>4 DEF SendTemporaryError
  <2>5. CASE Mark(w)
    BY <1>4, <2>5 DEF Mark
  <2>6. CASE MarkFails(w)
    BY <1>4, <2>6 DEF MarkFails, LostMark
  <2>7. CASE \/ ClaimSelect(w) \/ StartEvent(w) \/ FinishBatch(w) \/ SendRejected(w)
             \/ BackoffElapsed(w) \/ BackoffCancelled(w) \/ Stop(w) \/ Restart(w)
    BY <2>7 DEF ClaimSelect, StartEvent, FinishBatch, SendRejected,
       BackoffElapsed, BackoffCancelled, Stop, Restart, rows
  <2> QED
    BY <1>5, <2>1, <2>2, <2>3, <2>4, <2>5, <2>6, <2>7 DEF Progress
<1>6. ASSUME NEW w \in Worker, Cancel(w) \/ Crash(w) PROVE UNCHANGED Promise!vars
  BY <1>6 DEF Cancel, Crash, rows
<1>7. CASE UNCHANGED vars
  BY <1>7 DEF vars, rows
<1> QED
  BY <1>1, <1>5, <1>6, <1>7 DEF Next

\* The queue with its workers, crashes and lost calls implements the promise.
THEOREM Refinement == Spec => KeepsPromise
<1>1. Init => Promise!Init
  BY DEF Init, Promise!Init
<1> QED
  BY <1>1, StepKeepsPromise, Invariance, PTL DEF Spec, KeepsPromise, Promise!Spec
-----------------------------------------------------------------------------
\* ORDER BY ... LIMIT takes with an event every older one that could be claimed.
LEMMA OldestAreOldest ==
    ASSUME NEW S \in SUBSET Event, NEW e \in OldestOf(S), NEW f \in S, f < e
    PROVE  f \in OldestOf(S)
<1> DEFINE OlderThan(x) == {g \in S : g < x}
<1>1. IsFiniteSet(Event) /\ Event \subseteq Int
  <2>1. IsFiniteSet(1..MaxEvents)
    BY QueueAssumption, FS_Interval
  <2> QED
    BY <2>1 DEF Event
<1>2. IsFiniteSet(OlderThan(e)) /\ IsFiniteSet(OlderThan(f))
  <2>1. OlderThan(e) \subseteq Event /\ OlderThan(f) \subseteq Event
    OBVIOUS
  <2> QED
    BY <1>1, <2>1, FS_Subset
<1>3. OlderThan(f) \subseteq OlderThan(e)
  <2>1. SUFFICES ASSUME NEW g \in S, g < f PROVE g < e
    OBVIOUS
  <2>2. e \in Int /\ f \in Int /\ g \in Int
    BY <1>1 DEF OldestOf
  <2> QED
    BY <2>1, <2>2
<1>4. /\ Cardinality(OlderThan(f)) <= Cardinality(OlderThan(e))
      /\ Cardinality(OlderThan(f)) \in Nat /\ Cardinality(OlderThan(e)) \in Nat
  BY <1>2, <1>3, FS_Subset, FS_CardinalityType
<1>5. Cardinality(OlderThan(e)) < BatchSize
  BY DEF OldestOf
<1>6. Cardinality(OlderThan(f)) < BatchSize
  BY <1>4, <1>5, QueueAssumption
<1> QED
  BY <1>6 DEF OldestOf

\* However many workers claim at a time and whatever fails, no event is claimed while
\* an older one that is pending is left to nobody.
THEOREM OldestFirst == Spec => ClaimsOldestFirst
<1> DEFINE Oldest ==
      \A w \in Worker : \A e \in locked'[w] \ locked[w] : \A f \in Event :
          (f < e /\ status[f] = "Pending") => \E v \in Worker : f \in locked'[v]
<1>1. ASSUME IInv, NEW v \in Worker, ClaimSelect(v) PROVE Oldest
  <2>1. SUFFICES ASSUME NEW w \in Worker, NEW e \in locked'[w] \ locked[w],
                        NEW f \in Event, f < e, status[f] = "Pending"
                 PROVE  \E u \in Worker : f \in locked'[u]
    OBVIOUS
  <2>2. /\ locked' = [locked EXCEPT ![v] = OldestOf(Claimable)] /\ locked[v] = {}
        /\ locked \in [Worker -> SUBSET Event]
    BY <1>1 DEF ClaimSelect, IInv, TypeOK, LocksArePending
  <2>3. e \in OldestOf(Claimable) /\ Claimable \in SUBSET Event
    BY <2>1, <2>2 DEF Claimable
  <2>4. CASE f \in Claimable
    BY <2>1, <2>2, <2>3, <2>4, OldestAreOldest
  <2>5. CASE f \notin Claimable
    <3>1. PICK u \in Worker : f \in locked[u]
      BY <2>1, <2>5 DEF Claimable
    <3> QED
      BY <2>2, <3>1
  <2> QED
    BY <2>4, <2>5
<1>2. ASSUME IInv, [Next]_vars, \A v \in Worker : ~ClaimSelect(v) PROVE Oldest
  <2>1. \A w \in Worker : locked'[w] \subseteq locked[w]
    <3>1. locked' = locked \/ \E v \in Worker : locked' = [locked EXCEPT ![v] = {}]
      BY <1>2 DEF Next, Progress, vars, local, CreateNotificationEvent, ClaimUpdate,
         ClaimFails, StartEvent, FinishBatch, SendAccepted, SendTemporaryError, SendRejected,
         BackoffElapsed, BackoffCancelled, Mark, MarkFails, LostMark, Cancel, Crash, Stop,
         Restart, Abandon
    <3> QED
      BY <1>2, <3>1 DEF IInv, TypeOK
  <2> QED
    BY <2>1
<1>3. IInv /\ [Next]_vars => [Oldest]_vars
  BY <1>1, <1>2
<1> QED
  BY <1>3, Invariance, PTL DEF Spec, ClaimsOldestFirst
-----------------------------------------------------------------------------
(* What faults cost.                                                       *)

\* The batch of a cancelled worker can be stranded by a fault already counted.
Doomed == {w \in Worker : ctxDone[w] /\ pc[w] \notin {"idle", "stopped"}}

Held(w) == locked[w] \cup InHand(w)

Costs ==
    /\ \A w \in Worker : Cardinality(Held(w)) <= BatchSize
    /\ Cardinality(Stranded) + BatchSize * Cardinality(Doomed) <= BatchSize * faults

\* ORDER BY ... LIMIT returns at most BatchSize rows: the rows that precede one
\* number differently for every row returned.
LEMMA AtMostABatch ==
    ASSUME NEW S \in SUBSET Event
    PROVE  IsFiniteSet(OldestOf(S)) /\ Cardinality(OldestOf(S)) <= BatchSize
<1> DEFINE OlderThan(x) == {g \in S : g < x}
           T == OldestOf(S)
           rank == [e \in T |-> Cardinality(OlderThan(e))]
<1>1. IsFiniteSet(Event) /\ Event \subseteq Int
  <2>1. IsFiniteSet(1..MaxEvents)
    BY QueueAssumption, FS_Interval
  <2> QED
    BY <2>1 DEF Event
<1>2. T \subseteq S /\ T \subseteq Int
  BY <1>1 DEF OldestOf
<1>3. \A e \in T : /\ IsFiniteSet(OlderThan(e))
                   /\ Cardinality(OlderThan(e)) \in 0..(BatchSize - 1)
  <2>1. SUFFICES ASSUME NEW e \in T
                 PROVE  /\ IsFiniteSet(OlderThan(e))
                        /\ Cardinality(OlderThan(e)) \in 0..(BatchSize - 1)
    OBVIOUS
  <2>2. IsFiniteSet(OlderThan(e))
    <3>1. OlderThan(e) \in SUBSET Event
      OBVIOUS
    <3> QED
      BY <1>1, <3>1, FS_Subset
  <2>3. Cardinality(OlderThan(e)) \in Nat
    BY <2>2, FS_CardinalityType
  <2>4. Cardinality(OlderThan(e)) < BatchSize
    BY DEF OldestOf
  <2> QED
    BY <2>2, <2>3, <2>4, QueueAssumption
<1>4. ASSUME NEW e \in T, NEW f \in T, e < f
      PROVE  Cardinality(OlderThan(e)) < Cardinality(OlderThan(f))
  <2>1. e \notin OlderThan(e) /\ IsFiniteSet(OlderThan(e))
    BY <1>2, <1>3
  <2>2. OlderThan(e) \cup {e} \in SUBSET OlderThan(f)
    <3>1. e \in OlderThan(f)
      BY <1>2, <1>4
    <3>2. ASSUME NEW g \in OlderThan(e) PROVE g \in OlderThan(f)
      <4>1. g \in S /\ g < e /\ g \in Int /\ e \in Int /\ f \in Int
        BY <1>1, <1>2
      <4> QED
        BY <1>4, <4>1
    <3> QED
      BY <3>1, <3>2
  <2>3. Cardinality(OlderThan(e) \cup {e}) = Cardinality(OlderThan(e)) + 1
    BY <2>1, FS_AddElement
  <2>4. Cardinality(OlderThan(e) \cup {e}) <= Cardinality(OlderThan(f))
    BY <1>3, <2>2, FS_Subset
  <2> QED
    BY <1>3, <2>3, <2>4
<1>5. rank \in Injection(T, 0..(BatchSize - 1))
  <2>1. rank \in [T -> 0..(BatchSize - 1)]
    BY <1>3
  <2>2. ASSUME NEW e \in T, NEW f \in T, rank[e] = rank[f] PROVE e = f
    <3>1. /\ Cardinality(OlderThan(e)) = Cardinality(OlderThan(f))
          /\ Cardinality(OlderThan(e)) \in Int
      BY <1>3, <2>2
    <3>2. ~(e < f) /\ ~(f < e)
      BY <1>4, <3>1
    <3>3. e \in Int /\ f \in Int
      BY <1>2
    <3> QED
      BY <3>2, <3>3
  <2> QED
    BY <2>1, <2>2 DEF Injection, IsInjective
<1>6. IsFiniteSet(0..(BatchSize - 1)) /\ Cardinality(0..(BatchSize - 1)) = BatchSize
  BY QueueAssumption, FS_Interval
<1> HIDE DEF rank
<1>7. IsFiniteSet(T) /\ Cardinality(T) <= Cardinality(0..(BatchSize - 1))
  BY <1>5, <1>6, FS_Injection
<1> QED
  BY <1>6, <1>7

\* The balance of one step: b is the batch size; s events stranded, d workers
\* doomed and f faults before it, s2, d2 and f2 after it.
LEMMA Balance ==
    ASSUME NEW b \in Nat,
           NEW s \in Nat, NEW d \in Nat, NEW f \in Nat, s + b * d <= b * f,
           NEW s2 \in Nat, NEW d2 \in Nat, NEW f2 \in Nat,
           \/ s2 <= s /\ d2 <= d /\ f2 = f
           \/ s2 <= s /\ d2 <= d + 1 /\ f2 = f + 1
           \/ s2 <= s + b /\ d2 <= d /\ f2 = f + 1
           \/ s2 <= s + b /\ d2 + 1 <= d /\ f2 = f
    PROVE  s2 + b * d2 <= b * f2
<1>1. ASSUME NEW u \in Nat, NEW v \in Nat, u <= v PROVE b * u <= b * v
  <2>1. PICK k \in Nat : v = u + k
    BY <1>1, v - u \in Nat
  <2>2. b * v = b * u + b * k /\ b * u \in Nat /\ b * k \in Nat
    BY <2>1
  <2> QED
    BY <2>2
<1>2. \A u \in Nat : b * u \in Nat /\ b * (u + 1) = b * u + b
  OBVIOUS
<1> DEFINE bd == b * d
           bf == b * f
           bd2 == b * d2
           bf2 == b * f2
<1>3. bd \in Nat /\ bf \in Nat /\ bd2 \in Nat /\ bf2 \in Nat
  BY <1>2
<1>4. \/ s2 <= s /\ bd2 <= bd /\ bf2 = bf
      \/ s2 <= s /\ bd2 <= bd + b /\ bf2 = bf + b
      \/ s2 <= s + b /\ bd2 <= bd /\ bf2 = bf + b
      \/ s2 <= s + b /\ bd2 + b <= bd /\ bf2 = bf
  <2>1. d2 <= d => bd2 <= bd
    BY <1>1
  <2>2. d2 <= d + 1 => bd2 <= bd + b
    <3>1. d2 <= d + 1 => bd2 <= b * (d + 1)
      BY <1>1, d + 1 \in Nat
    <3> QED
      BY <1>2, <3>1
  <2>3. d2 + 1 <= d => bd2 + b <= bd
    <3>1. d2 + 1 <= d => b * (d2 + 1) <= bd
      BY <1>1, d2 + 1 \in Nat
    <3> QED
      BY <1>2, <3>1
  <2>4. f2 = f + 1 => bf2 = bf + b
    BY <1>2
  <2> HIDE DEF bd, bd2
  <2>5. f2 = f => bf2 = bf
    OBVIOUS
  <2> HIDE DEF bf, bf2
  <2> QED
    BY <2>1, <2>2, <2>3, <2>4, <2>5
<1> QED
  <2>1. s + bd <= bf
    OBVIOUS
  <2>2. s2 + bd2 <= bf2
    <3> HIDE DEF bd, bd2, bf, bf2
    <3> QED
      BY <1>3, <1>4, <2>1
  <2> QED
    BY <2>2

\* Events and workers are finitely many, so what is counted has a number.
LEMMA Countable ==
    ASSUME IsFiniteSet(Worker)
    PROVE  /\ IsFiniteSet(Stranded) /\ Cardinality(Stranded) \in Nat
           /\ IsFiniteSet(Doomed) /\ Cardinality(Doomed) \in Nat
<1>1. IsFiniteSet(Event)
  <2>1. IsFiniteSet(1..MaxEvents)
    BY QueueAssumption, FS_Interval
  <2> QED
    BY <2>1 DEF Event
<1>2. IsFiniteSet(Stranded)
  BY <1>1, FS_Subset, Stranded \in SUBSET Event DEF Stranded
<1>3. IsFiniteSet(Doomed)
  BY FS_Subset, Doomed \in SUBSET Worker DEF Doomed
<1> QED
  BY <1>2, <1>3, FS_CardinalityType

\* The four ways a step can change the balance: not at all; a fault dooms a worker;
\* a fault strands a batch; a doomed worker strands its batch.
LEMMA BalanceKept ==
    ASSUME IsFiniteSet(Worker), IInv, Costs, NEW w \in Worker, TypeOK',
           \/ /\ Stranded' \subseteq Stranded
              /\ Doomed' \subseteq Doomed
              /\ faults' = faults
           \/ /\ Stranded' \subseteq Stranded
              /\ Doomed' \subseteq Doomed \cup {w}
              /\ faults' = faults + 1
           \/ /\ Stranded' \subseteq Stranded \cup Held(w)
              /\ Doomed' \subseteq Doomed
              /\ faults' = faults + 1
           \/ /\ Stranded' \subseteq Stranded \cup Held(w)
              /\ Doomed' \subseteq Doomed \ {w} /\ w \in Doomed
              /\ faults' = faults
    PROVE  Cardinality(Stranded') + BatchSize * Cardinality(Doomed') <= BatchSize * faults'
<1> DEFINE s == Cardinality(Stranded)
           s2 == Cardinality(Stranded')
           d == Cardinality(Doomed)
           d2 == Cardinality(Doomed')
<1>1. /\ IsFiniteSet(Stranded) /\ s \in Nat /\ IsFiniteSet(Doomed) /\ d \in Nat
      /\ BatchSize \in Nat /\ faults \in Nat /\ faults' \in Nat
  BY Countable, QueueAssumption DEF IInv, TypeOK
<1>2. /\ IsFiniteSet(Stranded \cup Held(w))
      /\ Cardinality(Stranded \cup Held(w)) \in Nat
      /\ Cardinality(Stranded \cup Held(w)) <= s + BatchSize
  <2>1. IsFiniteSet(Held(w))
    <3>1. IsFiniteSet(1..MaxEvents)
      BY QueueAssumption, FS_Interval
    <3>2. Held(w) \in SUBSET (1..MaxEvents)
      BY DEF IInv, TypeOK, Held, InHand, Event
    <3> QED
      BY <3>1, <3>2, FS_Subset
  <2>2. /\ IsFiniteSet(Stranded \cap Held(w))
        /\ IsFiniteSet(Stranded \cup Held(w))
        /\ Cardinality(Stranded \cup Held(w)) =
              s + Cardinality(Held(w)) - Cardinality(Stranded \cap Held(w))
    BY <1>1, <2>1, FS_Union, FS_Intersection
  <2>3. /\ Cardinality(Held(w)) \in Nat /\ Cardinality(Stranded \cap Held(w)) \in Nat
        /\ Cardinality(Stranded \cup Held(w)) \in Nat
    BY <2>1, <2>2, FS_CardinalityType
  <2>4. Cardinality(Held(w)) <= BatchSize
    BY DEF Costs
  <2> HIDE DEF s
  <2> QED
    BY <1>1, <2>2, <2>3, <2>4
<1>3. /\ IsFiniteSet(Doomed \cup {w}) /\ Cardinality(Doomed \cup {w}) \in Nat
      /\ Cardinality(Doomed \cup {w}) <= d + 1
  <2>1. /\ IsFiniteSet(Doomed \cup {w})
        /\ Cardinality(Doomed \cup {w}) = IF w \in Doomed THEN d ELSE d + 1
    BY <1>1, FS_AddElement
  <2> HIDE DEF d
  <2> QED
    BY <1>1, <2>1
<1>4. /\ IsFiniteSet(Doomed \ {w}) /\ Cardinality(Doomed \ {w}) \in Nat
      /\ w \in Doomed => Cardinality(Doomed \ {w}) + 1 = d
  <2>1. /\ IsFiniteSet(Doomed \ {w})
        /\ Cardinality(Doomed \ {w}) = IF w \in Doomed THEN d - 1 ELSE d
    BY <1>1, FS_RemoveElement
  <2>2. Cardinality(Doomed \ {w}) \in Nat
    BY <2>1, FS_CardinalityType
  <2> HIDE DEF d
  <2> QED
    BY <1>1, <2>1, <2>2
<1>5. s2 \in Nat /\ d2 \in Nat
  <2>1. Stranded' \subseteq Stranded \cup Held(w) /\ Doomed' \subseteq Doomed \cup {w}
    OBVIOUS
  <2>2. IsFiniteSet(Stranded') /\ IsFiniteSet(Doomed')
    BY <1>2, <1>3, <2>1, FS_Subset
  <2> QED
    BY <2>2, FS_CardinalityType
<1>6. /\ Stranded' \subseteq Stranded => s2 <= s
      /\ Stranded' \subseteq Stranded \cup Held(w) => s2 <= s + BatchSize
      /\ Doomed' \subseteq Doomed => d2 <= d
      /\ Doomed' \subseteq Doomed \cup {w} => d2 <= d + 1
      /\ Doomed' \subseteq Doomed \ {w} /\ w \in Doomed => d2 + 1 <= d
  <2>1. Stranded' \subseteq Stranded => s2 <= s
    BY <1>1, FS_Subset
  <2>2. ASSUME Stranded' \subseteq Stranded \cup Held(w) PROVE s2 <= s + BatchSize
    <3>1. s2 <= Cardinality(Stranded \cup Held(w))
      BY <1>2, <2>2, FS_Subset
    <3> HIDE DEF s, s2
    <3> QED
      BY <1>1, <1>2, <1>5, <3>1
  <2>3. Doomed' \subseteq Doomed => d2 <= d
    BY <1>1, FS_Subset
  <2>4. ASSUME Doomed' \subseteq Doomed \cup {w} PROVE d2 <= d + 1
    <3>1. d2 <= Cardinality(Doomed \cup {w})
      BY <1>3, <2>4, FS_Subset
    <3> HIDE DEF d, d2
    <3> QED
      BY <1>1, <1>3, <1>5, <3>1
  <2>5. ASSUME Doomed' \subseteq Doomed \ {w}, w \in Doomed PROVE d2 + 1 <= d
    <3>1. d2 <= Cardinality(Doomed \ {w})
      BY <1>4, <2>5, FS_Subset
    <3> HIDE DEF d, d2
    <3> QED
      BY <1>1, <1>4, <1>5, <2>5, <3>1
  <2> QED
    BY <2>1, <2>2, <2>3, <2>4, <2>5
<1>7. s + BatchSize * d <= BatchSize * faults
  BY DEF Costs
<1>8. \/ s2 <= s /\ d2 <= d /\ faults' = faults
      \/ s2 <= s /\ d2 <= d + 1 /\ faults' = faults + 1
      \/ s2 <= s + BatchSize /\ d2 <= d /\ faults' = faults + 1
      \/ s2 <= s + BatchSize /\ d2 + 1 <= d /\ faults' = faults
  <2> HIDE DEF s, s2, d, d2
  <2> QED
    BY <1>6
<1> HIDE DEF s, s2, d, d2
<1>9. s2 + BatchSize * d2 <= BatchSize * faults'
  BY <1>1, <1>5, <1>7, <1>8, Balance
<1> QED
  BY <1>9 DEF s2, d2

\* Every step keeps the balance.
LEMMA CostsKept ==
    ASSUME IsFiniteSet(Worker), IInv, Costs, [Next]_vars
    PROVE  Costs'
<1> USE QueueAssumption DEF Busy, rows, local
<1>0. IInv' /\ TypeOK' /\ TypeOK
  BY Inductive DEF IInv
<1> DEFINE Smaller == \A v \in Worker : Held(v)' \subseteq Held(v)
           Balanced(w) ==
             \/ /\ Stranded' \subseteq Stranded
                /\ Doomed' \subseteq Doomed
                /\ faults' = faults
             \/ /\ Stranded' \subseteq Stranded
                /\ Doomed' \subseteq Doomed \cup {w}
                /\ faults' = faults + 1
             \/ /\ Stranded' \subseteq Stranded \cup Held(w)
                /\ Doomed' \subseteq Doomed
                /\ faults' = faults + 1
             \/ /\ Stranded' \subseteq Stranded \cup Held(w)
                /\ Doomed' \subseteq Doomed \ {w} /\ w \in Doomed
                /\ faults' = faults
           Batches == \A v \in Worker : Cardinality(Held(v)') <= BatchSize
<1>1. Smaller => Batches
  <2>1. ASSUME Smaller, NEW v \in Worker PROVE Cardinality(Held(v)') <= BatchSize
    <3>1. IsFiniteSet(1..MaxEvents)
      BY FS_Interval
    <3>2. Held(v) \in SUBSET (1..MaxEvents) /\ Held(v)' \subseteq Held(v)
      BY <1>0, <2>1 DEF TypeOK, Held, InHand, Event
    <3>3. IsFiniteSet(Held(v))
      BY <3>1, <3>2, FS_Subset
    <3>4. /\ Cardinality(Held(v)) \in Nat /\ Cardinality(Held(v)') \in Nat
          /\ Cardinality(Held(v)') <= Cardinality(Held(v))
      BY <3>2, <3>3, FS_Subset, FS_CardinalityType
    <3>5. Cardinality(Held(v)) <= BatchSize
      BY DEF Costs
    <3> QED
      BY <3>4, <3>5
  <2> QED
    BY <2>1
<1>2. ASSUME NEW w \in Worker, Balanced(w), Batches PROVE Costs'
  <2>1. Cardinality(Stranded') + BatchSize * Cardinality(Doomed') <= BatchSize * faults'
    BY <1>0, <1>2, BalanceKept
  <2> QED
    BY <1>2, <2>1 DEF Costs
<1>3. ASSUME NEW w \in Worker, Abandon(w) PROVE Smaller
  BY <1>0, <1>3 DEF Abandon, TypeOK, Held, InHand
<1>4. ASSUME NEW e \in Event, CreateNotificationEvent(e) PROVE Costs'
  <2>1. Stranded' \subseteq Stranded /\ Doomed' \subseteq Doomed /\ faults' = faults
    BY <1>0, <1>4 DEF CreateNotificationEvent, TypeOK, Stranded, InHand, Doomed, Event
  <2>2. Smaller
    BY <1>4 DEF CreateNotificationEvent, Held, InHand
  <2>3. CASE Worker = {}
    <3>1. Doomed' = {} /\ Doomed = {}
      BY <2>3 DEF Doomed
    <3>2. Cardinality(Stranded') <= Cardinality(Stranded)
      BY <2>1, Countable, FS_Subset
    <3>3. Cardinality(Stranded') \in Nat /\ Cardinality(Stranded) \in Nat
      BY <2>1, Countable, FS_Subset, FS_CardinalityType
    <3>4. /\ Cardinality(Stranded) + BatchSize * 0 <= BatchSize * faults
          /\ BatchSize * faults \in Nat /\ BatchSize * 0 = 0
      BY <1>0, <3>1, FS_EmptySet DEF Costs, TypeOK
    <3>5. Cardinality(Stranded') + BatchSize * 0 <= BatchSize * faults'
      BY <2>1, <3>2, <3>3, <3>4
    <3> QED
      BY <2>3, <3>1, <3>5, FS_EmptySet DEF Costs
  <2>4. CASE Worker # {}
    <3>1. PICK w \in Worker : TRUE
      BY <2>4
    <3> QED
      BY <1>1, <1>2, <2>1, <2>2, <3>1
  <2> QED
    BY <2>3, <2>4
<1>5. ASSUME NEW w \in Worker, ClaimSelect(w) PROVE Costs'
  <2>1. Balanced(w)
    BY <1>0, <1>5 DEF ClaimSelect, TypeOK, Stranded, InHand, Doomed
  <2>2. Batches
    <3>1. ASSUME NEW v \in Worker PROVE Cardinality(Held(v)') <= BatchSize
      <4>1. CASE v = w
        <5>1. Held(v)' = OldestOf(Claimable)
          <6>1. InHand(w)' = {}
            BY <1>5 DEF ClaimSelect, IInv, HandsAreProcessing, InHand
          <6>2. locked'[w] = OldestOf(Claimable)
            BY <1>0, <1>5 DEF ClaimSelect, TypeOK
          <6> QED
            BY <4>1, <6>1, <6>2 DEF Held
        <5> QED
          BY <5>1, AtMostABatch, Claimable \in SUBSET Event DEF Claimable
      <4>2. CASE v # w
        <5>1. Held(v)' = Held(v)
          BY <1>0, <1>5, <4>2 DEF ClaimSelect, TypeOK, Held, InHand
        <5> QED
          BY <5>1 DEF Costs
      <4> QED
        BY <4>1, <4>2
    <3> QED
      BY <3>1
  <2> QED
    BY <1>2, <2>1, <2>2
<1>6. ASSUME NEW w \in Worker, ClaimUpdate(w) PROVE Costs'
  <2>1. Smaller
    BY <1>0, <1>6 DEF ClaimUpdate, TypeOK, Held, InHand
  <2>2. Stranded' \subseteq Stranded
    <3>1. ASSUME NEW e \in Stranded' PROVE e \in Stranded
      <4>1. /\ e \in Event /\ status'[e] = "Processing"
            /\ \A v \in Worker : e \notin InHand(v)'
        BY <3>1 DEF Stranded
      <4>2. e \notin locked[w]
        BY <1>0, <1>6, <4>1 DEF ClaimUpdate, TypeOK, InHand
      <4>3. status[e] = "Processing"
        BY <1>6, <4>1, <4>2 DEF ClaimUpdate, MarkClaimed
      <4>4. \A v \in Worker : InHand(v) \subseteq InHand(v)'
        BY <1>0, <1>6 DEF ClaimUpdate, TypeOK, InHand, IInv, HandsAreProcessing
      <4> QED
        BY <4>1, <4>3, <4>4 DEF Stranded
    <3> QED
      BY <3>1
  <2>3. Doomed' \subseteq Doomed /\ faults' = faults
    BY <1>0, <1>6 DEF ClaimUpdate, TypeOK, Doomed
  <2> QED
    BY <1>1, <1>2, <2>1, <2>2, <2>3
<1>7. ASSUME NEW w \in Worker, StartEvent(w) PROVE Costs'
  <2>1. \A v \in Worker : InHand(v)' = InHand(v) /\ locked'[v] = locked[v]
    <3>1. PICK e \in batch[w] : /\ current' = [current EXCEPT ![w] = e]
                                /\ batch' = [batch EXCEPT ![w] = @ \ {e}]
      BY <1>7 DEF StartEvent
    <3>2. e # NoEvent /\ current[w] = NoEvent
      BY <1>0, <1>7 DEF StartEvent, TypeOK, IInv, HandsAreProcessing
    <3>3. InHand(w)' = InHand(w)
      BY <1>0, <3>1, <3>2 DEF TypeOK, InHand
    <3>4. \A v \in Worker : v # w => InHand(v)' = InHand(v)
      BY <1>0, <3>1 DEF TypeOK, InHand
    <3> QED
      BY <1>7, <3>3, <3>4 DEF StartEvent
  <2>2. Stranded' = Stranded /\ Smaller
    BY <1>7, <2>1 DEF StartEvent, Stranded, Held
  <2>3. Doomed' \subseteq Doomed /\ faults' = faults
    BY <1>0, <1>7 DEF StartEvent, TypeOK, Doomed
  <2> QED
    BY <1>1, <1>2, <2>2, <2>3
<1>8. ASSUME NEW w \in Worker,
             \/ FinishBatch(w) \/ SendAccepted(w) \/ SendTemporaryError(w) \/ SendRejected(w)
             \/ BackoffElapsed(w) \/ BackoffCancelled(w) \/ Stop(w) \/ Restart(w)
      PROVE  Costs'
  <2>1. UNCHANGED <<status, locked, batch, current, faults>>
    BY <1>8 DEF FinishBatch, SendAccepted, SendTemporaryError, SendRejected, BackoffElapsed,
       BackoffCancelled, Stop, Restart
  <2>2. Stranded' = Stranded /\ Smaller
    BY <2>1 DEF Stranded, InHand, Held
  <2>3. Doomed' \subseteq Doomed
    BY <1>0, <1>8 DEF FinishBatch, SendAccepted, SendTemporaryError, SendRejected,
       BackoffElapsed, BackoffCancelled, Stop, Restart, LastAttempt, TypeOK, Doomed
  <2> QED
    BY <1>1, <1>2, <2>1, <2>2, <2>3
<1>9. ASSUME NEW w \in Worker, Mark(w) PROVE Costs'
  <2>1. Smaller
    BY <1>0, <1>9 DEF Mark, TypeOK, Held, InHand
  <2>2. Stranded' \subseteq Stranded
    <3>1. ASSUME NEW e \in Stranded' PROVE e \in Stranded
      <4>1. e # current[w] /\ status[e] = "Processing" /\ e \in Event
        BY <1>0, <1>9, <3>1 DEF Mark, Verdict, TypeOK, Stranded
      <4>2. \A v \in Worker : e \notin InHand(v)
        BY <1>0, <1>9, <3>1, <4>1 DEF Mark, TypeOK, Stranded, InHand
      <4> QED
        BY <4>1, <4>2 DEF Stranded
    <3> QED
      BY <3>1
  <2>3. Doomed' \subseteq Doomed /\ faults' = faults
    BY <1>0, <1>9 DEF Mark, TypeOK, Doomed
  <2> QED
    BY <1>1, <1>2, <2>1, <2>2, <2>3
<1>10. ASSUME NEW w \in Worker, Abandon(w),
              \A e \in Event : status'[e] = "Processing" =>
                  status[e] = "Processing" \/ e \in locked[w]
       PROVE  Stranded' \subseteq Stranded \cup Held(w)
  <2>1. ASSUME NEW e \in Stranded', e \notin Held(w) PROVE e \in Stranded
    <3>1. e \in Event /\ status[e] = "Processing"
      BY <1>10, <2>1 DEF Stranded, Held
    <3>2. \A v \in Worker : e \notin InHand(v)
      BY <1>0, <1>10, <2>1 DEF Abandon, TypeOK, Stranded, Held, InHand
    <3> QED
      BY <3>1, <3>2 DEF Stranded
  <2> QED
    BY <2>1
<1>11. ASSUME NEW w \in Worker, Abandon(w), DatabaseFails(w), UNCHANGED ctxDone,
              pc[w] \notin {"idle", "stopped"},
              Stranded' \subseteq Stranded \cup Held(w)
       PROVE  Costs'
  <2>1. Doomed' \subseteq Doomed \ {w} /\ ctxDone[w] => w \in Doomed
    BY <1>11 DEF Doomed
  <2>2. Doomed' \subseteq Doomed \ {w}
    BY <1>0, <1>11 DEF Abandon, TypeOK, Doomed
  <2>3. Balanced(w)
    BY <1>11, <2>1, <2>2 DEF DatabaseFails
  <2> QED
    BY <1>1, <1>2, <1>3, <1>11, <2>3
<1>12. ASSUME NEW w \in Worker, ClaimFails(w) PROVE Costs'
  <2>1. \A e \in Event : status'[e] = "Processing" =>
            status[e] = "Processing" \/ e \in locked[w]
    BY <1>12 DEF ClaimFails, MarkClaimed
  <2> QED
    BY <1>10, <1>11, <1>12, <2>1 DEF ClaimFails
<1>13. ASSUME NEW w \in Worker, MarkFails(w) PROVE Costs'
  <2>1. \A e \in Event : status'[e] = "Processing" => status[e] = "Processing"
    BY <1>0, <1>13 DEF MarkFails, LostMark, Verdict, TypeOK
  <2> QED
    BY <1>10, <1>11, <1>13, <2>1 DEF MarkFails
<1>14. ASSUME NEW w \in Worker, Cancel(w) PROVE Costs'
  <2>1. Stranded' = Stranded /\ Smaller
    BY <1>14 DEF Cancel, Stranded, InHand, Held
  <2>2. Doomed' \subseteq Doomed \cup {w} /\ faults' = faults + 1
    BY <1>0, <1>14 DEF Cancel, TypeOK, Doomed
  <2> QED
    BY <1>1, <1>2, <2>1, <2>2
<1>15. ASSUME NEW w \in Worker, Crash(w) PROVE Costs'
  <2>1. Stranded' \subseteq Stranded \cup Held(w)
    BY <1>10, <1>15 DEF Crash
  <2>2. Doomed' \subseteq Doomed /\ faults' = faults + 1
    BY <1>0, <1>15 DEF Crash, Abandon, TypeOK, Doomed
  <2>3. Smaller
    BY <1>3, <1>15 DEF Crash
  <2> QED
    BY <1>1, <1>2, <2>1, <2>2, <2>3
<1>16. CASE UNCHANGED vars
  <2>1. UNCHANGED <<Stranded, Doomed, faults>> /\ \A v \in Worker : Held(v)' = Held(v)
    BY <1>16 DEF vars, Stranded, InHand, Doomed, Held
  <2> QED
    BY <2>1 DEF Costs
<1> QED
  BY <1>4, <1>5, <1>6, <1>7, <1>8, <1>9, <1>12, <1>13, <1>14, <1>15, <1>16 DEF Next, Progress

\* However many workers poll and whatever crashes, is cancelled or fails, the events
\* that stay Processing with nobody at them number at most a batch for each fault:
\* without a fault there is none, and no fault costs more than one batch.
THEOREM StrandedPaidFor == ASSUME IsFiniteSet(Worker) PROVE Spec => []StrandedBounded
<1>1. Init => Costs
  <2>1. SUFFICES ASSUME Init PROVE Costs
    OBVIOUS
  <2>2. Stranded = {} /\ Doomed = {} /\ \A w \in Worker : Held(w) = {}
    BY <2>1 DEF Init, Stranded, Doomed, Held, InHand
  <2>3. BatchSize * 0 = 0 /\ faults = 0
    BY <2>1, QueueAssumption DEF Init
  <2> QED
    BY <2>2, <2>3, FS_EmptySet, QueueAssumption DEF Costs
<1>2. IInv /\ Costs /\ [Next]_vars => Costs'
  BY CostsKept
<1>3. IInv /\ Costs => StrandedBounded
  <2>1. SUFFICES ASSUME IInv, Costs PROVE StrandedBounded
    OBVIOUS
  <2> DEFINE bd == BatchSize * Cardinality(Doomed)
  <2>2. /\ Cardinality(Stranded) \in Nat /\ Cardinality(Doomed) \in Nat
        /\ BatchSize * faults \in Nat
    BY <2>1, Countable, QueueAssumption DEF IInv, TypeOK
  <2>3. bd \in Nat
    BY <2>2, QueueAssumption
  <2>4. Cardinality(Stranded) + bd <= BatchSize * faults
    BY <2>1 DEF Costs
  <2> HIDE DEF bd
  <2> QED
    BY <2>2, <2>3, <2>4 DEF StrandedBounded
<1> QED
  BY <1>1, <1>2, <1>3, Invariance, PTL DEF Spec

\* What is final: a row that was settled keeps its status, and no further copy of its
\* event goes out.
SettledIsFinal ==
    [][\A e \in Event : status[e] \in {"Sent", "Failed"} =>
          status'[e] = status[e] /\ delivered'[e] = delivered[e]]_vars

\* And what nobody makes good: a stranded event stays stranded, undelivered or not.
StrandedIsFinal ==
    [][\A e \in Stranded : e \in Stranded' /\ delivered'[e] = delivered[e]]_vars

\* A worker changes only what it has locked or has in hand.
LEMMA OthersUntouched ==
    ASSUME IInv, [Next]_vars, NEW e \in Event, status[e] \notin {"Absent", "Pending"},
           \A w \in Worker : e # current[w]
    PROVE  status'[e] = status[e] /\ delivered'[e] = delivered[e]
<1> USE DEF rows, local
<1>1. TypeOK /\ \A w \in Worker : e \notin locked[w]
  BY DEF IInv, LocksArePending
<1>2. CASE \E f \in Event : CreateNotificationEvent(f)
  BY <1>1, <1>2 DEF CreateNotificationEvent, TypeOK
<1>3. ASSUME NEW w \in Worker, ClaimUpdate(w) \/ ClaimFails(w)
      PROVE  status'[e] = status[e] /\ delivered'[e] = delivered[e]
  BY <1>1, <1>3 DEF ClaimUpdate, ClaimFails, MarkClaimed
<1>4. ASSUME NEW w \in Worker, SendAccepted(w) \/ SendTemporaryError(w)
      PROVE  status'[e] = status[e] /\ delivered'[e] = delivered[e]
  BY <1>1, <1>4 DEF SendAccepted, SendTemporaryError, Delivers, TypeOK
<1>5. ASSUME NEW w \in Worker, Mark(w) \/ MarkFails(w)
      PROVE  status'[e] = status[e] /\ delivered'[e] = delivered[e]
  BY <1>1, <1>5 DEF Mark, MarkFails, LostMark, TypeOK
<1>6. ASSUME NEW w \in Worker,
             \/ ClaimSelect(w) \/ StartEvent(w) \/ FinishBatch(w) \/ SendRejected(w)
             \/ BackoffElapsed(w) \/ BackoffCancelled(w) \/ Stop(w) \/ Restart(w)
             \/ Cancel(w) \/ Crash(w)
      PROVE  status'[e] = status[e] /\ delivered'[e] = delivered[e]
  BY <1>6 DEF ClaimSelect, StartEvent, FinishBatch, SendRejected, BackoffElapsed,
     BackoffCancelled, Stop, Restart, Cancel, Crash
<1>7. CASE UNCHANGED vars
  BY <1>7 DEF vars
<1> QED
  BY <1>2, <1>3, <1>4, <1>5, <1>6, <1>7 DEF Next, Progress

\* What a worker takes in hand it had locked or in hand before.
LEMMA HandsFromLocks ==
    ASSUME IInv, [Next]_vars, NEW w \in Worker
    PROVE  InHand(w)' \subseteq InHand(w) \cup locked[w]
<1> USE DEF rows, local
<1>1. TypeOK
  BY DEF IInv
<1>2. ASSUME NEW v \in Worker, ClaimUpdate(v) \/ FinishBatch(v) \/ Mark(v) \/ Abandon(v)
      PROVE  InHand(w)' \subseteq InHand(w) \cup locked[w]
  BY <1>1, <1>2 DEF ClaimUpdate, FinishBatch, Mark, Abandon, TypeOK, InHand
<1>3. ASSUME NEW v \in Worker, StartEvent(v)
      PROVE  InHand(w)' \subseteq InHand(w) \cup locked[w]
  <2>1. PICK e \in batch[v] : /\ current' = [current EXCEPT ![v] = e]
                              /\ batch' = [batch EXCEPT ![v] = @ \ {e}]
    BY <1>3 DEF StartEvent
  <2> QED
    BY <1>1, <2>1 DEF TypeOK, InHand
<1>4. ASSUME UNCHANGED <<batch, current>>
      PROVE  InHand(w)' \subseteq InHand(w) \cup locked[w]
  BY <1>4 DEF InHand
<1>5. ASSUME NEW v \in Worker,
             \/ ClaimSelect(v) \/ SendAccepted(v) \/ SendTemporaryError(v)
             \/ SendRejected(v) \/ BackoffElapsed(v) \/ BackoffCancelled(v)
             \/ Stop(v) \/ Restart(v) \/ Cancel(v)
      PROVE  UNCHANGED <<batch, current>>
  BY <1>5 DEF ClaimSelect, SendAccepted, SendTemporaryError, SendRejected,
     BackoffElapsed, BackoffCancelled, Stop, Restart, Cancel
<1>6. ASSUME NEW v \in Worker, ClaimFails(v) \/ MarkFails(v) \/ Crash(v) PROVE Abandon(v)
  BY <1>6 DEF ClaimFails, MarkFails, Crash
<1>7. CASE UNCHANGED vars \/ \E e \in Event : CreateNotificationEvent(e)
  BY <1>4, <1>7 DEF vars, CreateNotificationEvent
<1> QED
  BY <1>2, <1>3, <1>4, <1>5, <1>6, <1>7 DEF Next, Progress

\* No worker, however late it answers, changes a settled row or sends its event again.
THEOREM SettledForEver == Spec => SettledIsFinal
<1> DEFINE Final == \A e \in Event : status[e] \in {"Sent", "Failed"} =>
                       status'[e] = status[e] /\ delivered'[e] = delivered[e]
<1>1. ASSUME IInv, [Next]_vars PROVE Final
  <2>1. ASSUME NEW e \in Event, status[e] \in {"Sent", "Failed"}
        PROVE  \A w \in Worker : e # current[w]
    BY <1>1, <2>1, QueueAssumption DEF IInv, HandsAreProcessing
  <2> QED
    BY <1>1, <2>1, OthersUntouched
<1>2. IInv /\ [Next]_vars => [Final]_vars
  BY <1>1
<1> QED
  BY <1>2, Invariance, PTL DEF Spec, SettledIsFinal

\* What a fault has stranded is Processing for ever: no claim, restart or later worker
\* takes it up, so each of these events is lost or was delivered without a mark.
THEOREM StrandedForEver == Spec => StrandedIsFinal
<1> DEFINE Final == \A e \in Stranded : e \in Stranded' /\ delivered'[e] = delivered[e]
<1>1. ASSUME IInv, [Next]_vars, NEW e \in Stranded
      PROVE  e \in Stranded' /\ delivered'[e] = delivered[e]
  <2>1. /\ e \in Event /\ e # NoEvent /\ status[e] = "Processing"
        /\ \A w \in Worker : e \notin InHand(w)
    BY QueueAssumption DEF Stranded
  <2>2. \A w \in Worker : e # current[w] /\ e \notin locked[w]
    BY <1>1, <2>1 DEF InHand, IInv, LocksArePending
  <2>3. status'[e] = "Processing" /\ delivered'[e] = delivered[e]
    BY <1>1, <2>1, <2>2, OthersUntouched
  <2>4. \A w \in Worker : e \notin InHand(w)'
    BY <1>1, <2>1, <2>2, HandsFromLocks
  <2> QED
    BY <2>1, <2>3, <2>4 DEF Stranded
<1>2. IInv /\ [Next]_vars => [Final]_vars
  BY <1>1
<1> QED
  BY <1>2, Invariance, PTL DEF Spec, StrandedIsFinal
=============================================================================
