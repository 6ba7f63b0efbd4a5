-------------------------- MODULE NotificationQueue --------------------------
(***************************************************************************)
(* The notification worker (internal/service/notification_worker.go) over  *)
(* the notification_events table (internal/repository/                     *)
(* notification_postgres.go).                                              *)
(*                                                                         *)
(* A Worker is one caller of ProcessOnce at a time: a polling goroutine of *)
(* some replica, or a request to the process-once endpoint.  Its claim is  *)
(* one SQL statement, in two steps here because two claims interleave: the *)
(* CTE locks rows (FOR UPDATE SKIP LOCKED), the UPDATE then marks them.    *)
(* Every row is due as soon as it is inserted: no caller of                *)
(* CreateNotificationEvent sets scheduled_at, so it is NOW().              *)
(***************************************************************************)
EXTENDS Integers, FiniteSets

CONSTANTS MaxEvents,     \* bound: rows inserted in a behaviour
          Worker,        \* concurrent callers of ProcessOnce
          NoEvent,       \* a worker that is at no event
          BatchSize,     \* LIMIT of one claim
          MaxAttempts,   \* cfg.MaxAttempts: sends for one claimed event
          MaxFaults      \* bound: crashes, shutdowns and database errors

Event == 1..MaxEvents    \* rows in the order of their insertion

ASSUME QueueAssumption ==
    /\ MaxEvents \in Nat
    /\ BatchSize \in Nat \ {0}
    /\ MaxAttempts \in Nat \ {0}
    /\ MaxFaults \in Nat
    /\ NoEvent \notin Event

VARIABLES status,        \* status[e]: the status column, "Absent" before INSERT
          attempts,      \* attempts[e]: the attempts column
          delivered,     \* delivered[e]: how often the provider accepted e
          pc,            \* pc[w]: where worker w is in ProcessOnce
          locked,        \* locked[w]: rows w's claim statement has locked
          batch,         \* batch[w]: claimed events w has not started
          current,       \* current[w]: the event w is sending or marking
          attempt,       \* attempt[w]: sendWithRetry's loop counter
          ctxDone,       \* ctxDone[w]: w's context is cancelled
          faults         \* faults so far

rows == <<status, attempts, delivered>>
local == <<pc, locked, batch, current, attempt>>
vars == <<rows, local, ctxDone, faults>>

Status == {"Absent", "Pending", "Processing", "Sent", "Failed"}
Busy == {"send", "backoff", "markSent", "markFailed"}   \* at an event

TypeOK ==
    /\ status \in [Event -> Status]
    /\ attempts \in [Event -> Nat]
    /\ delivered \in [Event -> Nat]
    /\ pc \in [Worker -> {"idle", "claim", "loop", "stopped"} \cup Busy]
    /\ locked \in [Worker -> SUBSET Event]
    /\ batch \in [Worker -> SUBSET Event]
    /\ current \in [Worker -> Event \cup {NoEvent}]
    /\ attempt \in [Worker -> 1..MaxAttempts]
    /\ ctxDone \in [Worker -> BOOLEAN]
    /\ faults \in 0..MaxFaults

Init ==
    /\ status = [e \in Event |-> "Absent"]
    /\ attempts = [e \in Event |-> 0]
    /\ delivered = [e \in Event |-> 0]
    /\ pc = [w \in Worker |-> "idle"]
    /\ locked = [w \in Worker |-> {}]
    /\ batch = [w \in Worker |-> {}]
    /\ current = [w \in Worker |-> NoEvent]
    /\ attempt = [w \in Worker |-> 1]
    /\ ctxDone = [w \in Worker |-> FALSE]
    /\ faults = 0

-----------------------------------------------------------------------------
(* The table.                                                              *)

\* CreateNotificationEvent: one INSERT, status Pending, attempts 0.
CreateNotificationEvent(e) ==
    /\ status[e] = "Absent"
    /\ \A f \in Event : f < e => status[f] # "Absent"
    /\ status' = [status EXCEPT ![e] = "Pending"]
    /\ UNCHANGED <<attempts, delivered, local, ctxDone, faults>>

\* Mutant: a claim that does not skip the rows another claim has locked.
ClaimableIgnoringLocks == {e \in Event : status[e] = "Pending"}

\* status = 'Pending' ... FOR UPDATE SKIP LOCKED
Claimable ==
    {e \in Event : status[e] = "Pending" /\ \A v \in Worker : e \notin locked[v]}

\* Mutant: the newest rows first.
NewestOf(S) == {e \in S : Cardinality({f \in S : f > e}) < BatchSize}

\* ORDER BY scheduled_at, created_at LIMIT BatchSize
OldestOf(S) == {e \in S : Cardinality({f \in S : f < e}) < BatchSize}

-----------------------------------------------------------------------------
(* ProcessOnce.                                                            *)

ClaimSelect(w) ==
    /\ pc[w] = "idle"
    /\ ~ctxDone[w]
    /\ Claimable # {}
    /\ pc' = [pc EXCEPT ![w] = "claim"]
    /\ locked' = [locked EXCEPT ![w] = OldestOf(Claimable)]
    /\ UNCHANGED <<rows, batch, current, attempt, ctxDone, faults>>

\* UPDATE ... SET status = 'Processing', attempts = attempts + 1
MarkClaimed(S) ==
    /\ status' = [e \in Event |-> IF e \in S THEN "Processing" ELSE status[e]]
    /\ attempts' = [e \in Event |-> IF e \in S THEN attempts[e] + 1 ELSE attempts[e]]
    /\ UNCHANGED delivered

ClaimUpdate(w) ==
    /\ pc[w] = "claim"
    /\ MarkClaimed(locked[w])
    /\ batch' = [batch EXCEPT ![w] = locked[w]]
    /\ locked' = [locked EXCEPT ![w] = {}]
    /\ pc' = [pc EXCEPT ![w] = "loop"]
    /\ UNCHANGED <<current, attempt, ctxDone, faults>>

\* for _, event := range events
StartEvent(w) ==
    /\ pc[w] = "loop"
    /\ \E e \in batch[w] :
          /\ current' = [current EXCEPT ![w] = e]
          /\ batch' = [batch EXCEPT ![w] = @ \ {e}]
    /\ attempt' = [attempt EXCEPT ![w] = 1]
    /\ pc' = [pc EXCEPT ![w] = "send"]
    /\ UNCHANGED <<rows, locked, ctxDone, faults>>

FinishBatch(w) ==
    /\ pc[w] = "loop"
    /\ batch[w] = {}
    /\ pc' = [pc EXCEPT ![w] = "idle"]
    /\ UNCHANGED <<rows, locked, batch, current, attempt, ctxDone, faults>>

Delivers(w) == delivered' = [delivered EXCEPT ![current[w]] = @ + 1]

\* SendMessage returns nil.
SendAccepted(w) ==
    /\ pc[w] = "send"
    /\ Delivers(w)
    /\ pc' = [pc EXCEPT ![w] = "markSent"]
    /\ UNCHANGED <<status, attempts, locked, batch, current, attempt, ctxDone, faults>>

\* Mutant: one attempt too many.
LastAttemptOffByOne(w) == attempt[w] > MaxAttempts

LastAttempt(w) == attempt[w] = MaxAttempts

\* SendMessage returns ErrTemporaryWhatsAppDelivery: the request timed out (and
\* the provider may have accepted it all the same), 429 or 5xx.
SendTemporaryError(w) ==
    /\ pc[w] = "send"
    /\ Delivers(w) \/ UNCHANGED delivered
    /\ pc' = [pc EXCEPT ![w] = IF LastAttempt(w) THEN "markFailed" ELSE "backoff"]
    /\ UNCHANGED <<status, attempts, locked, batch, current, attempt, ctxDone, faults>>

\* SendMessage returns any other error: rejected, no retry.
SendRejected(w) ==
    /\ pc[w] = "send"
    /\ pc' = [pc EXCEPT ![w] = "markFailed"]
    /\ UNCHANGED <<rows, locked, batch, current, attempt, ctxDone, faults>>

\* case <-time.After(RetryBackoff * attempt)
BackoffElapsed(w) ==
    /\ pc[w] = "backoff"
    /\ attempt' = [attempt EXCEPT ![w] = @ + 1]
    /\ pc' = [pc EXCEPT ![w] = "send"]
    /\ UNCHANGED <<rows, locked, batch, current, ctxDone, faults>>

\* case <-ctx.Done(): sendWithRetry returns an error, the event is marked failed.
BackoffCancelled(w) ==
    /\ pc[w] = "backoff"
    /\ ctxDone[w]
    /\ pc' = [pc EXCEPT ![w] = "markFailed"]
    /\ UNCHANGED <<rows, locked, batch, current, attempt, ctxDone, faults>>

\* Mutant: a failure that is not recorded.
FailureUnrecorded(w) == IF pc[w] = "markSent" THEN "Sent" ELSE status[current[w]]

Verdict(w) == IF pc[w] = "markSent" THEN "Sent" ELSE "Failed"

\* MarkNotificationEventSent, MarkNotificationEventFailed
Mark(w) ==
    /\ pc[w] \in {"markSent", "markFailed"}
    /\ ~ctxDone[w]
    /\ status' = [status EXCEPT ![current[w]] = Verdict(w)]
    /\ current' = [current EXCEPT ![w] = NoEvent]
    /\ pc' = [pc EXCEPT ![w] = "loop"]
    /\ UNCHANGED <<attempts, delivered, locked, batch, attempt, ctxDone, faults>>

-----------------------------------------------------------------------------
(* Faults.                                                                 *)

\* Mutant: the row locks of a dead worker are never released.
AbandonKeepingLocks(w) ==
    /\ UNCHANGED <<locked, attempt>>
    /\ batch' = [batch EXCEPT ![w] = {}]
    /\ current' = [current EXCEPT ![w] = NoEvent]
    /\ pc' = [pc EXCEPT ![w] = "idle"]

\* ProcessOnce is over for w: what it had claimed and not marked is dropped.
Abandon(w) ==
    /\ locked' = [locked EXCEPT ![w] = {}]
    /\ batch' = [batch EXCEPT ![w] = {}]
    /\ current' = [current EXCEPT ![w] = NoEvent]
    /\ pc' = [pc EXCEPT ![w] = "idle"]
    /\ UNCHANGED attempt

\* A database call that fails: the context is cancelled, or a fault is used.
DatabaseFails(w) ==
    \/ ctxDone[w] /\ UNCHANGED faults
    \/ faults < MaxFaults /\ faults' = faults + 1

\* The claim returns an error: rolled back, or committed and its rows lost.
ClaimFails(w) ==
    /\ pc[w] = "claim"
    /\ DatabaseFails(w)
    /\ MarkClaimed(locked[w]) \/ UNCHANGED rows
    /\ Abandon(w)
    /\ UNCHANGED ctxDone

\* Mutant: the abandoned batch is put back in the queue, sent events included.
RequeueBatch(w) ==
    status' = [e \in Event |-> IF e \in batch[w] \cup {current[w]}
                               THEN "Pending" ELSE status[e]]

\* What a mark that fails leaves in the table: nothing, or the mark itself.
LostMark(w) ==
    status' \in {status, [status EXCEPT ![current[w]] = Verdict(w)]}

\* A mark returns an error: ProcessOnce returns at once, applied or not.
MarkFails(w) ==
    /\ pc[w] \in {"markSent", "markFailed"}
    /\ DatabaseFails(w)
    /\ LostMark(w)
    /\ Abandon(w)
    /\ UNCHANGED <<attempts, delivered, ctxDone>>

\* stopRuntime, or the client of process-once goes away.
Cancel(w) ==
    /\ pc[w] # "stopped"
    /\ ~ctxDone[w]
    /\ faults < MaxFaults
    /\ faults' = faults + 1
    /\ ctxDone' = [ctxDone EXCEPT ![w] = TRUE]
    /\ UNCHANGED <<rows, local>>

\* Start's select on ctx.Done() between two polls.
Stop(w) ==
    /\ pc[w] = "idle"
    /\ ctxDone[w]
    /\ pc' = [pc EXCEPT ![w] = "stopped"]
    /\ UNCHANGED <<rows, locked, batch, current, attempt, ctxDone, faults>>

\* The process dies; the server rolls its open statement back or has already
\* committed it.  A new process polls with a fresh context.
Crash(w) ==
    /\ pc[w] # "stopped"
    /\ faults < MaxFaults
    /\ faults' = faults + 1
    /\ Abandon(w)
    /\ ctxDone' = [ctxDone EXCEPT ![w] = FALSE]
    /\ UNCHANGED rows

Restart(w) ==
    /\ pc[w] = "stopped"
    /\ pc' = [pc EXCEPT ![w] = "idle"]
    /\ ctxDone' = [ctxDone EXCEPT ![w] = FALSE]
    /\ UNCHANGED <<rows, locked, batch, current, attempt, faults>>

-----------------------------------------------------------------------------
\* The steps a live worker takes by itself.
Progress(w) ==
    \/ ClaimSelect(w) \/ ClaimUpdate(w) \/ ClaimFails(w)
    \/ StartEvent(w) \/ FinishBatch(w)
    \/ SendAccepted(w) \/ SendTemporaryError(w) \/ SendRejected(w)
    \/ BackoffElapsed(w) \/ BackoffCancelled(w)
    \/ Mark(w) \/ MarkFails(w)
    \/ Stop(w) \/ Restart(w)

Next ==
    \/ \E e \in Event : CreateNotificationEvent(e)
    \/ \E w \in Worker : Progress(w) \/ Cancel(w) \/ Crash(w)

Spec == Init /\ [][Next]_vars

\* A goroutine polls on its ticker for ever (Start) and every call it makes
\* returns; a stopped replica is started again.  Nobody has to crash, to cancel
\* or to create events.
FairSpec == Spec /\ \A w \in Worker : WF_vars(Progress(w))

-----------------------------------------------------------------------------
(* Properties.                                                             *)

InHand(w) == batch[w] \cup ({current[w]} \ {NoEvent})

\* No event is ever in the hands of two workers: what one claim statement has
\* locked or returned, no other claim returns (FOR UPDATE SKIP LOCKED and the
\* Pending filter, notification_postgres.go:99-119).
ExclusiveClaim ==
    \A v, w \in Worker :
        v # w => (locked[v] \cup InHand(v)) \cap (locked[w] \cup InHand(w)) = {}

\* Whatever crashes, errors and retries happen, the worker's phone receives at
\* most MaxAttempts copies of an event: the limit of one sendWithRetry is also
\* the limit over all the workers and restarts.
BoundedDelivery == \A e \in Event : delivered[e] <= MaxAttempts

\* Events that are Processing and in nobody's hands: no query selects them again
\* (notification_postgres.go:104), so they stay for ever.
Stranded ==
    {e \in Event : status[e] = "Processing" /\ \A w \in Worker : e \notin InHand(w)}

\* Every stranded event is paid for: a crash, a mark that fails in mid-batch
\* (notification_worker.go:101) or a shutdown during a send strands one batch at
\* most, over all the workers and restarts, and nothing else strands any.
StrandedBounded == Cardinality(Stranded) <= BatchSize * faults

\* The table says Sent only of an event the provider has accepted.
SentMeansDelivered == \A e \in Event : status[e] = "Sent" => delivered[e] > 0

\* The attempts column counts claims, not sends, and no event is claimed twice:
\* there is no way back to Pending, not even after a crash.
ClaimedOnce ==
    \A e \in Event :
        attempts[e] = IF status[e] \in {"Absent", "Pending"} THEN 0 ELSE 1

\* The queue with all its workers and faults keeps the promise of
\* NotificationPromise, row by row.
Promise == INSTANCE NotificationPromise WITH
    Event <- Event,
    MaxAttempts <- MaxAttempts,
    status <- status,
    delivered <- delivered
KeepsPromise == Promise!Spec

\* Rows leave the queue oldest first among those no other claim holds: a row is
\* claimed only when every older pending row is claimed with it or is locked.
ClaimsOldestFirst ==
    [][\A w \in Worker : \A e \in locked'[w] \ locked[w] : \A f \in Event :
          (f < e /\ status[f] = "Pending") =>
              \E v \in Worker : f \in locked'[v]]_vars

\* Unless a fault comes between, every event that is queued is settled.  (One
\* fault is enough to leave a claimed event Processing for ever: nothing selects
\* a Processing row again, notification_postgres.go:104.)
EveryEventSettles ==
    \A e \in Event :
        status[e] = "Pending" ~> (status[e] \in {"Sent", "Failed"} \/ faults > 0)

\* With faults too, every queued event is eventually taken by some worker: the
\* locks and the work of one that died never keep an event in the queue.
EveryEventIsTaken ==
    \A e \in Event : status[e] = "Pending" ~> status[e] # "Pending"
=============================================================================
