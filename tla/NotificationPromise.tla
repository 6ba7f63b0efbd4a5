------------------------- MODULE NotificationPromise -------------------------
(***************************************************************************)
(* What the notification queue promises to the rest of the system, without *)
(* its workers: an event is queued, taken once, offered to the provider a  *)
(* bounded number of times while it is in flight, and settled at most      *)
(* once; it is settled as Sent only after the provider accepted it.        *)
(***************************************************************************)
EXTENDS Integers

CONSTANTS Event,         \* rows of notification_events
          MaxAttempts    \* sends allowed for one claim of an event

VARIABLES status,        \* status[e]: the row's status, "Absent" before INSERT
          delivered      \* delivered[e]: how often the provider accepted e

vars == <<status, delivered>>

Init ==
    /\ status = [e \in Event |-> "Absent"]
    /\ delivered = [e \in Event |-> 0]

Enqueue(e) ==
    /\ status[e] = "Absent"
    /\ status' = [status EXCEPT ![e] = "Pending"]
    /\ UNCHANGED delivered

\* A set of pending events is taken at once: one claim takes a batch.
Take(batch) ==
    /\ \A e \in batch : status[e] = "Pending"
    /\ status' = [e \in Event |-> IF e \in batch THEN "Processing" ELSE status[e]]
    /\ UNCHANGED delivered

Deliver(e) ==
    /\ status[e] = "Processing"
    /\ delivered[e] < MaxAttempts
    /\ delivered' = [delivered EXCEPT ![e] = @ + 1]
    /\ UNCHANGED status

SettleSent(e) ==
    /\ status[e] = "Processing"
    /\ delivered[e] > 0
    /\ status' = [status EXCEPT ![e] = "Sent"]
    /\ UNCHANGED delivered

\* A failed event may still have reached the worker's phone: the provider can
\* accept a message and lose the answer.
SettleFailed(e) ==
    /\ status[e] = "Processing"
    /\ status' = [status EXCEPT ![e] = "Failed"]
    /\ UNCHANGED delivered

Next ==
    \/ \E e \in Event : Enqueue(e) \/ Deliver(e) \/ SettleSent(e) \/ SettleFailed(e)
    \/ \E batch \in SUBSET Event : Take(batch)

Spec == Init /\ [][Next]_vars
=============================================================================
