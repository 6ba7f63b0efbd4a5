--------------------------- MODULE InterviewPromise ---------------------------
(***************************************************************************)
(* What interview scheduling promises about one application, each request  *)
(* in one step: an offer is a set of slots of which the worker can have    *)
(* one, and a slot that was confirmed or cancelled never changes again.    *)
(***************************************************************************)
EXTENDS Integers

CONSTANTS Slot,          \* rows of interview_slots of the application
          Request,       \* requests to the API; an offer is named by its request
          NoRequest      \* the offer of a slot not yet created

VARIABLES application,   \* applications.status
          slot,          \* slot[s]: interview_slots.status, "Absent" before INSERT
          offer          \* offer[s]: the request that created s

vars == <<application, slot, offer>>

Init ==
    /\ application = "Applied"
    /\ slot = [s \in Slot |-> "Absent"]
    /\ offer = [s \in Slot |-> NoRequest]

SetStatus(status) ==
    /\ application' = status
    /\ UNCHANGED <<slot, offer>>

Create(r, S, status) ==
    /\ \A s \in Slot : offer[s] # r
    /\ \A s \in S : slot[s] = "Absent"
    /\ slot' = [s \in Slot |-> IF s \in S THEN status ELSE slot[s]]
    /\ offer' = [s \in Slot |-> IF s \in S THEN r ELSE offer[s]]

Schedule(r, s) ==
    /\ Create(r, {s}, "Confirmed")
    /\ application' = "Interview_Scheduled"

Offer(r, S) ==
    /\ Create(r, S, "Available")
    /\ application' = "Slot_Selection_Pending"

\* The other slots of the offer are cancelled with the selection; slots of
\* other offers may be.
Select(s, cancelled) ==
    /\ slot[s] = "Available"
    /\ \A t \in cancelled : slot[t] = "Available"
    /\ \A t \in Slot \ {s} :
          offer[t] = offer[s] /\ slot[t] = "Available" => t \in cancelled
    /\ slot' = [t \in Slot |-> CASE t = s -> "Confirmed"
                                 [] t \in cancelled \ {s} -> "Cancelled"
                                 [] OTHER -> slot[t]]
    /\ application' = "Interview_Scheduled"
    /\ UNCHANGED offer

Next ==
    \/ \E status \in {"Applied", "Shortlisted", "Slot_Selection_Pending",
                      "Interview_Scheduled", "Selected", "Rejected"} : SetStatus(status)
    \/ \E r \in Request, s \in Slot : Schedule(r, s)
    \/ \E r \in Request, S \in SUBSET Slot : Offer(r, S)
    \/ \E s \in Slot, cancelled \in SUBSET Slot : Select(s, cancelled)

Spec == Init /\ [][Next]_vars
===============================================================================
