---------------------------- MODULE JobApplications ----------------------------
(***************************************************************************)
(* The status of applications and its notification events: a worker who    *)
(* applies (internal/service/application.go) from the API or the bot, and  *)
(* an employer who changes the status (internal/service/ats.go).           *)
(*                                                                         *)
(* A request changes the row in one statement and queues its event in      *)
(* another; nothing holds the row between the two.  The reads of the user  *)
(* and the job before an INSERT change nothing: no row of those is ever    *)
(* deleted.  Interviews, which also set the status, are in                 *)
(* InterviewScheduling.                                                    *)
(***************************************************************************)
EXTENDS Integers, Sequences, FiniteSets

CONSTANTS Application,   \* pairs of a worker and a job of one employer
          Request,       \* concurrent requests
          NoApplication, \* an idle request
          MaxChanges,    \* bound: status changes of one application
          MaxFaults      \* bound: requests that fail or die half-way

Status == {"Applied", "Shortlisted", "Slot_Selection_Pending",
           "Interview_Scheduled", "Selected", "Rejected"}

VARIABLES changes,       \* changes[a]: the statuses row a has had, the last is current
          events,        \* events[a]: the events queued for a, oldest first
          subject,       \* subject[c]: the application of request c
          news,          \* news[c]: the event c has yet to queue
          faults         \* faults so far

vars == <<changes, events, subject, news, faults>>

Event == {"application_submitted"} \cup (Status \ {"Applied"})

TypeOK ==
    /\ changes \in [Application -> Seq(Status)]
    /\ events \in [Application -> Seq(Event)]
    /\ subject \in [Request -> Application \cup {NoApplication}]
    /\ news \in [Request -> Event \cup {"none"}]
    /\ faults \in 0..MaxFaults

Init ==
    /\ changes = [a \in Application |-> <<>>]
    /\ events = [a \in Application |-> <<>>]
    /\ subject = [c \in Request |-> NoApplication]
    /\ news = [c \in Request |-> "none"]
    /\ faults = 0

-----------------------------------------------------------------------------
Idle(c) == subject[c] = NoApplication

Change(a, s) ==
    /\ Len(changes[a]) < MaxChanges
    /\ changes' = [changes EXCEPT ![a] = Append(@, s)]

\* The change is committed; createStatusNotification is next.
Tell(c, a, e) ==
    /\ subject' = [subject EXCEPT ![c] = a]
    /\ news' = [news EXCEPT ![c] = e]

Finish(c) ==
    /\ subject' = [subject EXCEPT ![c] = NoApplication]
    /\ news' = [news EXCEPT ![c] = "none"]

\* Mutant: a worker can apply again.
UniqueDropped(a) == TRUE

\* applications_user_job_unique; its violation is an error that changes nothing.
Unique(a) == changes[a] = <<>>

CreateApplication(c, a) ==
    /\ Idle(c)
    /\ Unique(a)
    /\ Change(a, "Applied")
    /\ Tell(c, a, "application_submitted")
    /\ UNCHANGED <<events, faults>>

\* notificationEventType; an event is named here by the status it tells.
EventType(s) == IF s = "Applied" THEN "none" ELSE s

\* The UPDATE; a status without an event ends the request.
UpdateApplicationStatus(c, a, s) ==
    /\ Idle(c)
    /\ changes[a] # <<>>
    /\ Change(a, s)
    /\ IF EventType(s) = "none" THEN Finish(c) ELSE Tell(c, a, EventType(s))
    /\ UNCHANGED <<events, faults>>

\* Mutant: the event is told before the ones that wait.
QueuedFirst(queue, e) == <<e>> \o queue

\* created_at DEFAULT NOW(), and the worker claims the oldest first.
Queued(queue, e) == Append(queue, e)

CreateNotificationEvent(c) ==
    /\ ~Idle(c)
    /\ events' = [events EXCEPT ![subject[c]] = Queued(@, news[c])]
    /\ Finish(c)
    /\ UNCHANGED <<changes, faults>>

\* The read back of the row or the insert of the event fails, or the process
\* dies: the change is committed.
RequestFails(c) ==
    /\ ~Idle(c)
    /\ faults < MaxFaults
    /\ faults' = faults + 1
    /\ Finish(c)
    /\ UNCHANGED <<changes, events>>

Next ==
    \E c \in Request :
        \/ \E a \in Application :
              \/ CreateApplication(c, a)
              \/ \E s \in Status : UpdateApplicationStatus(c, a, s)
        \/ CreateNotificationEvent(c) \/ RequestFails(c)

Spec == Init /\ [][Next]_vars

-----------------------------------------------------------------------------
(* Properties.                                                             *)

\* The event that the i-th status of application a is told by.
Due(a, i) == IF i = 1 THEN "application_submitted" ELSE EventType(changes[a][i])

Busy(a) == \E c \in Request : subject[c] = a

\* However many requests of a worker and its employer race, from the API and from
\* messages, an application is submitted once, and without a fault no event is
\* lost and none is queued twice: with no request in
\* progress the events of an application are its changes, perhaps in another
\* order, because two requests that change the row in one order may queue their
\* events in the other.
EveryChangeIsToldOnce ==
    faults = 0 =>
        \A a \in Application :
            ~Busy(a) => \A e \in Event :
                Cardinality({i \in DOMAIN events[a] : events[a][i] = e})
                    = Cardinality({i \in DOMAIN changes[a] : Due(a, i) = e})

\* The events told of application a are some of those due, in the same order.
InOrder(a) ==
    \E at \in [DOMAIN events[a] -> DOMAIN changes[a]] :
        \A i, j \in DOMAIN events[a] :
            events[a][i] = Due(a, at[i]) /\ (i < j => at[i] < at[j])
===============================================================================
