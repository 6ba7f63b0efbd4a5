-------------------------------- MODULE Hiring --------------------------------
(***************************************************************************)
(* One application from the worker's request to the last status its        *)
(* employer gives it, composed of InterviewScheduling (the requests of the *)
(* ATS service and their transactions) and JobApplications (the status     *)
(* changes and the events that tell the worker of them).                   *)
(*                                                                         *)
(* Both work on the same row.  The news of an application is what          *)
(* createStatusNotification (internal/service/ats.go) and                  *)
(* CreateApplication (internal/service/application.go) queue after the     *)
(* row is committed, so a step of InterviewScheduling that commits a       *)
(* status is here also the beginning of its news.                          *)
(***************************************************************************)
EXTENDS InterviewScheduling, Sequences

CONSTANTS App,           \* the application
          NoApp,         \* a request that has nothing to tell
          Applicant      \* the request that creates it (one of them has to)

ASSUME HiringAssumption ==
    /\ App # NoApp
    /\ Applicant \in Request
    /\ IsFiniteSet(Request)

VARIABLES changes,       \* the statuses the row has had, the last is current
          events,        \* the events queued for it, oldest first
          news           \* news[r]: the event request r has yet to queue

hiringVars == <<vars, changes, events, news>>

\* A request of JobApplications is one of InterviewScheduling after its commit.
\* Its failures are the events that were lost after the commit.
News == INSTANCE JobApplications WITH
    Application <- {App},
    NoApplication <- NoApp,
    MaxChanges <- Cardinality(Request),
    MaxFaults <- MaxFaults,
    changes <- [a \in {App} |-> changes],
    events <- [a \in {App} |-> events],
    subject <- [r \in Request |-> IF pc[r] = "notify" THEN App ELSE NoApp],
    news <- news,
    faults <- Cardinality(Misreported \ notified)

HiringInit ==
    /\ Init
    /\ changes = <<>>
    /\ events = <<>>
    /\ news = [r \in Request |-> "none"]

-----------------------------------------------------------------------------
\* CreateApplication, from the API or the bot: one INSERT with status Applied, then
\* its event.  applications_user_job_unique makes a second one an error.
Apply(r) ==
    /\ pc[r] = "new"
    /\ changes = <<>> => r = Applicant
    /\ IF News!Unique(App)
       THEN /\ changes' = Append(changes, "Applied")
            /\ news' = [news EXCEPT ![r] = "application_submitted"]
            /\ Commit(r)
       ELSE /\ Reply(r, "error")
            /\ UNCHANGED <<changes, news, locks, chosen, todo, cancels,
                           committed, notified, faults>>
    /\ UNCHANGED <<tables, events>>

\* What a step of the ATS service means for the news of the application.
Changed == committed' # committed
Told == {r \in notified' \ notified : news[r] # "none"}

NewsOf(r) ==
    IF r \in committed' \ committed THEN News!EventType(application')
    ELSE IF pc'[r] = "done" THEN "none" ELSE news[r]

Chronicle ==
    /\ changes' = IF Changed THEN Append(changes, application') ELSE changes
    /\ news' = [r \in Request |-> NewsOf(r)]
    /\ events' = IF Told = {} THEN events
                 ELSE News!Queued(events, news[CHOOSE r \in Told : TRUE])

\* The steps of the ATS service, and the end of CreateApplication.
Schedule ==
    /\ changes # <<>>
    /\ Next
    /\ Chronicle

HiringNext == Schedule \/ \E r \in Request : Apply(r)

HiringSpec ==
    /\ HiringInit /\ [][HiringNext]_hiringVars
    /\ \A r \in Request : WF_vars(Progress(r))

-----------------------------------------------------------------------------
(* Properties.                                                             *)

\* The ATS service, its transactions and their failures included, implements
\* JobApplications: every status that is committed, by an update, an interview,
\* an offer or a selection, is told by an event of its own or lost in a failure
\* that the request reports.
TellsNews == News!Spec

\* Without a fault between a commit and its event, no event is lost and none is
\* queued twice, however the requests of a worker and its employer race: with no
\* request in progress the events are the changes, perhaps in another order.
EveryChangeIsToldOnce == News!EveryChangeIsToldOnce
===============================================================================
