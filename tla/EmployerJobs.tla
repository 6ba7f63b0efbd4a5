----------------------------- MODULE EmployerJobs -----------------------------
(***************************************************************************)
(* The jobs of one employer and the limit of its subscription (internal/   *)
(* service/employer.go, internal/repository/job_postgres.go): activating a *)
(* job reads the job, the tier and the number of active jobs and then      *)
(* writes, each in a statement of its own.                                 *)
(*                                                                         *)
(* UpdateJob is not an action: its statement leaves is_active alone, which *)
(* is the only column of a job that is modelled.                           *)
(***************************************************************************)
EXTENDS Integers, FiniteSets

CONSTANTS MaxJobs,       \* bound: jobs created in a behaviour
          Caller,        \* concurrent requests of this employer
          NoJob,         \* a request that is at no job
          Limit          \* growthTierActiveJobLimit (7 in employer.go)

Job == 1..MaxJobs        \* jobs in the order of their creation

ASSUME JobsAssumption ==
    /\ MaxJobs \in Nat
    /\ IsFiniteSet(Caller)
    /\ NoJob \notin Job
    /\ Limit \in Nat \ {0}

VARIABLES job,           \* job[j]: "Absent", "Active" or "Inactive"
          tier,          \* the subscription; "Lapsed" was Enterprise once
          pc,            \* pc[c]: where request c is
          goal           \* goal[c]: the job it activates

vars == <<job, tier, pc, goal>>

TypeOK ==
    /\ job \in [Job -> {"Absent", "Active", "Inactive"}]
    /\ tier \in {"Growth", "Enterprise", "Lapsed"}
    /\ pc \in [Caller -> {"idle", "tier", "count", "write"}]
    /\ goal \in [Caller -> Job \cup {NoJob}]

\* An employer without a subscription is on the Growth tier.
Init ==
    /\ job = [j \in Job |-> "Absent"]
    /\ tier \in {"Growth", "Enterprise"}
    /\ pc = [c \in Caller |-> "idle"]
    /\ goal = [c \in Caller |-> NoJob]

-----------------------------------------------------------------------------
Active == {j \in Job : job[j] = "Active"}

\* A new job has no row while its request is checked.  The row it will get is
\* picked at once, so that each request has its own.
Fresh(j) == job[j] = "Absent" /\ \A c \in Caller : goal[c] # j

Begin(c, j, at) ==
    /\ pc' = [pc EXCEPT ![c] = at]
    /\ goal' = [goal EXCEPT ![c] = j]
    /\ UNCHANGED <<job, tier>>

End(c) ==
    /\ pc' = [pc EXCEPT ![c] = "idle"]
    /\ goal' = [goal EXCEPT ![c] = NoJob]

CreateInactiveJob(c) ==
    /\ pc[c] = "idle"
    /\ \E j \in Job : Fresh(j) /\ job' = [job EXCEPT ![j] = "Inactive"]
    /\ UNCHANGED <<tier, pc, goal>>

CreateActiveJob(c) ==
    /\ pc[c] = "idle"
    /\ \E j \in Job : Fresh(j) /\ Begin(c, j, "tier")

Deactivate(c, j) ==
    /\ pc[c] = "idle"
    /\ job[j] # "Absent"
    /\ job' = [job EXCEPT ![j] = "Inactive"]
    /\ UNCHANGED <<tier, pc, goal>>

\* if !current.IsActive
NeedsCheck(j) == job[j] # "Active"

Activate(c, j) ==
    /\ pc[c] = "idle"
    /\ job[j] # "Absent"
    /\ Begin(c, j, IF NeedsCheck(j) THEN "tier" ELSE "write")

-----------------------------------------------------------------------------
(* ensureCanActivateJob.                                                   *)

GetActiveSubscriptionTier(c) ==
    /\ pc[c] = "tier"
    /\ pc' = [pc EXCEPT ![c] = IF tier = "Enterprise" THEN "write" ELSE "count"]
    /\ UNCHANGED <<job, tier, goal>>

\* Mutant: one job too many.
BelowLimitOffByOne(n) == n <= Limit

\* count >= growthTierActiveJobLimit is refused.
BelowLimit(n) == n < Limit

CountActiveJobs(c) ==
    /\ pc[c] = "count"
    /\ IF BelowLimit(Cardinality(Active))
       THEN pc' = [pc EXCEPT ![c] = "write"] /\ UNCHANGED goal
       ELSE End(c)      \* ErrConflict
    /\ UNCHANGED <<job, tier>>

\* The INSERT or UPDATE, with is_active = TRUE whatever has happened since.
WriteActive(c) ==
    /\ pc[c] = "write"
    /\ job' = [job EXCEPT ![goal[c]] = "Active"]
    /\ End(c)
    /\ UNCHANGED tier

\* A statement fails: nothing was written before it.
RequestFails(c) ==
    /\ pc[c] # "idle"
    /\ End(c)
    /\ UNCHANGED <<job, tier>>

\* The subscription ends (ends_at > NOW() no longer holds).
SubscriptionEnds ==
    /\ tier = "Enterprise"
    /\ tier' = "Lapsed"
    /\ UNCHANGED <<job, pc, goal>>

Next ==
    \/ \E c \in Caller :
          \/ CreateInactiveJob(c) \/ CreateActiveJob(c)
          \/ \E j \in Job : Activate(c, j) \/ Deactivate(c, j)
          \/ GetActiveSubscriptionTier(c) \/ CountActiveJobs(c)
          \/ WriteActive(c) \/ RequestFails(c)
    \/ SubscriptionEnds

Spec == Init /\ [][Next]_vars

-----------------------------------------------------------------------------
(* Properties.                                                             *)

Writing == {goal[c] : c \in {d \in Caller : pc[d] = "write"}}

\* README.md:288: "Growth tier employers can have a maximum of 7 active jobs".
\* True of requests that come one after the other; however many race, the jobs
\* that are active or about to be exceed the limit by less than their number.
OvershootBounded ==
    tier = "Growth" =>
        Cardinality(Active \cup Writing) < Limit + Cardinality(Caller)
===============================================================================
