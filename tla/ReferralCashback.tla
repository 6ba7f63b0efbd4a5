--------------------------- MODULE ReferralCashback ---------------------------
(***************************************************************************)
(* Referrals and their cashback (internal/service/referral.go, internal/   *)
(* repository/referral_postgres.go): finishing the verification of a       *)
(* referred worker converts the referral and creates a cashback            *)
(* transaction; a payout run claims pending transactions and pays them.    *)
(*                                                                         *)
(* Every repository call is one SQL statement and one step, and no database *)
(* transaction spans two of them.  A claim is one step that takes any      *)
(* pending rows up to its limit: NotificationQueue models the interleaving *)
(* of two such statements.                                                 *)
(***************************************************************************)
EXTENDS Integers, FiniteSets

CONSTANTS Referral,      \* referrals, one for each referred worker
          Onboarder,     \* concurrent calls of CompleteOnboarding
          Payer,         \* concurrent calls of ProcessPendingPayouts
          None,          \* no referral, no transaction
          MaxTxns,       \* bound: rows of referral_transactions
          BatchSize,     \* LIMIT of one claim
          MaxFaults      \* bound: calls that fail or die half-way

Txn == 1..MaxTxns        \* transactions in the order of their insertion

ASSUME CashbackAssumption ==
    /\ None \notin Referral /\ None \notin Txn
    /\ IsFiniteSet(Onboarder)
    /\ MaxTxns \in Nat
    /\ BatchSize \in Nat \ {0}
    /\ MaxFaults \in Nat

VARIABLES registered,    \* referrals that have a row
          converted,     \* referrals whose converted_at is set
          referralOf,    \* referralOf[t]: transaction t's referral, None before INSERT
          status,        \* status[t]: its status column
          payments,      \* payments[t]: how often the gateway paid it
          told,          \* queued notifications: <<t, the status they tell>>
          step,          \* step[c]: where call c of CompleteOnboarding is
          subject,       \* subject[c]: the referral it completes
          created,       \* created[c]: the transaction it has inserted
          pc,            \* pc[p]: where payout run p is
          batch,         \* batch[p]: transactions p has claimed and not started
          current,       \* current[p]: the transaction p is at
          faults         \* faults so far

tables == <<registered, converted, referralOf, status, payments, told>>
onboarding == <<step, subject, created>>
payout == <<pc, batch, current>>
vars == <<tables, onboarding, payout, faults>>

TypeOK ==
    /\ registered \in SUBSET Referral
    /\ converted \in SUBSET Referral
    /\ referralOf \in [Txn -> Referral \cup {None}]
    /\ status \in [Txn -> {"Absent", "Pending", "Processing", "Paid", "Failed"}]
    /\ payments \in [Txn -> Nat]
    /\ told \in SUBSET (Txn \X {"Pending", "Paid", "Failed"})
    /\ step \in [Onboarder -> {"idle", "convert", "insert", "notify"}]
    /\ subject \in [Onboarder -> Referral \cup {None}]
    /\ created \in [Onboarder -> Txn \cup {None}]
    /\ pc \in [Payer -> {"idle", "loop", "pay", "markPaid", "markFailed", "notify"}]
    /\ batch \in [Payer -> SUBSET Txn]
    /\ current \in [Payer -> Txn \cup {None}]
    /\ faults \in 0..MaxFaults

Init ==
    /\ registered = {}
    /\ converted = {}
    /\ referralOf = [t \in Txn |-> None]
    /\ status = [t \in Txn |-> "Absent"]
    /\ payments = [t \in Txn |-> 0]
    /\ told = {}
    /\ step = [c \in Onboarder |-> "idle"]
    /\ subject = [c \in Onboarder |-> None]
    /\ created = [c \in Onboarder |-> None]
    /\ pc = [p \in Payer |-> "idle"]
    /\ batch = [p \in Payer |-> {}]
    /\ current = [p \in Payer |-> None]
    /\ faults = 0

-----------------------------------------------------------------------------
(* Registration and conversion.                                            *)

\* RegisterReferral, for a worker with a known code of somebody else's.  Only
\* the request that created the worker calls it, so nobody else inserts.
RegisterReferral(r) ==
    /\ r \notin registered
    /\ registered' = registered \cup {r}
    /\ UNCHANGED <<converted, referralOf, status, payments, told,
                   onboarding, payout, faults>>

\* Mutant: converted_at is not looked at.
CashbackDueAlways(r) == r \in registered

\* The row exists and its converted_at is NULL; otherwise the call returns.
CashbackDue(r) == r \in registered \ converted

GetReferral(c, r) ==
    /\ step[c] = "idle"
    /\ CashbackDue(r)
    /\ step' = [step EXCEPT ![c] = "convert"]
    /\ subject' = [subject EXCEPT ![c] = r]
    /\ UNCHANGED <<tables, created, payout, faults>>

\* SET converted_at = COALESCE(converted_at, NOW()): no error if it was set.
MarkReferralConverted(c) ==
    /\ step[c] = "convert"
    /\ converted' = converted \cup {subject[c]}
    /\ step' = [step EXCEPT ![c] = "insert"]
    /\ UNCHANGED <<registered, referralOf, status, payments, told,
                   subject, created, payout, faults>>

CreateReferralTransaction(c) ==
    /\ step[c] = "insert"
    /\ \E t \in Txn :
          /\ status[t] = "Absent"
          /\ \A u \in Txn : u < t => status[u] # "Absent"
          /\ referralOf' = [referralOf EXCEPT ![t] = subject[c]]
          /\ status' = [status EXCEPT ![t] = "Pending"]
          /\ created' = [created EXCEPT ![c] = t]
    /\ step' = [step EXCEPT ![c] = "notify"]
    /\ UNCHANGED <<registered, converted, payments, told, subject, payout, faults>>

LeaveOnboarding(c) ==
    /\ step' = [step EXCEPT ![c] = "idle"]
    /\ subject' = [subject EXCEPT ![c] = None]
    /\ created' = [created EXCEPT ![c] = None]

NotifyPending(c) ==
    /\ step[c] = "notify"
    /\ told' = told \cup {<<created[c], "Pending">>}
    /\ LeaveOnboarding(c)
    /\ UNCHANGED <<registered, converted, referralOf, status, payments, payout, faults>>

\* A statement fails or the process dies: what was done before it stays.
OnboardingFails(c) ==
    /\ step[c] # "idle"
    /\ faults < MaxFaults
    /\ faults' = faults + 1
    /\ LeaveOnboarding(c)
    /\ UNCHANGED <<tables, payout>>

-----------------------------------------------------------------------------
(* ProcessPendingPayouts.                                                  *)

\* Mutant: transactions in progress are claimed again.
ClaimableUnsettled == {t \in Txn : status[t] \in {"Pending", "Processing"}}

Claimable == {t \in Txn : status[t] = "Pending"}

ClaimPending(p) ==
    /\ pc[p] = "idle"
    /\ \E S \in SUBSET Claimable :
          /\ S # {} /\ Cardinality(S) <= BatchSize
          /\ status' = [t \in Txn |-> IF t \in S THEN "Processing" ELSE status[t]]
          /\ batch' = [batch EXCEPT ![p] = S]
    /\ pc' = [pc EXCEPT ![p] = "loop"]
    /\ UNCHANGED <<registered, converted, referralOf, payments, told,
                   onboarding, current, faults>>

StartPayout(p) ==
    /\ pc[p] = "loop"
    /\ \E t \in batch[p] :
          /\ current' = [current EXCEPT ![p] = t]
          /\ batch' = [batch EXCEPT ![p] = @ \ {t}]
    /\ pc' = [pc EXCEPT ![p] = "pay"]
    /\ UNCHANGED <<tables, onboarding, faults>>

FinishRun(p) ==
    /\ pc[p] = "loop"
    /\ batch[p] = {}
    /\ pc' = [pc EXCEPT ![p] = "idle"]
    /\ UNCHANGED <<tables, onboarding, batch, current, faults>>

\* The gateway pays, or refuses (MockReferralPayoutGateway).
Payout(p) ==
    /\ pc[p] = "pay"
    /\ \/ /\ payments' = [payments EXCEPT ![current[p]] = @ + 1]
          /\ pc' = [pc EXCEPT ![p] = "markPaid"]
       \/ /\ UNCHANGED payments
          /\ pc' = [pc EXCEPT ![p] = "markFailed"]
    /\ UNCHANGED <<registered, converted, referralOf, status, told,
                   onboarding, batch, current, faults>>

Outcome(p) == IF pc[p] = "markPaid" THEN "Paid" ELSE "Failed"

\* MarkReferralTransactionPaid, MarkReferralTransactionFailed
Mark(p) ==
    /\ pc[p] \in {"markPaid", "markFailed"}
    /\ status' = [status EXCEPT ![current[p]] = Outcome(p)]
    /\ pc' = [pc EXCEPT ![p] = "notify"]
    /\ UNCHANGED <<registered, converted, referralOf, payments, told,
                   onboarding, batch, current, faults>>

\* Mutant: the notification always tells of a payment.
NewsStale(p) == "Paid"

\* The status of the row the mark returned.
News(p) == status[current[p]]

NotifyOutcome(p) ==
    /\ pc[p] = "notify"
    /\ told' = told \cup {<<current[p], News(p)>>}
    /\ current' = [current EXCEPT ![p] = None]
    /\ pc' = [pc EXCEPT ![p] = "loop"]
    /\ UNCHANGED <<registered, converted, referralOf, status, payments,
                   onboarding, batch, faults>>

\* A mark or a notification fails, or the process dies: the run returns and the
\* rest of its batch stays Processing.
PayoutRunFails(p) ==
    /\ pc[p] # "idle"
    /\ faults < MaxFaults
    /\ faults' = faults + 1
    /\ pc' = [pc EXCEPT ![p] = "idle"]
    /\ batch' = [batch EXCEPT ![p] = {}]
    /\ current' = [current EXCEPT ![p] = None]
    /\ UNCHANGED <<tables, onboarding>>

-----------------------------------------------------------------------------
\* What a call does by itself once it has begun.
OnboardingStep(c) ==
    MarkReferralConverted(c) \/ CreateReferralTransaction(c) \/ NotifyPending(c)

PayoutStep(p) ==
    StartPayout(p) \/ FinishRun(p) \/ Payout(p) \/ Mark(p) \/ NotifyOutcome(p)

Next ==
    \/ \E r \in Referral : RegisterReferral(r) \/ \E c \in Onboarder : GetReferral(c, r)
    \/ \E c \in Onboarder : OnboardingStep(c) \/ OnboardingFails(c)
    \/ \E p \in Payer : ClaimPending(p) \/ PayoutStep(p) \/ PayoutRunFails(p)

Spec == Init /\ [][Next]_vars

-----------------------------------------------------------------------------
(* Properties.                                                             *)

\* The gateway is asked for the money of a transaction at most once, over all
\* concurrent payout runs, crashes and repeated runs (the claim,
\* referral_postgres.go:150-181).
PaidAtMostOnce == \A t \in Txn : payments[t] <= 1

\* A settled status is true: Paid only if the gateway paid, Failed only if not.
SettledIsTrue ==
    \A t \in Txn : /\ status[t] = "Paid" => payments[t] = 1
                   /\ status[t] = "Failed" => payments[t] = 0

\* What a referrer was told of a settled transaction is its status for ever.
NoFalseNews ==
    \A t \in Txn : \A s \in {"Paid", "Failed"} : <<t, s>> \in told => status[t] = s

\* A referral never has two cashback transactions (docs_api.md:654: completing
\* a verification "creates a pending Rs 100 cashback transaction").  True while
\* the calls for a worker come one after the other; two at a time both read
\* converted_at as NULL.
OneCashbackPerReferral ==
    \A t, u \in Txn :
        referralOf[t] = referralOf[u] /\ referralOf[t] # None => t = u

\* However the calls interleave and whichever of them die, each concurrent call
\* adds at most one transaction to a referral before the conversion is seen.
CashbackBounded ==
    \A r \in Referral :
        Cardinality({t \in Txn : referralOf[t] = r}) <= Cardinality(Onboarder)

\* Referrals that are converted, have no transaction and no call that will
\* insert one: CompleteOnboarding returns early for them (referral.go:88).
Unrewarded ==
    {r \in converted : /\ \A t \in Txn : referralOf[t] # r
                      /\ \A c \in Onboarder : subject[c] # r}

\* Transactions that are claimed and in no run's hands: no claim selects them.
Stranded ==
    {t \in Txn : /\ status[t] = "Processing"
                /\ \A p \in Payer : t \notin batch[p] /\ current[p] # t}

\* What is lost for good is the price of failures, and no failure costs more than
\* one cashback or one batch; without failures every conversion is rewarded and
\* every claimed payout is settled, as docs_api.md:455 and :654 say.
LossBounded ==
    BatchSize * Cardinality(Unrewarded) + Cardinality(Stranded) <= BatchSize * faults
===============================================================================
