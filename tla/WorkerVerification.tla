-------------------------- MODULE WorkerVerification --------------------------
(***************************************************************************)
(* The verification of one worker up to the payment of the cashback it     *)
(* earns the referrer, composed of IdentityVerification (the worker's      *)
(* verification rows and risk tier) and ReferralCashback (the referral,    *)
(* its transactions and their payout).                                     *)
(*                                                                         *)
(* A call of the identity service ends in CompleteOnboarding of the        *)
(* referral service (identity_verification.go:117, :140, :163, :187,       *)
(* :212): it is the same call, on the same goroutine, so an onboarding     *)
(* call of ReferralCashback is here the last part of a verification, and a *)
(* failure in it is the failure of the verification.                       *)
(***************************************************************************)
EXTENDS ReferralCashback

CONSTANTS Own,           \* the referral of the worker
          MaxRows,       \* bound: verification rows
          NoRow          \* no row

ASSUME VerificationAssumption ==
    /\ Own \in Referral
    /\ MaxRows \in Nat
    /\ NoRow \notin 1..MaxRows

VARIABLES method, outcome,       \* the columns of the verification rows
          tier,                  \* users.verification_tier
          at, target, result     \* where the calls of the identity service are

identity == <<method, outcome, tier, at, target, result>>
workerVars == <<vars, identity>>

V == INSTANCE IdentityVerification WITH
    MaxRows <- MaxRows,
    NoRow <- NoRow,
    MaxFaults <- MaxFaults,
    Caller <- Onboarder,
    method <- method,
    status <- outcome,
    tier <- tier,
    pc <- at,
    target <- target,
    result <- result,
    faults <- faults

WorkerInit == Init /\ V!Init

-----------------------------------------------------------------------------
(* The verification itself leaves the referral service alone.              *)

Referring == <<tables, onboarding, payout>>

Verify(c) ==
    /\ step[c] = "idle"
    /\ \/ V!StartAadhaarOTP(c) \/ V!VerifyAadhaarOTP(c) \/ V!UploadDocument(c) \/ V!Skip(c)
       \/ V!MarkVerified(c) \/ V!MarkFailed(c) \/ V!MarkDocumentUploaded(c)
       \/ V!MarkSkipped(c) \/ V!UpdateUserVerificationTier(c)
       \/ V!WriteRefused(c) \/ V!CallFails(c)
    /\ UNCHANGED Referring

\* CompleteOnboarding reads the worker's referral and goes on.
CompleteOnboarding(c) ==
    /\ at[c] = "onboard"
    /\ GetReferral(c, Own)
    /\ UNCHANGED identity

\* Without a referral, or with one that is converted, it returns.
NothingDue(c) ==
    /\ step[c] = "idle"
    /\ ~CashbackDue(Own)
    /\ V!CompleteOnboarding(c)
    /\ UNCHANGED Referring

Reward(c) ==
    /\ MarkReferralConverted(c) \/ CreateReferralTransaction(c)
    /\ UNCHANGED identity

\* The last event is queued, and the verification returns its row.
EndReward(c) == NotifyPending(c) /\ V!CompleteOnboarding(c)

RewardFails(c) == OnboardingFails(c) /\ V!CallFails(c)

\* RegisterReferral is the end of the request that creates the worker, and only
\* its answer lets the worker go on to a verification.
Register(r) ==
    /\ V!Inserted = {} /\ \A c \in Onboarder : at[c] = "idle"
    /\ RegisterReferral(r)
    /\ UNCHANGED identity

Pay(p) ==
    /\ ClaimPending(p) \/ PayoutStep(p) \/ PayoutRunFails(p)
    /\ UNCHANGED identity

WorkerNext ==
    \/ \E c \in Onboarder :
          \/ Verify(c) \/ CompleteOnboarding(c) \/ NothingDue(c)
          \/ Reward(c) \/ EndReward(c) \/ RewardFails(c)
    \/ \E r \in Referral : Register(r)
    \/ \E p \in Payer : Pay(p)

WorkerSpec == WorkerInit /\ [][WorkerNext]_workerVars

-----------------------------------------------------------------------------
(* Properties; those of the two parts are checked of the composition.      *)

Settled == \A c \in Onboarder : at[c] = "idle"

\* No call is in progress, the worker has an outcome, and its referral is not
\* converted: the call that wrote the outcome never came to CompleteOnboarding.
Unreached == Settled /\ Own \in registered \ converted /\ V!LastOutcome # NoRow

\* Referrals whose cashback no call in progress will create: converted without a
\* transaction, or never converted though the worker has an outcome.
Forgone == Unrewarded \cup {r \in {Own} : Unreached}

\* A referred worker with an outcome, verified, uploaded or skipped, has earned
\* the referrer a cashback (docs_api.md:654), however the calls overlap: the row,
\* the tier, the conversion and the transaction are written by separate statements,
\* and only a failure leaves one of them behind.  Together with the payouts that no
\* run settles, a failure costs one cashback or one batch: without one nothing is
\* lost.
OutcomeIsRewarded ==
    BatchSize * Cardinality(Forgone) + Cardinality(Stranded) <= BatchSize * faults

\* No late OTP verification overwrites a skipped one, whatever interleaves.
SkippedIsFinalForOTP == V!SkippedIsFinalForOTP
===============================================================================
