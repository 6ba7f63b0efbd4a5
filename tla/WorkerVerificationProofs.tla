----------------------- MODULE WorkerVerificationProofs -----------------------
(***************************************************************************)
(* Proofs about WorkerVerification for any number of referrals, calls,     *)
(* rows, payout runs and faults and any batch size.                        *)
(*                                                                         *)
(* The referral service comes first, by itself.  A step of the composition *)
(* is to it a step of its own or a verification that fails before          *)
(* CompleteOnboarding: its invariants carry over once such a failure is    *)
(* shown to keep them.  Then the verification rows, the reward that an     *)
(* outcome earns, and what holds while calls come one after the other.     *)
(***************************************************************************)
EXTENDS MCWorkerVerification, FiniteSetTheorems, WellFoundedInduction, TLAPS

-----------------------------------------------------------------------------
(* The referral service by itself.                                         *)

\* A call of CompleteOnboarding knows its referral, and what it has inserted.
CallsKnowTheirRows ==
    \A c \in Onboarder :
        /\ step[c] # "idle" <=> subject[c] # None
        /\ step[c] = "notify" => /\ created[c] # None
                                 /\ referralOf[created[c]] = subject[c]
                                 /\ status[created[c]] # "Absent"

\* What a payout run holds between claim and mark is being processed.
HandsAreProcessing ==
    \A p \in Payer :
        /\ pc[p] \in {"idle", "loop"} <=> current[p] = None
        /\ pc[p] = "idle" => batch[p] = {}
        /\ current[p] \notin batch[p]
        /\ \A t \in batch[p] : status[t] = "Processing"
        /\ pc[p] \in {"pay", "markPaid", "markFailed"} => status[current[p]] = "Processing"
        /\ pc[p] = "notify" => status[current[p]] \in {"Paid", "Failed"}

\* A transaction is in the hands of one run at most.
Holds(p, t) == t \in batch[p] \/ t = current[p]
OneHolder ==
    \A p, q \in Payer : \A t \in Txn : Holds(p, t) /\ Holds(q, t) => p = q

\* What was paid of a transaction, by where its run is.
PaidSoFar ==
    /\ PaidAtMostOnce
    /\ SettledIsTrue
    /\ \A t \in Txn : status[t] \in {"Absent", "Pending"} => payments[t] = 0
    /\ \A p \in Payer :
          /\ \A t \in batch[p] : payments[t] = 0
          /\ pc[p] \in {"pay", "markFailed"} => payments[current[p]] = 0
          /\ pc[p] = "markPaid" => payments[current[p]] = 1

IInv ==
    /\ TypeOK
    /\ CallsKnowTheirRows
    /\ HandsAreProcessing
    /\ OneHolder
    /\ PaidSoFar
    /\ NoFalseNews
-----------------------------------------------------------------------------
\* The initial states satisfy the inductive invariant.
LEMMA Initial == Init => IInv
  BY CashbackAssumption DEF Init, IInv, TypeOK, CallsKnowTheirRows, HandsAreProcessing,
     Holds, OneHolder, PaidSoFar, PaidAtMostOnce, SettledIsTrue, NoFalseNews

\* Every step preserves the inductive invariant.
LEMMA Inductive == IInv /\ [Next]_vars => IInv'
  <1> USE CashbackAssumption DEF tables, onboarding, payout
  <1> SUFFICES ASSUME IInv, [Next]_vars PROVE IInv'
    OBVIOUS
  <1> USE DEF IInv
  <1>1. ASSUME NEW r \in Referral, RegisterReferral(r) PROVE IInv'
    <2>1. TypeOK'
      BY <1>1 DEF RegisterReferral, TypeOK, CallsKnowTheirRows,
         HandsAreProcessing
    <2>2. CallsKnowTheirRows'
      BY <1>1 DEF RegisterReferral, TypeOK, CallsKnowTheirRows
    <2>3. HandsAreProcessing'
      BY <1>1 DEF RegisterReferral, TypeOK, HandsAreProcessing, OneHolder,
         Holds
    <2>4. OneHolder'
      BY <1>1 DEF RegisterReferral, TypeOK, HandsAreProcessing, OneHolder,
         Holds
    <2>5. PaidSoFar'
      BY <1>1 DEF RegisterReferral, TypeOK, HandsAreProcessing, OneHolder,
         Holds, PaidSoFar, PaidAtMostOnce, SettledIsTrue
    <2>6. NoFalseNews'
      BY <1>1 DEF RegisterReferral, TypeOK, HandsAreProcessing, NoFalseNews
    <2> QED
      BY <2>1, <2>2, <2>3, <2>4, <2>5, <2>6
  <1>2. ASSUME NEW r \in Referral, NEW c \in Onboarder, GetReferral(c, r) PROVE IInv'
    <2>1. TypeOK'
      BY <1>2 DEF GetReferral, CashbackDue, TypeOK, CallsKnowTheirRows,
         HandsAreProcessing
    <2>2. CallsKnowTheirRows'
      BY <1>2 DEF GetReferral, CashbackDue, TypeOK, CallsKnowTheirRows
    <2>3. HandsAreProcessing'
      BY <1>2 DEF GetReferral, CashbackDue, TypeOK, HandsAreProcessing,
         OneHolder, Holds
    <2>4. OneHolder'
      BY <1>2 DEF GetReferral, CashbackDue, TypeOK, HandsAreProcessing,
         OneHolder, Holds
    <2>5. PaidSoFar'
      BY <1>2 DEF GetReferral, CashbackDue, TypeOK, HandsAreProcessing,
         OneHolder, Holds, PaidSoFar, PaidAtMostOnce, SettledIsTrue
    <2>6. NoFalseNews'
      BY <1>2 DEF GetReferral, CashbackDue, TypeOK, HandsAreProcessing,
         NoFalseNews
    <2> QED
      BY <2>1, <2>2, <2>3, <2>4, <2>5, <2>6
  <1>3. ASSUME NEW c \in Onboarder, MarkReferralConverted(c) PROVE IInv'
    <2>1. TypeOK'
      BY <1>3 DEF MarkReferralConverted, TypeOK, CallsKnowTheirRows,
         HandsAreProcessing
    <2>2. CallsKnowTheirRows'
      BY <1>3 DEF MarkReferralConverted, TypeOK, CallsKnowTheirRows
    <2>3. HandsAreProcessing'
      BY <1>3 DEF MarkReferralConverted, TypeOK, HandsAreProcessing,
         OneHolder, Holds
    <2>4. OneHolder'
      BY <1>3 DEF MarkReferralConverted, TypeOK, HandsAreProcessing,
         OneHolder, Holds
    <2>5. PaidSoFar'
      BY <1>3 DEF MarkReferralConverted, TypeOK, HandsAreProcessing,
         OneHolder, Holds, PaidSoFar, PaidAtMostOnce, SettledIsTrue
    <2>6. NoFalseNews'
      BY <1>3 DEF MarkReferralConverted, TypeOK, HandsAreProcessing,
         NoFalseNews
    <2> QED
      BY <2>1, <2>2, <2>3, <2>4, <2>5, <2>6
  <1>4. ASSUME NEW c \in Onboarder, CreateReferralTransaction(c) PROVE IInv'
    <2>1. TypeOK'
      BY <1>4 DEF CreateReferralTransaction, TypeOK, CallsKnowTheirRows,
         HandsAreProcessing
    <2>2. CallsKnowTheirRows'
      BY <1>4 DEF CreateReferralTransaction, TypeOK, CallsKnowTheirRows
    <2>3. HandsAreProcessing'
      BY <1>4 DEF CreateReferralTransaction, TypeOK, HandsAreProcessing,
         OneHolder, Holds
    <2>4. OneHolder'
      BY <1>4 DEF CreateReferralTransaction, TypeOK, HandsAreProcessing,
         OneHolder, Holds
    <2>5. PaidSoFar'
      BY <1>4 DEF CreateReferralTransaction, TypeOK, HandsAreProcessing,
         OneHolder, Holds, PaidSoFar, PaidAtMostOnce, SettledIsTrue
    <2>6. NoFalseNews'
      <3>1. \A t \in Txn : status[t] \in {"Paid", "Failed"} => status'[t] = status[t]
        BY <1>4 DEF CreateReferralTransaction, TypeOK
      <3>2. told' = told
        BY <1>4 DEF CreateReferralTransaction
      <3> QED
        BY <3>1, <3>2 DEF NoFalseNews
    <2> QED
      BY <2>1, <2>2, <2>3, <2>4, <2>5, <2>6
  <1>5. ASSUME NEW c \in Onboarder, NotifyPending(c) PROVE IInv'
    <2>1. TypeOK'
      BY <1>5 DEF NotifyPending, LeaveOnboarding, TypeOK,
         CallsKnowTheirRows, HandsAreProcessing
    <2>2. CallsKnowTheirRows'
      BY <1>5 DEF NotifyPending, LeaveOnboarding, TypeOK, CallsKnowTheirRows
    <2>3. HandsAreProcessing'
      BY <1>5 DEF NotifyPending, LeaveOnboarding, TypeOK,
         HandsAreProcessing, OneHolder, Holds
    <2>4. OneHolder'
      BY <1>5 DEF NotifyPending, LeaveOnboarding, TypeOK,
         HandsAreProcessing, OneHolder, Holds
    <2>5. PaidSoFar'
      BY <1>5 DEF NotifyPending, LeaveOnboarding, TypeOK,
         HandsAreProcessing, OneHolder, Holds, PaidSoFar, PaidAtMostOnce,
         SettledIsTrue
    <2>6. NoFalseNews'
      BY <1>5 DEF NotifyPending, LeaveOnboarding, TypeOK,
         HandsAreProcessing, NoFalseNews
    <2> QED
      BY <2>1, <2>2, <2>3, <2>4, <2>5, <2>6
  <1>6. ASSUME NEW c \in Onboarder, OnboardingFails(c) PROVE IInv'
    <2>1. TypeOK'
      BY <1>6 DEF OnboardingFails, LeaveOnboarding, TypeOK,
         CallsKnowTheirRows, HandsAreProcessing
    <2>2. CallsKnowTheirRows'
      BY <1>6 DEF OnboardingFails, LeaveOnboarding, TypeOK,
         CallsKnowTheirRows
    <2>3. HandsAreProcessing'
      BY <1>6 DEF OnboardingFails, LeaveOnboarding, TypeOK,
         HandsAreProcessing, OneHolder, Holds
    <2>4. OneHolder'
      BY <1>6 DEF OnboardingFails, LeaveOnboarding, TypeOK,
         HandsAreProcessing, OneHolder, Holds
    <2>5. PaidSoFar'
      BY <1>6 DEF OnboardingFails, LeaveOnboarding, TypeOK,
         HandsAreProcessing, OneHolder, Holds, PaidSoFar, PaidAtMostOnce,
         SettledIsTrue
    <2>6. NoFalseNews'
      BY <1>6 DEF OnboardingFails, LeaveOnboarding, TypeOK,
         HandsAreProcessing, NoFalseNews
    <2> QED
      BY <2>1, <2>2, <2>3, <2>4, <2>5, <2>6
  <1>7. ASSUME NEW p \in Payer, ClaimPending(p) PROVE IInv'
    <2>1. TypeOK'
      BY <1>7 DEF ClaimPending, Claimable, TypeOK, CallsKnowTheirRows,
         HandsAreProcessing
    <2>2. CallsKnowTheirRows'
      BY <1>7 DEF ClaimPending, Claimable, TypeOK, CallsKnowTheirRows
    <2>3. HandsAreProcessing'
      BY <1>7 DEF ClaimPending, Claimable, TypeOK, HandsAreProcessing,
         OneHolder, Holds
    <2>4. OneHolder'
      BY <1>7 DEF ClaimPending, Claimable, TypeOK, HandsAreProcessing,
         OneHolder, Holds
    <2>5. PaidSoFar'
      BY <1>7 DEF ClaimPending, Claimable, TypeOK, HandsAreProcessing,
         OneHolder, Holds, PaidSoFar, PaidAtMostOnce, SettledIsTrue
    <2>6. NoFalseNews'
      <3>1. \A t \in Txn : status[t] \in {"Paid", "Failed"} => status'[t] = status[t]
        BY <1>7 DEF ClaimPending, Claimable, TypeOK
      <3>2. told' = told
        BY <1>7 DEF ClaimPending
      <3> QED
        BY <3>1, <3>2 DEF NoFalseNews
    <2> QED
      BY <2>1, <2>2, <2>3, <2>4, <2>5, <2>6
  <1>8. ASSUME NEW p \in Payer, StartPayout(p) PROVE IInv'
    <2>1. TypeOK'
      BY <1>8 DEF StartPayout, TypeOK, CallsKnowTheirRows,
         HandsAreProcessing
    <2>2. CallsKnowTheirRows'
      BY <1>8 DEF StartPayout, TypeOK, CallsKnowTheirRows
    <2>3. HandsAreProcessing'
      BY <1>8 DEF StartPayout, TypeOK, HandsAreProcessing, OneHolder, Holds
    <2>4. OneHolder'
      BY <1>8 DEF StartPayout, TypeOK, HandsAreProcessing, OneHolder, Holds
    <2>5. PaidSoFar'
      BY <1>8 DEF StartPayout, TypeOK, HandsAreProcessing, OneHolder, Holds,
         PaidSoFar, PaidAtMostOnce, SettledIsTrue
    <2>6. NoFalseNews'
      BY <1>8 DEF StartPayout, TypeOK, HandsAreProcessing, NoFalseNews
    <2> QED
      BY <2>1, <2>2, <2>3, <2>4, <2>5, <2>6
  <1>9. ASSUME NEW p \in Payer, FinishRun(p) PROVE IInv'
    <2>1. TypeOK'
      BY <1>9 DEF FinishRun, TypeOK, CallsKnowTheirRows, HandsAreProcessing
    <2>2. CallsKnowTheirRows'
      BY <1>9 DEF FinishRun, TypeOK, CallsKnowTheirRows
    <2>3. HandsAreProcessing'
      BY <1>9 DEF FinishRun, TypeOK, HandsAreProcessing, OneHolder, Holds
    <2>4. OneHolder'
      BY <1>9 DEF FinishRun, TypeOK, HandsAreProcessing, OneHolder, Holds
    <2>5. PaidSoFar'
      BY <1>9 DEF FinishRun, TypeOK, HandsAreProcessing, OneHolder, Holds,
         PaidSoFar, PaidAtMostOnce, SettledIsTrue
    <2>6. NoFalseNews'
      BY <1>9 DEF FinishRun, TypeOK, HandsAreProcessing, NoFalseNews
    <2> QED
      BY <2>1, <2>2, <2>3, <2>4, <2>5, <2>6
  <1>10. ASSUME NEW p \in Payer, Payout(p) PROVE IInv'
    <2>1. TypeOK'
      BY <1>10 DEF Payout, TypeOK, CallsKnowTheirRows, HandsAreProcessing
    <2>2. CallsKnowTheirRows'
      BY <1>10 DEF Payout, TypeOK, CallsKnowTheirRows
    <2>3. HandsAreProcessing'
      BY <1>10 DEF Payout, TypeOK, HandsAreProcessing, OneHolder, Holds
    <2>4. OneHolder'
      BY <1>10 DEF Payout, TypeOK, HandsAreProcessing, OneHolder, Holds
    <2>5. PaidSoFar'
      BY <1>10 DEF Payout, TypeOK, HandsAreProcessing, OneHolder, Holds,
         PaidSoFar, PaidAtMostOnce, SettledIsTrue
    <2>6. NoFalseNews'
      BY <1>10 DEF Payout, TypeOK, HandsAreProcessing, NoFalseNews
    <2> QED
      BY <2>1, <2>2, <2>3, <2>4, <2>5, <2>6
  <1>11. ASSUME NEW p \in Payer, Mark(p) PROVE IInv'
    <2>1. TypeOK'
      BY <1>11 DEF Mark, Outcome, TypeOK, CallsKnowTheirRows,
         HandsAreProcessing
    <2>2. CallsKnowTheirRows'
      BY <1>11 DEF Mark, Outcome, TypeOK, CallsKnowTheirRows
    <2>3. HandsAreProcessing'
      BY <1>11 DEF Mark, Outcome, TypeOK, HandsAreProcessing, OneHolder,
         Holds
    <2>4. OneHolder'
      BY <1>11 DEF Mark, Outcome, TypeOK, HandsAreProcessing, OneHolder,
         Holds
    <2>5. PaidSoFar'
      BY <1>11 DEF Mark, Outcome, TypeOK, HandsAreProcessing, OneHolder,
         Holds, PaidSoFar, PaidAtMostOnce, SettledIsTrue
    <2>6. NoFalseNews'
      <3>1. \A t \in Txn : status[t] \in {"Paid", "Failed"} => status'[t] = status[t]
        BY <1>11 DEF Mark, TypeOK, HandsAreProcessing
      <3>2. told' = told
        BY <1>11 DEF Mark
      <3> QED
        BY <3>1, <3>2 DEF NoFalseNews
    <2> QED
      BY <2>1, <2>2, <2>3, <2>4, <2>5, <2>6
  <1>12. ASSUME NEW p \in Payer, NotifyOutcome(p) PROVE IInv'
    <2>1. TypeOK'
      BY <1>12 DEF NotifyOutcome, News, TypeOK, CallsKnowTheirRows,
         HandsAreProcessing
    <2>2. CallsKnowTheirRows'
      BY <1>12 DEF NotifyOutcome, News, TypeOK, CallsKnowTheirRows
    <2>3. HandsAreProcessing'
      BY <1>12 DEF NotifyOutcome, News, TypeOK, HandsAreProcessing,
         OneHolder, Holds
    <2>4. OneHolder'
      BY <1>12 DEF NotifyOutcome, News, TypeOK, HandsAreProcessing,
         OneHolder, Holds
    <2>5. PaidSoFar'
      BY <1>12 DEF NotifyOutcome, News, TypeOK, HandsAreProcessing,
         OneHolder, Holds, PaidSoFar, PaidAtMostOnce, SettledIsTrue
    <2>6. NoFalseNews'
      BY <1>12 DEF NotifyOutcome, News, TypeOK, HandsAreProcessing,
         NoFalseNews
    <2> QED
      BY <2>1, <2>2, <2>3, <2>4, <2>5, <2>6
  <1>13. ASSUME NEW p \in Payer, PayoutRunFails(p) PROVE IInv'
    <2>1. TypeOK'
      BY <1>13 DEF PayoutRunFails, TypeOK, CallsKnowTheirRows,
         HandsAreProcessing
    <2>2. CallsKnowTheirRows'
      BY <1>13 DEF PayoutRunFails, TypeOK, CallsKnowTheirRows
    <2>3. HandsAreProcessing'
      BY <1>13 DEF PayoutRunFails, TypeOK, HandsAreProcessing, OneHolder,
         Holds
    <2>4. OneHolder'
      BY <1>13 DEF PayoutRunFails, TypeOK, HandsAreProcessing, OneHolder,
         Holds
    <2>5. PaidSoFar'
      BY <1>13 DEF PayoutRunFails, TypeOK, HandsAreProcessing, OneHolder,
         Holds, PaidSoFar, PaidAtMostOnce, SettledIsTrue
    <2>6. NoFalseNews'
      BY <1>13 DEF PayoutRunFails, TypeOK, HandsAreProcessing, NoFalseNews
    <2> QED
      BY <2>1, <2>2, <2>3, <2>4, <2>5, <2>6
  <1>14. CASE UNCHANGED vars
    BY <1>14 DEF vars, TypeOK, CallsKnowTheirRows, HandsAreProcessing,
       OneHolder, Holds, PaidSoFar, PaidAtMostOnce, SettledIsTrue, NoFalseNews
  <1> QED
    BY <1>1, <1>2, <1>3, <1>4, <1>5, <1>6, <1>7, <1>8, <1>9, <1>10, <1>11,
       <1>12, <1>13, <1>14 DEF Next, OnboardingStep, PayoutStep
-----------------------------------------------------------------------------
\* The inductive invariant holds in every behaviour.
THEOREM CashbackInvariance == Spec => []IInv
  BY Initial, Inductive, PTL DEF Spec

\* Every variable keeps its type: no run or call ever works on a row that is not
\* there.
THEOREM CashbackTypes == Spec => []TypeOK
  <1>1. IInv => TypeOK
    BY DEF IInv
  <1> QED
    BY <1>1, CashbackInvariance, PTL

\* The gateway is asked for the money of a transaction at most once, over all
\* payout runs, crashes and repetitions.
THEOREM PaidOnce == Spec => []PaidAtMostOnce
  <1>1. IInv => PaidAtMostOnce
    BY DEF IInv, PaidSoFar
  <1> QED
    BY <1>1, CashbackInvariance, PTL

\* The status of a settled transaction says what the gateway did.
THEOREM SettledTruly == Spec => []SettledIsTrue
  <1>1. IInv => SettledIsTrue
    BY DEF IInv, PaidSoFar
  <1> QED
    BY <1>1, CashbackInvariance, PTL

\* A referrer is never told an outcome that the transaction does not keep.
THEOREM TrueNews == Spec => []NoFalseNews
  <1>1. IInv => NoFalseNews
    BY DEF IInv
  <1> QED
    BY <1>1, CashbackInvariance, PTL
-----------------------------------------------------------------------------
(* What failures cost.                                                     *)

\* The transactions a payout run still has to pay or to mark.
Hand(p) == {t \in Txn : t \in batch[p] \/ (t = current[p] /\ status[t] = "Processing")}

\* A run has at most a batch in hand, and only rows that exist have a referral.
Accounts ==
    /\ IsFiniteSet(converted)
    /\ \A t \in Txn : status[t] = "Absent" => referralOf[t] = None
    /\ \A p \in Payer : Cardinality(Hand(p)) <= BatchSize
    /\ LossBounded

\* The failures so far could have cost one cashback or batch more.
Reserve ==
    BatchSize * Cardinality(Unrewarded) + Cardinality(Stranded) + BatchSize <= BatchSize * faults

\* Products of naturals grow with their factors.
LEMMA Product ==
    ASSUME NEW b \in Nat, NEW u \in Nat, NEW v \in Nat, u <= v
    PROVE  /\ b * u \in Nat /\ b * v \in Nat
           /\ b * u <= b * v
           /\ b * (u + 1) = b * u + b
  <1>1. PICK d \in Nat : v = u + d
    BY v - u \in Nat
  <1>2. b * v = b * u + b * d /\ b * u \in Nat /\ b * d \in Nat
    BY <1>1
  <1> QED
    BY <1>2

\* A union has at most as many elements as its parts.
LEMMA UnionBound ==
    ASSUME NEW S, IsFiniteSet(S), NEW T, IsFiniteSet(T)
    PROVE  /\ IsFiniteSet(S \cup T) /\ Cardinality(S \cup T) \in Nat
           /\ Cardinality(S \cup T) <= Cardinality(S) + Cardinality(T)
  <1>1. IsFiniteSet(S \cap T)
    BY FS_Intersection
  <1>2. /\ Cardinality(S) \in Nat /\ Cardinality(T) \in Nat
        /\ Cardinality(S \cap T) \in Nat
    BY <1>1, FS_CardinalityType
  <1>3. /\ IsFiniteSet(S \cup T)
        /\ Cardinality(S \cup T) = Cardinality(S) + Cardinality(T) - Cardinality(S \cap T)
    BY FS_Union
  <1> QED
    BY <1>2, <1>3, FS_CardinalityType

\* The sets that are counted are finite.
LEMMA Counts ==
    ASSUME TypeOK, IsFiniteSet(converted)
    PROVE  /\ IsFiniteSet(Txn) /\ IsFiniteSet(Unrewarded) /\ IsFiniteSet(Stranded)
           /\ Cardinality(Unrewarded) \in Nat /\ Cardinality(Stranded) \in Nat
           /\ \A p \in Payer : IsFiniteSet(Hand(p)) /\ Cardinality(Hand(p)) \in Nat
  <1>1. IsFiniteSet(Txn)
    BY CashbackAssumption, FS_Interval, 1 \in Int, MaxTxns \in Int DEF Txn
  <1>2. \A S \in SUBSET Txn : IsFiniteSet(S) /\ Cardinality(S) \in Nat
    BY <1>1, FS_Subset, FS_CardinalityType
  <1>3. IsFiniteSet(Unrewarded) /\ Cardinality(Unrewarded) \in Nat
    BY FS_Subset, FS_CardinalityType, Unrewarded \in SUBSET converted DEF Unrewarded
  <1>4. Stranded \in SUBSET Txn /\ \A p \in Payer : Hand(p) \in SUBSET Txn
    BY DEF Stranded, Hand
  <1> QED
    BY <1>1, <1>2, <1>3, <1>4

\* A step that loses nothing keeps the bound, and what is in reserve.
LEMMA NothingLost ==
    ASSUME TypeOK, Accounts, faults' = faults,
           Unrewarded' \in SUBSET Unrewarded, Stranded' \in SUBSET Stranded
    PROVE  LossBounded' /\ (Reserve => Reserve')
  <1>1. /\ Cardinality(Unrewarded') \in Nat /\ Cardinality(Unrewarded) \in Nat
        /\ Cardinality(Stranded') \in Nat /\ Cardinality(Stranded) \in Nat
        /\ Cardinality(Unrewarded') <= Cardinality(Unrewarded)
        /\ Cardinality(Stranded') <= Cardinality(Stranded)
    BY Counts, FS_Subset, FS_CardinalityType DEF Accounts
  <1>2. /\ BatchSize * Cardinality(Unrewarded') <= BatchSize * Cardinality(Unrewarded)
        /\ BatchSize * Cardinality(Unrewarded') \in Nat
        /\ BatchSize * Cardinality(Unrewarded) \in Nat
    BY <1>1, Product, CashbackAssumption
  <1>3. BatchSize * faults \in Nat
    BY Product, CashbackAssumption DEF TypeOK
  <1> DEFINE x == BatchSize * Cardinality(Unrewarded)
             y == BatchSize * Cardinality(Unrewarded')
             z == BatchSize * faults
  <1>4. x + Cardinality(Stranded) <= z
    BY DEF Accounts, LossBounded
  <1>5. /\ y + Cardinality(Stranded') <= z
        /\ x + Cardinality(Stranded) + BatchSize <= z =>
              y + Cardinality(Stranded') + BatchSize <= z
    <2>1. y <= x /\ x \in Nat /\ y \in Nat /\ z \in Nat
      BY <1>2, <1>3
    <2> HIDE DEF x, y, z
    <2> QED
      BY <1>1, <1>4, <2>1, CashbackAssumption
  <1> QED
    BY <1>5 DEF LossBounded, Reserve

\* A failure pays for one more referral or for a batch.
LEMMA Priced ==
    ASSUME TypeOK, Accounts, faults' = faults + 1,
           Cardinality(Unrewarded') \in Nat, Cardinality(Stranded') \in Nat,
           \/ /\ Cardinality(Unrewarded') <= Cardinality(Unrewarded) + 1
              /\ Cardinality(Stranded') <= Cardinality(Stranded)
           \/ /\ Cardinality(Unrewarded') <= Cardinality(Unrewarded)
              /\ Cardinality(Stranded') <= Cardinality(Stranded) + BatchSize
    PROVE  LossBounded' /\ (Reserve => Reserve')
  <1> DEFINE x == BatchSize * Cardinality(Unrewarded)
             y == BatchSize * Cardinality(Unrewarded')
             z == BatchSize * faults
  <1>1. Cardinality(Unrewarded) \in Nat /\ Cardinality(Stranded) \in Nat
    BY Counts DEF Accounts
  <1>2. x + Cardinality(Stranded) <= z
    BY DEF Accounts, LossBounded
  <1>3. /\ x \in Nat /\ z \in Nat
        /\ BatchSize * (Cardinality(Unrewarded) + 1) = x + BatchSize
        /\ BatchSize * (faults + 1) = z + BatchSize
    BY <1>1, Product, CashbackAssumption DEF TypeOK
  <1>4. y \in Nat
    BY Product, CashbackAssumption
  <1>5. \/ y <= x + BatchSize /\ Cardinality(Stranded') <= Cardinality(Stranded)
        \/ y <= x /\ Cardinality(Stranded') <= Cardinality(Stranded) + BatchSize
    <2>1. CASE Cardinality(Unrewarded') <= Cardinality(Unrewarded)
      <3>1. y <= x
        BY <1>1, <2>1, Product, CashbackAssumption
      <3> HIDE DEF x, y
      <3> QED
        BY <1>1, <1>3, <1>4, <3>1, CashbackAssumption
    <2>2. CASE ~(Cardinality(Unrewarded') <= Cardinality(Unrewarded))
      <3>1. /\ Cardinality(Unrewarded') <= Cardinality(Unrewarded) + 1
            /\ Cardinality(Stranded') <= Cardinality(Stranded)
        BY <2>2
      <3>2. y <= BatchSize * (Cardinality(Unrewarded) + 1)
        BY <1>1, <3>1, Product, CashbackAssumption, Cardinality(Unrewarded) + 1 \in Nat
      <3> HIDE DEF x, y
      <3> QED
        BY <1>3, <3>1, <3>2
    <2> QED
      BY <2>1, <2>2
  <1>6. /\ y + Cardinality(Stranded') <= z + BatchSize
        /\ x + Cardinality(Stranded) + BatchSize <= z =>
              y + Cardinality(Stranded') + BatchSize <= z + BatchSize
    <2> HIDE DEF x, y, z
    <2> QED
      BY <1>1, <1>2, <1>3, <1>4, <1>5, CashbackAssumption
  <1> QED
    BY <1>3, <1>6 DEF LossBounded, Reserve

\* A failure that costs nothing is in reserve.
LEMMA Raised ==
    ASSUME TypeOK, Accounts, faults' = faults + 1,
           Unrewarded' = Unrewarded, Stranded' = Stranded
    PROVE  Reserve'
  <1>1. /\ BatchSize * faults \in Nat /\ BatchSize * (faults + 1) = BatchSize * faults + BatchSize
        /\ BatchSize * Cardinality(Unrewarded) \in Nat /\ Cardinality(Stranded) \in Nat
    BY Counts, Product, CashbackAssumption DEF TypeOK, Accounts
  <1> DEFINE x == BatchSize * Cardinality(Unrewarded)
             z == BatchSize * faults
  <1>2. x + Cardinality(Stranded) <= z
    BY DEF Accounts, LossBounded
  <1>3. x + Cardinality(Stranded) + BatchSize <= z + BatchSize
    <2> HIDE DEF x, z
    <2> QED
      BY <1>1, <1>2, CashbackAssumption DEF x, z
  <1> QED
    BY <1>1, <1>3 DEF Reserve

\* Every step keeps the accounts, and what is in reserve.
LEMMA AccountsKept == IInv /\ Accounts /\ [Next]_vars => Accounts' /\ (Reserve => Reserve')
  <1> USE CashbackAssumption DEF tables, onboarding, payout
  <1> SUFFICES ASSUME IInv, Accounts, [Next]_vars PROVE Accounts' /\ (Reserve => Reserve')
    OBVIOUS
  <1> DEFINE After == Accounts' /\ (Reserve => Reserve')
             Kept == /\ IsFiniteSet(converted)'
                     /\ \A t \in Txn : status'[t] = "Absent" => referralOf'[t] = None
             SameHands == \A p \in Payer : Hand(p)' \in SUBSET Hand(p)
             Free == /\ faults' = faults
                     /\ Unrewarded' \in SUBSET Unrewarded
                     /\ Stranded' \in SUBSET Stranded
  <1>0. TypeOK /\ CallsKnowTheirRows /\ HandsAreProcessing
    BY DEF IInv
  <1>1. ASSUME Kept, SameHands, Free PROVE After
    <2>1. \A p \in Payer : Cardinality(Hand(p)') <= BatchSize
      <3>1. SUFFICES ASSUME NEW p \in Payer PROVE Cardinality(Hand(p)') <= BatchSize
        OBVIOUS
      <3>2. /\ Cardinality(Hand(p)') \in Nat /\ Cardinality(Hand(p)) \in Nat
            /\ Cardinality(Hand(p)') <= Cardinality(Hand(p))
        BY <1>0, <1>1, Counts, FS_Subset, FS_CardinalityType DEF Accounts
      <3> QED
        BY <3>2 DEF Accounts
    <2>2. LossBounded' /\ (Reserve => Reserve')
      BY <1>0, <1>1, NothingLost
    <2> QED
      BY <1>1, <2>1, <2>2 DEF Accounts
  <1> HIDE DEF SameHands, Free, Kept
  <1>2. ASSUME NEW r \in Referral, RegisterReferral(r) PROVE After
    <2>1. Kept
      BY <1>0, <1>2 DEF Kept, RegisterReferral, Accounts, TypeOK
    <2>2. SameHands
      BY <1>0, <1>2 DEF SameHands, Hand, RegisterReferral, TypeOK
    <2>3. Unrewarded' \in SUBSET Unrewarded
      BY <1>0, <1>2 DEF Unrewarded, RegisterReferral, TypeOK
    <2>4. Stranded' \in SUBSET Stranded
      BY <1>0, <1>2 DEF Stranded, RegisterReferral, TypeOK
    <2> QED
      BY <1>1, <1>2, <2>1, <2>2, <2>3, <2>4 DEF Free, RegisterReferral
  <1>3. ASSUME NEW r \in Referral, NEW c \in Onboarder, GetReferral(c, r) PROVE After
    <2>1. Kept
      BY <1>0, <1>3 DEF Kept, GetReferral, CashbackDue, Accounts, TypeOK
    <2>2. SameHands
      BY <1>0, <1>3 DEF SameHands, Hand, GetReferral, CashbackDue, TypeOK
    <2>3. Unrewarded' \in SUBSET Unrewarded
      BY <1>0, <1>3 DEF Unrewarded, GetReferral, CashbackDue, TypeOK, CallsKnowTheirRows
    <2>4. Stranded' \in SUBSET Stranded
      BY <1>0, <1>3 DEF Stranded, GetReferral, CashbackDue, TypeOK
    <2> QED
      BY <1>1, <1>3, <2>1, <2>2, <2>3, <2>4 DEF Free, GetReferral, CashbackDue
  <1>4. ASSUME NEW c \in Onboarder, MarkReferralConverted(c) PROVE After
    <2>1. Kept
      <3>1. IsFiniteSet(converted \cup {subject[c]})
        BY FS_AddElement DEF Accounts
      <3> QED
        BY <1>4, <3>1 DEF Kept, MarkReferralConverted, Accounts
    <2>2. SameHands
      BY <1>0, <1>4 DEF SameHands, Hand, MarkReferralConverted, TypeOK
    <2>3. Unrewarded' \in SUBSET Unrewarded
      BY <1>0, <1>4 DEF Unrewarded, MarkReferralConverted, TypeOK, CallsKnowTheirRows
    <2>4. Stranded' \in SUBSET Stranded
      BY <1>0, <1>4 DEF Stranded, MarkReferralConverted, TypeOK
    <2> QED
      BY <1>1, <1>4, <2>1, <2>2, <2>3, <2>4 DEF Free, MarkReferralConverted
  <1>5. ASSUME NEW c \in Onboarder, CreateReferralTransaction(c) PROVE After
    <2>1. Kept
      BY <1>0, <1>5 DEF Kept, CreateReferralTransaction, Accounts, TypeOK
    <2>2. SameHands
      BY <1>0, <1>5
         DEF SameHands, Hand, CreateReferralTransaction, TypeOK, HandsAreProcessing
    <2>3. Unrewarded' \in SUBSET Unrewarded
      BY <1>0, <1>5
         DEF Unrewarded, CreateReferralTransaction, TypeOK, CallsKnowTheirRows, Accounts
    <2>4. Stranded' \in SUBSET Stranded
      BY <1>0, <1>5 DEF Stranded, CreateReferralTransaction, TypeOK, HandsAreProcessing
    <2> QED
      BY <1>1, <1>5, <2>1, <2>2, <2>3, <2>4 DEF Free, CreateReferralTransaction
  <1>6. ASSUME NEW c \in Onboarder, NotifyPending(c) PROVE After
    <2>1. Kept
      BY <1>0, <1>6 DEF Kept, NotifyPending, LeaveOnboarding, Accounts, TypeOK
    <2>2. SameHands
      BY <1>0, <1>6 DEF SameHands, Hand, NotifyPending, LeaveOnboarding, TypeOK
    <2>3. Unrewarded' \in SUBSET Unrewarded
      BY <1>0, <1>6
         DEF Unrewarded, NotifyPending, LeaveOnboarding, TypeOK, CallsKnowTheirRows
    <2>4. Stranded' \in SUBSET Stranded
      BY <1>0, <1>6 DEF Stranded, NotifyPending, LeaveOnboarding, TypeOK
    <2> QED
      BY <1>1, <1>6, <2>1, <2>2, <2>3, <2>4 DEF Free, NotifyPending, LeaveOnboarding
  <1>7. ASSUME NEW p \in Payer, StartPayout(p) PROVE After
    <2>1. Kept
      BY <1>0, <1>7 DEF Kept, StartPayout, Accounts, TypeOK
    <2>2. SameHands
      BY <1>0, <1>7 DEF SameHands, Hand, StartPayout, TypeOK, HandsAreProcessing
    <2>3. Unrewarded' \in SUBSET Unrewarded
      BY <1>0, <1>7 DEF Unrewarded, StartPayout, TypeOK
    <2>4. Stranded' \in SUBSET Stranded
      BY <1>0, <1>7 DEF Stranded, StartPayout, TypeOK, HandsAreProcessing
    <2> QED
      BY <1>1, <1>7, <2>1, <2>2, <2>3, <2>4 DEF Free, StartPayout
  <1>8. ASSUME NEW p \in Payer, FinishRun(p) PROVE After
    <2>1. Kept
      BY <1>0, <1>8 DEF Kept, FinishRun, Accounts, TypeOK
    <2>2. SameHands
      BY <1>0, <1>8 DEF SameHands, Hand, FinishRun, TypeOK
    <2>3. Unrewarded' \in SUBSET Unrewarded
      BY <1>0, <1>8 DEF Unrewarded, FinishRun, TypeOK
    <2>4. Stranded' \in SUBSET Stranded
      BY <1>0, <1>8 DEF Stranded, FinishRun, TypeOK
    <2> QED
      BY <1>1, <1>8, <2>1, <2>2, <2>3, <2>4 DEF Free, FinishRun
  <1>9. ASSUME NEW p \in Payer, Payout(p) PROVE After
    <2>1. Kept
      BY <1>0, <1>9 DEF Kept, Payout, Accounts, TypeOK
    <2>2. SameHands
      BY <1>0, <1>9 DEF SameHands, Hand, Payout, TypeOK
    <2>3. Unrewarded' \in SUBSET Unrewarded
      BY <1>0, <1>9 DEF Unrewarded, Payout, TypeOK
    <2>4. Stranded' \in SUBSET Stranded
      BY <1>0, <1>9 DEF Stranded, Payout, TypeOK
    <2> QED
      BY <1>1, <1>9, <2>1, <2>2, <2>3, <2>4 DEF Free, Payout
  <1>10. ASSUME NEW p \in Payer, Mark(p) PROVE After
    <2>1. Kept
      BY <1>0, <1>10 DEF Kept, Mark, Outcome, Accounts, TypeOK
    <2>2. SameHands
      BY <1>0, <1>10 DEF SameHands, Hand, Mark, Outcome, TypeOK, HandsAreProcessing
    <2>3. Unrewarded' \in SUBSET Unrewarded
      BY <1>0, <1>10 DEF Unrewarded, Mark, Outcome, TypeOK
    <2>4. Stranded' \in SUBSET Stranded
      BY <1>0, <1>10 DEF Stranded, Mark, Outcome, TypeOK, HandsAreProcessing
    <2> QED
      BY <1>1, <1>10, <2>1, <2>2, <2>3, <2>4 DEF Free, Mark, Outcome
  <1>11. ASSUME NEW p \in Payer, NotifyOutcome(p) PROVE After
    <2>1. Kept
      BY <1>0, <1>11 DEF Kept, NotifyOutcome, News, Accounts, TypeOK
    <2>2. SameHands
      BY <1>0, <1>11 DEF SameHands, Hand, NotifyOutcome, News, TypeOK, HandsAreProcessing
    <2>3. Unrewarded' \in SUBSET Unrewarded
      BY <1>0, <1>11 DEF Unrewarded, NotifyOutcome, News, TypeOK
    <2>4. Stranded' \in SUBSET Stranded
      BY <1>0, <1>11 DEF Stranded, NotifyOutcome, News, TypeOK, HandsAreProcessing
    <2> QED
      BY <1>1, <1>11, <2>1, <2>2, <2>3, <2>4 DEF Free, NotifyOutcome, News
  <1>12. ASSUME NEW p \in Payer, ClaimPending(p) PROVE After
    <2>1. Kept
      BY <1>0, <1>12 DEF Kept, ClaimPending, Claimable, Accounts, TypeOK
    <2>2. \A q \in Payer : Cardinality(Hand(q)') <= BatchSize
      <3>1. ASSUME NEW q \in Payer, q # p PROVE Hand(q)' \in SUBSET Hand(q)
        BY <1>0, <1>12, <3>1 DEF Hand, ClaimPending, Claimable, TypeOK, HandsAreProcessing
      <3>2. PICK S \in SUBSET Claimable : /\ Cardinality(S) <= BatchSize
                                          /\ batch' = [batch EXCEPT ![p] = S]
        BY <1>12 DEF ClaimPending
      <3>3. Hand(p)' = S
        BY <1>0, <1>12, <3>2 DEF Hand, ClaimPending, Claimable, TypeOK, HandsAreProcessing
      <3> QED
        BY <1>0, <3>1, <3>2, <3>3, Counts, FS_Subset, FS_CardinalityType DEF Accounts
    <2>3. Unrewarded' \in SUBSET Unrewarded
      BY <1>12 DEF Unrewarded, ClaimPending
    <2>4. Stranded' \in SUBSET Stranded
      BY <1>0, <1>12 DEF Stranded, ClaimPending, Claimable, TypeOK, HandsAreProcessing
    <2>5. LossBounded' /\ (Reserve => Reserve')
      BY <1>0, <1>12, <2>3, <2>4, NothingLost DEF ClaimPending
    <2> QED
      BY <2>1, <2>2, <2>5 DEF Accounts, Kept
  <1>13. ASSUME NEW c \in Onboarder, OnboardingFails(c) PROVE After
    <2>1. Kept
      BY <1>13 DEF Kept, OnboardingFails, Accounts
    <2>2. \A p \in Payer : Hand(p)' = Hand(p)
      BY <1>13 DEF Hand, OnboardingFails
    <2>3. Stranded' = Stranded
      BY <1>13 DEF Stranded, OnboardingFails
    <2>4. Unrewarded' \in SUBSET (Unrewarded \cup {subject[c]})
      BY <1>0, <1>13 DEF Unrewarded, OnboardingFails, LeaveOnboarding, TypeOK
    <2>5. /\ IsFiniteSet(Unrewarded \cup {subject[c]})
          /\ Cardinality(Unrewarded) \in Nat /\ Cardinality(Stranded) \in Nat
          /\ Cardinality(Unrewarded \cup {subject[c]}) <= Cardinality(Unrewarded) + 1
      <3>1. /\ IsFiniteSet(Unrewarded)
            /\ Cardinality(Unrewarded) \in Nat /\ Cardinality(Stranded) \in Nat
        BY <1>0, Counts DEF Accounts
      <3>2. /\ IsFiniteSet(Unrewarded \cup {subject[c]})
            /\ Cardinality(Unrewarded \cup {subject[c]}) =
                   IF subject[c] \in Unrewarded THEN Cardinality(Unrewarded)
                                                ELSE Cardinality(Unrewarded) + 1
        BY <3>1, FS_AddElement
      <3>3. Cardinality(Unrewarded \cup {subject[c]}) <= Cardinality(Unrewarded) + 1
        BY <3>1, <3>2
      <3> QED
        BY <3>1, <3>2, <3>3
    <2>6. Cardinality(Unrewarded') \in Nat /\ Cardinality(Unrewarded \cup {subject[c]}) \in Nat
          /\ Cardinality(Unrewarded') <= Cardinality(Unrewarded \cup {subject[c]})
      BY <2>4, <2>5, FS_Subset, FS_CardinalityType
    <2>7. LossBounded' /\ (Reserve => Reserve')
      <3>1. /\ Cardinality(Unrewarded') <= Cardinality(Unrewarded) + 1
            /\ Cardinality(Stranded') <= Cardinality(Stranded)
        BY <2>3, <2>5, <2>6
      <3> QED
        BY <1>0, <1>13, <2>3, <2>5, <2>6, <3>1, Priced DEF OnboardingFails
    <2> QED
      BY <2>1, <2>2, <2>7 DEF Accounts, Kept
  <1>14. ASSUME NEW p \in Payer, PayoutRunFails(p) PROVE After
    <2>1. Kept
      BY <1>14 DEF Kept, PayoutRunFails, Accounts
    <2>2. \A q \in Payer : Hand(q)' \in SUBSET Hand(q)
      BY <1>0, <1>14 DEF Hand, PayoutRunFails, TypeOK
    <2>3. Unrewarded' = Unrewarded
      BY <1>14 DEF Unrewarded, PayoutRunFails
    <2>4. Stranded' \in SUBSET (Stranded \cup Hand(p))
      BY <1>0, <1>14 DEF Stranded, Hand, PayoutRunFails, TypeOK
    <2>5. /\ IsFiniteSet(Stranded) /\ IsFiniteSet(Hand(p))
          /\ Cardinality(Unrewarded) \in Nat /\ Cardinality(Stranded) \in Nat
          /\ Cardinality(Hand(p)) \in Nat /\ Cardinality(Hand(p)) <= BatchSize
      BY <1>0, Counts DEF Accounts
    <2>6. /\ IsFiniteSet(Stranded \cup Hand(p))
          /\ Cardinality(Stranded \cup Hand(p)) \in Nat
          /\ Cardinality(Stranded \cup Hand(p)) <= Cardinality(Stranded) + Cardinality(Hand(p))
      BY <2>5, UnionBound
    <2>7. /\ Cardinality(Stranded') \in Nat
          /\ Cardinality(Stranded') <= Cardinality(Stranded \cup Hand(p))
      BY <2>4, <2>6, FS_Subset, FS_CardinalityType
    <2>8. LossBounded' /\ (Reserve => Reserve')
      <3>1. /\ Cardinality(Unrewarded') <= Cardinality(Unrewarded)
            /\ Cardinality(Stranded') <= Cardinality(Stranded) + BatchSize
        BY <2>3, <2>5, <2>6, <2>7
      <3> QED
        BY <1>0, <1>14, <2>3, <2>5, <2>7, <3>1, Priced DEF PayoutRunFails
    <2>9. \A q \in Payer : Cardinality(Hand(q)') <= BatchSize
      <3>1. SUFFICES ASSUME NEW q \in Payer PROVE Cardinality(Hand(q)') <= BatchSize
        OBVIOUS
      <3>2. /\ Cardinality(Hand(q)') \in Nat /\ Cardinality(Hand(q)) \in Nat
            /\ Cardinality(Hand(q)') <= Cardinality(Hand(q))
        BY <1>0, <2>2, Counts, FS_Subset, FS_CardinalityType DEF Accounts
      <3> QED
        BY <3>2 DEF Accounts
    <2> QED
      BY <2>1, <2>8, <2>9 DEF Accounts, Kept
  <1>15. CASE UNCHANGED vars
    <2>1. Kept
      BY <1>15 DEF Kept, vars, Accounts
    <2>2. SameHands
      BY <1>15 DEF SameHands, Hand, vars
    <2>3. Free
      BY <1>15 DEF Free, vars, Unrewarded, Stranded
    <2> QED
      BY <1>1, <2>1, <2>2, <2>3
  <1> QED
    BY <1>2, <1>3, <1>4, <1>5, <1>6, <1>7, <1>8, <1>9, <1>10, <1>11, <1>12,
       <1>13, <1>14, <1>15 DEF Next, OnboardingStep, PayoutStep

\* Initially nothing is lost.
LEMMA AccountsBegin == Init => Accounts
  <1> SUFFICES ASSUME Init PROVE Accounts
    OBVIOUS
  <1>1. Unrewarded = {} /\ Stranded = {} /\ converted = {} /\ \A p \in Payer : Hand(p) = {}
    BY CashbackAssumption DEF Init, Unrewarded, Stranded, Hand
  <1>2. faults = 0 /\ \A t \in Txn : referralOf[t] = None
    BY DEF Init
  <1>3. LossBounded
    <2>1. Cardinality(Unrewarded) = 0 /\ Cardinality(Stranded) = 0
      BY <1>1, FS_EmptySet
    <2>2. BatchSize * 0 + 0 <= BatchSize * 0
      BY CashbackAssumption
    <2> QED
      BY <1>2, <2>1, <2>2 DEF LossBounded
  <1>4. \A p \in Payer : Cardinality(Hand(p)) <= BatchSize
    BY <1>1, FS_EmptySet, CashbackAssumption
  <1> QED
    BY <1>1, <1>2, <1>3, <1>4, FS_EmptySet DEF Accounts

\* What is lost for good is the price of failures: one cashback or one batch for
\* each of them, and nothing without them.
THEOREM LossIsBounded == Spec => []LossBounded
  <1>1. Init => IInv /\ Accounts
    BY Initial, AccountsBegin
  <1>2. IInv /\ Accounts /\ [Next]_vars => (IInv /\ Accounts)'
    BY Inductive, AccountsKept
  <1>3. Accounts => LossBounded
    BY DEF Accounts
  <1> QED
    BY <1>1, <1>2, <1>3, PTL DEF Spec
-----------------------------------------------------------------------------
(* How many transactions a race can make.                                  *)

\* The transactions of a referral, and the calls that will insert one.
Cashbacks(r) == {t \in Txn : referralOf[t] = r}
Inserting(r) == {c \in Onboarder : subject[c] = r /\ step[c] \in {"convert", "insert"}}

\* A call that began before the conversion of its referral was seen has inserted
\* its transaction, will insert it, or never will; no call begins afterwards.
OneEach ==
    \A r \in Referral :
        /\ r \notin converted => /\ Cashbacks(r) = {}
                                 /\ \A c \in Onboarder : subject[c] = r => step[c] = "convert"
        /\ Cardinality(Cashbacks(r)) + Cardinality(Inserting(r)) <= Cardinality(Onboarder)

\* The sets that are counted are finite.
LEMMA RaceCounts ==
    /\ Cardinality(Onboarder) \in Nat
    /\ \A r : /\ IsFiniteSet(Cashbacks(r)) /\ IsFiniteSet(Inserting(r))
              /\ Cardinality(Cashbacks(r)) \in Nat /\ Cardinality(Inserting(r)) \in Nat
              /\ Cardinality(Inserting(r)) <= Cardinality(Onboarder)
  <1>1. IsFiniteSet(Txn)
    BY CashbackAssumption, FS_Interval, 1 \in Int, MaxTxns \in Int DEF Txn
  <1>2. \A S \in SUBSET Txn : IsFiniteSet(S) /\ Cardinality(S) \in Nat
    BY <1>1, FS_Subset, FS_CardinalityType
  <1>3. /\ Cardinality(Onboarder) \in Nat
        /\ \A S \in SUBSET Onboarder : /\ IsFiniteSet(S) /\ Cardinality(S) \in Nat
                                       /\ Cardinality(S) <= Cardinality(Onboarder)
    BY CashbackAssumption, FS_Subset, FS_CardinalityType
  <1>4. \A r : Cashbacks(r) \in SUBSET Txn /\ Inserting(r) \in SUBSET Onboarder
    BY DEF Cashbacks, Inserting
  <1> QED
    BY <1>2, <1>3, <1>4

\* A step after which no further transaction of r is there or about to be.
LEMMA NoFurther ==
    ASSUME NEW r \in Referral, OneEach,
           Cashbacks(r)' \in SUBSET Cashbacks(r), Inserting(r)' \in SUBSET Inserting(r)
    PROVE  Cardinality(Cashbacks(r)') + Cardinality(Inserting(r)') <= Cardinality(Onboarder)
  <1>1. /\ IsFiniteSet(Cashbacks(r)) /\ IsFiniteSet(Inserting(r))
        /\ Cardinality(Cashbacks(r)) \in Nat /\ Cardinality(Inserting(r)) \in Nat
        /\ Cardinality(Onboarder) \in Nat
    BY RaceCounts
  <1>2. /\ Cardinality(Cashbacks(r)') \in Nat /\ Cardinality(Inserting(r)') \in Nat
        /\ Cardinality(Cashbacks(r)') <= Cardinality(Cashbacks(r))
        /\ Cardinality(Inserting(r)') <= Cardinality(Inserting(r))
    BY <1>1, FS_Subset, FS_CardinalityType
  <1> QED
    BY <1>1, <1>2 DEF OneEach

\* Every step keeps the count.
LEMMA OneEachKept == IInv /\ OneEach /\ [Next]_vars => OneEach'
  <1> USE CashbackAssumption DEF tables, onboarding, payout
  <1> SUFFICES ASSUME IInv, OneEach, [Next]_vars, NEW r \in Referral
               PROVE  /\ r \notin converted' =>
                            /\ Cashbacks(r)' = {}
                            /\ \A c \in Onboarder : subject'[c] = r => step'[c] = "convert"
                      /\ Cardinality(Cashbacks(r)') + Cardinality(Inserting(r)')
                            <= Cardinality(Onboarder)
    BY DEF OneEach
  <1> DEFINE Untouched == r \notin converted' =>
                             /\ Cashbacks(r)' = {}
                             /\ \A c \in Onboarder : subject'[c] = r => step'[c] = "convert"
             Count == Cardinality(Cashbacks(r)') + Cardinality(Inserting(r)')
                         <= Cardinality(Onboarder)
  <1> SUFFICES Untouched /\ Count
    OBVIOUS
  <1>0. TypeOK /\ CallsKnowTheirRows
    BY DEF IInv
  <1>1. CASE UNCHANGED <<converted, referralOf, step, subject>>
    <2>1. Cashbacks(r)' = Cashbacks(r) /\ Inserting(r)' = Inserting(r)
      BY <1>1 DEF Cashbacks, Inserting
    <2> QED
      BY <1>1, <2>1, NoFurther DEF OneEach
  <1>2. ASSUME NEW c \in Onboarder, NEW q \in Referral, GetReferral(c, q)
        PROVE  Untouched /\ Count
    <2>1. Untouched
      <3>1. converted' = converted /\ Cashbacks(r)' = Cashbacks(r)
        BY <1>2 DEF GetReferral, Cashbacks
      <3>2. ASSUME NEW d \in Onboarder, subject'[d] = r, subject[d] = r => step[d] = "convert"
            PROVE  step'[d] = "convert"
        BY <1>0, <1>2, <3>2 DEF GetReferral, TypeOK
      <3> QED
        BY <3>1, <3>2 DEF OneEach
    <2>2. Cashbacks(r)' = Cashbacks(r)
      BY <1>2 DEF GetReferral, Cashbacks
    <2>3. CASE q = r
      <3>1. Cashbacks(r)' = {}
        BY <1>2, <2>2, <2>3 DEF GetReferral, CashbackDue, OneEach
      <3>2. /\ Cardinality(Inserting(r)') \in Nat
            /\ Cardinality(Inserting(r)') <= Cardinality(Onboarder)
        <4>1. Inserting(r)' \in SUBSET Onboarder
          BY DEF Inserting
        <4> QED
          BY <4>1, FS_Subset, FS_CardinalityType
      <3> QED
        BY <2>1, <3>1, <3>2, RaceCounts, FS_EmptySet
    <2>4. CASE q # r
      <3>1. Inserting(r)' \in SUBSET Inserting(r)
        BY <1>0, <1>2, <2>4 DEF GetReferral, Inserting, TypeOK
      <3> QED
        BY <2>1, <2>2, <3>1, NoFurther
    <2> QED
      BY <2>3, <2>4
  <1>3. ASSUME NEW c \in Onboarder, MarkReferralConverted(c) PROVE Untouched /\ Count
    <2>1. Cashbacks(r)' = Cashbacks(r) /\ Inserting(r)' \in SUBSET Inserting(r)
      BY <1>0, <1>3 DEF MarkReferralConverted, Cashbacks, Inserting, TypeOK
    <2>2. Untouched
      BY <1>0, <1>3, <2>1 DEF MarkReferralConverted, TypeOK, OneEach
    <2> QED
      BY <2>1, <2>2, NoFurther
  <1>4. ASSUME NEW c \in Onboarder, CreateReferralTransaction(c) PROVE Untouched /\ Count
    <2>1. PICK t \in Txn : referralOf' = [referralOf EXCEPT ![t] = subject[c]]
      BY <1>4 DEF CreateReferralTransaction
    <2>2. CASE subject[c] = r
      <3>1. r \in converted'
        BY <1>4, <2>2 DEF CreateReferralTransaction, OneEach
      <3>2. Cashbacks(r)' \in SUBSET (Cashbacks(r) \cup {t})
        BY <1>0, <2>1 DEF Cashbacks, TypeOK
      <3>3. /\ c \in Inserting(r)
            /\ Inserting(r)' \in SUBSET (Inserting(r) \ {c})
        BY <1>0, <1>4, <2>2 DEF CreateReferralTransaction, Inserting, TypeOK
      <3>4. /\ IsFiniteSet(Cashbacks(r)) /\ IsFiniteSet(Inserting(r))
            /\ Cardinality(Cashbacks(r)) \in Nat /\ Cardinality(Inserting(r)) \in Nat
            /\ Cardinality(Onboarder) \in Nat
        BY RaceCounts
      <3>5. /\ IsFiniteSet(Cashbacks(r) \cup {t})
            /\ Cardinality(Cashbacks(r) \cup {t}) =
                  IF t \in Cashbacks(r) THEN Cardinality(Cashbacks(r))
                                        ELSE Cardinality(Cashbacks(r)) + 1
        BY <3>4, FS_AddElement
      <3>6. /\ IsFiniteSet(Inserting(r) \ {c})
            /\ Cardinality(Inserting(r) \ {c}) = Cardinality(Inserting(r)) - 1
        BY <3>3, <3>4, FS_RemoveElement
      <3>7. /\ Cardinality(Cashbacks(r)') \in Nat
            /\ Cardinality(Cashbacks(r)') <= Cardinality(Cashbacks(r) \cup {t})
        BY <3>2, <3>5, FS_Subset, FS_CardinalityType
      <3>8. /\ Cardinality(Inserting(r)') \in Nat
            /\ Cardinality(Inserting(r)') <= Cardinality(Inserting(r) \ {c})
        BY <3>3, <3>6, FS_Subset, FS_CardinalityType
      <3>9. Cardinality(Cashbacks(r)) + Cardinality(Inserting(r)) <= Cardinality(Onboarder)
        BY DEF OneEach
      <3>10. Count
        BY <3>4, <3>5, <3>6, <3>7, <3>8, <3>9
      <3> QED
        BY <3>1, <3>10
    <2>3. CASE subject[c] # r
      <3>1. Cashbacks(r)' \in SUBSET Cashbacks(r) /\ Inserting(r)' \in SUBSET Inserting(r)
        BY <1>0, <1>4, <2>1, <2>3
           DEF CreateReferralTransaction, Cashbacks, Inserting, TypeOK
      <3>2. Untouched
        BY <1>0, <1>4, <2>3, <3>1 DEF CreateReferralTransaction, TypeOK, OneEach
      <3> QED
        BY <3>1, <3>2, NoFurther
    <2> QED
      BY <2>2, <2>3
  <1>5. ASSUME NEW c \in Onboarder, NotifyPending(c) \/ OnboardingFails(c)
        PROVE  Untouched /\ Count
    <2>1. Cashbacks(r)' = Cashbacks(r) /\ Inserting(r)' \in SUBSET Inserting(r)
      BY <1>0, <1>5 DEF NotifyPending, OnboardingFails, LeaveOnboarding, Cashbacks,
         Inserting, TypeOK
    <2>2. Untouched
      BY <1>0, <1>5, <2>1 DEF NotifyPending, OnboardingFails, LeaveOnboarding, TypeOK,
         OneEach
    <2> QED
      BY <2>1, <2>2, NoFurther
  <1> HIDE DEF Untouched, Count
  <1>6. CASE UNCHANGED vars
    BY <1>1, <1>6 DEF vars
  <1>7. ASSUME NEW q \in Referral, RegisterReferral(q) PROVE Untouched /\ Count
    BY <1>1, <1>7 DEF RegisterReferral
  <1>8. ASSUME NEW p \in Payer, ClaimPending(p) \/ PayoutStep(p) \/ PayoutRunFails(p)
        PROVE  Untouched /\ Count
    BY <1>1, <1>8 DEF ClaimPending, PayoutStep, StartPayout, FinishRun, Payout, Mark,
       NotifyOutcome, PayoutRunFails
  <1> QED
    BY <1>2, <1>3, <1>4, <1>5, <1>6, <1>7, <1>8 DEF Next, OnboardingStep

\* At first no call is under way and there is no transaction.
LEMMA OneEachBegins == Init => OneEach
  <1> SUFFICES ASSUME Init PROVE OneEach
    OBVIOUS
  <1>1. \A r \in Referral : Cashbacks(r) = {} /\ Inserting(r) = {}
    BY CashbackAssumption DEF Init, Cashbacks, Inserting
  <1>2. Cardinality({}) = 0 /\ Cardinality(Onboarder) \in Nat
    BY FS_EmptySet, RaceCounts
  <1>3. \A c \in Onboarder : subject[c] \notin Referral
    BY CashbackAssumption DEF Init
  <1>4. ASSUME NEW r \in Referral
        PROVE  Cardinality(Cashbacks(r)) + Cardinality(Inserting(r)) <= Cardinality(Onboarder)
    <2>1. Cardinality(Cashbacks(r)) = 0 /\ Cardinality(Inserting(r)) = 0
      BY <1>1, <1>2
    <2> QED
      BY <1>2, <2>1
  <1> QED
    BY <1>1, <1>3, <1>4 DEF OneEach

\* The count bounds the transactions of a referral.
LEMMA OneEachBounds == OneEach => CashbackBounded
  <1>1. OneEach => \A r \in Referral : Cardinality(Cashbacks(r)) <= Cardinality(Onboarder)
    BY RaceCounts DEF OneEach
  <1> QED
    BY <1>1 DEF CashbackBounded, Cashbacks

\* A referral has at most as many transactions as there are concurrent calls:
\* one, if there is never more than one call at a time.
THEOREM RaceIsBounded == Spec => []CashbackBounded
  <1>1. Init => IInv /\ OneEach
    BY Initial, OneEachBegins
  <1>2. IInv /\ OneEach /\ [Next]_vars => (IInv /\ OneEach)'
    BY Inductive, OneEachKept
  <1> QED
    BY <1>1, <1>2, OneEachBounds, PTL DEF Spec
-----------------------------------------------------------------------------
(* The composition.                                                        *)

\* A verification fails, and the referral service was never called.
VerificationFails ==
    /\ faults < MaxFaults
    /\ faults' = faults + 1
    /\ UNCHANGED Referring

\* Every step of the composition is one of these two to the referral service.
LEMMA StepsProject ==
    ASSUME [WorkerNext]_workerVars
    PROVE  [Next]_vars \/ VerificationFails
  <1> USE DEF tables, onboarding, payout
  <1>1. ASSUME NEW c \in Onboarder, Verify(c)
        PROVE  UNCHANGED vars \/ VerificationFails
    <2>1. CASE V!CallFails(c)
      BY <1>1, <2>1 DEF Verify, V!CallFails, VerificationFails
    <2>2. CASE ~V!CallFails(c)
      <3>1. faults' = faults
        BY <1>1, <2>2 DEF Verify, V!StartAadhaarOTP, V!VerifyAadhaarOTP, V!UploadDocument,
           V!Skip, V!Read, V!MarkVerified, V!MarkFailed, V!MarkDocumentUploaded,
           V!MarkSkipped, V!Written, V!UpdateUserVerificationTier, V!WriteRefused
      <3> QED
        BY <1>1, <3>1 DEF Verify, Referring, vars
    <2> QED
      BY <2>1, <2>2
  <1>2. ASSUME NEW c \in Onboarder, CompleteOnboarding(c) PROVE Next
    BY <1>2, VerificationAssumption DEF CompleteOnboarding, Next
  <1>3. ASSUME NEW c \in Onboarder, NothingDue(c) PROVE UNCHANGED vars
    BY <1>3 DEF NothingDue, V!CompleteOnboarding, Referring, vars
  <1>4. ASSUME NEW c \in Onboarder, Reward(c) \/ EndReward(c) \/ RewardFails(c) PROVE Next
    BY <1>4 DEF Reward, EndReward, RewardFails, Next, OnboardingStep
  <1>5. ASSUME NEW r \in Referral, Register(r) PROVE Next
    BY <1>5 DEF Register, Next
  <1>6. ASSUME NEW p \in Payer, Pay(p) PROVE Next
    BY <1>6 DEF Pay, Next
  <1>7. ASSUME UNCHANGED workerVars PROVE UNCHANGED vars
    BY <1>7 DEF workerVars
  <1> QED
    BY <1>1, <1>2, <1>3, <1>4, <1>5, <1>6, <1>7 DEF WorkerNext

\* A failed verification keeps what is known of the referral service, and raises
\* what failures may cost: one more cashback or batch is in reserve.
LEMMA FailureKeeps ==
    ASSUME IInv, Accounts, OneEach, VerificationFails
    PROVE  (IInv /\ Accounts /\ OneEach /\ Reserve)'
  <1> USE DEF VerificationFails, Referring, tables, onboarding, payout
  <1>1. IInv'
    BY CashbackAssumption DEF IInv, TypeOK, CallsKnowTheirRows, HandsAreProcessing,
       OneHolder, Holds, PaidSoFar, PaidAtMostOnce, SettledIsTrue, NoFalseNews
  <1>2. Unrewarded' = Unrewarded /\ Stranded' = Stranded
    BY DEF Unrewarded, Stranded
  <1>3. LossBounded'
    <2>1. Cardinality(Unrewarded) \in Nat /\ Cardinality(Stranded) \in Nat
      BY Counts DEF IInv, Accounts
    <2>2. /\ Cardinality(Unrewarded') <= Cardinality(Unrewarded) + 1
          /\ Cardinality(Stranded') <= Cardinality(Stranded)
      BY <1>2, <2>1
    <2> QED
      BY <1>2, <2>1, <2>2, Priced DEF IInv
  <1>4. \A p \in Payer : Hand(p)' = Hand(p)
    BY DEF Hand
  <1>5. Reserve'
    BY <1>2, Raised DEF IInv
  <1>6. Accounts'
    BY <1>3, <1>4 DEF Accounts
  <1>7. OneEach'
    BY DEF OneEach, Cashbacks, Inserting
  <1> QED
    BY <1>1, <1>5, <1>6, <1>7

\* What the referral service promises holds of the composition, whatever the
\* verifications of the worker do.
THEOREM WorkerInvariance == WorkerSpec => [](IInv /\ Accounts /\ OneEach)
  <1>1. WorkerInit => IInv /\ Accounts /\ OneEach
    BY Initial, AccountsBegin, OneEachBegins DEF WorkerInit
  <1>2. IInv /\ Accounts /\ OneEach /\ [WorkerNext]_workerVars => (IInv /\ Accounts /\ OneEach)'
    BY StepsProject, FailureKeeps, Inductive, AccountsKept, OneEachKept
  <1> QED
    BY <1>1, <1>2, PTL DEF WorkerSpec

\* However the worker's verifications overlap, repeat or die and the payout runs
\* overlap with them, no transaction is paid twice.
THEOREM WorkerPaidOnce == WorkerSpec => []PaidAtMostOnce
  <1>1. IInv => PaidAtMostOnce
    BY DEF IInv, PaidSoFar
  <1> QED
    BY <1>1, WorkerInvariance, PTL

\* However they interleave, the referrer is never told an outcome of the cashback
\* that the transaction does not keep.
THEOREM WorkerTrueNews == WorkerSpec => []NoFalseNews
  <1>1. IInv => NoFalseNews
    BY DEF IInv
  <1> QED
    BY <1>1, WorkerInvariance, PTL

\* A worker's verifications earn the referrer at most one cashback for each call
\* that can be under way at a time.
THEOREM WorkerRaceIsBounded == WorkerSpec => []CashbackBounded
  BY WorkerInvariance, OneEachBounds, PTL
-----------------------------------------------------------------------------
(* The verification rows.                                                  *)

\* A row that is skipped says so in both columns.
SkippedRows ==
    /\ method \in [V!Row -> V!Method \cup {"none"}]
    /\ outcome \in [V!Row -> {"Absent", "Failed"} \cup V!Active \cup V!Outcome]
    /\ \A i \in V!Row : outcome[i] = "Skipped" => method[i] = "Skipped"

\* In a step, a skipped row stays skipped or has a document uploaded.
StillSkipped ==
    \A i \in V!Row :
        outcome[i] = "Skipped" => outcome'[i] \in {"Skipped", "Document_Uploaded"}

\* The table's check keeps a write that does not make a skipped row of another
\* method, whichever row the call had read.
LEMMA PutKeeps ==
    ASSUME SkippedRows, NEW i, NEW m, NEW s, V!Put(i, m, s),
           i \in V!Row => m \in V!Method \cup {"none"},
           s \in {"Failed"} \cup V!Active \cup V!Outcome,
           s = "Skipped" => m = "Skipped",
           \/ s \in {"Skipped", "Document_Uploaded"}
           \/ i \in V!Row => m = method[i] \/ outcome[i] = "Absent"
    PROVE  SkippedRows' /\ StillSkipped
  <1>1. CASE i \in V!Row
    BY <1>1 DEF SkippedRows, V!Put, V!SkippedCheck, StillSkipped, V!Active, V!Outcome,
       V!Method
  <1>2. CASE i \notin V!Row
    <2>1. method' = method /\ outcome' = outcome
      BY <1>2 DEF SkippedRows, V!Put
    <2> QED
      BY <2>1 DEF SkippedRows, StillSkipped
  <1> QED
    BY <1>1, <1>2

\* Every step keeps the rows, and no OTP marks a skipped one.
LEMMA SkippedKept ==
    ASSUME SkippedRows, [WorkerNext]_workerVars
    PROVE  SkippedRows' /\ StillSkipped
  <1> DEFINE Kept == SkippedRows' /\ StillSkipped
  <1>1. ASSUME UNCHANGED <<method, outcome>> PROVE Kept
    BY <1>1 DEF SkippedRows, StillSkipped
  <1>2. ASSUME NEW m \in V!Method, NEW s \in V!Active \cup V!Outcome, V!Insert(m, s),
               s = "Skipped" => m = "Skipped"
        PROVE  Kept
    <2>1. PICK i \in V!Row : outcome[i] = "Absent" /\ V!Put(i, m, s)
      BY <1>2 DEF V!Insert
    <2> QED
      BY <1>2, <2>1, PutKeeps
  <1>3. ASSUME NEW c \in Onboarder, V!MarkVerified(c) \/ V!MarkFailed(c) PROVE Kept
    <2>1. \E s \in {"Verified", "Failed"} : V!Put(target[c], method[target[c]], s)
      BY <1>3 DEF V!MarkVerified, V!MarkFailed
    <2>2. target[c] \in V!Row => method[target[c]] \in V!Method \cup {"none"}
      BY DEF SkippedRows
    <2> QED
      BY <2>1, <2>2, PutKeeps DEF V!Outcome
  <1>4. ASSUME NEW c \in Onboarder, V!MarkDocumentUploaded(c) PROVE Kept
    <2>1. \/ V!Insert("Document_Upload", "Document_Uploaded")
          \/ V!Put(target[c], "Document_Upload", "Document_Uploaded")
      BY <1>4 DEF V!MarkDocumentUploaded
    <2> QED
      BY <1>2, <2>1, PutKeeps DEF V!Method, V!Active, V!Outcome
  <1>5. ASSUME NEW c \in Onboarder, V!MarkSkipped(c) PROVE Kept
    <2>1. V!Insert("Skipped", "Skipped") \/ V!Put(target[c], "Skipped", "Skipped")
      BY <1>5 DEF V!MarkSkipped
    <2> QED
      BY <1>2, <2>1, PutKeeps DEF V!Method, V!Active, V!Outcome
  <1>6. ASSUME NEW c \in Onboarder, V!StartAadhaarOTP(c) PROVE Kept
    BY <1>2, <1>6 DEF V!StartAadhaarOTP, V!Method, V!Active, V!Outcome
  <1>7. ASSUME NEW c \in Onboarder, Verify(c) PROVE Kept
    BY <1>1, <1>3, <1>4, <1>5, <1>6, <1>7 DEF Verify, V!VerifyAadhaarOTP, V!UploadDocument,
       V!Skip, V!Read, V!UpdateUserVerificationTier, V!WriteRefused, V!CallFails, V!rows
  <1>8. ASSUME NEW c \in Onboarder,
               \/ CompleteOnboarding(c) \/ NothingDue(c)
               \/ Reward(c) \/ EndReward(c) \/ RewardFails(c)
        PROVE  Kept
    BY <1>1, <1>8 DEF CompleteOnboarding, NothingDue, Reward, EndReward, RewardFails,
       V!CompleteOnboarding, V!CallFails, V!rows, identity
  <1>9. ASSUME (\E r \in Referral : Register(r)) \/ (\E p \in Payer : Pay(p)) PROVE Kept
    BY <1>1, <1>9 DEF Register, Pay, identity
  <1>10. ASSUME UNCHANGED workerVars PROVE Kept
    BY <1>1, <1>10 DEF workerVars, identity
  <1> QED
    BY <1>7, <1>8, <1>9, <1>10 DEF WorkerNext

\* A skipped verification is never recorded as verified or failed by a call that
\* read its row while the OTP was pending, however many calls there are: the
\* table's check refuses the write.
THEOREM SkippedStaysSkipped == WorkerSpec => SkippedIsFinalForOTP
  <1>1. WorkerInit => SkippedRows
    BY DEF WorkerInit, V!Init, SkippedRows
  <1>2. SkippedRows /\ [WorkerNext]_workerVars => SkippedRows' /\ [StillSkipped]_(V!vars)
    BY SkippedKept
  <1>3. WorkerSpec => [][StillSkipped]_(V!vars)
    BY <1>1, <1>2, PTL DEF WorkerSpec
  <1> QED
    BY <1>3 DEF SkippedIsFinalForOTP, V!SkippedIsFinalForOTP, StillSkipped
-----------------------------------------------------------------------------
(* The latest row.                                                         *)

\* A set of rows has a last one.
LEMMA LastRow ==
    ASSUME NEW S, S \subseteq V!Row, S # {}
    PROVE  \E i \in S : \A j \in S : j <= i
  <1> DEFINE R == OpToRel(<, Nat)
             T == {MaxRows - i : i \in S}
  <1>1. V!Row = 1..MaxRows /\ MaxRows \in Nat
    BY VerificationAssumption DEF V!Row
  <1>2. T \subseteq Nat /\ T # {}
    <2>1. \A i \in S : MaxRows - i \in Nat
      BY <1>1
    <2>2. PICK i \in S : TRUE
      OBVIOUS
    <2>3. MaxRows - i \in T
      BY <2>2
    <2> QED
      BY <2>1, <2>3
  <1>3. \A x, y \in Nat : y < x => <<y, x>> \in R
    BY DEF OpToRel
  <1> HIDE DEF R
  <1>4. PICK x \in T : \A y \in T : ~(<<y, x>> \in R)
    <2> HIDE DEF T
    <2> QED
      BY <1>2, NatLessThanWellFounded, WFMin DEF R
  <1>5. PICK i \in S : x = MaxRows - i
    BY <1>4
  <1>6. ASSUME NEW j \in S PROVE j <= i
    <2>1. MaxRows - j \in T
      OBVIOUS
    <2>2. ~(MaxRows - j < MaxRows - i)
      BY <1>2, <1>3, <1>4, <1>5, <2>1
    <2> QED
      BY <1>1, <2>2
  <1> QED
    BY <1>5, <1>6

\* LatestOf is that row, and the only one.
LEMMA LatestIs ==
    ASSUME NEW S, S \subseteq V!Row
    PROVE  /\ S # {} => V!LatestOf(S) \in S /\ \A j \in S : j <= V!LatestOf(S)
           /\ S = {} => V!LatestOf(S) = NoRow
           /\ \A i \in S : (\A j \in S : j <= i) => V!LatestOf(S) = i
  <1>1. CASE S = {}
    BY <1>1 DEF V!LatestOf
  <1>2. CASE S # {}
    <2>1. V!LatestOf(S) \in S /\ \A j \in S : j <= V!LatestOf(S)
      BY <1>2, LastRow DEF V!LatestOf
    <2>2. ASSUME NEW i \in S, \A j \in S : j <= i PROVE V!LatestOf(S) = i
      <3>1. i <= V!LatestOf(S) /\ V!LatestOf(S) <= i
        BY <2>1, <2>2
      <3>2. i \in 1..MaxRows /\ V!LatestOf(S) \in 1..MaxRows
        BY <2>1, <2>2 DEF V!Row
      <3> QED
        BY <3>1, <3>2, VerificationAssumption
    <2> QED
      BY <1>2, <2>1, <2>2
  <1> QED
    BY <1>1, <1>2

\* The row that a call reads, and the row it will write over, exist.
LEMMA RowsRead ==
    /\ V!Latest \in V!Row \cup {NoRow}
    /\ V!TargetOf(V!Latest) \in V!Row \cup {NoRow}
  <1>1. V!Inserted \subseteq V!Row
    BY DEF V!Inserted
  <1>2. V!Latest \in V!Row \cup {NoRow}
    BY <1>1, LatestIs DEF V!Latest
  <1> QED
    BY <1>2 DEF V!TargetOf

-----------------------------------------------------------------------------
(* The reward of an outcome.                                               *)

\* The referral service works for the worker's referral only at the end of a
\* verification.
CallsFit ==
    \A c \in Onboarder : /\ subject[c] \in {None, Own}
                         /\ subject[c] # None => at[c] = "onboard"

OwnCalls == V!TypeOK /\ CallsFit

Rewarded == \E t \in Txn : referralOf[t] = Own

HasOutcome == \E i \in V!Row : outcome[i] \in V!Outcome

\* A referred worker has an outcome and no call is about to see to its cashback.
Lapsed ==
    /\ Own \in registered \ converted
    /\ HasOutcome
    /\ \A c \in Onboarder : at[c] \notin {"tier", "onboard"}

LapseIsPaid == Lapsed => Reserve

\* A step of the composition preserves what is known of the calls.
LEMMA OwnCallsKept ==
    ASSUME IInv, OwnCalls, [WorkerNext]_workerVars
    PROVE  OwnCalls'
  <1> USE CashbackAssumption, VerificationAssumption DEF IInv
  <1> USE DEF tables, onboarding, payout, identity, V!rows, V!calls
  <1>1. ASSUME NEW c \in Onboarder, step[c] = "idle", V!StartAadhaarOTP(c), UNCHANGED
               Referring
        PROVE  OwnCalls'
    <2>1. V!TypeOK'
      BY <1>1 DEF V!StartAadhaarOTP, V!Insert, V!Put, Referring, OwnCalls, V!TypeOK,
         V!Method, V!Active, V!Outcome
    <2>2. CallsFit'
      BY <1>1 DEF V!StartAadhaarOTP, V!Insert, V!Put, Referring, TypeOK, V!TypeOK,
         CallsKnowTheirRows, CallsFit, OwnCalls
    <2> QED
      BY <2>1, <2>2 DEF OwnCalls
  <1>2. ASSUME NEW c \in Onboarder, step[c] = "idle", V!VerifyAadhaarOTP(c), UNCHANGED
               Referring
        PROVE  OwnCalls'
    <2>1. V!TypeOK'
      BY <1>2, RowsRead DEF V!VerifyAadhaarOTP, V!Read, Referring, OwnCalls, V!TypeOK,
         V!Method, V!Active, V!Outcome
    <2>2. CallsFit'
      BY <1>2 DEF V!VerifyAadhaarOTP, V!Read, Referring, TypeOK, V!TypeOK,
         CallsKnowTheirRows, CallsFit, OwnCalls
    <2> QED
      BY <2>1, <2>2 DEF OwnCalls
  <1>3. ASSUME NEW c \in Onboarder, step[c] = "idle", V!UploadDocument(c), UNCHANGED
               Referring
        PROVE  OwnCalls'
    <2>1. V!TypeOK'
      BY <1>3, RowsRead DEF V!UploadDocument, V!Read, Referring, OwnCalls, V!TypeOK,
         V!Method, V!Active, V!Outcome
    <2>2. CallsFit'
      BY <1>3 DEF V!UploadDocument, V!Read, Referring, TypeOK, V!TypeOK,
         CallsKnowTheirRows, CallsFit, OwnCalls
    <2> QED
      BY <2>1, <2>2 DEF OwnCalls
  <1>4. ASSUME NEW c \in Onboarder, step[c] = "idle", V!Skip(c), UNCHANGED Referring
        PROVE  OwnCalls'
    <2>1. V!TypeOK'
      BY <1>4, RowsRead DEF V!Skip, V!Read, Referring, OwnCalls, V!TypeOK, V!Method,
         V!Active, V!Outcome
    <2>2. CallsFit'
      BY <1>4 DEF V!Skip, V!Read, Referring, TypeOK, V!TypeOK, CallsKnowTheirRows,
         CallsFit, OwnCalls
    <2> QED
      BY <2>1, <2>2 DEF OwnCalls
  <1>5. ASSUME NEW c \in Onboarder, step[c] = "idle", V!MarkVerified(c), UNCHANGED
               Referring
        PROVE  OwnCalls'
    <2>1. V!TypeOK'
      BY <1>5 DEF V!MarkVerified, V!Put, V!Written, Referring, OwnCalls, V!TypeOK,
         V!Method, V!Active, V!Outcome
    <2>2. CallsFit'
      BY <1>5 DEF V!MarkVerified, V!Put, V!Written, Referring, TypeOK, V!TypeOK,
         CallsKnowTheirRows, CallsFit, OwnCalls
    <2> QED
      BY <2>1, <2>2 DEF OwnCalls
  <1>6. ASSUME NEW c \in Onboarder, step[c] = "idle", V!MarkFailed(c), UNCHANGED
               Referring
        PROVE  OwnCalls'
    <2>1. V!TypeOK'
      BY <1>6 DEF V!MarkFailed, V!Put, Referring, OwnCalls, V!TypeOK, V!Method,
         V!Active, V!Outcome
    <2>2. CallsFit'
      BY <1>6 DEF V!MarkFailed, V!Put, Referring, TypeOK, V!TypeOK, CallsKnowTheirRows,
         CallsFit, OwnCalls
    <2> QED
      BY <2>1, <2>2 DEF OwnCalls
  <1>7. ASSUME NEW c \in Onboarder, step[c] = "idle", V!MarkDocumentUploaded(c),
               UNCHANGED Referring
        PROVE  OwnCalls'
    <2>1. V!TypeOK'
      BY <1>7 DEF V!MarkDocumentUploaded, V!Insert, V!Put, V!Written, Referring,
         OwnCalls, V!TypeOK, V!Method, V!Active, V!Outcome
    <2>2. CallsFit'
      BY <1>7 DEF V!MarkDocumentUploaded, V!Insert, V!Put, V!Written, Referring, TypeOK,
         V!TypeOK, CallsKnowTheirRows, CallsFit, OwnCalls
    <2> QED
      BY <2>1, <2>2 DEF OwnCalls
  <1>8. ASSUME NEW c \in Onboarder, step[c] = "idle", V!MarkSkipped(c), UNCHANGED
               Referring
        PROVE  OwnCalls'
    <2>1. V!TypeOK'
      BY <1>8 DEF V!MarkSkipped, V!Insert, V!Put, V!Written, Referring, OwnCalls,
         V!TypeOK, V!Method, V!Active, V!Outcome
    <2>2. CallsFit'
      BY <1>8 DEF V!MarkSkipped, V!Insert, V!Put, V!Written, Referring, TypeOK,
         V!TypeOK, CallsKnowTheirRows, CallsFit, OwnCalls
    <2> QED
      BY <2>1, <2>2 DEF OwnCalls
  <1>9. ASSUME NEW c \in Onboarder, step[c] = "idle", V!UpdateUserVerificationTier(c),
               UNCHANGED Referring
        PROVE  OwnCalls'
    <2>1. V!TypeOK'
      BY <1>9 DEF V!UpdateUserVerificationTier, Referring, OwnCalls, V!TypeOK, V!Method,
         V!Active, V!Outcome
    <2>2. CallsFit'
      BY <1>9 DEF V!UpdateUserVerificationTier, Referring, TypeOK, V!TypeOK,
         CallsKnowTheirRows, CallsFit, OwnCalls
    <2> QED
      BY <2>1, <2>2 DEF OwnCalls
  <1>10. ASSUME NEW c \in Onboarder, step[c] = "idle", V!WriteRefused(c), UNCHANGED
               Referring
        PROVE  OwnCalls'
    <2>1. V!TypeOK'
      BY <1>10 DEF V!WriteRefused, V!Leave, Referring, OwnCalls, V!TypeOK, V!Method,
         V!Active, V!Outcome
    <2>2. CallsFit'
      BY <1>10 DEF V!WriteRefused, V!Leave, Referring, TypeOK, V!TypeOK,
         CallsKnowTheirRows, CallsFit, OwnCalls
    <2> QED
      BY <2>1, <2>2 DEF OwnCalls
  <1>11. ASSUME NEW c \in Onboarder, step[c] = "idle", V!CallFails(c), UNCHANGED Referring
        PROVE  OwnCalls'
    <2>1. V!TypeOK'
      BY <1>11 DEF V!CallFails, V!Leave, Referring, OwnCalls, V!TypeOK, V!Method,
         V!Active, V!Outcome
    <2>2. CallsFit'
      BY <1>11 DEF V!CallFails, V!Leave, Referring, TypeOK, V!TypeOK,
         CallsKnowTheirRows, CallsFit, OwnCalls
    <2> QED
      BY <2>1, <2>2 DEF OwnCalls
  <1>12. ASSUME NEW c \in Onboarder, CompleteOnboarding(c)
        PROVE  OwnCalls'
    <2>1. V!TypeOK'
      BY <1>12 DEF CompleteOnboarding, GetReferral, CashbackDue, Referring, OwnCalls,
         V!TypeOK, V!Method, V!Active, V!Outcome
    <2>2. CallsFit'
      BY <1>12 DEF CompleteOnboarding, GetReferral, CashbackDue, Referring, TypeOK,
         V!TypeOK, CallsKnowTheirRows, CallsFit, OwnCalls
    <2> QED
      BY <2>1, <2>2 DEF OwnCalls
  <1>13. ASSUME NEW c \in Onboarder, NothingDue(c)
        PROVE  OwnCalls'
    <2>1. V!TypeOK'
      BY <1>13 DEF NothingDue, CashbackDue, V!CompleteOnboarding, V!Leave, Referring,
         OwnCalls, V!TypeOK, V!Method, V!Active, V!Outcome
    <2>2. CallsFit'
      BY <1>13 DEF NothingDue, CashbackDue, V!CompleteOnboarding, V!Leave, Referring,
         TypeOK, V!TypeOK, CallsKnowTheirRows, CallsFit, OwnCalls
    <2> QED
      BY <2>1, <2>2 DEF OwnCalls
  <1>14. ASSUME NEW c \in Onboarder, MarkReferralConverted(c), UNCHANGED identity
        PROVE  OwnCalls'
    <2>1. V!TypeOK'
      BY <1>14 DEF MarkReferralConverted, Referring, OwnCalls, V!TypeOK, V!Method,
         V!Active, V!Outcome
    <2>2. CallsFit'
      BY <1>14 DEF MarkReferralConverted, Referring, TypeOK, V!TypeOK,
         CallsKnowTheirRows, CallsFit, OwnCalls
    <2> QED
      BY <2>1, <2>2 DEF OwnCalls
  <1>15. ASSUME NEW c \in Onboarder, CreateReferralTransaction(c), UNCHANGED identity
        PROVE  OwnCalls'
    <2>1. V!TypeOK'
      BY <1>15 DEF CreateReferralTransaction, Referring, OwnCalls, V!TypeOK, V!Method,
         V!Active, V!Outcome
    <2>2. CallsFit'
      BY <1>15 DEF CreateReferralTransaction, Referring, TypeOK, V!TypeOK,
         CallsKnowTheirRows, CallsFit, OwnCalls
    <2> QED
      BY <2>1, <2>2 DEF OwnCalls
  <1>16. ASSUME NEW c \in Onboarder, EndReward(c)
        PROVE  OwnCalls'
    <2>1. V!TypeOK'
      BY <1>16 DEF EndReward, NotifyPending, LeaveOnboarding, V!CompleteOnboarding,
         V!Leave, Referring, OwnCalls, V!TypeOK, V!Method, V!Active, V!Outcome
    <2>2. CallsFit'
      BY <1>16 DEF EndReward, NotifyPending, LeaveOnboarding, V!CompleteOnboarding,
         V!Leave, Referring, TypeOK, V!TypeOK, CallsKnowTheirRows, CallsFit, OwnCalls
    <2> QED
      BY <2>1, <2>2 DEF OwnCalls
  <1>17. ASSUME NEW c \in Onboarder, RewardFails(c)
        PROVE  OwnCalls'
    <2>1. V!TypeOK'
      BY <1>17 DEF RewardFails, OnboardingFails, LeaveOnboarding, V!CallFails, V!Leave,
         Referring, OwnCalls, V!TypeOK, V!Method, V!Active, V!Outcome
    <2>2. CallsFit'
      BY <1>17 DEF RewardFails, OnboardingFails, LeaveOnboarding, V!CallFails, V!Leave,
         Referring, TypeOK, V!TypeOK, CallsKnowTheirRows, CallsFit, OwnCalls
    <2> QED
      BY <2>1, <2>2 DEF OwnCalls
  <1>18. ASSUME NEW r \in Referral, Register(r)
        PROVE  OwnCalls'
    <2>1. V!TypeOK'
      BY <1>18 DEF Register, RegisterReferral, Referring, OwnCalls, V!TypeOK, V!Method,
         V!Active, V!Outcome
    <2>2. CallsFit'
      BY <1>18 DEF Register, RegisterReferral, Referring, TypeOK, V!TypeOK,
         CallsKnowTheirRows, CallsFit, OwnCalls
    <2> QED
      BY <2>1, <2>2 DEF OwnCalls
  <1>19. ASSUME NEW p \in Payer, Pay(p)
        PROVE  OwnCalls'
    <2>1. V!TypeOK'
      BY <1>19 DEF Pay, ClaimPending, PayoutStep, StartPayout, FinishRun, Payout, Mark,
         NotifyOutcome, PayoutRunFails, Referring, OwnCalls, V!TypeOK, V!Method,
         V!Active, V!Outcome
    <2>2. CallsFit'
      BY <1>19 DEF Pay, ClaimPending, PayoutStep, StartPayout, FinishRun, Payout, Mark,
         NotifyOutcome, PayoutRunFails, Referring, TypeOK, V!TypeOK, CallsKnowTheirRows,
         CallsFit, OwnCalls
    <2> QED
      BY <2>1, <2>2 DEF OwnCalls
  <1>20. ASSUME UNCHANGED workerVars
        PROVE  OwnCalls'
    <2>1. V!TypeOK'
      BY <1>20 DEF workerVars, vars, Referring, OwnCalls, V!TypeOK, V!Method, V!Active,
         V!Outcome
    <2>2. CallsFit'
      BY <1>20 DEF workerVars, vars, Referring, TypeOK, V!TypeOK, CallsKnowTheirRows,
         CallsFit, OwnCalls
    <2> QED
      BY <2>1, <2>2 DEF OwnCalls
  <1> QED
    BY <1>1, <1>2, <1>3, <1>4, <1>5, <1>6, <1>7, <1>8, <1>9, <1>10, <1>11, <1>12, <1>13,
       <1>14, <1>15, <1>16, <1>17, <1>18, <1>19, <1>20 DEF WorkerNext, Verify, Reward

\* The initial states satisfy it.
LEMMA OwnCallsBegin == WorkerInit => OwnCalls
  <1> SUFFICES ASSUME WorkerInit PROVE OwnCalls
    OBVIOUS
  <1>1. V!TypeOK
    BY VerificationAssumption, CashbackAssumption DEF WorkerInit, V!Init, V!TypeOK
  <1>2. \A c \in Onboarder : subject[c] = None
    BY DEF WorkerInit, Init
  <1> QED
    BY <1>1, <1>2 DEF OwnCalls, CallsFit

\* A step of the composition that the referral service does not pay for leaves no
\* outcome without a call for its cashback: the call that wrote it goes on to
\* CompleteOnboarding, and leaves only behind a converted referral or by a failure.
LEMMA LapsePaid ==
    ASSUME IInv, Accounts, OneEach, OwnCalls, LapseIsPaid, [WorkerNext]_workerVars
    PROVE  LapseIsPaid'
  <1> USE CashbackAssumption, VerificationAssumption
  <1> USE DEF tables, onboarding, payout, identity, V!rows, V!calls
  <1> DEFINE Stays == Lapsed' => Lapsed
  <1>0. TypeOK /\ CallsKnowTheirRows /\ V!TypeOK /\ CallsFit
    BY DEF IInv, OwnCalls
  <1>1. ASSUME NEW c \in Onboarder, V!StartAadhaarOTP(c), UNCHANGED Referring
        PROVE  Stays
    BY <1>0, <1>1 DEF V!StartAadhaarOTP, V!Insert, V!Put, Referring, Lapsed, HasOutcome,
       V!TypeOK, V!Method, V!Active, V!Outcome
  <1>2. ASSUME NEW c \in Onboarder, V!VerifyAadhaarOTP(c), UNCHANGED Referring
        PROVE  Stays
    BY <1>0, <1>2 DEF V!VerifyAadhaarOTP, V!Read, Referring, Lapsed, HasOutcome,
       V!TypeOK, V!Method, V!Active, V!Outcome
  <1>3. ASSUME NEW c \in Onboarder, V!UploadDocument(c), UNCHANGED Referring
        PROVE  Stays
    BY <1>0, <1>3 DEF V!UploadDocument, V!Read, Referring, Lapsed, HasOutcome,
       V!TypeOK, V!Method, V!Active, V!Outcome
  <1>4. ASSUME NEW c \in Onboarder, V!Skip(c), UNCHANGED Referring
        PROVE  Stays
    BY <1>0, <1>4 DEF V!Skip, V!Read, Referring, Lapsed, HasOutcome,
       V!TypeOK, V!Method, V!Active, V!Outcome
  <1>5. ASSUME NEW c \in Onboarder, V!MarkVerified(c), UNCHANGED Referring
        PROVE  Stays
    BY <1>0, <1>5 DEF V!MarkVerified, V!Put, V!Written, Referring, Lapsed, HasOutcome,
       V!TypeOK, V!Method, V!Active, V!Outcome
  <1>6. ASSUME NEW c \in Onboarder, V!MarkFailed(c), UNCHANGED Referring
        PROVE  Stays
    BY <1>0, <1>6 DEF V!MarkFailed, V!Put, Referring, Lapsed, HasOutcome,
       V!TypeOK, V!Method, V!Active, V!Outcome
  <1>7. ASSUME NEW c \in Onboarder, V!MarkDocumentUploaded(c), UNCHANGED Referring
        PROVE  Stays
    BY <1>0, <1>7 DEF V!MarkDocumentUploaded, V!Insert, V!Put, V!Written, Referring, Lapsed, HasOutcome,
       V!TypeOK, V!Method, V!Active, V!Outcome
  <1>8. ASSUME NEW c \in Onboarder, V!MarkSkipped(c), UNCHANGED Referring
        PROVE  Stays
    BY <1>0, <1>8 DEF V!MarkSkipped, V!Insert, V!Put, V!Written, Referring, Lapsed, HasOutcome,
       V!TypeOK, V!Method, V!Active, V!Outcome
  <1>9. ASSUME NEW c \in Onboarder, V!UpdateUserVerificationTier(c), UNCHANGED Referring
        PROVE  Stays
    BY <1>0, <1>9 DEF V!UpdateUserVerificationTier, Referring, Lapsed, HasOutcome,
       V!TypeOK, V!Method, V!Active, V!Outcome
  <1>10. ASSUME NEW c \in Onboarder, V!WriteRefused(c), UNCHANGED Referring
        PROVE  Stays
    BY <1>0, <1>10 DEF V!WriteRefused, V!Leave, Referring, Lapsed, HasOutcome,
       V!TypeOK, V!Method, V!Active, V!Outcome
  <1>11. ASSUME NEW c \in Onboarder, CompleteOnboarding(c)
        PROVE  Stays
    BY <1>0, <1>11 DEF CompleteOnboarding, GetReferral, Lapsed, HasOutcome
  <1>12. ASSUME NEW c \in Onboarder, NothingDue(c)
        PROVE  Stays
    BY <1>0, <1>12 DEF NothingDue, CashbackDue, V!CompleteOnboarding, V!Leave, Referring,
       Lapsed, HasOutcome
  <1>13. ASSUME NEW c \in Onboarder, Reward(c)
        PROVE  Stays
    BY <1>0, <1>13 DEF Reward, MarkReferralConverted, CreateReferralTransaction, Lapsed,
       HasOutcome
  <1>14. ASSUME NEW c \in Onboarder, EndReward(c)
        PROVE  Stays
    <2>1. Own \in converted
      BY <1>0, <1>14 DEF EndReward, NotifyPending, CallsKnowTheirRows, CallsFit, OneEach, TypeOK
    <2> QED
      BY <2>1, <1>14 DEF EndReward, NotifyPending, Lapsed
  <1>15. ASSUME NEW r \in Referral, Register(r)
        PROVE  Stays
    BY <1>15 DEF Register, RegisterReferral, Lapsed, HasOutcome, V!Inserted, V!Outcome
  <1>16. ASSUME NEW p \in Payer, Pay(p)
        PROVE  Stays
    BY <1>16 DEF Pay, ClaimPending, PayoutStep, StartPayout, FinishRun, Payout, Mark,
       NotifyOutcome, PayoutRunFails, Lapsed, HasOutcome
  <1>17. ASSUME UNCHANGED workerVars
        PROVE  Stays
    BY <1>17 DEF workerVars, vars, Lapsed, HasOutcome
  <1>18. ASSUME NEW c \in Onboarder, RewardFails(c), Lapsed'
        PROVE  Reserve'
    <2>1. subject[c] = Own /\ Own \notin converted
      BY <1>0, <1>18 DEF RewardFails, OnboardingFails, CallsKnowTheirRows, CallsFit, Lapsed
    <2>2. Unrewarded' = Unrewarded /\ Stranded' = Stranded
      BY <1>0, <2>1, <1>18
         DEF RewardFails, OnboardingFails, LeaveOnboarding, Unrewarded, Stranded, TypeOK
    <2>3. faults' = faults + 1
      BY <1>18 DEF RewardFails, OnboardingFails
    <2> QED
      BY <1>0, <2>2, <2>3, Raised
  <1>19. ASSUME NEW c \in Onboarder, V!CallFails(c), UNCHANGED Referring
        PROVE  Reserve'
    BY <1>19, FailureKeeps DEF V!CallFails, VerificationFails
  <1>20. ASSUME Lapsed PROVE Reserve'
    BY <1>20, StepsProject, FailureKeeps, AccountsKept DEF LapseIsPaid
  <1> HIDE DEF Stays
  <1>21. Stays \/ (Lapsed' => Reserve')
    BY <1>1, <1>2, <1>3, <1>4, <1>5, <1>6, <1>7, <1>8, <1>9, <1>10, <1>11, <1>12, <1>13,
       <1>14, <1>15, <1>16, <1>17, <1>18, <1>19 DEF WorkerNext, Verify
  <1> QED
    BY <1>20, <1>21 DEF LapseIsPaid, Stays

\* OutcomeIsRewarded, for any number of calls, rows, payout runs and failures:
\* whichever call has read what in between, a failure is the only reason why a
\* referred worker with an outcome has not earned the referrer a cashback, and it is
\* a failure that has cost nothing else.
THEOREM WorkerOutcomeIsRewarded == WorkerSpec => []OutcomeIsRewarded
  <1>1. WorkerInit => OwnCalls /\ LapseIsPaid
    <2>1. WorkerInit => ~HasOutcome
      BY DEF WorkerInit, V!Init, HasOutcome, V!Outcome
    <2> QED
      BY <2>1, OwnCallsBegin DEF LapseIsPaid, Lapsed
  <1>2. IInv /\ Accounts /\ LapseIsPaid => OutcomeIsRewarded
    <2> SUFFICES ASSUME IInv, Accounts, LapseIsPaid PROVE OutcomeIsRewarded
      OBVIOUS
    <2>1. CASE Unreached
      <3>1. Reserve
        BY <2>1 DEF Unreached, Settled, LapseIsPaid, Lapsed, HasOutcome, V!LastOutcome,
           V!LatestOf
      <3>2. Forgone = Unrewarded \cup {Own}
        BY <2>1 DEF Forgone
      <3>3. /\ IsFiniteSet(Unrewarded)
            /\ Cardinality(Unrewarded) \in Nat /\ Cardinality(Stranded) \in Nat
        BY Counts DEF IInv, Accounts
      <3>4. Cardinality(Forgone) \in Nat /\ Cardinality(Forgone) <= Cardinality(Unrewarded) + 1
        <4>1. /\ IsFiniteSet(Unrewarded \cup {Own})
              /\ Cardinality(Unrewarded \cup {Own}) =
                     IF Own \in Unrewarded THEN Cardinality(Unrewarded)
                                           ELSE Cardinality(Unrewarded) + 1
          BY <3>3, FS_AddElement
        <4> QED
          BY <3>2, <3>3, <4>1
      <3>5. /\ BatchSize * Cardinality(Forgone) <= BatchSize * (Cardinality(Unrewarded) + 1)
            /\ BatchSize * (Cardinality(Unrewarded) + 1) =
                  BatchSize * Cardinality(Unrewarded) + BatchSize
            /\ BatchSize * Cardinality(Forgone) \in Nat
            /\ BatchSize * Cardinality(Unrewarded) \in Nat
            /\ BatchSize * faults \in Nat
        BY <3>3, <3>4, Product, CashbackAssumption DEF IInv, TypeOK
      <3> DEFINE x == BatchSize * Cardinality(Forgone)
                 y == BatchSize * Cardinality(Unrewarded)
                 z == BatchSize * faults
      <3>6. y + Cardinality(Stranded) + BatchSize <= z
        BY <3>1 DEF Reserve
      <3>7. x <= y + BatchSize
        BY <3>5
      <3>8. x + Cardinality(Stranded) <= z
        <4> HIDE DEF x, y, z
        <4> QED
          BY <3>3, <3>5, <3>6, <3>7, CashbackAssumption DEF x, y, z
      <3> QED
        BY <3>8 DEF OutcomeIsRewarded
    <2>2. CASE ~Unreached
      BY <2>2 DEF Forgone, Accounts, LossBounded, OutcomeIsRewarded
    <2> QED
      BY <2>1, <2>2
  <1> QED
    BY <1>1, <1>2, WorkerInvariance, OwnCallsKept, LapsePaid, PTL DEF WorkerSpec

-----------------------------------------------------------------------------
(* Calls that come one after the other.                                    *)

\* A row is inserted after the others.
RowsInOrder ==
    \A i, j \in V!Row : j < i /\ outcome[i] # "Absent" => outcome[j] # "Absent"

\* The row that a call has read is still the latest, and as the call has found it.
ReadInTurn ==
    \A c \in Onboarder :
        /\ at[c] = "verify" => /\ target[c] \in V!Row /\ target[c] = V!Latest
                               /\ outcome[target[c]] = "OTP_Sent"
        /\ at[c] \in {"upload", "skip"} => target[c] = V!TargetOf(V!Latest)

\* The tier of the last outcome, if there is one.
Best == V!OutcomeTier[outcome[V!LastOutcome]]

\* The tier is the one of the last outcome, or a call will write it.
TierInTurn ==
    faults = 0 /\ V!LastOutcome # NoRow =>
        \/ \E c \in Onboarder : at[c] = "tier" /\ result[c] = Best
        \/ (\A c \in Onboarder : at[c] # "tier") /\ tier = Best

\* A cashback is inserted after the conversion, by a call that found none.
CashbackInTurn ==
    /\ OneCashbackPerReferral
    /\ \A t \in Txn : referralOf[t] \in {None, Own}
    /\ Rewarded => Own \in converted
    /\ \A c \in Onboarder :
          /\ step[c] \in {"convert", "insert"} => ~Rewarded
          /\ step[c] = "insert" => Own \in converted

OneCall == \A c, d \in Onboarder : Busy(c) /\ Busy(d) => c = d

InTurn ==
    /\ OneCall
    /\ RowsInOrder /\ V!ActiveIsLatest /\ ReadInTurn
    /\ TierInTurn
    /\ CashbackInTurn

\* The history variable sees every step of a call beside another one that waits.
LEMMA Alone ==
    ASSUME NEW c \in Onboarder, MCNext, ~overlapped', Called,
           \A d \in Onboarder : d # c => Waits(d)
    PROVE  \A d \in Onboarder : d # c => at[d] = "idle"
  BY DEF MCNext, Busy

\* Without a write the latest row, and the last outcome, are what they were.
LEMMA RowsSame ==
    ASSUME outcome' = outcome
    PROVE  /\ V!Latest' = V!Latest /\ V!LastOutcome' = V!LastOutcome /\ Best' = Best
           /\ V!TargetOf(V!Latest)' = V!TargetOf(V!Latest)
           /\ V!ActiveIsLatest => V!ActiveIsLatest'
           /\ RowsInOrder => RowsInOrder'
  <1>1. V!Latest' = V!Latest /\ V!LastOutcome' = V!LastOutcome
    BY DEF V!Latest, V!LastOutcome, V!Inserted
  <1> QED
    BY <1>1 DEF Best, V!TargetOf, V!ActiveIsLatest, RowsInOrder

\* A write to the latest row, or to a new one behind it, makes it the latest; its
\* status is the last outcome if it is one, and the last outcome is untouched if
\* neither the old status nor the new one is.
LEMMA RowWritten ==
    ASSUME V!TypeOK, RowsInOrder, V!ActiveIsLatest,
           NEW i \in V!Row, NEW m, NEW s, V!Put(i, m, s), s # "Absent",
           \/ i = V!Latest
           \/ /\ outcome[i] = "Absent"
              /\ \A j \in V!Row : j < i => outcome[j] # "Absent"
              /\ s \in V!Active \/ \A j \in V!Row : outcome[j] \notin V!Active
    PROVE  /\ RowsInOrder' /\ V!ActiveIsLatest'
           /\ V!Latest' = i /\ outcome'[i] = s
           /\ s \in V!Outcome => V!LastOutcome' = i
           /\ s \notin V!Outcome /\ outcome[i] \notin V!Outcome =>
                 V!LastOutcome' = V!LastOutcome /\ (V!LastOutcome # NoRow => Best' = Best)
  <1>1. outcome' = [outcome EXCEPT ![i] = s] /\ outcome'[i] = s
    BY DEF V!Put, V!TypeOK
  <1>2. V!Inserted \subseteq V!Row /\ V!Inserted' \subseteq V!Row
    BY DEF V!Inserted
  <1>3. \A j \in V!Row : outcome[j] # "Absent" => j <= i
    <2>1. CASE i = V!Latest
      BY <1>2, <2>1, LatestIs DEF V!Latest, V!Inserted
    <2>2. CASE outcome[i] = "Absent"
      BY <2>2, VerificationAssumption DEF RowsInOrder, V!Row
    <2> QED
      BY <2>1, <2>2
  <1>4. \A j \in V!Row : j < i => outcome[j] # "Absent"
    <2>1. CASE i = V!Latest
      <3>1. i \in V!Inserted
        BY <1>2, <2>1, LatestIs, VerificationAssumption DEF V!Latest, V!Row
      <3> QED
        BY <3>1 DEF RowsInOrder, V!Inserted
    <2> QED
      BY <2>1
  <1>5. \A j \in V!Inserted' : j <= i
    BY <1>1, <1>3, VerificationAssumption DEF V!Inserted, V!Row, V!TypeOK
  <1>6. i \in V!Inserted'
    BY <1>1 DEF V!Inserted
  <1>7. V!Latest' = i
    BY <1>2, <1>5, <1>6, LatestIs DEF V!Latest
  <1>8. RowsInOrder'
    BY <1>1, <1>3, <1>4, VerificationAssumption DEF RowsInOrder, V!Row, V!TypeOK
  <1>9. V!ActiveIsLatest'
    BY <1>1, <1>7 DEF V!ActiveIsLatest, V!Put, V!OneActivePerUser, V!TypeOK
  <1> DEFINE O == {j \in V!Row : outcome[j] \in V!Outcome}
             P == {j \in V!Row : outcome'[j] \in V!Outcome}
  <1>10. V!LastOutcome = V!LatestOf(O) /\ V!LastOutcome' = V!LatestOf(P)
    BY DEF V!LastOutcome
  <1>11. ASSUME s \in V!Outcome PROVE V!LastOutcome' = i
    <2>1. i \in P /\ \A j \in P : j <= i
      BY <1>1, <1>3, <1>11, VerificationAssumption DEF V!Row, V!TypeOK, V!Outcome
    <2> QED
      BY <1>10, <2>1, LatestIs
  <1>12. ASSUME s \notin V!Outcome, outcome[i] \notin V!Outcome
         PROVE  V!LastOutcome' = V!LastOutcome /\ (V!LastOutcome # NoRow => Best' = Best)
    <2>1. P = O /\ i \notin O /\ O \subseteq V!Row
      BY <1>1, <1>12 DEF V!TypeOK
    <2>2. V!LastOutcome # NoRow => V!LastOutcome \in O
      BY <1>10, <2>1, LatestIs
    <2>3. V!LastOutcome # NoRow => outcome'[V!LastOutcome] = outcome[V!LastOutcome]
      BY <1>1, <2>1, <2>2 DEF V!TypeOK
    <2>4. V!LastOutcome' = V!LastOutcome
      BY <1>10, <2>1
    <2> QED
      BY <2>3, <2>4 DEF Best
  <1> QED
    BY <1>1, <1>7, <1>8, <1>9, <1>11, <1>12

\* A step of the composition keeps what is known of calls in turn, as long as they are.
LEMMA InTurnKept ==
    ASSUME IInv, OwnCalls, ~overlapped => InTurn, [MCNext]_<<workerVars, overlapped>>
    PROVE  ~overlapped' => InTurn'
  <1> USE CashbackAssumption, VerificationAssumption DEF IInv
  <1> USE DEF tables, onboarding, payout, identity, V!rows, V!calls
  <1> SUFFICES ASSUME ~overlapped' PROVE InTurn'
    OBVIOUS
  <1>0. ~overlapped /\ InTurn
    <2>1. CASE MCNext
      BY <2>1 DEF MCNext
    <2>2. CASE UNCHANGED <<workerVars, overlapped>>
      BY <2>2
    <2> QED
      BY <2>1, <2>2
  <1>1. ASSUME NEW c \in Onboarder, step[c] = "idle", V!StartAadhaarOTP(c), UNCHANGED
               Referring, MCNext
        PROVE  InTurn'
    <2>1. \A d \in Onboarder : d # c =>
           at[d] = "idle" /\ at'[d] = "idle" /\ step'[d] = step[d]
      <3>1. \A d \in Onboarder : d # c => Waits(d)
        BY <1>1 DEF V!StartAadhaarOTP, V!Insert, V!Put, Referring, Waits, TypeOK,
           OwnCalls, V!TypeOK
      <3>2. Called
        BY <1>1 DEF V!StartAadhaarOTP, V!Insert, V!Put, Referring, Called, TypeOK,
           OwnCalls, V!TypeOK
      <3> QED
        BY <1>1, <3>1, <3>2, Alone DEF Waits
    <2>2. PICK i \in V!Row : /\ outcome[i] = "Absent" /\ V!Put(i, "Aadhaar_OTP", "OTP_Sent")
                            /\ \A j \in V!Row : j < i => outcome[j] # "Absent"
      BY <1>1 DEF V!StartAadhaarOTP, V!Insert
    <2>3. /\ RowsInOrder' /\ V!ActiveIsLatest'
          /\ V!LastOutcome' = V!LastOutcome /\ (V!LastOutcome # NoRow => Best' = Best)
      BY <1>0, <2>2, RowWritten DEF InTurn, OwnCalls, V!Active, V!Outcome
    <2>4. OneCall'
      BY <1>1, <1>0, <2>1 DEF V!StartAadhaarOTP, InTurn, OneCall, Busy, OwnCalls, V!TypeOK
    <2>5. ReadInTurn'
      BY <1>1, <1>0, <2>1 DEF V!StartAadhaarOTP, InTurn, ReadInTurn, OwnCalls, V!TypeOK
    <2>6. TierInTurn'
      BY <1>1, <1>0, <2>1, <2>3
         DEF V!StartAadhaarOTP, InTurn, TierInTurn, OwnCalls, V!TypeOK
    <2>7. CashbackInTurn'
      BY <1>1, <1>0 DEF Referring, InTurn, CashbackInTurn, OneCashbackPerReferral, Rewarded
    <2> QED
      BY <2>3, <2>4, <2>5, <2>6, <2>7 DEF InTurn
  <1>2. ASSUME NEW c \in Onboarder, step[c] = "idle", V!VerifyAadhaarOTP(c), UNCHANGED
               Referring, MCNext
        PROVE  InTurn'
    <2>1. \A d \in Onboarder : d # c =>
           at[d] = "idle" /\ at'[d] = "idle" /\ step'[d] = step[d]
      <3>1. \A d \in Onboarder : d # c => Waits(d)
        BY <1>2 DEF V!VerifyAadhaarOTP, V!Read, Referring, Waits, TypeOK, OwnCalls,
           V!TypeOK
      <3>2. Called
        BY <1>2 DEF V!VerifyAadhaarOTP, V!Read, Referring, Called, TypeOK, OwnCalls,
           V!TypeOK
      <3> QED
        BY <1>2, <3>1, <3>2, Alone DEF Waits
    <2>2. /\ V!Latest' = V!Latest /\ V!LastOutcome' = V!LastOutcome /\ Best' = Best
          /\ V!TargetOf(V!Latest)' = V!TargetOf(V!Latest)
          /\ V!ActiveIsLatest' /\ RowsInOrder'
      BY <1>2, <1>0, RowsSame DEF V!VerifyAadhaarOTP, V!Read, Referring, InTurn
    <2>3. OneCall'
      BY <1>2, <1>0, <2>1 DEF V!VerifyAadhaarOTP, V!Read, Referring, InTurn, OneCall,
         Busy, OwnCalls, V!TypeOK
    <2>4. ReadInTurn'
      BY <1>2, <1>0, <2>2, <2>1, RowsRead DEF V!VerifyAadhaarOTP, V!Read, Referring,
         InTurn, ReadInTurn, OwnCalls, V!TypeOK
    <2>5. TierInTurn'
      BY <1>2, <1>0, <2>2, <2>1 DEF V!VerifyAadhaarOTP, V!Read, Referring, InTurn,
         TierInTurn, OwnCalls, V!TypeOK, TypeOK
    <2>6. CashbackInTurn'
      BY <1>2, <1>0, <2>1 DEF V!VerifyAadhaarOTP, V!Read, Referring, InTurn,
         CashbackInTurn, OneCashbackPerReferral, Rewarded, OwnCalls, CallsFit, V!TypeOK,
         TypeOK, CallsKnowTheirRows
    <2> QED
      BY <2>2, <2>3, <2>4, <2>5, <2>6 DEF InTurn
  <1>3. ASSUME NEW c \in Onboarder, step[c] = "idle", V!UploadDocument(c), UNCHANGED
               Referring, MCNext
        PROVE  InTurn'
    <2>1. \A d \in Onboarder : d # c =>
           at[d] = "idle" /\ at'[d] = "idle" /\ step'[d] = step[d]
      <3>1. \A d \in Onboarder : d # c => Waits(d)
        BY <1>3 DEF V!UploadDocument, V!Read, Referring, Waits, TypeOK, OwnCalls,
           V!TypeOK
      <3>2. Called
        BY <1>3 DEF V!UploadDocument, V!Read, Referring, Called, TypeOK, OwnCalls,
           V!TypeOK
      <3> QED
        BY <1>3, <3>1, <3>2, Alone DEF Waits
    <2>2. /\ V!Latest' = V!Latest /\ V!LastOutcome' = V!LastOutcome /\ Best' = Best
          /\ V!TargetOf(V!Latest)' = V!TargetOf(V!Latest)
          /\ V!ActiveIsLatest' /\ RowsInOrder'
      BY <1>3, <1>0, RowsSame DEF V!UploadDocument, V!Read, Referring, InTurn
    <2>3. OneCall'
      BY <1>3, <1>0, <2>1 DEF V!UploadDocument, V!Read, Referring, InTurn, OneCall,
         Busy, OwnCalls, V!TypeOK
    <2>4. ReadInTurn'
      BY <1>3, <1>0, <2>2, <2>1 DEF V!UploadDocument, V!Read, Referring, InTurn,
         ReadInTurn, OwnCalls, V!TypeOK
    <2>5. TierInTurn'
      BY <1>3, <1>0, <2>2, <2>1 DEF V!UploadDocument, V!Read, Referring, InTurn,
         TierInTurn, OwnCalls, V!TypeOK, TypeOK
    <2>6. CashbackInTurn'
      BY <1>3, <1>0, <2>1 DEF V!UploadDocument, V!Read, Referring, InTurn,
         CashbackInTurn, OneCashbackPerReferral, Rewarded, OwnCalls, CallsFit, V!TypeOK,
         TypeOK, CallsKnowTheirRows
    <2> QED
      BY <2>2, <2>3, <2>4, <2>5, <2>6 DEF InTurn
  <1>4. ASSUME NEW c \in Onboarder, step[c] = "idle", V!Skip(c), UNCHANGED Referring,
               MCNext
        PROVE  InTurn'
    <2>1. \A d \in Onboarder : d # c =>
           at[d] = "idle" /\ at'[d] = "idle" /\ step'[d] = step[d]
      <3>1. \A d \in Onboarder : d # c => Waits(d)
        BY <1>4 DEF V!Skip, V!Read, Referring, Waits, TypeOK, OwnCalls, V!TypeOK
      <3>2. Called
        BY <1>4 DEF V!Skip, V!Read, Referring, Called, TypeOK, OwnCalls, V!TypeOK
      <3> QED
        BY <1>4, <3>1, <3>2, Alone DEF Waits
    <2>2. /\ V!Latest' = V!Latest /\ V!LastOutcome' = V!LastOutcome /\ Best' = Best
          /\ V!TargetOf(V!Latest)' = V!TargetOf(V!Latest)
          /\ V!ActiveIsLatest' /\ RowsInOrder'
      BY <1>4, <1>0, RowsSame DEF V!Skip, V!Read, Referring, InTurn
    <2>3. OneCall'
      BY <1>4, <1>0, <2>1 DEF V!Skip, V!Read, Referring, InTurn, OneCall, Busy,
         OwnCalls, V!TypeOK
    <2>4. ReadInTurn'
      BY <1>4, <1>0, <2>2, <2>1 DEF V!Skip, V!Read, Referring, InTurn, ReadInTurn,
         OwnCalls, V!TypeOK
    <2>5. TierInTurn'
      BY <1>4, <1>0, <2>2, <2>1 DEF V!Skip, V!Read, Referring, InTurn, TierInTurn,
         OwnCalls, V!TypeOK, TypeOK
    <2>6. CashbackInTurn'
      BY <1>4, <1>0, <2>1 DEF V!Skip, V!Read, Referring, InTurn, CashbackInTurn,
         OneCashbackPerReferral, Rewarded, OwnCalls, CallsFit, V!TypeOK, TypeOK,
         CallsKnowTheirRows
    <2> QED
      BY <2>2, <2>3, <2>4, <2>5, <2>6 DEF InTurn
  <1>5. ASSUME NEW c \in Onboarder, step[c] = "idle", V!MarkVerified(c), UNCHANGED
               Referring, MCNext
        PROVE  InTurn'
    <2>1. \A d \in Onboarder : d # c =>
           at[d] = "idle" /\ at'[d] = "idle" /\ step'[d] = step[d]
      <3>1. \A d \in Onboarder : d # c => Waits(d)
        BY <1>5 DEF V!MarkVerified, V!Put, V!Written, Referring, Waits, TypeOK,
           OwnCalls, V!TypeOK
      <3>2. Called
        BY <1>5 DEF V!MarkVerified, V!Put, V!Written, Referring, Called, TypeOK,
           OwnCalls, V!TypeOK
      <3> QED
        BY <1>5, <3>1, <3>2, Alone DEF Waits
    <2>2. /\ target[c] \in V!Row /\ target[c] = V!Latest
          /\ V!Put(target[c], method[target[c]], "Verified")
      BY <1>5, <1>0 DEF V!MarkVerified, InTurn, ReadInTurn
    <2>3. /\ RowsInOrder' /\ V!ActiveIsLatest'
          /\ outcome'[V!LastOutcome'] = "Verified"
      BY <1>0, <2>2, RowWritten DEF InTurn, OwnCalls, V!Outcome
    <2>4. OneCall'
      BY <1>5, <1>0, <2>1
         DEF V!MarkVerified, V!Written, InTurn, OneCall, Busy, OwnCalls, V!TypeOK
    <2>5. ReadInTurn'
      BY <1>5, <1>0, <2>1
         DEF V!MarkVerified, V!Written, InTurn, ReadInTurn, OwnCalls, V!TypeOK
    <2>6. TierInTurn'
      BY <1>5, <1>0, <2>1, <2>3
         DEF V!MarkVerified, V!Written, InTurn, TierInTurn, Best, V!OutcomeTier, OwnCalls,
             V!TypeOK
    <2>7. CashbackInTurn'
      BY <1>5, <1>0 DEF Referring, InTurn, CashbackInTurn, OneCashbackPerReferral, Rewarded
    <2> QED
      BY <2>3, <2>4, <2>5, <2>6, <2>7 DEF InTurn
  <1>6. ASSUME NEW c \in Onboarder, step[c] = "idle", V!MarkFailed(c), UNCHANGED
               Referring, MCNext
        PROVE  InTurn'
    <2>1. \A d \in Onboarder : d # c =>
           at[d] = "idle" /\ at'[d] = "idle" /\ step'[d] = step[d]
      <3>1. \A d \in Onboarder : d # c => Waits(d)
        BY <1>6 DEF V!MarkFailed, V!Put, Referring, Waits, TypeOK, OwnCalls, V!TypeOK
      <3>2. Called
        BY <1>6 DEF V!MarkFailed, V!Put, Referring, Called, TypeOK, OwnCalls, V!TypeOK
      <3> QED
        BY <1>6, <3>1, <3>2, Alone DEF Waits
    <2>2. /\ target[c] \in V!Row /\ target[c] = V!Latest /\ outcome[target[c]] = "OTP_Sent"
          /\ V!Put(target[c], method[target[c]], "Failed")
      BY <1>6, <1>0 DEF V!MarkFailed, InTurn, ReadInTurn
    <2>3. /\ RowsInOrder' /\ V!ActiveIsLatest'
          /\ V!LastOutcome' = V!LastOutcome /\ (V!LastOutcome # NoRow => Best' = Best)
      BY <1>0, <2>2, RowWritten DEF InTurn, OwnCalls, V!Outcome
    <2>4. OneCall'
      BY <1>6, <1>0, <2>1 DEF V!MarkFailed, InTurn, OneCall, Busy, OwnCalls, V!TypeOK
    <2>5. ReadInTurn'
      BY <1>6, <1>0, <2>1 DEF V!MarkFailed, InTurn, ReadInTurn, OwnCalls, V!TypeOK
    <2>6. TierInTurn'
      BY <1>6, <1>0, <2>1, <2>3 DEF V!MarkFailed, InTurn, TierInTurn, OwnCalls, V!TypeOK
    <2>7. CashbackInTurn'
      BY <1>6, <1>0 DEF Referring, InTurn, CashbackInTurn, OneCashbackPerReferral, Rewarded
    <2> QED
      BY <2>3, <2>4, <2>5, <2>6, <2>7 DEF InTurn
  <1>7. ASSUME NEW c \in Onboarder, step[c] = "idle", V!MarkDocumentUploaded(c),
               UNCHANGED Referring, MCNext
        PROVE  InTurn'
    <2>1. \A d \in Onboarder : d # c =>
           at[d] = "idle" /\ at'[d] = "idle" /\ step'[d] = step[d]
      <3>1. \A d \in Onboarder : d # c => Waits(d)
        BY <1>7 DEF V!MarkDocumentUploaded, V!Insert, V!Put, V!Written, Referring,
           Waits, TypeOK, OwnCalls, V!TypeOK
      <3>2. Called
        BY <1>7 DEF V!MarkDocumentUploaded, V!Insert, V!Put, V!Written, Referring,
           Called, TypeOK, OwnCalls, V!TypeOK
      <3> QED
        BY <1>7, <3>1, <3>2, Alone DEF Waits
    <2>2. \E i \in V!Row : /\ V!Put(i, "Document_Upload", "Document_Uploaded")
                          /\ \/ i = V!Latest
                             \/ /\ outcome[i] = "Absent"
                                /\ \A j \in V!Row : j < i => outcome[j] # "Absent"
                                /\ \A j \in V!Row : outcome[j] \notin V!Active
      <3>1. target[c] = V!TargetOf(V!Latest)
        BY <1>7, <1>0 DEF V!MarkDocumentUploaded, InTurn, ReadInTurn
      <3>2. CASE target[c] = NoRow
        <4>1. \A j \in V!Row : outcome[j] \notin V!Active
          BY <1>0, <3>1, <3>2 DEF InTurn, V!ActiveIsLatest, V!TargetOf, V!Row
        <4> QED
          BY <1>7, <3>2, <4>1 DEF V!MarkDocumentUploaded, V!Insert
      <3>3. CASE target[c] # NoRow
        BY <1>7, <3>1, <3>3, RowsRead DEF V!MarkDocumentUploaded, V!TargetOf
      <3> QED
        BY <3>2, <3>3
    <2>3. /\ RowsInOrder' /\ V!ActiveIsLatest'
          /\ outcome'[V!LastOutcome'] = "Document_Uploaded"
      BY <1>0, <2>2, RowWritten DEF InTurn, OwnCalls, V!Outcome
    <2>4. OneCall'
      BY <1>7, <1>0, <2>1
         DEF V!MarkDocumentUploaded, V!Written, InTurn, OneCall, Busy, OwnCalls, V!TypeOK
    <2>5. ReadInTurn'
      BY <1>7, <1>0, <2>1
         DEF V!MarkDocumentUploaded, V!Written, InTurn, ReadInTurn, OwnCalls, V!TypeOK
    <2>6. TierInTurn'
      BY <1>7, <1>0, <2>1, <2>3
         DEF V!MarkDocumentUploaded, V!Written, InTurn, TierInTurn, Best, V!OutcomeTier,
             OwnCalls, V!TypeOK
    <2>7. CashbackInTurn'
      BY <1>7, <1>0 DEF Referring, InTurn, CashbackInTurn, OneCashbackPerReferral, Rewarded
    <2> QED
      BY <2>3, <2>4, <2>5, <2>6, <2>7 DEF InTurn
  <1>8. ASSUME NEW c \in Onboarder, step[c] = "idle", V!MarkSkipped(c), UNCHANGED
               Referring, MCNext
        PROVE  InTurn'
    <2>1. \A d \in Onboarder : d # c =>
           at[d] = "idle" /\ at'[d] = "idle" /\ step'[d] = step[d]
      <3>1. \A d \in Onboarder : d # c => Waits(d)
        BY <1>8 DEF V!MarkSkipped, V!Insert, V!Put, V!Written, Referring, Waits, TypeOK,
           OwnCalls, V!TypeOK
      <3>2. Called
        BY <1>8 DEF V!MarkSkipped, V!Insert, V!Put, V!Written, Referring, Called,
           TypeOK, OwnCalls, V!TypeOK
      <3> QED
        BY <1>8, <3>1, <3>2, Alone DEF Waits
    <2>2. \E i \in V!Row : /\ V!Put(i, "Skipped", "Skipped")
                          /\ \/ i = V!Latest
                             \/ /\ outcome[i] = "Absent"
                                /\ \A j \in V!Row : j < i => outcome[j] # "Absent"
                                /\ \A j \in V!Row : outcome[j] \notin V!Active
      <3>1. target[c] = V!TargetOf(V!Latest)
        BY <1>8, <1>0 DEF V!MarkSkipped, InTurn, ReadInTurn
      <3>2. CASE target[c] = NoRow
        <4>1. \A j \in V!Row : outcome[j] \notin V!Active
          BY <1>0, <3>1, <3>2 DEF InTurn, V!ActiveIsLatest, V!TargetOf, V!Row
        <4> QED
          BY <1>8, <3>2, <4>1 DEF V!MarkSkipped, V!Insert
      <3>3. CASE target[c] # NoRow
        BY <1>8, <3>1, <3>3, RowsRead DEF V!MarkSkipped, V!TargetOf
      <3> QED
        BY <3>2, <3>3
    <2>3. /\ RowsInOrder' /\ V!ActiveIsLatest'
          /\ outcome'[V!LastOutcome'] = "Skipped"
      BY <1>0, <2>2, RowWritten DEF InTurn, OwnCalls, V!Outcome
    <2>4. OneCall'
      BY <1>8, <1>0, <2>1
         DEF V!MarkSkipped, V!Written, InTurn, OneCall, Busy, OwnCalls, V!TypeOK
    <2>5. ReadInTurn'
      BY <1>8, <1>0, <2>1
         DEF V!MarkSkipped, V!Written, InTurn, ReadInTurn, OwnCalls, V!TypeOK
    <2>6. TierInTurn'
      BY <1>8, <1>0, <2>1, <2>3
         DEF V!MarkSkipped, V!Written, InTurn, TierInTurn, Best, V!OutcomeTier, OwnCalls,
             V!TypeOK
    <2>7. CashbackInTurn'
      BY <1>8, <1>0 DEF Referring, InTurn, CashbackInTurn, OneCashbackPerReferral, Rewarded
    <2> QED
      BY <2>3, <2>4, <2>5, <2>6, <2>7 DEF InTurn
  <1>9. ASSUME NEW c \in Onboarder, step[c] = "idle", V!UpdateUserVerificationTier(c),
               UNCHANGED Referring, MCNext
        PROVE  InTurn'
    <2>1. \A d \in Onboarder : d # c =>
           at[d] = "idle" /\ at'[d] = "idle" /\ step'[d] = step[d]
      <3>1. \A d \in Onboarder : d # c => Waits(d)
        BY <1>9 DEF V!UpdateUserVerificationTier, Referring, Waits, TypeOK, OwnCalls,
           V!TypeOK
      <3>2. Called
        BY <1>9 DEF V!UpdateUserVerificationTier, Referring, Called, TypeOK, OwnCalls,
           V!TypeOK
      <3> QED
        BY <1>9, <3>1, <3>2, Alone DEF Waits
    <2>2. /\ V!Latest' = V!Latest /\ V!LastOutcome' = V!LastOutcome /\ Best' = Best
          /\ V!TargetOf(V!Latest)' = V!TargetOf(V!Latest)
          /\ V!ActiveIsLatest' /\ RowsInOrder'
      BY <1>9, <1>0, RowsSame DEF V!UpdateUserVerificationTier, Referring, InTurn
    <2>3. OneCall'
      BY <1>9, <1>0, <2>1 DEF V!UpdateUserVerificationTier, Referring, InTurn, OneCall,
         Busy, OwnCalls, V!TypeOK
    <2>4. ReadInTurn'
      BY <1>9, <1>0, <2>2, <2>1 DEF V!UpdateUserVerificationTier, Referring, InTurn,
         ReadInTurn, OwnCalls, V!TypeOK
    <2>5. TierInTurn'
      BY <1>9, <1>0, <2>2, <2>1 DEF V!UpdateUserVerificationTier, Referring, InTurn,
         TierInTurn, OwnCalls, V!TypeOK, TypeOK
    <2>6. CashbackInTurn'
      BY <1>9, <1>0, <2>1 DEF V!UpdateUserVerificationTier, Referring, InTurn,
         CashbackInTurn, OneCashbackPerReferral, Rewarded, OwnCalls, CallsFit, V!TypeOK,
         TypeOK, CallsKnowTheirRows
    <2> QED
      BY <2>2, <2>3, <2>4, <2>5, <2>6 DEF InTurn
  <1>10. ASSUME NEW c \in Onboarder, step[c] = "idle", V!WriteRefused(c), UNCHANGED
               Referring, MCNext
        PROVE  InTurn'
    <2>1. \A d \in Onboarder : d # c =>
           at[d] = "idle" /\ at'[d] = "idle" /\ step'[d] = step[d]
      <3>1. \A d \in Onboarder : d # c => Waits(d)
        BY <1>10 DEF V!WriteRefused, V!Leave, Referring, Waits, TypeOK, OwnCalls,
           V!TypeOK
      <3>2. Called
        BY <1>10 DEF V!WriteRefused, V!Leave, Referring, Called, TypeOK, OwnCalls,
           V!TypeOK
      <3> QED
        BY <1>10, <3>1, <3>2, Alone DEF Waits
    <2>2. /\ V!Latest' = V!Latest /\ V!LastOutcome' = V!LastOutcome /\ Best' = Best
          /\ V!TargetOf(V!Latest)' = V!TargetOf(V!Latest)
          /\ V!ActiveIsLatest' /\ RowsInOrder'
      BY <1>10, <1>0, RowsSame DEF V!WriteRefused, V!Leave, Referring, InTurn
    <2>3. OneCall'
      BY <1>10, <1>0, <2>1 DEF V!WriteRefused, V!Leave, Referring, InTurn, OneCall,
         Busy, OwnCalls, V!TypeOK
    <2>4. ReadInTurn'
      BY <1>10, <1>0, <2>2, <2>1 DEF V!WriteRefused, V!Leave, Referring, InTurn,
         ReadInTurn, OwnCalls, V!TypeOK
    <2>5. TierInTurn'
      BY <1>10, <1>0, <2>2, <2>1 DEF V!WriteRefused, V!Leave, Referring, InTurn,
         TierInTurn, OwnCalls, V!TypeOK, TypeOK
    <2>6. CashbackInTurn'
      BY <1>10, <1>0, <2>1 DEF V!WriteRefused, V!Leave, Referring, InTurn,
         CashbackInTurn, OneCashbackPerReferral, Rewarded, OwnCalls, CallsFit, V!TypeOK,
         TypeOK, CallsKnowTheirRows
    <2> QED
      BY <2>2, <2>3, <2>4, <2>5, <2>6 DEF InTurn
  <1>11. ASSUME NEW c \in Onboarder, step[c] = "idle", V!CallFails(c), UNCHANGED
               Referring, MCNext
        PROVE  InTurn'
    <2>1. \A d \in Onboarder : d # c =>
           at[d] = "idle" /\ at'[d] = "idle" /\ step'[d] = step[d]
      <3>1. \A d \in Onboarder : d # c => Waits(d)
        BY <1>11 DEF V!CallFails, V!Leave, Referring, Waits, TypeOK, OwnCalls, V!TypeOK
      <3>2. Called
        BY <1>11 DEF V!CallFails, V!Leave, Referring, Called, TypeOK, OwnCalls, V!TypeOK
      <3> QED
        BY <1>11, <3>1, <3>2, Alone DEF Waits
    <2>2. /\ V!Latest' = V!Latest /\ V!LastOutcome' = V!LastOutcome /\ Best' = Best
          /\ V!TargetOf(V!Latest)' = V!TargetOf(V!Latest)
          /\ V!ActiveIsLatest' /\ RowsInOrder'
      BY <1>11, <1>0, RowsSame DEF V!CallFails, V!Leave, Referring, InTurn
    <2>3. OneCall'
      BY <1>11, <1>0, <2>1 DEF V!CallFails, V!Leave, Referring, InTurn, OneCall, Busy,
         OwnCalls, V!TypeOK
    <2>4. ReadInTurn'
      BY <1>11, <1>0, <2>2, <2>1 DEF V!CallFails, V!Leave, Referring, InTurn,
         ReadInTurn, OwnCalls, V!TypeOK
    <2>5. TierInTurn'
      BY <1>11, <1>0, <2>2, <2>1 DEF V!CallFails, V!Leave, Referring, InTurn,
         TierInTurn, OwnCalls, V!TypeOK, TypeOK
    <2>6. CashbackInTurn'
      BY <1>11, <1>0, <2>1 DEF V!CallFails, V!Leave, Referring, InTurn, CashbackInTurn,
         OneCashbackPerReferral, Rewarded, OwnCalls, CallsFit, V!TypeOK, TypeOK,
         CallsKnowTheirRows
    <2> QED
      BY <2>2, <2>3, <2>4, <2>5, <2>6 DEF InTurn
  <1>12. ASSUME NEW c \in Onboarder, CompleteOnboarding(c), MCNext
        PROVE  InTurn'
    <2>1. \A d \in Onboarder : d # c =>
           at[d] = "idle" /\ at'[d] = "idle" /\ step'[d] = step[d]
      <3>1. \A d \in Onboarder : d # c => Waits(d)
        BY <1>12 DEF CompleteOnboarding, GetReferral, CashbackDue, Referring, Waits,
           TypeOK, OwnCalls, V!TypeOK
      <3>2. Called
        BY <1>12 DEF CompleteOnboarding, GetReferral, CashbackDue, Referring, Called,
           TypeOK, OwnCalls, V!TypeOK
      <3> QED
        BY <1>12, <3>1, <3>2, Alone DEF Waits
    <2>2. /\ V!Latest' = V!Latest /\ V!LastOutcome' = V!LastOutcome /\ Best' = Best
          /\ V!TargetOf(V!Latest)' = V!TargetOf(V!Latest)
          /\ V!ActiveIsLatest' /\ RowsInOrder'
      BY <1>12, <1>0, RowsSame DEF CompleteOnboarding, GetReferral, CashbackDue,
         Referring, InTurn
    <2>3. OneCall'
      BY <1>12, <1>0, <2>1 DEF CompleteOnboarding, GetReferral, CashbackDue, Referring,
         InTurn, OneCall, Busy, OwnCalls, V!TypeOK
    <2>4. ReadInTurn'
      BY <1>12, <1>0, <2>2, <2>1 DEF CompleteOnboarding, GetReferral, CashbackDue,
         Referring, InTurn, ReadInTurn, OwnCalls, V!TypeOK
    <2>5. TierInTurn'
      BY <1>12, <1>0, <2>2, <2>1 DEF CompleteOnboarding, GetReferral, CashbackDue,
         Referring, InTurn, TierInTurn, OwnCalls, V!TypeOK, TypeOK
    <2>6. CashbackInTurn'
      BY <1>12, <1>0, <2>1 DEF CompleteOnboarding, GetReferral, CashbackDue, Referring,
         InTurn, CashbackInTurn, OneCashbackPerReferral, Rewarded, OwnCalls, CallsFit,
         V!TypeOK, TypeOK, CallsKnowTheirRows
    <2> QED
      BY <2>2, <2>3, <2>4, <2>5, <2>6 DEF InTurn
  <1>13. ASSUME NEW c \in Onboarder, NothingDue(c), MCNext
        PROVE  InTurn'
    <2>1. \A d \in Onboarder : d # c =>
           at[d] = "idle" /\ at'[d] = "idle" /\ step'[d] = step[d]
      <3>1. \A d \in Onboarder : d # c => Waits(d)
        BY <1>13 DEF NothingDue, CashbackDue, V!CompleteOnboarding, V!Leave, Referring,
           Waits, TypeOK, OwnCalls, V!TypeOK
      <3>2. Called
        BY <1>13 DEF NothingDue, CashbackDue, V!CompleteOnboarding, V!Leave, Referring,
           Called, TypeOK, OwnCalls, V!TypeOK
      <3> QED
        BY <1>13, <3>1, <3>2, Alone DEF Waits
    <2>2. /\ V!Latest' = V!Latest /\ V!LastOutcome' = V!LastOutcome /\ Best' = Best
          /\ V!TargetOf(V!Latest)' = V!TargetOf(V!Latest)
          /\ V!ActiveIsLatest' /\ RowsInOrder'
      BY <1>13, <1>0, RowsSame DEF NothingDue, CashbackDue, V!CompleteOnboarding,
         V!Leave, Referring, InTurn
    <2>3. OneCall'
      BY <1>13, <1>0, <2>1 DEF NothingDue, CashbackDue, V!CompleteOnboarding, V!Leave,
         Referring, InTurn, OneCall, Busy, OwnCalls, V!TypeOK
    <2>4. ReadInTurn'
      BY <1>13, <1>0, <2>2, <2>1 DEF NothingDue, CashbackDue, V!CompleteOnboarding,
         V!Leave, Referring, InTurn, ReadInTurn, OwnCalls, V!TypeOK
    <2>5. TierInTurn'
      BY <1>13, <1>0, <2>2, <2>1 DEF NothingDue, CashbackDue, V!CompleteOnboarding,
         V!Leave, Referring, InTurn, TierInTurn, OwnCalls, V!TypeOK, TypeOK
    <2>6. CashbackInTurn'
      BY <1>13, <1>0, <2>1 DEF NothingDue, CashbackDue, V!CompleteOnboarding, V!Leave,
         Referring, InTurn, CashbackInTurn, OneCashbackPerReferral, Rewarded, OwnCalls,
         CallsFit, V!TypeOK, TypeOK, CallsKnowTheirRows
    <2> QED
      BY <2>2, <2>3, <2>4, <2>5, <2>6 DEF InTurn
  <1>14. ASSUME NEW c \in Onboarder, MarkReferralConverted(c), UNCHANGED identity, MCNext
        PROVE  InTurn'
    <2>1. \A d \in Onboarder : d # c =>
           at[d] = "idle" /\ at'[d] = "idle" /\ step'[d] = step[d]
      <3>1. \A d \in Onboarder : d # c => Waits(d)
        BY <1>14 DEF MarkReferralConverted, Referring, Waits, TypeOK, OwnCalls, V!TypeOK
      <3>2. Called
        BY <1>14 DEF MarkReferralConverted, Referring, Called, TypeOK, OwnCalls,
           V!TypeOK
      <3> QED
        BY <1>14, <3>1, <3>2, Alone DEF Waits
    <2>2. /\ V!Latest' = V!Latest /\ V!LastOutcome' = V!LastOutcome /\ Best' = Best
          /\ V!TargetOf(V!Latest)' = V!TargetOf(V!Latest)
          /\ V!ActiveIsLatest' /\ RowsInOrder'
      BY <1>14, <1>0, RowsSame DEF MarkReferralConverted, Referring, InTurn
    <2>3. OneCall'
      BY <1>14, <1>0, <2>1 DEF MarkReferralConverted, Referring, InTurn, OneCall, Busy,
         OwnCalls, V!TypeOK
    <2>4. ReadInTurn'
      BY <1>14, <1>0, <2>2, <2>1 DEF MarkReferralConverted, Referring, InTurn,
         ReadInTurn, OwnCalls, V!TypeOK
    <2>5. TierInTurn'
      BY <1>14, <1>0, <2>2, <2>1 DEF MarkReferralConverted, Referring, InTurn,
         TierInTurn, OwnCalls, V!TypeOK, TypeOK
    <2>6. CashbackInTurn'
      BY <1>14, <1>0, <2>1 DEF MarkReferralConverted, Referring, InTurn, CashbackInTurn,
         OneCashbackPerReferral, Rewarded, OwnCalls, CallsFit, V!TypeOK, TypeOK,
         CallsKnowTheirRows
    <2> QED
      BY <2>2, <2>3, <2>4, <2>5, <2>6 DEF InTurn
  <1>15. ASSUME NEW c \in Onboarder, CreateReferralTransaction(c), UNCHANGED identity,
               MCNext
        PROVE  InTurn'
    <2>1. \A d \in Onboarder : d # c =>
           at[d] = "idle" /\ at'[d] = "idle" /\ step'[d] = step[d]
      <3>1. \A d \in Onboarder : d # c => Waits(d)
        BY <1>15 DEF CreateReferralTransaction, Referring, Waits, TypeOK, OwnCalls,
           V!TypeOK
      <3>2. Called
        BY <1>15 DEF CreateReferralTransaction, Referring, Called, TypeOK, OwnCalls,
           V!TypeOK
      <3> QED
        BY <1>15, <3>1, <3>2, Alone DEF Waits
    <2>2. /\ V!Latest' = V!Latest /\ V!LastOutcome' = V!LastOutcome /\ Best' = Best
          /\ V!TargetOf(V!Latest)' = V!TargetOf(V!Latest)
          /\ V!ActiveIsLatest' /\ RowsInOrder'
      BY <1>15, <1>0, RowsSame DEF CreateReferralTransaction, Referring, InTurn
    <2>3. OneCall'
      BY <1>15, <1>0, <2>1 DEF CreateReferralTransaction, Referring, InTurn, OneCall,
         Busy, OwnCalls, V!TypeOK
    <2>4. ReadInTurn'
      BY <1>15, <1>0, <2>2, <2>1 DEF CreateReferralTransaction, Referring, InTurn,
         ReadInTurn, OwnCalls, V!TypeOK
    <2>5. TierInTurn'
      BY <1>15, <1>0, <2>2, <2>1 DEF CreateReferralTransaction, Referring, InTurn,
         TierInTurn, OwnCalls, V!TypeOK, TypeOK
    <2>6. CashbackInTurn'
      <3>1. PICK t \in Txn : referralOf' = [referralOf EXCEPT ![t] = subject[c]]
        BY <1>15 DEF CreateReferralTransaction
      <3>2. step[c] = "insert" /\ subject[c] = Own /\ converted' = converted
        BY <1>15 DEF CreateReferralTransaction, OwnCalls, CallsFit, CallsKnowTheirRows
      <3>3. \A u \in Txn : referralOf[u] = None
        BY <1>0, <3>2 DEF InTurn, CashbackInTurn, Rewarded
      <3>4. \A u \in Txn : referralOf'[u] = IF u = t THEN Own ELSE None
        BY <3>1, <3>2, <3>3 DEF TypeOK
      <3>5. \A d \in Onboarder : step'[d] \notin {"convert", "insert"}
        BY <1>15, <2>1
           DEF CreateReferralTransaction, TypeOK, OwnCalls, CallsFit, CallsKnowTheirRows
      <3>6. Own \in converted
        BY <1>0, <3>2 DEF InTurn, CashbackInTurn
      <3> QED
        BY <3>2, <3>4, <3>5, <3>6 DEF CashbackInTurn, OneCashbackPerReferral, Rewarded
    <2> QED
      BY <2>2, <2>3, <2>4, <2>5, <2>6 DEF InTurn
  <1>16. ASSUME NEW c \in Onboarder, EndReward(c), MCNext
        PROVE  InTurn'
    <2>1. \A d \in Onboarder : d # c =>
           at[d] = "idle" /\ at'[d] = "idle" /\ step'[d] = step[d]
      <3>1. \A d \in Onboarder : d # c => Waits(d)
        BY <1>16 DEF EndReward, NotifyPending, LeaveOnboarding, V!CompleteOnboarding,
           V!Leave, Referring, Waits, TypeOK, OwnCalls, V!TypeOK
      <3>2. Called
        BY <1>16 DEF EndReward, NotifyPending, LeaveOnboarding, V!CompleteOnboarding,
           V!Leave, Referring, Called, TypeOK, OwnCalls, V!TypeOK
      <3> QED
        BY <1>16, <3>1, <3>2, Alone DEF Waits
    <2>2. /\ V!Latest' = V!Latest /\ V!LastOutcome' = V!LastOutcome /\ Best' = Best
          /\ V!TargetOf(V!Latest)' = V!TargetOf(V!Latest)
          /\ V!ActiveIsLatest' /\ RowsInOrder'
      BY <1>16, <1>0, RowsSame DEF EndReward, NotifyPending, LeaveOnboarding,
         V!CompleteOnboarding, V!Leave, Referring, InTurn
    <2>3. OneCall'
      BY <1>16, <1>0, <2>1 DEF EndReward, NotifyPending, LeaveOnboarding,
         V!CompleteOnboarding, V!Leave, Referring, InTurn, OneCall, Busy, OwnCalls,
         V!TypeOK
    <2>4. ReadInTurn'
      BY <1>16, <1>0, <2>2, <2>1 DEF EndReward, NotifyPending, LeaveOnboarding,
         V!CompleteOnboarding, V!Leave, Referring, InTurn, ReadInTurn, OwnCalls,
         V!TypeOK
    <2>5. TierInTurn'
      BY <1>16, <1>0, <2>2, <2>1 DEF EndReward, NotifyPending, LeaveOnboarding,
         V!CompleteOnboarding, V!Leave, Referring, InTurn, TierInTurn, OwnCalls,
         V!TypeOK, TypeOK
    <2>6. CashbackInTurn'
      BY <1>16, <1>0, <2>1 DEF EndReward, NotifyPending, LeaveOnboarding,
         V!CompleteOnboarding, V!Leave, Referring, InTurn, CashbackInTurn,
         OneCashbackPerReferral, Rewarded, OwnCalls, CallsFit, V!TypeOK, TypeOK,
         CallsKnowTheirRows
    <2> QED
      BY <2>2, <2>3, <2>4, <2>5, <2>6 DEF InTurn
  <1>17. ASSUME NEW c \in Onboarder, RewardFails(c), MCNext
        PROVE  InTurn'
    <2>1. \A d \in Onboarder : d # c =>
           at[d] = "idle" /\ at'[d] = "idle" /\ step'[d] = step[d]
      <3>1. \A d \in Onboarder : d # c => Waits(d)
        BY <1>17 DEF RewardFails, OnboardingFails, LeaveOnboarding, V!CallFails,
           V!Leave, Referring, Waits, TypeOK, OwnCalls, V!TypeOK
      <3>2. Called
        BY <1>17 DEF RewardFails, OnboardingFails, LeaveOnboarding, V!CallFails,
           V!Leave, Referring, Called, TypeOK, OwnCalls, V!TypeOK
      <3> QED
        BY <1>17, <3>1, <3>2, Alone DEF Waits
    <2>2. /\ V!Latest' = V!Latest /\ V!LastOutcome' = V!LastOutcome /\ Best' = Best
          /\ V!TargetOf(V!Latest)' = V!TargetOf(V!Latest)
          /\ V!ActiveIsLatest' /\ RowsInOrder'
      BY <1>17, <1>0, RowsSame DEF RewardFails, OnboardingFails, LeaveOnboarding,
         V!CallFails, V!Leave, Referring, InTurn
    <2>3. OneCall'
      BY <1>17, <1>0, <2>1 DEF RewardFails, OnboardingFails, LeaveOnboarding,
         V!CallFails, V!Leave, Referring, InTurn, OneCall, Busy, OwnCalls, V!TypeOK
    <2>4. ReadInTurn'
      BY <1>17, <1>0, <2>2, <2>1 DEF RewardFails, OnboardingFails, LeaveOnboarding,
         V!CallFails, V!Leave, Referring, InTurn, ReadInTurn, OwnCalls, V!TypeOK
    <2>5. TierInTurn'
      BY <1>17, <1>0, <2>2, <2>1 DEF RewardFails, OnboardingFails, LeaveOnboarding,
         V!CallFails, V!Leave, Referring, InTurn, TierInTurn, OwnCalls, V!TypeOK, TypeOK
    <2>6. CashbackInTurn'
      BY <1>17, <1>0, <2>1 DEF RewardFails, OnboardingFails, LeaveOnboarding,
         V!CallFails, V!Leave, Referring, InTurn, CashbackInTurn,
         OneCashbackPerReferral, Rewarded, OwnCalls, CallsFit, V!TypeOK, TypeOK,
         CallsKnowTheirRows
    <2> QED
      BY <2>2, <2>3, <2>4, <2>5, <2>6 DEF InTurn
  <1>18. ASSUME NEW r \in Referral, Register(r)
        PROVE  InTurn'
    <2>2. /\ V!Latest' = V!Latest /\ V!LastOutcome' = V!LastOutcome /\ Best' = Best
          /\ V!TargetOf(V!Latest)' = V!TargetOf(V!Latest)
          /\ V!ActiveIsLatest' /\ RowsInOrder'
      BY <1>18, <1>0, RowsSame DEF Register, RegisterReferral, Referring, InTurn
    <2>3. OneCall'
      BY <1>18, <1>0 DEF Register, RegisterReferral, Referring, InTurn, OneCall, Busy,
         OwnCalls, V!TypeOK
    <2>4. ReadInTurn'
      BY <1>18, <1>0, <2>2 DEF Register, RegisterReferral, Referring, InTurn,
         ReadInTurn, OwnCalls, V!TypeOK
    <2>5. TierInTurn'
      BY <1>18, <1>0, <2>2 DEF Register, RegisterReferral, Referring, InTurn,
         TierInTurn, OwnCalls, V!TypeOK, TypeOK
    <2>6. CashbackInTurn'
      BY <1>18, <1>0 DEF Register, RegisterReferral, Referring, InTurn, CashbackInTurn,
         OneCashbackPerReferral, Rewarded, OwnCalls, CallsFit, V!TypeOK, TypeOK,
         CallsKnowTheirRows
    <2> QED
      BY <2>2, <2>3, <2>4, <2>5, <2>6 DEF InTurn
  <1>19. ASSUME NEW p \in Payer, Pay(p)
        PROVE  InTurn'
    <2>2. /\ V!Latest' = V!Latest /\ V!LastOutcome' = V!LastOutcome /\ Best' = Best
          /\ V!TargetOf(V!Latest)' = V!TargetOf(V!Latest)
          /\ V!ActiveIsLatest' /\ RowsInOrder'
      BY <1>19, <1>0, RowsSame DEF Pay, ClaimPending, PayoutStep, StartPayout,
         FinishRun, Payout, Mark, NotifyOutcome, PayoutRunFails, Referring, InTurn
    <2>3. OneCall'
      BY <1>19, <1>0 DEF Pay, ClaimPending, PayoutStep, StartPayout, FinishRun, Payout,
         Mark, NotifyOutcome, PayoutRunFails, Referring, InTurn, OneCall, Busy,
         OwnCalls, V!TypeOK
    <2>4. ReadInTurn'
      BY <1>19, <1>0, <2>2 DEF Pay, ClaimPending, PayoutStep, StartPayout, FinishRun,
         Payout, Mark, NotifyOutcome, PayoutRunFails, Referring, InTurn, ReadInTurn,
         OwnCalls, V!TypeOK
    <2>5. TierInTurn'
      BY <1>19, <1>0, <2>2 DEF Pay, ClaimPending, PayoutStep, StartPayout, FinishRun,
         Payout, Mark, NotifyOutcome, PayoutRunFails, Referring, InTurn, TierInTurn,
         OwnCalls, V!TypeOK, TypeOK
    <2>6. CashbackInTurn'
      BY <1>19, <1>0 DEF Pay, ClaimPending, PayoutStep, StartPayout, FinishRun, Payout,
         Mark, NotifyOutcome, PayoutRunFails, Referring, InTurn, CashbackInTurn,
         OneCashbackPerReferral, Rewarded, OwnCalls, CallsFit, V!TypeOK, TypeOK,
         CallsKnowTheirRows
    <2> QED
      BY <2>2, <2>3, <2>4, <2>5, <2>6 DEF InTurn
  <1>20. ASSUME UNCHANGED workerVars
        PROVE  InTurn'
    <2>2. /\ V!Latest' = V!Latest /\ V!LastOutcome' = V!LastOutcome /\ Best' = Best
          /\ V!TargetOf(V!Latest)' = V!TargetOf(V!Latest)
          /\ V!ActiveIsLatest' /\ RowsInOrder'
      BY <1>20, <1>0, RowsSame DEF workerVars, vars, Referring, InTurn
    <2>3. OneCall'
      BY <1>20, <1>0 DEF workerVars, vars, Referring, InTurn, OneCall, Busy, OwnCalls,
         V!TypeOK
    <2>4. ReadInTurn'
      BY <1>20, <1>0, <2>2 DEF workerVars, vars, Referring, InTurn, ReadInTurn,
         OwnCalls, V!TypeOK
    <2>5. TierInTurn'
      BY <1>20, <1>0, <2>2 DEF workerVars, vars, Referring, InTurn, TierInTurn,
         OwnCalls, V!TypeOK, TypeOK
    <2>6. CashbackInTurn'
      BY <1>20, <1>0 DEF workerVars, vars, Referring, InTurn, CashbackInTurn,
         OneCashbackPerReferral, Rewarded, OwnCalls, CallsFit, V!TypeOK, TypeOK,
         CallsKnowTheirRows
    <2> QED
      BY <2>2, <2>3, <2>4, <2>5, <2>6 DEF InTurn
  <1>21. ASSUME MCNext PROVE InTurn'
    <2>1. WorkerNext
      BY <1>21 DEF MCNext
    <2> QED
      BY <1>21, <2>1, <1>1, <1>2, <1>3, <1>4, <1>5, <1>6, <1>7, <1>8, <1>9, <1>10,
         <1>11, <1>12, <1>13, <1>14, <1>15, <1>16, <1>17, <1>18, <1>19 DEF WorkerNext,
         Verify, Reward
  <1> QED
    BY <1>20, <1>21

\* The initial states satisfy it.
LEMMA InTurnBegins == WorkerInit => InTurn
  <1> SUFFICES ASSUME WorkerInit PROVE InTurn
    OBVIOUS
  <1> USE DEF WorkerInit, Init, V!Init
  <1>1. OneCall /\ RowsInOrder /\ ReadInTurn
    BY DEF OneCall, Busy, RowsInOrder, ReadInTurn
  <1>2. V!ActiveIsLatest
    BY DEF V!ActiveIsLatest, V!Active
  <1>3. V!LastOutcome = NoRow
    BY DEF V!LastOutcome, V!LatestOf, V!Outcome
  <1>4. TierInTurn
    BY <1>3 DEF TierInTurn
  <1>5. CashbackInTurn
    BY CashbackAssumption, VerificationAssumption
       DEF CashbackInTurn, OneCashbackPerReferral, Rewarded
  <1> QED
    BY <1>1, <1>2, <1>4, <1>5 DEF InTurn

\* As long as the calls for a worker come one after the other, InTurn holds, for any
\* number of calls, rows, payout runs and faults.
LEMMA InTurnHolds == MCSpec => [](~overlapped => InTurn)
  <1>1. MCInit => OwnCalls /\ (~overlapped => InTurn)
    BY OwnCallsBegin, InTurnBegins DEF MCInit
  <1>2. IInv /\ IInv' /\ OwnCalls /\ (~overlapped => InTurn) /\ [MCNext]_<<workerVars, overlapped>>
        => OwnCalls' /\ (~overlapped' => InTurn')
    <2>1. [MCNext]_<<workerVars, overlapped>> => [WorkerNext]_workerVars
      BY DEF MCNext
    <2> QED
      BY <2>1, OwnCallsKept, InTurnKept
  <1>3. MCSpec => WorkerSpec
    <2>1. MCInit => WorkerInit
      BY DEF MCInit
    <2>2. [MCNext]_<<workerVars, overlapped>> => [WorkerNext]_workerVars
      BY DEF MCNext
    <2> QED
      BY <2>1, <2>2, PTL DEF MCSpec, WorkerSpec
  <1> QED
    BY <1>1, <1>2, <1>3, WorkerInvariance, PTL DEF MCSpec

\* ActiveIsLatestInTurn: the row that the calls read is the row that the unique index
\* protects, however many of the calls fail between their writes.
THEOREM ActiveLatest == MCSpec => []ActiveIsLatestInTurn
  <1>1. (~overlapped => InTurn) => ActiveIsLatestInTurn
    BY DEF InTurn, ActiveIsLatestInTurn
  <1> QED
    BY <1>1, InTurnHolds, PTL

\* TierMatchesOutcomeInTurn: without failures the risk tier is the one of the last
\* outcome, over any sequence of verifications.
THEOREM TierMatches == MCSpec => []TierMatchesOutcomeInTurn
  <1>1. (~overlapped => InTurn) => TierMatchesOutcomeInTurn
    BY DEF InTurn, TierInTurn, Best, TierMatchesOutcomeInTurn, V!TierMatchesOutcome
  <1> QED
    BY <1>1, InTurnHolds, PTL

\* OneCashbackInTurn: converted_at alone keeps a referral from a second cashback,
\* failures and repetitions included.
THEOREM CashbackOnce == MCSpec => []OneCashbackInTurn
  <1>1. (~overlapped => InTurn) => OneCashbackInTurn
    BY DEF InTurn, CashbackInTurn, OneCashbackInTurn
  <1> QED
    BY <1>1, InTurnHolds, PTL
===============================================================================
