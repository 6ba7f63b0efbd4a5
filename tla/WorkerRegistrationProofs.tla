----------------------- MODULE WorkerRegistrationProofs -----------------------
(***************************************************************************)
(* Proofs about WorkerRegistration for any number of numbers, codes,       *)
(* requests and faults, and any numbers that share their last ten digits.  *)
(***************************************************************************)
EXTENDS WorkerRegistration, TLAPS

\* Has inserted its worker and is to register the referral.
Registers(c) == pc[c] \in {"referrer", "existing", "create"}

\* What a request works with is what its worker's row says.
RequestsFit ==
    /\ \A c \in Request : pc[c] # "idle" =>
          phone[c] \in Phone /\ own[c] \in Code
    /\ \A c \in Request : Registers(c) =>
          /\ by[c] # None
          /\ code[phone[c]] = own[c] /\ referredBy[phone[c]] = by[c]
          /\ referrals[phone[c]] = 0
    /\ \A c \in Request : pc[c] \in {"existing", "create"} => found[c] \in Owners(by[c])

\* The request that inserted a worker is the only one to register its referral.
OneRegisters ==
    \A c, d \in Request : Registers(c) /\ Registers(d) /\ phone[c] = phone[d] => c = d

\* A worker without a row has no referral, and a referral is the only one and names
\* the owner of the code.
ReferralsFit ==
    \A p \in Phone :
        /\ code[p] = None => referrals[p] = 0
        /\ referrals[p] <= 1
        /\ referrals[p] > 0 => referrer[p] \in Owners(referredBy[p])

\* The code that a worker gave has an owner, and a worker without a row gave none.
CodesFit ==
    \A p \in Phone :
        /\ code[p] = None => referredBy[p] = None
        /\ referredBy[p] # None => Owners(referredBy[p]) # {}

\* The inductive invariant of registration.
IInv ==
    /\ TypeOK
    /\ RequestsFit
    /\ OneRegisters
    /\ ReferralsFit
    /\ CodesFit
    /\ NoReferralCircle

-----------------------------------------------------------------------------
\* The initial states satisfy the inductive invariant.
LEMMA Initial == Init => IInv
  <1> SUFFICES ASSUME Init PROVE IInv
    OBVIOUS
  <1>1. TypeOK
    BY RegistrationAssumption DEF Init, TypeOK
  <1>2. RequestsFit /\ OneRegisters /\ ReferralsFit /\ CodesFit
    BY DEF Init, RequestsFit, Registers, OneRegisters, ReferralsFit, CodesFit
  <1>3. NoReferralCircle
    <2>1. \A p \in Phone : ReferredBy(p) = {}
      BY DEF Init, ReferredBy, Owners
    <2>2. ASSUME NEW S \in (SUBSET Phone) \ {{}} PROVE \E p \in S : ReferredBy(p) \cap S = {}
      <3>1. S \subseteq Phone /\ S # {}
        BY <2>2
      <3>2. PICK p \in S : p \in Phone
        BY <3>1
      <3>3. ReferredBy(p) \cap S = {}
        BY <2>1, <3>2
      <3> QED
        BY <3>2, <3>3
    <2> QED
      BY <2>2 DEF NoReferralCircle
  <1> QED
    BY <1>1, <1>2, <1>3 DEF IInv

\* Every step of the registration preserves the inductive invariant.
LEMMA Inductive == IInv /\ [Next]_vars => IInv'
  <1> USE RegistrationAssumption DEF users, rows, local, Registers
  <1> SUFFICES ASSUME IInv, [Next]_vars PROVE IInv'
    OBVIOUS
  <1> USE DEF IInv
  <1>1. ASSUME NEW c \in Request, NEW p \in Phone, NEW r \in Code \cup {None},
        StartNewUserFlow(c, p, r)
        PROVE  IInv'
    <2>1. TypeOK'
      BY <1>1 DEF StartNewUserFlow, Begin, TypeOK, Owners
    <2>2. RequestsFit'
      BY <1>1 DEF StartNewUserFlow, Begin, TypeOK, RequestsFit, Owners
    <2>3. OneRegisters'
      BY <1>1 DEF StartNewUserFlow, Begin, TypeOK, RequestsFit, OneRegisters
    <2>4. ReferralsFit'
      BY <1>1 DEF StartNewUserFlow, Begin, TypeOK, RequestsFit, ReferralsFit, Owners
    <2>5. CodesFit'
      BY <1>1 DEF StartNewUserFlow, Begin, TypeOK, RequestsFit, CodesFit, Owners
    <2>6. NoReferralCircle'
      BY <1>1 DEF StartNewUserFlow, Begin, TypeOK, RequestsFit, CodesFit,
         NoReferralCircle, ReferredBy, Owners
    <2> QED
      BY <2>1, <2>2, <2>3, <2>4, <2>5, <2>6
  <1>2. ASSUME NEW c \in Request, NEW p \in Phone, NEW r \in Code \cup {None}, NEW k \in Code,
        CreateWorker(c, p, k, r)
        PROVE  IInv'
    <2>1. TypeOK'
      BY <1>2 DEF CreateWorker, Begin, TypeOK, Owners
    <2>2. RequestsFit'
      BY <1>2 DEF CreateWorker, Begin, TypeOK, RequestsFit, Owners
    <2>3. OneRegisters'
      BY <1>2 DEF CreateWorker, Begin, TypeOK, RequestsFit, OneRegisters
    <2>4. ReferralsFit'
      BY <1>2 DEF CreateWorker, Begin, TypeOK, RequestsFit, ReferralsFit, Owners
    <2>5. CodesFit'
      BY <1>2 DEF CreateWorker, Begin, TypeOK, RequestsFit, CodesFit, Owners
    <2>6. NoReferralCircle'
      BY <1>2 DEF CreateWorker, Begin, TypeOK, RequestsFit, CodesFit, NoReferralCircle,
         ReferredBy, Owners
    <2> QED
      BY <2>1, <2>2, <2>3, <2>4, <2>5, <2>6
  <1>3. ASSUME NEW c \in Request, CheckReferredBy(c)
        PROVE  IInv'
    <2>1. TypeOK'
      BY <1>3 DEF CheckReferredBy, Return, TypeOK, Owners
    <2>2. RequestsFit'
      BY <1>3 DEF CheckReferredBy, Return, TypeOK, RequestsFit, Owners
    <2>3. OneRegisters'
      BY <1>3 DEF CheckReferredBy, Return, TypeOK, RequestsFit, OneRegisters
    <2>4. ReferralsFit'
      BY <1>3 DEF CheckReferredBy, Return, TypeOK, RequestsFit, ReferralsFit, Owners
    <2>5. CodesFit'
      BY <1>3 DEF CheckReferredBy, Return, TypeOK, RequestsFit, CodesFit, Owners
    <2>6. NoReferralCircle'
      BY <1>3 DEF CheckReferredBy, Return, TypeOK, RequestsFit, CodesFit,
         NoReferralCircle, ReferredBy, Owners
    <2> QED
      BY <2>1, <2>2, <2>3, <2>4, <2>5, <2>6
  <1>4. ASSUME NEW c \in Request, CreateUser(c)
        PROVE  IInv'
    <2>1. TypeOK'
      BY <1>4 DEF CreateUser, Insertable, PhoneUnique, CodeExists, Return, TypeOK,
         Owners
    <2>2. RequestsFit'
      <3>1. CASE ~Insertable(c)
        BY <1>4, <3>1 DEF CreateUser, Return, TypeOK, RequestsFit, Owners
      <3>2. CASE Insertable(c)
        <4>1. phone[c] \in Phone /\ own[c] \in Code /\ code[phone[c]] = None
          BY <1>4, <3>2 DEF CreateUser, RequestsFit, Insertable, PhoneUnique
        <4>2. \A d \in Request : Registers(d) => d # c /\ phone[d] # phone[c]
          BY <1>4, <4>1 DEF CreateUser, RequestsFit, TypeOK
        <4>3. /\ code' = [code EXCEPT ![phone[c]] = own[c]]
              /\ referredBy' = [referredBy EXCEPT ![phone[c]] = by[c]]
              /\ referrals' = referrals
          BY <1>4, <3>2 DEF CreateUser
        <4>4. \A k : Owners(k) \subseteq Owners(k)'
          BY <4>1, <4>3 DEF Owners, TypeOK
        <4>5. \A d \in Request : d # c => /\ pc'[d] = pc[d] /\ phone'[d] = phone[d]
                                         /\ own'[d] = own[d] /\ by'[d] = by[d]
                                         /\ found'[d] = found[d]
          BY <1>4, <3>2 DEF CreateUser, Return, TypeOK
        <4>6. \/ pc'[c] = "idle"
              \/ /\ pc'[c] = "referrer" /\ by[c] # None /\ UNCHANGED local
          BY <1>4, <3>2 DEF CreateUser, Return, TypeOK
        <4>7. referrals[phone[c]] = 0
          BY <4>1 DEF ReferralsFit
        <4> DEFINE Fit(d) ==
              /\ pc[d] # "idle" => phone[d] \in Phone /\ own[d] \in Code
              /\ Registers(d) => /\ by[d] # None
                                 /\ code[phone[d]] = own[d] /\ referredBy[phone[d]] = by[d]
                                 /\ referrals[phone[d]] = 0
              /\ pc[d] \in {"existing", "create"} => found[d] \in Owners(by[d])
        <4>8. Fit(c)'
          BY <4>1, <4>3, <4>6, <4>7 DEF TypeOK
        <4>9. ASSUME NEW d \in Request, d # c PROVE Fit(d)'
          <5>1. Fit(d) /\ (Registers(d) => phone[d] \in Phone /\ phone[d] # phone[c])
            BY <4>2 DEF RequestsFit
          <5>2. Registers(d) => /\ code'[phone[d]] = code[phone[d]]
                                /\ referredBy'[phone[d]] = referredBy[phone[d]]
            BY <4>3, <5>1 DEF TypeOK
          <5>3. Owners(by[d]) \subseteq Owners(by[d])'
            BY <4>4, <4>5, <4>9 DEF Owners
          <5> QED
            BY <4>3, <4>5, <4>9, <5>1, <5>2, <5>3
        <4> QED
          BY <4>8, <4>9 DEF RequestsFit
      <3> QED
        BY <3>1, <3>2
    <2>3. OneRegisters'
      BY <1>4 DEF CreateUser, Insertable, PhoneUnique, CodeExists, Return, TypeOK,
         RequestsFit, OneRegisters
    <2>4. ReferralsFit'
      BY <1>4 DEF CreateUser, Insertable, PhoneUnique, CodeExists, Return, TypeOK,
         RequestsFit, ReferralsFit, Owners
    <2>5. CodesFit'
      BY <1>4 DEF CreateUser, Insertable, PhoneUnique, CodeExists, Return, TypeOK,
         RequestsFit, CodesFit, Owners
    <2>6. NoReferralCircle'
      <3>1. CASE ~Insertable(c)
        BY <1>4, <3>1 DEF CreateUser, NoReferralCircle, ReferredBy, Owners
      <3>2. CASE Insertable(c)
        <4>0. PICK p : p = phone[c]
          OBVIOUS
        <4>1. /\ p \in Phone /\ own[c] \in Code /\ code[p] = None
              /\ Owners(own[c]) = {} /\ own[c] # by[c]
          BY <1>4, <3>2, <4>0 DEF CreateUser, RequestsFit, Insertable, PhoneUnique
        <4>2. /\ code' = [code EXCEPT ![p] = own[c]]
              /\ referredBy' = [referredBy EXCEPT ![p] = by[c]]
          BY <1>4, <3>2, <4>0 DEF CreateUser
        <4>3. p \notin ReferredBy(p)'
          <5>1. code'[p] = own[c] /\ referredBy'[p] = by[c]
            BY <4>1, <4>2 DEF TypeOK
          <5> QED
            BY <4>1, <5>1 DEF ReferredBy, Owners
        <4>4. ASSUME NEW q \in Phone, q # p
              PROVE  p \notin ReferredBy(q) /\ ReferredBy(q)' = ReferredBy(q)
          <5>1. referredBy'[q] = referredBy[q]
            BY <4>2, <4>4 DEF TypeOK
          <5>2. referredBy[q] # own[c] \/ referredBy[q] = None
            BY <4>1, <4>4 DEF CodesFit
          <5> QED
            BY <4>1, <4>2, <5>1, <5>2 DEF ReferredBy, Owners, TypeOK
        <4>5. ASSUME NEW S \in (SUBSET Phone) \ {{}}
              PROVE  \E q \in S : ReferredBy(q)' \cap S = {}
          <5>1. CASE S \ {p} = {}
            <6>1. p \in S /\ S \subseteq {p}
              BY <5>1, <4>5
            <6> QED
              BY <6>1, <4>3
          <5>2. CASE S \ {p} # {}
            <6>1. PICK q \in S \ {p} : ReferredBy(q) \cap (S \ {p}) = {}
              BY <5>2 DEF NoReferralCircle
            <6> QED
              BY <6>1, <4>4
          <5> QED
            BY <5>1, <5>2
        <4> QED
          BY <4>5 DEF NoReferralCircle
      <3> QED
        BY <3>1, <3>2
    <2> QED
      BY <2>1, <2>2, <2>3, <2>4, <2>5, <2>6
  <1>5. ASSUME NEW c \in Request, GetReferrer(c)
        PROVE  IInv'
    <2>1. TypeOK'
      BY <1>5 DEF GetReferrer, Return, TypeOK, Owners
    <2>2. RequestsFit'
      BY <1>5 DEF GetReferrer, Return, TypeOK, RequestsFit, Owners
    <2>3. OneRegisters'
      BY <1>5 DEF GetReferrer, Return, TypeOK, RequestsFit, OneRegisters
    <2>4. ReferralsFit'
      BY <1>5 DEF GetReferrer, Return, TypeOK, RequestsFit, ReferralsFit, Owners
    <2>5. CodesFit'
      BY <1>5 DEF GetReferrer, Return, TypeOK, RequestsFit, CodesFit, Owners
    <2>6. NoReferralCircle'
      BY <1>5 DEF GetReferrer, Return, TypeOK, RequestsFit, CodesFit, NoReferralCircle,
         ReferredBy, Owners
    <2> QED
      BY <2>1, <2>2, <2>3, <2>4, <2>5, <2>6
  <1>6. ASSUME NEW c \in Request, GetExisting(c)
        PROVE  IInv'
    <2>1. TypeOK'
      BY <1>6 DEF GetExisting, Return, TypeOK, Owners
    <2>2. RequestsFit'
      BY <1>6 DEF GetExisting, Return, TypeOK, RequestsFit, Owners
    <2>3. OneRegisters'
      BY <1>6 DEF GetExisting, Return, TypeOK, RequestsFit, OneRegisters
    <2>4. ReferralsFit'
      BY <1>6 DEF GetExisting, Return, TypeOK, RequestsFit, ReferralsFit, Owners
    <2>5. CodesFit'
      BY <1>6 DEF GetExisting, Return, TypeOK, RequestsFit, CodesFit, Owners
    <2>6. NoReferralCircle'
      BY <1>6 DEF GetExisting, Return, TypeOK, RequestsFit, CodesFit, NoReferralCircle,
         ReferredBy, Owners
    <2> QED
      BY <2>1, <2>2, <2>3, <2>4, <2>5, <2>6
  <1>7. ASSUME NEW c \in Request, CreateReferral(c)
        PROVE  IInv'
    <2>1. TypeOK'
      BY <1>7 DEF CreateReferral, ReferrerOf, Return, TypeOK, Owners
    <2>2. RequestsFit'
      BY <1>7 DEF CreateReferral, ReferrerOf, Return, TypeOK, RequestsFit, Owners,
         OneRegisters
    <2>3. OneRegisters'
      BY <1>7 DEF CreateReferral, ReferrerOf, Return, TypeOK, RequestsFit, OneRegisters
    <2>4. ReferralsFit'
      BY <1>7 DEF CreateReferral, ReferrerOf, Return, TypeOK, RequestsFit, ReferralsFit,
         Owners
    <2>5. CodesFit'
      BY <1>7 DEF CreateReferral, ReferrerOf, Return, TypeOK, RequestsFit, CodesFit,
         Owners
    <2>6. NoReferralCircle'
      BY <1>7 DEF CreateReferral, ReferrerOf, Return, TypeOK, RequestsFit, CodesFit,
         NoReferralCircle, ReferredBy, Owners
    <2> QED
      BY <2>1, <2>2, <2>3, <2>4, <2>5, <2>6
  <1>8. ASSUME NEW c \in Request, RequestFails(c)
        PROVE  IInv'
    <2>1. TypeOK'
      BY <1>8 DEF RequestFails, Return, TypeOK, Owners
    <2>2. RequestsFit'
      BY <1>8 DEF RequestFails, Return, TypeOK, RequestsFit, Owners
    <2>3. OneRegisters'
      BY <1>8 DEF RequestFails, Return, TypeOK, RequestsFit, OneRegisters
    <2>4. ReferralsFit'
      BY <1>8 DEF RequestFails, Return, TypeOK, RequestsFit, ReferralsFit, Owners
    <2>5. CodesFit'
      BY <1>8 DEF RequestFails, Return, TypeOK, RequestsFit, CodesFit, Owners
    <2>6. NoReferralCircle'
      BY <1>8 DEF RequestFails, Return, TypeOK, RequestsFit, CodesFit, NoReferralCircle,
         ReferredBy, Owners
    <2> QED
      BY <2>1, <2>2, <2>3, <2>4, <2>5, <2>6
  <1>9. CASE UNCHANGED vars
    BY <1>9 DEF vars, TypeOK, RequestsFit, OneRegisters, ReferralsFit, CodesFit,
       NoReferralCircle, ReferredBy, Owners
  <1> QED
    BY <1>1, <1>2, <1>3, <1>4, <1>5, <1>6, <1>7, <1>8, <1>9 DEF Next

\* The inductive invariant holds of every reachable state.
THEOREM RegistrationInvariance == Spec => []IInv
  BY Initial, Inductive, PTL DEF Spec

\* ReferralMatchesCode, however many requests of the API and of the bot race for a
\* number and wherever they die: only the request whose INSERT made the worker
\* registers its referral, and with the code of the row.
THEOREM ReferralTrue == Spec => []ReferralMatchesCode
  <1>1. IInv => ReferralMatchesCode
    BY DEF IInv, TypeOK, ReferralsFit, Owners, ReferralMatchesCode
  <1> QED
    BY <1>1, Initial, Inductive, PTL DEF Spec

\* NoReferralCircle: a worker's code is new when its row is inserted, so nobody has
\* given it yet, and the row does not give it itself (users_referred_by_code_fk,
\* users_referral_code_unique and users_referral_self_check together).
THEOREM NoCircle == Spec => []NoReferralCircle
  BY Initial, Inductive, PTL DEF Spec, IInv
===============================================================================
