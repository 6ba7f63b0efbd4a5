-------------------------- MODULE WorkerRegistration --------------------------
(***************************************************************************)
(* How workers get their users row and their referral: POST /workers       *)
(* (internal/service/worker.go) and the first message to the bot           *)
(* (startNewUserFlow in internal/service/whatsapp_bot.go), which both      *)
(* insert the row and then call RegisterReferral                           *)
(* (internal/service/referral.go).  Each SQL statement is one step.        *)
(*                                                                         *)
(* A worker is its phone number.  Of the row only the two codes are kept:  *)
(* no code updates them and no row is deleted.                             *)
(***************************************************************************)
EXTENDS Integers

CONSTANTS Phone,         \* phone numbers of workers
          Code,          \* referral codes
          OwnCode,       \* OwnCode[p]: referralCodeFromPhone, the last ten digits
          Request,       \* concurrent requests
          None,          \* no code, no worker
          MaxFaults      \* bound: requests that fail or die half-way

ASSUME RegistrationAssumption ==
    /\ OwnCode \in [Phone -> Code]
    /\ None \notin Phone \cup Code
    /\ MaxFaults \in Nat

VARIABLES code,          \* code[p]: referral_code, None without a row
          referredBy,    \* referredBy[p]: referred_by_code, None if NULL
          referrals,     \* referrals[p]: rows of referrals with p as the referred
          referrer,      \* referrer[p]: the referrer in the last of them
          pc,            \* pc[c]: the next statement of request c
          phone,         \* phone[c]: whom it registers
          own,           \* own[c]: the code it gives
          by,            \* by[c]: the code of the referrer, None if there is none
          found,         \* found[c]: the referrer it has read
          faults         \* faults so far

users == <<code, referredBy>>
rows == <<referrals, referrer>>
local == <<phone, own, by, found>>
vars == <<users, rows, pc, local, faults>>

TypeOK ==
    /\ code \in [Phone -> Code \cup {None}]
    /\ referredBy \in [Phone -> Code \cup {None}]
    /\ referrals \in [Phone -> Nat]
    /\ referrer \in [Phone -> Phone \cup {None}]
    /\ pc \in [Request -> {"idle", "check", "insert", "referrer", "existing", "create"}]
    /\ phone \in [Request -> Phone \cup {None}]
    /\ own \in [Request -> Code \cup {None}]
    /\ by \in [Request -> Code \cup {None}]
    /\ found \in [Request -> Phone \cup {None}]
    /\ faults \in 0..MaxFaults

Init ==
    /\ code = [p \in Phone |-> None]
    /\ referredBy = [p \in Phone |-> None]
    /\ referrals = [p \in Phone |-> 0]
    /\ referrer = [p \in Phone |-> None]
    /\ pc = [c \in Request |-> "idle"]
    /\ phone = [c \in Request |-> None]
    /\ own = [c \in Request |-> None]
    /\ by = [c \in Request |-> None]
    /\ found = [c \in Request |-> None]
    /\ faults = 0

-----------------------------------------------------------------------------
(* The users table.                                                        *)

Owners(k) == {p \in Phone : code[p] = k /\ k # None}

\* Mutant: a row whose phone number exists is inserted all the same.
PhoneUniqueDropped(p) == TRUE

\* users_phone_number_unique
PhoneUnique(p) == code[p] = None

\* Mutant: users_referred_by_code_fk is missing.
CodeExistsDropped(k) == TRUE

\* users_referred_by_code_fk
CodeExists(k) == k = None \/ Owners(k) # {}

Insertable(c) ==
    /\ PhoneUnique(phone[c])
    /\ Owners(own[c]) = {}         \* users_referral_code_unique
    /\ CodeExists(by[c])
    /\ own[c] # by[c]              \* users_referral_self_check

-----------------------------------------------------------------------------
(* The requests.                                                           *)

Return(c) ==
    /\ pc' = [pc EXCEPT ![c] = "idle"]
    /\ phone' = [phone EXCEPT ![c] = None]
    /\ own' = [own EXCEPT ![c] = None]
    /\ by' = [by EXCEPT ![c] = None]
    /\ found' = [found EXCEPT ![c] = None]

Begin(c, p, k, r, at) ==
    /\ pc[c] = "idle"
    /\ pc' = [pc EXCEPT ![c] = at]
    /\ phone' = [phone EXCEPT ![c] = p]
    /\ own' = [own EXCEPT ![c] = k]
    /\ by' = [by EXCEPT ![c] = r]
    /\ UNCHANGED <<users, rows, found, faults>>

\* CreateWorker: a code of the caller's or the generated one.  A worker that
\* refers itself is refused.
CreateWorker(c, p, k, r) ==
    /\ k # r
    /\ Begin(c, p, k, r, IF r = None THEN "insert" ELSE "check")

\* startNewUserFlow, when GetUserByPhone has found nobody.
StartNewUserFlow(c, p, r) ==
    /\ code[p] = None
    /\ Begin(c, p, OwnCode[p], r, "insert")

\* GetUserByReferralCode before the INSERT.
CheckReferredBy(c) ==
    /\ pc[c] = "check"
    /\ IF Owners(by[c]) # {}
       THEN pc' = [pc EXCEPT ![c] = "insert"] /\ UNCHANGED local
       ELSE Return(c)
    /\ UNCHANGED <<users, rows, faults>>

\* One INSERT: any constraint it breaks is an error that changes nothing.
CreateUser(c) ==
    /\ pc[c] = "insert"
    /\ IF Insertable(c)
       THEN /\ code' = [code EXCEPT ![phone[c]] = own[c]]
            /\ referredBy' = [referredBy EXCEPT ![phone[c]] = by[c]]
            /\ IF by[c] = None
               THEN Return(c)
               ELSE pc' = [pc EXCEPT ![c] = "referrer"] /\ UNCHANGED local
       ELSE Return(c) /\ UNCHANGED users
    /\ UNCHANGED <<rows, faults>>

\* RegisterReferral reads the referrer, then whether the worker has a referral.
GetReferrer(c) ==
    /\ pc[c] = "referrer"
    /\ IF Owners(by[c]) \ {phone[c]} # {}
       THEN /\ \E p \in Owners(by[c]) \ {phone[c]} : found' = [found EXCEPT ![c] = p]
            /\ pc' = [pc EXCEPT ![c] = "existing"]
            /\ UNCHANGED <<phone, own, by>>
       ELSE Return(c)
    /\ UNCHANGED <<users, rows, faults>>

GetExisting(c) ==
    /\ pc[c] = "existing"
    /\ IF referrals[phone[c]] = 0
       THEN pc' = [pc EXCEPT ![c] = "create"] /\ UNCHANGED local
       ELSE Return(c)
    /\ UNCHANGED <<users, rows, faults>>

ReferrerOf(c) == found[c]

\* referrals_distinct_users_check refuses a row that refers a worker to itself.
CreateReferral(c) ==
    /\ pc[c] = "create"
    /\ IF ReferrerOf(c) # phone[c]
       THEN /\ referrals' = [referrals EXCEPT ![phone[c]] = @ + 1]
            /\ referrer' = [referrer EXCEPT ![phone[c]] = ReferrerOf(c)]
       ELSE UNCHANGED rows
    /\ Return(c)
    /\ UNCHANGED <<users, faults>>

\* A statement fails or the process dies: what was inserted stays.
RequestFails(c) ==
    /\ pc[c] # "idle"
    /\ faults < MaxFaults
    /\ faults' = faults + 1
    /\ Return(c)
    /\ UNCHANGED <<users, rows>>

Next ==
    \E c \in Request :
        \/ \E p \in Phone, r \in Code \cup {None} :
              StartNewUserFlow(c, p, r) \/ \E k \in Code : CreateWorker(c, p, k, r)
        \/ CheckReferredBy(c) \/ CreateUser(c) \/ GetReferrer(c)
        \/ GetExisting(c) \/ CreateReferral(c) \/ RequestFails(c)

Spec == Init /\ [][Next]_vars

-----------------------------------------------------------------------------
(* Properties.                                                             *)

\* A worker has at most one referral, though no constraint of the referrals table
\* says so, and it names the worker whose code the referred one gave: only the
\* request whose INSERT made the worker registers it, however the API and the
\* bot race for a number.
ReferralMatchesCode ==
    \A p \in Phone : /\ referrals[p] <= 1
                     /\ referrals[p] > 0 => code[referrer[p]] = referredBy[p]

ReferredBy(p) == Owners(referredBy[p])

\* Nobody refers a worker, directly or through others, whom that worker referred:
\* a code has to exist before it can be given.  In every set of workers, then, there
\* is one whom none of them referred.
NoReferralCircle ==
    \A S \in (SUBSET Phone) \ {{}} : \E p \in S : ReferredBy(p) \cap S = {}
===============================================================================
