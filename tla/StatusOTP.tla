------------------------------ MODULE StatusOTP ------------------------------
(***************************************************************************)
(* One-time passwords for the application status of one phone number       *)
(* (internal/service/status_otp.go): two Redis keys, the OTP with its      *)
(* attempts and the rate counter, each with a time to live.                *)
(*                                                                         *)
(* Every Redis command is one step; Generate and Verify issue several, and *)
(* keys expire between them.  Time is a tick; an OTP is its transaction    *)
(* id, and whether the caller's answer matches is a choice.                *)
(***************************************************************************)
EXTENDS Integers

CONSTANTS Client,        \* concurrent calls for this number
          MaxTxns,       \* bound: OTPs issued in a behaviour
          None,          \* no OTP
          OtpTTL,        \* statusOTPTTL, in ticks
          RateTTL,       \* statusOTPRateLimitTTL, in ticks
          RetryLimit,    \* statusOTPRetryLimit
          RateLimit,     \* statusOTPRateLimit
          MaxFaults      \* bound: calls that die between two commands

Txn == 1..MaxTxns        \* OTPs in the order of their issue

ASSUME OTPAssumption ==
    /\ MaxTxns \in Nat /\ None \notin Txn
    /\ {OtpTTL, RateTTL, RetryLimit, RateLimit} \subseteq Nat \ {0}
    /\ MaxFaults \in Nat

VARIABLES rate,          \* the rate counter, 0 when the key is missing
          rateTTL,       \* ticks it has left, 0 when it has no expiry
          otp,           \* transaction_id of the stored OTP, None if missing
          attempts,      \* its attempts
          otpTTL,        \* ticks it has left
          issued,        \* how many OTPs were issued
          wrong,         \* wrong[t]: answers to OTP t refused as wrong, up to RetryLimit + 1
          accepted,      \* accepted[t]: right answers accepted for OTP t, up to 2
          pc,            \* pc[c]: the command client c issues next
          stored,        \* stored[c]: the OTP that c's GET returned
          tries,         \* tries[c]: its attempts
          ttl,           \* ttl[c]: what c will set as its time to live
          faults         \* faults so far

rateKey == <<rate, rateTTL>>
otpKey == <<otp, attempts, otpTTL>>
history == <<issued, wrong, accepted>>
local == <<stored, tries, ttl>>
vars == <<rateKey, otpKey, history, pc, local, faults>>

TypeOK ==
    /\ rate \in 0..(RateLimit + 1)
    /\ rateTTL \in 0..RateTTL
    /\ otp \in Txn \cup {None}
    /\ attempts \in 0..RetryLimit
    /\ otpTTL \in 0..OtpTTL
    /\ otp # None => otpTTL > 0
    /\ issued \in 0..MaxTxns
    /\ wrong \in [Txn -> 0..(RetryLimit + 1)]
    /\ accepted \in [Txn -> 0..2]
    /\ pc \in [Client -> {"idle", "expire", "set", "del", "ttl", "put"}]
    /\ stored \in [Client -> Txn \cup {None}]
    /\ tries \in [Client -> 0..RetryLimit]
    /\ ttl \in [Client -> 0..OtpTTL]
    /\ faults \in 0..MaxFaults

Init ==
    /\ rate = 0 /\ rateTTL = 0
    /\ otp = None /\ attempts = 0 /\ otpTTL = 0
    /\ issued = 0
    /\ wrong = [t \in Txn |-> 0]
    /\ accepted = [t \in Txn |-> 0]
    /\ pc = [c \in Client |-> "idle"]
    /\ stored = [c \in Client |-> None]
    /\ tries = [c \in Client |-> 0]
    /\ ttl = [c \in Client |-> 0]
    /\ faults = 0

Goto(c, command) == pc' = [pc EXCEPT ![c] = command]

Return(c) ==
    /\ Goto(c, "idle")
    /\ stored' = [stored EXCEPT ![c] = None]
    /\ tries' = [tries EXCEPT ![c] = 0]
    /\ ttl' = [ttl EXCEPT ![c] = 0]

-----------------------------------------------------------------------------
(* Generate.                                                               *)

\* Mutant: the counter never gets its expiry.
FirstOfWindowNever(n) == FALSE

\* if rateCount == 1
FirstOfWindow(n) == n = 1

\* INCR.  The counter stops at RateLimit + 1: the numbers above are refused too.
Incr(c) ==
    /\ pc[c] = "idle"
    /\ issued < MaxTxns
    /\ LET n == rate + 1 IN
          /\ rate' = IF n > RateLimit THEN RateLimit + 1 ELSE n
          /\ Goto(c, CASE FirstOfWindow(n) -> "expire"
                       [] n > RateLimit -> "idle"      \* ErrConflict
                       [] OTHER -> "set")
    /\ UNCHANGED <<rateTTL, otpKey, history, local, faults>>

Expire(c) ==
    /\ pc[c] = "expire"
    /\ rateTTL' = RateTTL
    /\ Goto(c, "set")
    /\ UNCHANGED <<rate, otpKey, history, local, faults>>

SetOTP(c) ==
    /\ pc[c] = "set"
    /\ issued < MaxTxns
    /\ issued' = issued + 1
    /\ otp' = issued + 1
    /\ attempts' = 0
    /\ otpTTL' = OtpTTL
    /\ Goto(c, "idle")
    /\ UNCHANGED <<rateKey, wrong, accepted, local, faults>>

-----------------------------------------------------------------------------
(* Verify.                                                                 *)

\* stored.Attempts >= statusOTPRetryLimit is refused.
MayTry(n) == n < RetryLimit

\* GET, and the comparison with what the caller sent.
GetOTP(c) ==
    /\ pc[c] = "idle"
    /\ otp # None
    /\ MayTry(attempts)
    /\ stored' = [stored EXCEPT ![c] = otp]
    /\ tries' = [tries EXCEPT ![c] = attempts]
    /\ Goto(c, "del") \/ Goto(c, "ttl")
    /\ UNCHANGED <<rateKey, otpKey, history, ttl, faults>>

\* Mutant: an accepted OTP is not deleted.
DelNot(c) ==
    /\ pc[c] = "del"
    /\ accepted' = [accepted EXCEPT ![stored[c]] = IF @ = 2 THEN 2 ELSE @ + 1]
    /\ Return(c)
    /\ UNCHANGED <<rateKey, otpKey, issued, wrong, faults>>

\* DEL deletes the key, whatever it holds by now.
Del(c) ==
    /\ pc[c] = "del"
    /\ otp' = None /\ attempts' = 0 /\ otpTTL' = 0
    /\ accepted' = [accepted EXCEPT ![stored[c]] = IF @ = 2 THEN 2 ELSE @ + 1]
    /\ Return(c)
    /\ UNCHANGED <<rateKey, issued, wrong, faults>>

\* incrementAttempts: TTL; a key without one, or without a value, gets OtpTTL.
TTL(c) ==
    /\ pc[c] = "ttl"
    /\ ttl' = [ttl EXCEPT ![c] = IF otpTTL <= 0 THEN OtpTTL ELSE otpTTL]
    /\ Goto(c, "put")
    /\ UNCHANGED <<rateKey, otpKey, history, stored, tries, faults>>

\* Mutant: the value that was read is written back.
CountedNot(c) == tries[c]

\* stored.Attempts++
Counted(c) == tries[c] + 1

\* incrementAttempts: SET of the value that was read, one attempt more.
Put(c) ==
    /\ pc[c] = "put"
    /\ otp' = stored[c]
    /\ attempts' = Counted(c)
    /\ otpTTL' = ttl[c]
    /\ wrong' = [wrong EXCEPT ![stored[c]] = IF @ > RetryLimit THEN @ ELSE @ + 1]
    /\ Return(c)
    /\ UNCHANGED <<rateKey, issued, accepted, faults>>

-----------------------------------------------------------------------------
\* A command fails or the process dies: the call ends where it is.
CallFails(c) ==
    /\ pc[c] # "idle"
    /\ faults < MaxFaults
    /\ faults' = faults + 1
    /\ Return(c)
    /\ UNCHANGED <<rateKey, otpKey, history>>

\* Redis removes a key when its time to live ends.
Tick ==
    /\ rateTTL > 0 \/ otpTTL > 0
    /\ rateTTL' = IF rateTTL > 0 THEN rateTTL - 1 ELSE 0
    /\ rate' = IF rateTTL = 1 THEN 0 ELSE rate
    /\ otpTTL' = IF otpTTL > 0 THEN otpTTL - 1 ELSE 0
    /\ IF otpTTL = 1
       THEN otp' = None /\ attempts' = 0
       ELSE UNCHANGED <<otp, attempts>>
    /\ UNCHANGED <<issued, wrong, accepted, pc, local, faults>>

Command(c) == Expire(c) \/ SetOTP(c) \/ Del(c) \/ TTL(c) \/ Put(c)

Next ==
    \/ Tick
    \/ \E c \in Client : Incr(c) \/ GetOTP(c) \/ Command(c) \/ CallFails(c)

Spec == Init /\ [][Next]_vars

\* Time passes, and a call that has begun issues its next command.
Fairness == WF_vars(Tick) /\ \A c \in Client : WF_vars(Command(c))

-----------------------------------------------------------------------------
(* Properties.                                                             *)

\* A number that has used up its rate can ask again when the window is over,
\* even if it never stops asking: docs_production.md:159 "Rate-limit keys expire".
\* A call that dies between its INCR and its EXPIRE (status_otp.go:64) leaves a
\* counter that stays for ever.
RateLimitLifts == rate > RateLimit ~> (rate = 0 \/ faults > 0)

\* An OTP refuses at most RetryLimit answers as wrong, whatever expires between
\* the commands of a call.  True of calls that come one after the other: two at a
\* time read the same number of attempts.
RetryLimitHolds == \A t \in Txn : wrong[t] <= RetryLimit

\* An accepted OTP is never accepted again.  True of calls that come one after the
\* other: a wrong answer that read the OTP before the DEL stores it again.
AcceptedOnce == \A t \in Txn : accepted[t] <= 1
=============================================================================
