---------------------------- MODULE StatusOTPProofs ----------------------------
(***************************************************************************)
(* Proofs about StatusOTP for any number of calls, OTPs, ticks and faults  *)
(* and any limits.  The two properties need the calls to come one after    *)
(* the other; what they may do to the keys, and what expires meanwhile, is *)
(* not restricted.                                                         *)
(***************************************************************************)
EXTENDS MCStatusOTP, TLAPS

\* A call between its GET and its last command knows an OTP that may be tried; the
\* OTPs that are known were issued, and nothing happened to the others.
CallsFit ==
    /\ \A c \in Client :
          /\ pc[c] \in {"del", "ttl", "put"} <=> stored[c] # None
          /\ stored[c] # None => tries[c] < RetryLimit /\ stored[c] <= issued
          /\ pc[c] = "put" => ttl[c] > 0
    /\ otp # None => otp <= issued
    /\ \A t \in Txn : t > issued => wrong[t] = 0 /\ accepted[t] = 0

\* What holds of the keys and the calls, overlapping or not.
IInv == TypeOK /\ CallsFit

\* While calls come one after the other: one of them is half-way at most; the
\* attempts of an OTP, in the key or in the hands of the call, are the answers that
\* were refused; an OTP that was accepted is neither in the key nor in any hands.
InTurn ==
    /\ \A c, d \in Client : pc[c] # "idle" /\ pc[d] # "idle" => c = d
    /\ otp # None => wrong[otp] = attempts /\ accepted[otp] = 0
    /\ \A c \in Client :
          stored[c] # None => wrong[stored[c]] = tries[c] /\ accepted[stored[c]] = 0
    /\ RetryLimitHolds
    /\ AcceptedOnce

\* Two calls are half-way, or one steps while another is.
Overlap == \E c, d \in Client : /\ pc[c] # "idle" /\ pc'[c] = pc[c]
                                /\ pc'[d] # pc[d]

-----------------------------------------------------------------------------
(* The keys and the calls, overlapping or not.                             *)

\* What the constants are, one by one.
LEMMA Limits ==
    /\ MaxTxns \in Nat /\ None \notin 1..MaxTxns /\ MaxFaults \in Nat
    /\ OtpTTL \in Nat /\ OtpTTL > 0 /\ RateTTL \in Nat /\ RateTTL > 0
    /\ RetryLimit \in Nat /\ RetryLimit > 0 /\ RateLimit \in Nat /\ RateLimit > 0
  BY OTPAssumption DEF OTPAssumption, Txn

\* The initial states satisfy the invariant.
LEMMA Initial == Init => IInv
  BY Limits DEF Init, IInv, TypeOK, CallsFit, Txn

\* Every step of the service keeps the invariant.
LEMMA Inductive ==
    ASSUME IInv, [Next]_vars
    PROVE  IInv'
  <1> USE Limits DEF IInv, rateKey, otpKey, history, local, Txn
  <1>1. CASE Tick
    <2>1. TypeOK'
      BY <1>1 DEF Tick, TypeOK
    <2>2. CallsFit'
      BY <1>1 DEF Tick, TypeOK, CallsFit
    <2> QED
      BY <2>1, <2>2
  <1>2. ASSUME NEW c \in Client, Incr(c) PROVE IInv'
    <2>1. PICK p \in {"idle", "expire", "set"} : pc' = [pc EXCEPT ![c] = p]
      <3>1. CASE rate + 1 = 1
        <4>1. ~(rate + 1 > RateLimit)
          BY <3>1
        <4>2. pc' = [pc EXCEPT ![c] = "expire"]
          BY <1>2, <3>1, <4>1 DEF Incr, Goto, FirstOfWindow
        <4> QED
          BY <4>2
      <3>2. CASE rate + 1 # 1 /\ rate + 1 > RateLimit
        BY <1>2, <3>2 DEF Incr, Goto, FirstOfWindow
      <3>3. CASE rate + 1 # 1 /\ ~(rate + 1 > RateLimit)
        BY <1>2, <3>3 DEF Incr, Goto, FirstOfWindow
      <3> QED
        BY <3>1, <3>2, <3>3
    <2>2. rate' \in 0..(RateLimit + 1)
      <3>1. rate' = IF rate + 1 > RateLimit THEN RateLimit + 1 ELSE rate + 1
        BY <1>2 DEF Incr
      <3>2. rate \in 0..(RateLimit + 1)
        BY DEF TypeOK
      <3> QED
        BY <3>1, <3>2
    <2>3. TypeOK'
      BY <1>2, <2>1, <2>2 DEF Incr, TypeOK
    <2>4. CallsFit'
      BY <1>2, <2>1 DEF Incr, TypeOK, CallsFit
    <2> QED
      BY <2>3, <2>4
  <1>3. ASSUME NEW c \in Client, GetOTP(c) PROVE IInv'
    <2>1. PICK p \in {"del", "ttl"} : pc' = [pc EXCEPT ![c] = p]
      BY <1>3 DEF GetOTP, Goto
    <2>2. otp \in Txn /\ otp <= issued /\ attempts < RetryLimit /\ attempts \in 0..RetryLimit
      BY <1>3 DEF GetOTP, MayTry, TypeOK, CallsFit
    <2>3. TypeOK'
      BY <1>3, <2>1, <2>2 DEF GetOTP, TypeOK
    <2>4. CallsFit'
      <3>1. /\ stored' = [stored EXCEPT ![c] = otp] /\ tries' = [tries EXCEPT ![c] = attempts]
            /\ UNCHANGED <<otpKey, history, ttl>>
        BY <1>3 DEF GetOTP
      <3>2. \A d \in Client : d # c => /\ pc'[d] = pc[d] /\ stored'[d] = stored[d]
                                      /\ tries'[d] = tries[d]
        BY <2>1, <3>1 DEF TypeOK
      <3>3. pc'[c] = p /\ stored'[c] = otp /\ tries'[c] = attempts
        BY <2>1, <3>1 DEF TypeOK
      <3> QED
        BY <2>1, <2>2, <3>1, <3>2, <3>3 DEF CallsFit
    <2> QED
      BY <2>3, <2>4
  <1>4. ASSUME NEW c \in Client, Expire(c) PROVE IInv'
    <2>1. TypeOK'
      BY <1>4 DEF Expire, Goto, TypeOK
    <2>2. CallsFit'
      BY <1>4 DEF Expire, Goto, TypeOK, CallsFit
    <2> QED
      BY <2>1, <2>2
  <1>5. ASSUME NEW c \in Client, SetOTP(c) PROVE IInv'
    <2>1. TypeOK'
      BY <1>5 DEF SetOTP, Goto, TypeOK
    <2>2. CallsFit'
      BY <1>5 DEF SetOTP, Goto, TypeOK, CallsFit
    <2> QED
      BY <2>1, <2>2
  <1>6. ASSUME NEW c \in Client, Del(c) PROVE IInv'
    <2>1. stored[c] \in Txn /\ stored[c] <= issued
      BY <1>6 DEF Del, TypeOK, CallsFit
    <2>2. accepted[stored[c]] \in 0..2 /\ accepted' \in [Txn -> 0..2]
      BY <1>6, <2>1 DEF Del, TypeOK
    <2>3. TypeOK'
      BY <1>6, <2>2 DEF Del, Return, Goto, TypeOK
    <2>4. CallsFit'
      BY <1>6, <2>1 DEF Del, Return, Goto, TypeOK, CallsFit
    <2> QED
      BY <2>3, <2>4
  <1>7. ASSUME NEW c \in Client, TTL(c) PROVE IInv'
    <2>1. TypeOK'
      BY <1>7 DEF TTL, Goto, TypeOK
    <2>2. CallsFit'
      BY <1>7 DEF TTL, Goto, TypeOK, CallsFit
    <2> QED
      BY <2>1, <2>2
  <1>8. ASSUME NEW c \in Client, Put(c) PROVE IInv'
    <2>1. stored[c] \in Txn /\ stored[c] <= issued /\ tries[c] < RetryLimit /\ ttl[c] > 0
      BY <1>8 DEF Put, TypeOK, CallsFit
    <2>2. /\ wrong[stored[c]] \in 0..(RetryLimit + 1)
          /\ wrong' \in [Txn -> 0..(RetryLimit + 1)]
      BY <1>8, <2>1 DEF Put, TypeOK
    <2>3. tries[c] + 1 \in 0..RetryLimit /\ ttl[c] \in 0..OtpTTL
      BY <2>1 DEF TypeOK
    <2>4. TypeOK'
      <3>1. /\ otp' \in Txn /\ attempts' \in 0..RetryLimit
            /\ otpTTL' \in 0..OtpTTL /\ otpTTL' > 0
        BY <1>8, <2>1, <2>3 DEF Put, Counted
      <3> QED
        BY <1>8, <2>2, <3>1 DEF Put, Return, Goto, TypeOK
    <2>5. CallsFit'
      BY <1>8, <2>1 DEF Put, Counted, Return, Goto, TypeOK, CallsFit
    <2> QED
      BY <2>4, <2>5
  <1>9. ASSUME NEW c \in Client, CallFails(c) PROVE IInv'
    <2>1. TypeOK'
      BY <1>9 DEF CallFails, Return, Goto, TypeOK
    <2>2. CallsFit'
      BY <1>9 DEF CallFails, Return, Goto, TypeOK, CallsFit
    <2> QED
      BY <2>1, <2>2
  <1>10. CASE UNCHANGED vars
    BY <1>10 DEF vars, TypeOK, CallsFit
  <1> QED
    BY <1>1, <1>2, <1>3, <1>4, <1>5, <1>6, <1>7, <1>8, <1>9, <1>10 DEF Next, Command

\* Whatever the calls do to each other, and whatever expires or fails, the stored
\* attempts stay within the limit and a stored OTP has a time to live.
THEOREM OTPInvariance == Spec => []IInv
  BY Initial, Inductive, PTL DEF Spec

-----------------------------------------------------------------------------
(* Calls that come one after the other.                                    *)

\* The step of a call leaves the others where they are, and they are idle.
LEMMA OthersWait ==
    ASSUME IInv, InTurn, ~Overlap, NEW c \in Client, pc'[c] # pc[c],
           \A d \in Client : d # c => pc'[d] = pc[d]
    PROVE  \A d \in Client : d # c => pc'[d] = "idle" /\ pc[d] = "idle" /\ stored[d] = None
  <1>1. SUFFICES ASSUME NEW d \in Client, d # c
                 PROVE  pc[d] = "idle" /\ stored[d] = None
    OBVIOUS
  <1>2. pc[d] = "idle"
    BY <1>1 DEF Overlap
  <1> QED
    BY <1>1, <1>2 DEF IInv, CallsFit

\* A step that overlaps no other call keeps the invariant of calls in turn.
LEMMA InTurnKept ==
    ASSUME IInv, IInv', InTurn, [Next]_vars, ~Overlap
    PROVE  InTurn'
  <1> USE Limits DEF rateKey, otpKey, history, local, Txn
  <1>0. TypeOK /\ CallsFit /\ CallsFit'
    BY DEF IInv
  <1>1. CASE Tick
    BY <1>0, <1>1 DEF Tick, TypeOK, InTurn, RetryLimitHolds, AcceptedOnce
  <1>2. ASSUME NEW c \in Client, Incr(c) PROVE InTurn'
    <2>1. PICK p \in {"idle", "expire", "set"} : pc' = [pc EXCEPT ![c] = p]
      <3>1. CASE rate + 1 = 1
        <4>1. ~(rate + 1 > RateLimit)
          BY <3>1
        <4>2. pc' = [pc EXCEPT ![c] = "expire"]
          BY <1>2, <3>1, <4>1 DEF Incr, Goto, FirstOfWindow
        <4> QED
          BY <4>2
      <3>2. CASE rate + 1 # 1 /\ rate + 1 > RateLimit
        BY <1>2, <3>2 DEF Incr, Goto, FirstOfWindow
      <3>3. CASE rate + 1 # 1 /\ ~(rate + 1 > RateLimit)
        BY <1>2, <3>3 DEF Incr, Goto, FirstOfWindow
      <3> QED
        BY <3>1, <3>2, <3>3
    <2>2. \A d \in Client : d # c => pc'[d] = pc[d]
      BY <1>0, <2>1 DEF TypeOK
    <2>3. p # "idle" => \A d \in Client : d # c => pc'[d] = "idle"
      BY <1>0, <1>2, <2>1, <2>2, OthersWait DEF Incr, TypeOK
    <2>4. \A a, b \in Client : pc'[a] # "idle" /\ pc'[b] # "idle" => a = b
      BY <1>0, <2>1, <2>2, <2>3 DEF TypeOK, InTurn
    <2> QED
      BY <1>2, <2>4 DEF Incr, InTurn, RetryLimitHolds, AcceptedOnce
  <1>3. ASSUME NEW c \in Client, GetOTP(c) PROVE InTurn'
    <2>1. pc'[c] # pc[c] /\ \A d \in Client : d # c => pc'[d] = pc[d]
      BY <1>0, <1>3 DEF GetOTP, Goto, TypeOK
    <2>2. \A d \in Client : d # c => pc'[d] = "idle" /\ pc[d] = "idle" /\ stored[d] = None
      BY <2>1, OthersWait
    <2>3. \A a, b \in Client : pc'[a] # "idle" /\ pc'[b] # "idle" => a = b
      BY <2>2
    <2>4. /\ stored'[c] = otp /\ tries'[c] = attempts /\ otp # None
          /\ \A d \in Client : d # c => stored'[d] = None
      BY <1>0, <1>3, <2>2 DEF GetOTP, TypeOK
    <2> QED
      BY <1>3, <2>3, <2>4 DEF GetOTP, InTurn, RetryLimitHolds, AcceptedOnce
  <1>4. ASSUME NEW c \in Client, Expire(c) PROVE InTurn'
    <2>1. pc'[c] # pc[c] /\ \A d \in Client : d # c => pc'[d] = pc[d]
      BY <1>0, <1>4 DEF Expire, Goto, TypeOK
    <2>2. \A d \in Client : d # c => pc'[d] = "idle" /\ pc[d] = "idle" /\ stored[d] = None
      BY <2>1, OthersWait
    <2> QED
      BY <1>0, <1>4, <2>2 DEF Expire, TypeOK, InTurn, RetryLimitHolds, AcceptedOnce
  <1>5. ASSUME NEW c \in Client, SetOTP(c) PROVE InTurn'
    <2>1. pc'[c] # pc[c] /\ \A d \in Client : d # c => pc'[d] = pc[d]
      BY <1>0, <1>5 DEF SetOTP, Goto, TypeOK
    <2>2. \A d \in Client : d # c => pc'[d] = "idle" /\ pc[d] = "idle" /\ stored[d] = None
      BY <2>1, OthersWait
    <2>3. stored[c] = None
      BY <1>0, <1>5 DEF SetOTP, CallsFit
    <2>4. wrong[issued + 1] = 0 /\ accepted[issued + 1] = 0
      BY <1>0, <1>5 DEF SetOTP, CallsFit, TypeOK
    <2> QED
      BY <1>0, <1>5, <2>2, <2>3, <2>4
      DEF SetOTP, TypeOK, InTurn, RetryLimitHolds, AcceptedOnce
  <1>6. ASSUME NEW c \in Client, Del(c) PROVE InTurn'
    <2>1. pc'[c] # pc[c] /\ \A d \in Client : d # c => pc'[d] = pc[d]
      BY <1>0, <1>6 DEF Del, Return, Goto, TypeOK
    <2>2. \A d \in Client : d # c => pc'[d] = "idle" /\ pc[d] = "idle" /\ stored[d] = None
      BY <2>1, OthersWait
    <2>3. stored[c] \in Txn /\ accepted[stored[c]] = 0
      BY <1>0, <1>6 DEF Del, TypeOK, CallsFit, InTurn
    <2>4. accepted' = [accepted EXCEPT ![stored[c]] = 1] /\ wrong' = wrong
      BY <1>0, <1>6, <2>3 DEF Del, TypeOK
    <2>5. \A d \in Client : pc'[d] = "idle" /\ stored'[d] = None
      BY <1>0, <1>6, <2>2 DEF Del, Return, Goto, TypeOK
    <2>6. RetryLimitHolds' /\ AcceptedOnce'
      BY <2>3, <2>4 DEF InTurn, RetryLimitHolds, AcceptedOnce, TypeOK
    <2>7. otp' = None
      BY <1>0, <1>6 DEF Del
    <2> QED
      BY <2>5, <2>6, <2>7 DEF InTurn
  <1>7. ASSUME NEW c \in Client, TTL(c) PROVE InTurn'
    <2>1. pc'[c] # pc[c] /\ \A d \in Client : d # c => pc'[d] = pc[d]
      BY <1>0, <1>7 DEF TTL, Goto, TypeOK
    <2>2. \A d \in Client : d # c => pc'[d] = "idle" /\ pc[d] = "idle" /\ stored[d] = None
      BY <2>1, OthersWait
    <2> QED
      BY <1>0, <1>7, <2>2 DEF TTL, TypeOK, InTurn, RetryLimitHolds, AcceptedOnce
  <1>8. ASSUME NEW c \in Client, Put(c) PROVE InTurn'
    <2>1. pc'[c] # pc[c] /\ \A d \in Client : d # c => pc'[d] = pc[d]
      BY <1>0, <1>8 DEF Put, Return, Goto, TypeOK
    <2>2. \A d \in Client : d # c => pc'[d] = "idle" /\ pc[d] = "idle" /\ stored[d] = None
      BY <2>1, OthersWait
    <2>3. /\ stored[c] \in Txn /\ accepted[stored[c]] = 0
          /\ wrong[stored[c]] = tries[c] /\ tries[c] \in Nat /\ tries[c] < RetryLimit
      BY <1>0, <1>8 DEF Put, TypeOK, CallsFit, InTurn
    <2>4. wrong' = [wrong EXCEPT ![stored[c]] = tries[c] + 1] /\ accepted' = accepted
      <3>1. ~(wrong[stored[c]] > RetryLimit)
        BY <2>3
      <3> QED
        BY <1>8, <2>3, <3>1 DEF Put
    <2>5. \A d \in Client : pc'[d] = "idle" /\ stored'[d] = None
      BY <1>0, <1>8, <2>2 DEF Put, Return, Goto, TypeOK
    <2>6. RetryLimitHolds' /\ AcceptedOnce'
      BY <2>3, <2>4 DEF InTurn, RetryLimitHolds, AcceptedOnce, TypeOK
    <2>7. otp' = stored[c] /\ wrong'[otp'] = attempts' /\ accepted'[otp'] = 0
      BY <1>0, <1>8, <2>3, <2>4 DEF Put, Counted, TypeOK
    <2> QED
      BY <2>5, <2>6, <2>7 DEF InTurn
  <1>9. ASSUME NEW c \in Client, CallFails(c) PROVE InTurn'
    <2>1. pc'[c] # pc[c] /\ \A d \in Client : d # c => pc'[d] = pc[d]
      BY <1>0, <1>9 DEF CallFails, Return, Goto, TypeOK
    <2>2. \A d \in Client : d # c => pc'[d] = "idle" /\ pc[d] = "idle" /\ stored[d] = None
      BY <2>1, OthersWait
    <2>3. \A d \in Client : pc'[d] = "idle" /\ stored'[d] = None
      BY <1>0, <1>9, <2>2 DEF CallFails, Return, Goto, TypeOK
    <2> QED
      BY <1>0, <1>9, <2>3 DEF CallFails, InTurn, RetryLimitHolds, AcceptedOnce
  <1>10. CASE UNCHANGED vars
    BY <1>0, <1>10 DEF vars, InTurn, RetryLimitHolds, AcceptedOnce
  <1> QED
    BY <1>1, <1>2, <1>3, <1>4, <1>5, <1>6, <1>7, <1>8, <1>9, <1>10 DEF Next, Command

\* Until two calls overlap, the invariant of calls in turn holds.
LEMMA InTurnHolds == MCSpec => [](IInv /\ (~overlapped => InTurn))
  <1>1. MCInit => IInv /\ InTurn
    BY Initial, Limits
    DEF MCInit, Init, Txn, InTurn, RetryLimitHolds, AcceptedOnce
  <1>2. ASSUME IInv, ~overlapped => InTurn, [MCNext]_<<vars, overlapped>>
        PROVE  IInv' /\ (~overlapped' => InTurn')
    <2>1. [Next]_vars
      BY <1>2 DEF MCNext
    <2>2. IInv'
      BY <1>2, <2>1, Inductive
    <2>3. CASE MCNext
      <3>1. ~overlapped' => ~overlapped /\ ~Overlap
        BY <2>3 DEF MCNext, Overlap
      <3> QED
        BY <1>2, <2>1, <2>2, <3>1, InTurnKept
    <2>4. CASE UNCHANGED <<vars, overlapped>>
      BY <1>2, <2>2, <2>4
      DEF vars, rateKey, otpKey, history, local, InTurn, RetryLimitHolds, AcceptedOnce
    <2> QED
      BY <1>2, <2>2, <2>3, <2>4
  <1> QED
    BY <1>1, <1>2, PTL DEF MCSpec

\* As long as the calls for a number come one after the other, an OTP refuses at
\* most RetryLimit answers, whatever expires or fails between their commands.
THEOREM RetryLimitInTurn == MCSpec => []RetryLimitHoldsInTurn
  <1>1. (~overlapped => InTurn) => RetryLimitHoldsInTurn
    BY DEF InTurn, RetryLimitHoldsInTurn
  <1> QED
    BY <1>1, InTurnHolds, PTL

\* As long as the calls for a number come one after the other, no OTP is accepted
\* twice, whatever expires or fails between their commands.
THEOREM AcceptedInTurn == MCSpec => []AcceptedOnceInTurn
  <1>1. (~overlapped => InTurn) => AcceptedOnceInTurn
    BY DEF InTurn, AcceptedOnceInTurn
  <1> QED
    BY <1>1, InTurnHolds, PTL
===============================================================================
