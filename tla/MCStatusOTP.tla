----------------------------- MODULE MCStatusOTP -----------------------------
(***************************************************************************)
(* StatusOTP with a history variable that remembers whether two calls for  *)
(* the number have ever overlapped.                                        *)
(***************************************************************************)
EXTENDS StatusOTP

VARIABLE overlapped      \* a call has taken a step while another was half-way

MCInit == Init /\ overlapped = FALSE

MCNext ==
    /\ Next
    /\ overlapped' = (overlapped \/ \E c, d \in Client : /\ pc[c] # "idle" /\ pc'[c] = pc[c]
                                                         /\ pc'[d] # pc[d])

MCSpec == MCInit /\ [][MCNext]_<<vars, overlapped>> /\ Fairness

\* As long as the calls come one after the other, failures and expiry between
\* their commands included, an OTP refuses at most RetryLimit answers.
RetryLimitHoldsInTurn == ~overlapped => RetryLimitHolds

\* As long as the calls come one after the other, an OTP is accepted once.
AcceptedOnceInTurn == ~overlapped => AcceptedOnce
==============================================================================
