------------------------- MODULE MCWhatsAppOnboarding -------------------------
(***************************************************************************)
(* WhatsAppOnboarding with a history variable that remembers whether the   *)
(* Aadhaar gateway has ever refused the worker.                            *)
(***************************************************************************)
EXTENDS WhatsAppOnboarding

VARIABLE refused         \* the gateway has answered "not verified"

MCInit == Init /\ refused = FALSE

MCNext ==
    /\ Next
    /\ refused' = (refused \/ (verification # "Failed" /\ verification' = "Failed"))

MCSpec == MCInit /\ [][MCNext]_<<vars, refused>> /\ Fairness

\* As long as the gateway has not refused the worker and nothing has failed, the
\* worker's tier is the one the bot last told.
TierAsToldUnlessRefused == ~refused => TierAsTold
===============================================================================
