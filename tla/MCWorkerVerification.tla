------------------------- MODULE MCWorkerVerification -------------------------
(***************************************************************************)
(* WorkerVerification with a history variable that remembers whether two   *)
(* calls for the worker have ever overlapped.                              *)
(***************************************************************************)
EXTENDS WorkerVerification, TLC

VARIABLE overlapped      \* a call has taken a step while another was half-way

CallSymmetry == Permutations(Onboarder) \cup Permutations(Payer)

MCInit == WorkerInit /\ overlapped = FALSE

Busy(c) == at[c] # "idle"
Waits(c) == at'[c] = at[c] /\ step'[c] = step[c]

\* A step of some call for the worker.
Called == <<identity, onboarding>>' # <<identity, onboarding>>

MCNext ==
    /\ WorkerNext
    /\ overlapped' = (overlapped \/ (Called /\ \E c \in Onboarder : Busy(c) /\ Waits(c)))

MCSpec == MCInit /\ [][MCNext]_<<workerVars, overlapped>>

\* As long as the calls come one after the other, failures included, a
\* verification that is under way is the latest row.
ActiveIsLatestInTurn == ~overlapped => V!ActiveIsLatest

\* As long as the calls come one after the other and none has failed, the tier
\* is the one of the last outcome.
TierMatchesOutcomeInTurn == ~overlapped /\ faults = 0 => V!TierMatchesOutcome

\* As long as the calls of a worker come one after the other, failures and
\* repetitions included, the referral has one cashback: converted_at is enough.
OneCashbackInTurn == ~overlapped => OneCashbackPerReferral
===============================================================================
