------------------------------- MODULE MCHiring -------------------------------
(***************************************************************************)
(* Hiring with a history variable that remembers whether two requests were *)
(* between their commit and their event at a time.                         *)
(***************************************************************************)
EXTENDS Hiring

VARIABLE overlapped      \* two changes waited for their events at a time

MCInit == HiringInit /\ overlapped = FALSE

Remember ==
    overlapped' = (overlapped \/ \E r, q \in Request :
                      r # q /\ pc'[r] = "notify" /\ pc'[q] = "notify")

mcVars == <<hiringVars, overlapped>>

MCSpec ==
    /\ MCInit /\ [][HiringNext /\ Remember]_mcVars
    /\ \A r \in Request : WF_vars(Progress(r))

\* As long as no two changes wait for their events at a time, the events are in
\* the order of the changes, whatever failed and however the transactions before
\* the commits interleave.
NewsInOrderInTurn ==
    ~overlapped => News!InOrder(App)
===============================================================================
