------------------------- MODULE MCWorkerRegistration -------------------------
EXTENDS WorkerRegistration, TLC

CONSTANTS p1, p2, p3, k1, k2, k3

\* Two numbers with the same last ten digits; the third code is only for those who
\* ask for it.
Shared == p1 :> k1 @@ p2 :> k1 @@ p3 :> k2

\* Requests are interchangeable, and so are the numbers that share a code.
SharedSymmetry ==
    { s @@ r : s \in Permutations({p1, p2}), r \in Permutations(Request) }
===============================================================================
