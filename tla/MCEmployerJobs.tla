---------------------------- MODULE MCEmployerJobs ----------------------------
EXTENDS EmployerJobs, TLC

CallerSymmetry == Permutations(Caller)
===============================================================================
