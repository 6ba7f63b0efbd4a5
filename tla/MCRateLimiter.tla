---------------------------- MODULE MCRateLimiter ----------------------------
EXTENDS RateLimiter, TLC

RequestSymmetry == Permutations(Request)
===============================================================================
