---------------------------- MODULE MCRateLimiter ------------------------------
(* Names for the model values of the instances of RateLimiter: an address at  *)
(* the limiter of registrations (r) and at that of logins (l).                *)
EXTENDS RateLimiter, TLC
CONSTANTS t1, t2, t3, r, l

MCMaxHits == [k \in Keys |-> IF k = l THEN 3 ELSE 2]
MCSymmetry == Permutations({t1, t2})
================================================================================
