--------------------------- MODULE MCRateLimiter ----------------------------
(* Small instances of RateLimiter: two subnets, two domains and a table for *)
(* one entry, a burst of two queries refilled at one per second.              *)
EXTENDS RateLimiter, TLC

CONSTANTS th1, th2, s1, s2, d1, d2

\* Bound of the instance: the buckets there are have not given out more than
\* three tokens together, enough for the third query of one second to be dropped.
FewTokens ==
  \A s, t \in Subnets : s # t => passed[s] + passed[t] <= 3

Names == Permutations(Threads) \cup Permutations(Subnets) \cup Permutations(Domains)
=============================================================================
