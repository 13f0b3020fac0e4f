----------------------------- MODULE MCPersist ------------------------------
(* Small instances of Persist: two-chunk documents, TTL 0 and a stale window *)
(* of one second, so that entries expire while they are being saved.         *)
EXTENDS Persist, TLC

CONSTANTS k1, k2, n1, n2, n3

ZeroTtl == {0}

\* A file of an older version: one entry without a status beside a good one.
LegacyDocs ==
  {[k \in Keys |-> [minTtl |-> 0, cachedAt |-> 0, verdict |-> k # x]] : x \in Keys}

\* Bound of the instance: saves overlap before the restart, not after it too.
OverlapsOnce == boots = MaxBoots => Cardinality(Active) <= 1

\* Keys are interchangeable, and so are inodes.
Names == Permutations(Keys) \cup Permutations(Inodes)
=============================================================================
