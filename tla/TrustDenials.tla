---------------------------- MODULE TrustDenials ----------------------------
(***************************************************************************)
(* What is asked of TrustChain's reading of proofs of denial.              *)
(***************************************************************************)
EXTENDS TrustChain, DenialReference

\* A validation has the keys to read a proof of denial with.
Reading == \E v \in Validators : pc[v] = "trusted" /\ Negative(v)

\* When it reads a proof, check_nsec_* and check_nsec3_* accept all that the
\* servers of the given zones deny, and so do not turn what is not there into
\* SERVFAIL.
DenialAccepted == Reading => AcceptsDenials

\* When it reads a proof, nothing is taken for denied on a part of a proof, or on
\* the proof of something else: the way a record is reused or lost on the way.
DenialSound == Reading => OnlyWholeDenials
=============================================================================
