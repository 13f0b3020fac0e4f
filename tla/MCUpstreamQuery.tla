-------------------------- MODULE MCUpstreamQuery --------------------------
(* Candidates for TLC: more than one batch, of both families, one unsafe. *)
EXTENDS UpstreamQuery

CONSTANTS a, b, u, x        \* x is the IPv6 candidate, u the unsafe one

MCCandidates == {a, b, u, x}
MCV4         == {a, b, u}
MCSafe       == {a, b, x}

Says(m, t, r) == [matches |-> m, tc |-> t, rcode |-> r]
MCReplies == {Says(TRUE, FALSE, "NoError"), Says(TRUE, TRUE, "NXDomain"),
              Says(TRUE, FALSE, "ServFail"), Says(FALSE, FALSE, "NoError"),
              Says(TRUE, FALSE, "FormErr")}
=============================================================================
