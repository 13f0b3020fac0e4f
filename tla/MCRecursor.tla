----------------------------- MODULE MCRecursor -----------------------------
(* A zone z.c, a name wx in it, and a name server sv.c outside it.          *)
EXTENDS Recursor

CONSTANTS c, z, wx, sv, ip, bad, root

C == <<c>>
Z == <<z, c>>
W == <<wx, z, c>>
S == <<sv, c>>

MCLabels    == {c, z, wx, sv}
MCZones     == {C, Z}
MCAddresses == {ip, bad, root}
MCSafe      == {ip}
MCRoots     == {root}
MCQuestions == {[name |-> W, type |-> "A"], [name |-> C, type |-> "DS"]}

Bare == [rcode |-> "NoError", aa |-> FALSE, answers |-> {}, soa |-> None,
         ns |-> <<>>, proofs |-> {}, glue |-> {}]
Rec(o, t, d)    == [owner |-> o, type |-> t, target |-> d]
With(answers)   == [Bare EXCEPT !.answers = answers]
Referral(o, h, g) == [Bare EXCEPT !.ns = <<[owner |-> o, host |-> h]>>, !.glue = g]
At(h, i)        == [owner |-> h, ip |-> i]

MCMessages ==
  {Bare,
   With({Rec(W, "A", ip)}), With({Rec(S, "A", ip)}), With({Rec(S, "AAAA", bad)}),
   With({Rec(W, "CNAME", S)}), With({Rec(S, "CNAME", W)}),
   With({Rec(W, "CNAME", S), Rec(S, "A", ip)}),
   With({Rec(Z, "DNAME", C)}), With({Rec(Z, "DNAME", W)}),
   [Bare EXCEPT !.soa = Z, !.proofs = {"nsec"}],
   [Bare EXCEPT !.rcode = "NXDomain", !.aa = TRUE],
   Referral(C, S, {At(S, ip)}),
   Referral(Z, S, {At(S, bad)}),
   [Bare EXCEPT !.ns = <<[owner |-> Z, host |-> S], [owner |-> Z, host |-> W]>>],
   [Bare EXCEPT !.ns = <<[owner |-> Z, host |-> S], [owner |-> C, host |-> S]>>]}

\* Two zones, the second the target of an alias in the first, both delegated
\* without glue to one name server outside of them.
N == <<sv>>
SharedServer ==
  {Bare, Referral(Z, N, {}), Referral(C, N, {}), With({Rec(N, "A", ip)}),
   With({Rec(W, "CNAME", C)}), With({Rec(C, "A", ip)})}
=============================================================================
