------------------------------ MODULE MCEngine ------------------------------
(* Small instances of Engine.  The word is 4 bits wide, so the clock, which  *)
(* starts at 12, and the signature expirations cross its rollover at 16.     *)
EXTENDS Engine, TLC

CONSTANTS k1, k2, r1, r2, t1, t2, t3, w1

\* Unsigned data; a signed answer whose signature ends before its TTL does; a
\* signed answer that also carries an expired signature; an upstream error.
Unsigned   == [rcode |-> "NoError", ttls |-> {2, 3}, sigs |-> {}]
Signed     == [rcode |-> "NoError", ttls |-> {3}, sigs |-> {14}]
SignedLate == [rcode |-> "NXDomain", ttls |-> {2}, sigs |-> {1}]
HalfSigned == [rcode |-> "NoError", ttls |-> {3}, sigs |-> {0, 10}]
Failure    == [rcode |-> "ServFail", ttls |-> {}, sigs |-> {}]

AllMessages    == {Unsigned, Signed, SignedLate, HalfSigned, Failure}
OneMessage     == {Signed}

\* One client that validates for itself, one that asks for AD over UDP.
Checker(k) == [key |-> k, do |-> TRUE, ad |-> FALSE, cd |-> TRUE, udp |-> FALSE]
Stub(k)    == [key |-> k, do |-> FALSE, ad |-> TRUE, cd |-> FALSE, udp |-> TRUE]
Plain(k)   == [key |-> k, do |-> TRUE, ad |-> FALSE, cd |-> FALSE, udp |-> FALSE]

MCQueries    == UNION {{Checker(k), Stub(k)} : k \in Keys}

MCWarmPlan == [w \in Warmers |-> <<k1, k2>>]
OneQuery     == {Plain(k1)}
NoWarmPlan == [w \in Warmers |-> <<>>]

Sure  == {TRUE}
Shaky == {TRUE, FALSE}

\* Tasks are interchangeable, and so are request slots.
Slots == Permutations(Tasks) \cup Permutations(Requests)
=============================================================================
