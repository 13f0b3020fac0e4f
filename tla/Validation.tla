----------------------------- MODULE Validation -----------------------------
(***************************************************************************)
(* What DnssecValidator promises its callers, whatever it asks, caches and *)
(* checks on the way: every message it is given gets one verdict, Secure   *)
(* only if the keys of the zones above it signed all of it, insecure only  *)
(* if a signed denial of DS for a zone above it can be had.                *)
(***************************************************************************)
CONSTANTS Validators, Messages, None,
          Signed(_),      \* the whole message is signed by keys of its zones
          Unsecured(_)    \* a zone above it is read to be an insecure delegation

VARIABLES asked,          \* the message a validation was called with, or None
          verdict         \* what it returned, None until it has

vars == <<asked, verdict>>

Verdicts == {"Secure", "InsecureUnsigned", "InsecureUnknown", "Bogus"}

\* d is a verdict that m may get.
Allowed(m, d) ==
  /\ d = "Secure" => Signed(m)
  /\ d = "InsecureUnsigned" => Unsecured(m)

Pending(v) == asked[v] # None /\ verdict[v] = None

Init ==
  /\ asked = [v \in Validators |-> None]
  /\ verdict = [v \in Validators |-> None]

Ask(v) ==
  /\ ~Pending(v)
  /\ verdict' = [verdict EXCEPT ![v] = None]
  /\ \E m \in Messages : asked' = [asked EXCEPT ![v] = m]

Judge(v) ==
  /\ Pending(v)
  /\ verdict'[v] \in Verdicts
  /\ Allowed(asked[v], verdict'[v])
  /\ verdict' = [verdict EXCEPT ![v] = verdict'[v]]
  /\ UNCHANGED asked

Next == \E v \in Validators : Ask(v) \/ Judge(v)

Spec == Init /\ [][Next]_vars
=============================================================================
