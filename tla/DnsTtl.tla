------------------------------- MODULE DnsTtl -------------------------------
(***************************************************************************)
(* The time arithmetic of the resolver: RFC 1982 serial comparison of the  *)
(* 32-bit RRSIG timestamps, the TTL a message may be cached for, the three *)
(* freshness classes of a cache entry, and the TTL a client is shown.      *)
(*                                                                         *)
(* Everything here is pure.  A message is abstracted to what the time      *)
(* arithmetic reads of it:                                                 *)
(*   rcode  the response code                                              *)
(*   ttls   the TTLs of its records (OPT is not among them)                *)
(*   sigs   the sig_expiration words of the RRSIGs in its answer and       *)
(*          authority sections                                             *)
(***************************************************************************)
EXTENDS Integers, FiniteSetsExt

CONSTANTS
  WordMod,        \* 2^32 in the code: the modulus of a u32
  DefaultTtl,     \* 300: the TTL of a message without records
  MaxAnswerTtl,   \* 86400: the cap on a cached TTL
  MaxStale,       \* MAX_STALE_SECS: how long past its TTL an entry is served
  StaleServeTtl   \* 30: the TTL put on the records of a stale answer

Half == WordMod \div 2

ASSUME WordAssumption ==
  /\ WordMod \in Nat
  /\ WordMod >= 4
  /\ WordMod = 2 * Half

ASSUME TtlAssumption ==
  /\ DefaultTtl \in 1 .. MaxAnswerTtl
  /\ MaxAnswerTtl \in 1 .. WordMod - 2
  /\ MaxStale \in Nat
  /\ StaleServeTtl \in 1 .. WordMod - 1

Word == 0 .. WordMod - 1

-----------------------------------------------------------------------------
(* u32 and serial-number arithmetic *)

\* a.wrapping_sub(b) on u32.
WrappingSub(a, b) == (a - b) % WordMod

\* A u32 reinterpreted as an i32.
AsSigned(w) == IF w < Half THEN w ELSE w - WordMod

\* RFC 1982 distance from the clock t to the expiration word exp.  The clock
\* is a u64; only its low word is compared.
SerialDiff(exp, t) == AsSigned(WrappingSub(exp, t % WordMod))

SaturatingSub(a, b) == IF a >= b THEN a - b ELSE 0

-----------------------------------------------------------------------------
(* How long a message may be cached *)

\* calculate_min_ttl: the folded minimum starts at u32::MAX, and that value
\* still standing at the end means "no record".
MinTtl(msg) ==
  LET least == Min(msg.ttls \cup {WordMod - 1})
  IN  IF least = WordMod - 1 THEN DefaultTtl ELSE Min({least, MaxAnswerTtl})

\* Variants of CacheTtl with a mistake, to show that the properties see it:
\* the signatures do not bound the TTL; an expired one is not noticed.
CacheTtlUnbounded(msg, status, t) == MinTtl(msg)

CacheTtlNoExpiryCheck(msg, status, t) ==
  IF status # "Secure" THEN MinTtl(msg)
  ELSE Min({SerialDiff(exp, t) : exp \in msg.sigs} \cup {MinTtl(msg)})

\* calculate_cache_ttl: only Secure data is bounded by its signatures, and a
\* single expired signature leaves nothing.
CacheTtl(msg, status, t) ==
  LET left == {SerialDiff(exp, t) : exp \in msg.sigs}
  IN  IF status # "Secure" THEN MinTtl(msg)
      ELSE IF \E d \in left : d <= 0 THEN 0
      ELSE Min(left \cup {MinTtl(msg)})

-----------------------------------------------------------------------------
(* Freshness of an entry and the TTLs shown for it *)

Age(entry, t) == SaturatingSub(t, entry.cachedAt)

\* CacheEntry::freshness_at
Freshness(entry, t) ==
  IF Age(entry, t) < entry.minTtl THEN "Fresh"
  ELSE IF Age(entry, t) < entry.minTtl + MaxStale THEN "Stale"
  ELSE "Expired"

\* With a mistake: fresh records keep the TTL they were cached with.
ServedTtlUnaged(ttl, entry, freshness, t) ==
  IF freshness = "Fresh" THEN ttl ELSE StaleServeTtl

\* compute_ttl of construct_client_response; the age is cut to a u32.
ServedTtl(ttl, entry, freshness, t) ==
  CASE freshness = "Fresh"   -> SaturatingSub(ttl, Age(entry, t) % WordMod)
    [] freshness = "Stale"   -> StaleServeTtl
    [] freshness = "Expired" -> 0

-----------------------------------------------------------------------------
(* Signature validity at validation time: the expiration half of           *)
(* rrsig_time_valid (a signature is good through its expiration second).   *)
SigUnexpired(exp, t) == SerialDiff(exp, t) >= 0
=============================================================================
