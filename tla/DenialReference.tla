-------------------------- MODULE DenialReference --------------------------
(***************************************************************************)
(* What the servers of a zone put into a negative answer (RFC 4035 3.1.3,  *)
(* RFC 5155 7.2), against which the verdicts of Denial are checked.  A     *)
(* zone is a function from its names to their types.                       *)
(***************************************************************************)
EXTENDS Denial, FiniteSets

CONSTANTS
  Apex,        \* of the zones below
  Contents,    \* zones: functions from names to sets of types
  Asked        \* names asked for, at or below Apex

QTypes == {"A", "TXT", "DS"}

\* The names whose hashes are looked at, and the wildcards right below them.
Above(n)  == {Ancestor(n, p) : p \in 0..Len(n)}
Hashable  == UNION {Above(n) : n \in Asked \cup UNION {DOMAIN zone : zone \in Contents}}

ASSUME ContentsAssumption ==
  /\ Apex \in Seq(Nat)
  /\ \A zone \in Contents :
       /\ IsFiniteSet(DOMAIN zone) /\ Apex \in DOMAIN zone /\ "SOA" \in zone[Apex]
       /\ \A n \in DOMAIN zone :
            n \in Seq(Nat) /\ ZoneOf(Apex, n) /\ ("SOA" \in zone[n] => n = Apex)
  /\ \A q \in Asked : q \in Seq(Nat) /\ ZoneOf(Apex, q)

\* Hashes do not collide, and no name asked for is so long that its closest
\* encloser is not looked for.
ASSUME SearchAssumption ==
  /\ EncloserSteps \in Nat \ {0}
  /\ \A q \in Asked : Len(q) < Len(Apex) + EncloserSteps
  /\ Hash \in [DOMAIN Hash -> Nat]
  /\ \A n \in Hashable : n \in DOMAIN Hash /\ Wildcard(n) \in DOMAIN Hash
  /\ \A m, n \in DOMAIN Hash : Hash[m] = Hash[n] => m = n

\* Names that exist in the zone, empty non-terminals among them.
Existing(zone) ==
  {n \in UNION {Above(o) : o \in DOMAIN zone} : ZoneOf(Apex, n)}
Gaps(zone) == Existing(zone) \ DOMAIN zone

Encloser(S, q) == Longest(Above(q) \cap S)
Source(zone, q) == Wildcard(Encloser(Existing(zone), q))

\* No name of the zone, and no wildcard of it, has records of this type for q.
Absent(zone, q, t) ==
  LET n == IF q \in Existing(zone) THEN q ELSE Source(zone, q)
  IN  n \in DOMAIN zone => {t, "CNAME"} \cap zone[n] = {}

\* A question these servers answer, and with a denial: at a delegation only
\* that for DS, at the apex every other.
Denied(zone, q, t) ==
  /\ Absent(zone, q, t)
  /\ \A z \in DOMAIN zone \ {Apex} :
       "NS" \in zone[z] /\ ZoneOf(z, q) => q = z /\ t = "DS"
  /\ q = Apex => t # "DS"

ByWildcard(zone, q) == q \notin Existing(zone) /\ Source(zone, q) \in DOMAIN zone

-----------------------------------------------------------------------------
(* NSEC *)

FirstName(S) == CHOOSE n \in S : \A o \in S : n = o \/ Before(n, o)

NsecOf(zone, n) ==
  LET after == {o \in DOMAIN zone : Before(n, o)}
  IN  [owner |-> n, next |-> FirstName(IF after = {} THEN DOMAIN zone ELSE after),
       types |-> zone[n] \cup {"NSEC"}]
Nsecs(zone) == {NsecOf(zone, n) : n \in DOMAIN zone}

\* The record of the last name before n, which is not in the zone.
NsecOver(zone, n) ==
  {r \in Nsecs(zone) : /\ n \notin DOMAIN zone /\ Before(r.owner, n)
                       /\ \A o \in DOMAIN zone : Before(o, n) => ~Before(r.owner, o)}

NsecAnswer(zone, q) ==
  LET over(n) == NsecOver(zone, n)
  IN  IF q \in DOMAIN zone THEN At(Nsecs(zone), q)
      ELSE IF q \in Existing(zone) THEN over(q)
      ELSE over(q) \cup over(Source(zone, q)) \cup At(Nsecs(zone), Source(zone, q))

-----------------------------------------------------------------------------
(* NSEC3; with opt-out, delegations without DS have no record *)

Hashed(zone, out) ==
  {n \in Existing(zone) : ~(out /\ n \in DOMAIN zone /\ zone[n] = {"NS"})}

FirstHash(S) == CHOOSE h \in S : \A g \in S : h <= g

Nsec3Of(zone, out, n) ==
  LET hashes == {Hash[o] : o \in Hashed(zone, out)}
      after  == {h \in hashes : h > Hash[n]}
  IN  [owner |-> Hash[n], next |-> FirstHash(IF after = {} THEN hashes ELSE after),
       types |-> IF n \in DOMAIN zone THEN zone[n] ELSE {}, optOut |-> out]
Nsec3s(zone, out) == {Nsec3Of(zone, out, n) : n \in Hashed(zone, out)}

\* The record of the last hash before that of n, or of the last of all.
Nsec3Over(recs, n) ==
  LET last(S) == {r \in S : \A o \in S : o.owner <= r.owner}
      before  == {r \in recs : r.owner < Hash[n]}
  IN  IF At3(recs, n) # {} THEN {} ELSE last(IF before = {} THEN recs ELSE before)

Nsec3Answer(zone, out, q) ==
  LET recs    == Nsec3s(zone, out)
      c       == Encloser(Hashed(zone, out), q)
      over(n) == Nsec3Over(recs, n)
  IN  IF q \in Hashed(zone, out) THEN At3(recs, q)
      ELSE At3(recs, c) \cup over(NextCloser(q, c))
           \cup over(Wildcard(c)) \cup At3(recs, Wildcard(c))

-----------------------------------------------------------------------------
(* What is asked of the verdicts *)

Questions(zone) == {p \in Asked \X QTypes : Denied(zone, p[1], p[2])}
Parts(S)        == (SUBSET S) \ {S}

\* What the servers of a zone deny is accepted as denied: with NSEC where there
\* is no empty non-terminal and no wildcard stands for the name, with NSEC3
\* where there is more than one record.  In an opt-out zone that is asked only of
\* names with a record of their own and of DS questions, which may also prove an
\* insecure delegation: what an opt-out span leaves out is not thereby denied.
AcceptsDenials ==
  \A zone \in Contents : \A p \in Questions(zone) :
    /\ Gaps(zone) = {} /\ ~ByWildcard(zone, p[1])
         => NsecVerdict(p[1], p[2], NsecAnswer(zone, p[1])) = "Secure"
    /\ \A out \in BOOLEAN :
         Hashed(zone, out) # {Apex} /\ (out => p[2] = "DS" \/ p[1] \in Hashed(zone, out)) =>
         Nsec3Verdict(p[1], p[2], Nsec3Answer(zone, out, p[1]))
           \in {"Secure"} \cup IF out /\ p[2] = "DS" THEN {"InsecureUnsigned"} ELSE {}

HasWildcard(zone) == \E n \in Existing(zone) \ {Apex} : Head(n) = Star

Present(zone) == {p \in Asked \X QTypes : ~Absent(zone, p[1], p[2])}

\* No wildcard but that of the apex can stand for q.
BelowApex(zone, q) == q \in Existing(zone) \/ Encloser(Existing(zone), q) = Apex

\* A denial is accepted only whole and only for what it denies: not when a
\* record of it was lost on the way, and not for another question that has an
\* answer.  (Less than is sent suffices for DS and, with NSEC3, in zones with a
\* wildcard; with NSEC the encloser is looked for among the owners shown, and a
\* wildcard further down is not seen.)
OnlyWholeDenials ==
  \A zone \in Contents : \A p \in Questions(zone) :
    /\ Gaps(zone) = {} => \A S \in Parts(NsecAnswer(zone, p[1])) :
         NsecVerdict(p[1], p[2], S) = "Bogus"
    /\ \A q \in Present(zone) : BelowApex(zone, q[1]) =>
         NsecVerdict(q[1], q[2], NsecAnswer(zone, p[1])) = "Bogus"
    /\ ~HasWildcard(zone) =>
         /\ p[2] # "DS" => \A S \in Parts(Nsec3Answer(zone, FALSE, p[1])) :
              Nsec3Verdict(p[1], p[2], S) = "Bogus"
         /\ \A q \in Present(zone) :
              Nsec3Verdict(q[1], q[2], Nsec3Answer(zone, FALSE, p[1])) = "Bogus"
=============================================================================
