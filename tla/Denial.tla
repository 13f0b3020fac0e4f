------------------------------- MODULE Denial -------------------------------
(***************************************************************************)
(* Denial of existence of src/dnssec.rs: what a set of NSEC or NSEC3       *)
(* records says of a question.  Their signatures are TrustChain's concern. *)
(*                                                                         *)
(* A name is the sequence of its labels, leaf first; labels are numbers    *)
(* that order as the labels do, and the asterisk is Star.  The hash of     *)
(* NSEC3 is an injection into the numbers.  An owner has one record, and   *)
(* an answer no more than the MAX_NEGATIVE_RECORDS that are looked at.     *)
(***************************************************************************)
EXTENDS Naturals, Sequences

CONSTANTS
  Hash,           \* nsec3_hash, as a function on names
  EncloserSteps   \* MAX_CLOSEST_ENCLOSER_STEPS

Root == <<>>
Star == 0

\* Name::base_name, Name::zone_of, wildcard_name.
Base(n)      == IF n = Root THEN n ELSE Tail(n)
ZoneOf(z, n) ==
  Len(z) <= Len(n) /\ z = SubSeq(n, Len(n) - Len(z) + 1, Len(n))
Wildcard(n)  == <<Star>> \o n

\* The ancestor of n that has p labels.
Ancestor(n, p) == SubSeq(n, Len(n) - p + 1, Len(n))

\* Canonical order: labels are compared from the root down.
FromRoot(n, i) == n[Len(n) - i + 1]
Before(a, b) ==
  \/ ZoneOf(a, b) /\ a # b
  \/ \E i \in DOMAIN a \cap DOMAIN b :
       /\ FromRoot(a, i) < FromRoot(b, i)
       /\ \A j \in 1..(i - 1) : FromRoot(a, j) = FromRoot(b, j)

\* The names find_*_closest_encloser tries: n itself or what is above it.
Tried(n) ==
  {Ancestor(n, p) : p \in {q \in 0..Len(n) : Len(n) - q < EncloserSteps}}

\* The longest of a set of ancestors of one name.
Longest(S) == CHOOSE n \in S : \A m \in S : Len(m) <= Len(n)

Nsec  == [owner : Seq(Nat), next : Seq(Nat), types : SUBSET STRING]
Nsec3 == [owner : Nat, next : Nat, types : SUBSET STRING, optOut : BOOLEAN]

Lacks(r, t) == {t, "CNAME"} \cap r.types = {}

-----------------------------------------------------------------------------
(* NSEC *)

\* Mutant of Covers: the last record of a zone covers nothing.
CoversForward(r, n) == Before(r.owner, n) /\ Before(n, r.next)

\* nsec_covers; the last record of a zone points back to its apex.
Covers(r, n) ==
  IF Before(r.owner, r.next)
    THEN Before(r.owner, n) /\ Before(n, r.next)
    ELSE Before(r.owner, n) \/ Before(n, r.next)

Covered(recs, n) == \E r \in recs : Covers(r, n)
At(recs, n)      == {r \in recs : r.owner = n}

NsecEnclosers(q, recs) == {n \in Tried(Base(q)) : At(recs, n) # {}}

NsecNodata(q, t, recs) == \E r \in At(recs, q) : Lacks(r, t)

\* check_nsec_wildcard_nodata and check_nsec_nxdomain below encloser c.
NsecWildcardNodata(q, t, c, recs) ==
  (\E r \in At(recs, Wildcard(c)) : Lacks(r, t)) /\ Covered(recs, q)
NsecNxdomain(q, c, recs) == Covered(recs, q) /\ Covered(recs, Wildcard(c))

\* A DS question is not answered by the apex of the child.
FromChild(t, here) == t = "DS" /\ \E r \in here : "SOA" \in r.types

NsecVerdict(q, t, recs) ==
  LET found == NsecEnclosers(q, recs)
      c     == Longest(found)
      shown == \/ NsecNodata(q, t, recs)
               \/ /\ found # {}
                  /\ NsecWildcardNodata(q, t, c, recs) \/ NsecNxdomain(q, c, recs)
  IN  IF shown /\ ~FromChild(t, At(recs, q)) THEN "Secure" ELSE "Bogus"

-----------------------------------------------------------------------------
(* NSEC3 *)

\* nsec3_covers: the owner itself counts.
Covers3(r, h) ==
  IF r.owner <= r.next
    THEN r.owner <= h /\ h < r.next
    ELSE r.owner <= h \/ h < r.next

At3(recs, n) == At(recs, Hash[n])

\* With no record at an encloser a DS question is taken to be right below one.
Enclosers3(q, t, recs) ==
  LET found == {n \in Tried(q) : At3(recs, n) # {}}
  IN  IF found = {} /\ t = "DS" THEN {Base(q)} ELSE found

\* The name one label below encloser c on the way to q.
NextCloser(q, c) == Ancestor(q, Len(c) + 1)

\* Mutant of Nxdomain3: the wildcard that could stand for the name is forgotten.
Nxdomain3NoWildcard(q, t, c, recs) ==
  LET over == {r \in recs : Covers3(r, Hash[NextCloser(q, c)])}
  IN  IF t = "DS" /\ \E r \in over : r.optOut
        THEN "InsecureUnsigned"
        ELSE IF over # {} THEN "Secure" ELSE "Bogus"

\* check_nsec3_nxdomain; an opt-out span says nothing of what it covers.
Nxdomain3(q, t, c, recs) ==
  LET over == {r \in recs : Covers3(r, Hash[NextCloser(q, c)])}
  IN  IF t = "DS" /\ \E r \in over : r.optOut
        THEN "InsecureUnsigned"
        ELSE IF over # {} /\ \E r \in recs : Covers3(r, Hash[Wildcard(c)])
               THEN "Secure" ELSE "Bogus"

Nsec3Verdict(q, t, recs) ==
  LET here  == At3(recs, q)
      found == Enclosers3(q, t, recs)
      c     == Longest(found)
  IN  IF FromChild(t, here) THEN "Bogus"
      ELSE IF \E r \in here : Lacks(r, t) THEN "Secure"
      ELSE IF found = {} \/ c = q THEN "Bogus"
      ELSE IF \E r \in At3(recs, Wildcard(c)) : Lacks(r, t) THEN "Secure"
      ELSE Nxdomain3(q, t, c, recs)
=============================================================================
