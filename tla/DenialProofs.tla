---------------------------- MODULE DenialProofs ----------------------------
(***************************************************************************)
(* What the reading of NSEC and NSEC3 proofs guarantees for every zone and *)
(* every question, with names of any length and any hash without           *)
(* collisions: DenialReference against Denial.                             *)
(***************************************************************************)
EXTENDS TrustDenials, SequenceTheorems, FiniteSetTheorems, WellFoundedInduction, TLAPS

-----------------------------------------------------------------------------
(* Names by their labels from the root *)

LEMMA Labels ==
  ASSUME NEW n \in Seq(Nat), NEW i \in 1..Len(n)
  PROVE  FromRoot(n, i) \in Nat
BY DEF FromRoot

LEMMA SameLabels ==
  ASSUME NEW m \in Seq(Nat), NEW n \in Seq(Nat), Len(m) = Len(n),
         \A i \in 1..Len(m) : FromRoot(m, i) = FromRoot(n, i)
  PROVE  m = n
<1>1. ASSUME NEW i \in 1..Len(m)
      PROVE  m[i] = n[i]
  <2>1. Len(m) - i + 1 \in 1..Len(m) /\ Len(m) - (Len(m) - i + 1) + 1 = i
    OBVIOUS
  <2>. QED BY <2>1 DEF FromRoot
<1>. QED BY <1>1, SeqEqual

\* The ancestor of a name has the last of its labels.
LEMMA AncestorLabels ==
  ASSUME NEW n \in Seq(Nat), NEW p \in 0..Len(n)
  PROVE  /\ Ancestor(n, p) \in Seq(Nat) /\ Len(Ancestor(n, p)) = p
         /\ \A i \in 1..p : FromRoot(Ancestor(n, p), i) = FromRoot(n, i)
<1>. DEFINE a == Ancestor(n, p)
            k == Len(n) - p + 1
<1>1. Len(n) \in Nat /\ k \in 1..(Len(n) + 1) /\ Len(n) - k + 1 = p
  OBVIOUS
<1>2. \A i \in k..Len(n) : n[i] \in Nat
  BY <1>1
<1>3. /\ SubSeq(n, k, Len(n)) \in Seq(Nat)
      /\ Len(SubSeq(n, k, Len(n))) = IF k <= Len(n) THEN Len(n) - k + 1 ELSE 0
      /\ \A i \in 1..(Len(n) - k + 1) : SubSeq(n, k, Len(n))[i] = n[k + i - 1]
  <2>. HIDE DEF k
  <2>. QED BY <1>1, <1>2, SubSeqProperties
<1>4. a = SubSeq(n, k, Len(n))
  BY DEF Ancestor
<1>. HIDE DEF a
<1>5. a \in Seq(Nat) /\ Len(a) = p /\ \A i \in 1..p : a[i] = n[k + i - 1]
  BY <1>1, <1>3, <1>4
<1>6. ASSUME NEW i \in 1..p
      PROVE  FromRoot(a, i) = FromRoot(n, i)
  <2>1. p - i + 1 \in 1..p /\ k + (p - i + 1) - 1 = Len(n) - i + 1
    BY <1>1
  <2>2. a[p - i + 1] = n[Len(n) - i + 1]
    BY <1>5, <2>1
  <2>. QED BY <1>5, <2>2 DEF FromRoot
<1>. QED BY <1>5, <1>6 DEF a

\* An ancestor of a name has the same labels from the root.
LEMMA ZoneLabels ==
  ASSUME NEW z \in Seq(Nat), NEW n \in Seq(Nat)
  PROVE  ZoneOf(z, n) <=>
           Len(z) <= Len(n) /\ \A i \in 1..Len(z) : FromRoot(z, i) = FromRoot(n, i)
<1>1. ASSUME Len(z) <= Len(n)
      PROVE  z = Ancestor(n, Len(z)) <=>
               \A i \in 1..Len(z) : FromRoot(z, i) = FromRoot(n, i)
  <2>1. Len(z) \in 0..Len(n)
    BY <1>1
  <2>2. /\ Ancestor(n, Len(z)) \in Seq(Nat) /\ Len(Ancestor(n, Len(z))) = Len(z)
        /\ \A i \in 1..Len(z) : FromRoot(Ancestor(n, Len(z)), i) = FromRoot(n, i)
    BY <2>1, AncestorLabels
  <2>. DEFINE a == Ancestor(n, Len(z))
  <2>3. a \in Seq(Nat) /\ Len(z) = Len(a)
    BY <2>2
  <2>. HIDE DEF a
  <2>4. (\A i \in 1..Len(z) : FromRoot(z, i) = FromRoot(a, i)) => z = a
    BY <2>3, SameLabels
  <2>. QED BY <2>2, <2>4 DEF a
<1>. QED BY <1>1 DEF ZoneOf, Ancestor

LEMMA WildcardLabels ==
  ASSUME NEW n \in Seq(Nat)
  PROVE  /\ Wildcard(n) \in Seq(Nat) /\ Len(Wildcard(n)) = Len(n) + 1
         /\ \A i \in 1..Len(n) : FromRoot(Wildcard(n), i) = FromRoot(n, i)
         /\ FromRoot(Wildcard(n), Len(n) + 1) = Star
         /\ Head(Wildcard(n)) = Star
<1>. DEFINE w == <<Star>> \o n
<1>1. <<Star>> \in Seq(Nat) /\ Len(<<Star>>) = 1
  BY DEF Star
<1>2. /\ w \in Seq(Nat) /\ Len(w) = 1 + Len(n)
      /\ \A i \in 1..(1 + Len(n)) : w[i] = IF i <= 1 THEN <<Star>>[i] ELSE n[i - 1]
  BY <1>1, ConcatProperties
<1>3. Len(n) \in Nat /\ w = Wildcard(n)
  BY DEF Wildcard
<1>. HIDE DEF w
<1>4. w[1] = Star
  BY <1>2, <1>3
<1>5. ASSUME NEW i \in 1..Len(n)
      PROVE  FromRoot(w, i) = FromRoot(n, i)
  <2>. DEFINE j == Len(w) - i + 1
  <2>1. j \in 1..(1 + Len(n)) /\ ~(j <= 1) /\ j - 1 = Len(n) - i + 1
    BY <1>2, <1>3
  <2>2. w[j] = n[Len(n) - i + 1]
    <3>. HIDE DEF j
    <3>. QED BY <1>2, <2>1
  <2>. QED BY <2>2 DEF FromRoot
<1>6. Len(w) - (Len(n) + 1) + 1 = 1
  BY <1>2, <1>3
<1>7. FromRoot(w, Len(n) + 1) = Star /\ Head(w) = Star
  <2>1. w # << >> /\ Head(w) = w[1]
    BY <1>2, <1>3
  <2>. QED BY <1>4, <1>6, <2>1 DEF FromRoot
<1>8. Len(w) = Len(n) + 1
  BY <1>2, <1>3
<1>. QED BY <1>2, <1>3, <1>5, <1>7, <1>8

-----------------------------------------------------------------------------
(* The canonical order *)

\* Two names agree on their first k labels from the root.
Agree(a, b, k) == \A j \in 1..k : FromRoot(a, j) = FromRoot(b, j)

\* The canonical order by the first label from the root that differs.
LEMMA BeforeLabels ==
  ASSUME NEW a \in Seq(Nat), NEW b \in Seq(Nat)
  PROVE  Before(a, b) <=>
           \/ Len(a) < Len(b) /\ Agree(a, b, Len(a))
           \/ \E i \in 1..Len(a) : i <= Len(b) /\ FromRoot(a, i) < FromRoot(b, i)
                                   /\ Agree(a, b, i - 1)
<1>1. /\ Len(a) \in Nat /\ Len(b) \in Nat
      /\ DOMAIN a = 1..Len(a) /\ DOMAIN b = 1..Len(b)
  OBVIOUS
<1>2. ZoneOf(a, b) <=> Len(a) <= Len(b) /\ Agree(a, b, Len(a))
  BY ZoneLabels DEF Agree
<1>3. Len(a) = Len(b) /\ Agree(a, b, Len(a)) => a = b
  BY SameLabels DEF Agree
<1>4. ZoneOf(a, b) /\ a # b <=> Len(a) < Len(b) /\ Agree(a, b, Len(a))
  <2>1. CASE Len(a) < Len(b)
    <3>1. a # b /\ Len(a) <= Len(b)
      BY <1>1, <2>1
    <3>. QED BY <1>2, <2>1, <3>1
  <2>2. CASE Len(a) = Len(b)
    <3>1. ~(Len(a) < Len(b))
      BY <1>1, <2>2
    <3>. QED BY <1>2, <1>3, <2>2, <3>1
  <2>3. CASE Len(b) < Len(a)
    <3>1. ~(Len(a) < Len(b)) /\ ~(Len(a) <= Len(b))
      BY <1>1, <2>3
    <3>. QED BY <1>2, <3>1
  <2>4. Len(a) < Len(b) \/ Len(a) = Len(b) \/ Len(b) < Len(a)
    <3>1. \A x, y \in Nat : x < y \/ x = y \/ y < x
      OBVIOUS
    <3>. QED BY <1>1, <3>1
  <2>. QED BY <2>1, <2>2, <2>3, <2>4
<1>5. (\E i \in DOMAIN a \cap DOMAIN b :
         /\ FromRoot(a, i) < FromRoot(b, i)
         /\ \A j \in 1..(i - 1) : FromRoot(a, j) = FromRoot(b, j))
      <=> \E i \in 1..Len(a) : i <= Len(b) /\ FromRoot(a, i) < FromRoot(b, i)
                                   /\ Agree(a, b, i - 1)
  <2>1. \A i : i \in DOMAIN a \cap DOMAIN b <=> i \in 1..Len(a) /\ i <= Len(b)
    BY <1>1
  <2>. QED BY <2>1 DEF Agree
<1>. QED BY <1>4, <1>5 DEF Before

LEMMA BeforeIrreflexive ==
  ASSUME NEW a \in Seq(Nat)
  PROVE  ~Before(a, a)
<1>1. \A i \in 1..Len(a) : FromRoot(a, i) \in Nat
  BY Labels
<1>. QED BY <1>1, BeforeLabels

LEMMA BeforeTransitive ==
  ASSUME NEW a \in Seq(Nat), NEW b \in Seq(Nat), NEW c \in Seq(Nat),
         Before(a, b), Before(b, c)
  PROVE  Before(a, c)
<1>1. Len(a) \in Nat /\ Len(b) \in Nat /\ Len(c) \in Nat
  OBVIOUS
<1>2. /\ \A i \in 1..Len(a) : FromRoot(a, i) \in Nat
      /\ \A i \in 1..Len(b) : FromRoot(b, i) \in Nat
      /\ \A i \in 1..Len(c) : FromRoot(c, i) \in Nat
  BY Labels
<1>3. CASE Len(a) < Len(b) /\ Agree(a, b, Len(a))
  <2>1. CASE Len(b) < Len(c) /\ Agree(b, c, Len(b))
    <3>1. Len(a) < Len(c) /\ Agree(a, c, Len(a))
      BY <1>1, <1>3, <2>1 DEF Agree
    <3>. QED BY <3>1, BeforeLabels
  <2>2. ASSUME NEW i \in 1..Len(b), i <= Len(c), FromRoot(b, i) < FromRoot(c, i),
               Agree(b, c, i - 1)
        PROVE  Before(a, c)
    <3>1. CASE i <= Len(a)
      <4>1. i \in 1..Len(a) /\ FromRoot(a, i) < FromRoot(c, i) /\ Agree(a, c, i - 1)
        BY <1>1, <1>3, <2>2, <3>1 DEF Agree
      <4>. QED BY <2>2, <4>1, BeforeLabels
    <3>2. CASE Len(a) < i
      <4>1. Len(a) < Len(c) /\ Agree(a, c, Len(a))
        BY <1>1, <1>3, <2>2, <3>2 DEF Agree
      <4>. QED BY <4>1, BeforeLabels
    <3>. QED BY <1>1, <3>1, <3>2
  <2>. QED BY <2>1, <2>2, BeforeLabels
<1>4. ASSUME NEW k \in 1..Len(a), k <= Len(b), FromRoot(a, k) < FromRoot(b, k),
             Agree(a, b, k - 1)
      PROVE  Before(a, c)
  <2>1. CASE Len(b) < Len(c) /\ Agree(b, c, Len(b))
    <3>1. k <= Len(c) /\ FromRoot(a, k) < FromRoot(c, k) /\ Agree(a, c, k - 1)
      BY <1>1, <1>4, <2>1 DEF Agree
    <3>. QED BY <3>1, BeforeLabels
  <2>2. ASSUME NEW i \in 1..Len(b), i <= Len(c), FromRoot(b, i) < FromRoot(c, i),
               Agree(b, c, i - 1)
        PROVE  Before(a, c)
    <3>1. CASE i < k
      <4>1. i \in 1..Len(a) /\ FromRoot(a, i) < FromRoot(c, i) /\ Agree(a, c, i - 1)
        BY <1>1, <1>4, <2>2, <3>1 DEF Agree
      <4>. QED BY <2>2, <4>1, BeforeLabels
    <3>2. CASE i = k
      <4>1. FromRoot(a, k) < FromRoot(c, k) /\ Agree(a, c, k - 1) /\ k <= Len(c)
        <5>1. /\ FromRoot(a, k) \in Nat /\ FromRoot(b, k) \in Nat
              /\ FromRoot(c, k) \in Nat
          BY <1>1, <1>2, <1>4, <2>2, <3>2
        <5>. QED BY <1>1, <1>4, <2>2, <3>2, <5>1 DEF Agree
      <4>. QED BY <4>1, BeforeLabels
    <3>3. CASE k < i
      <4>1. FromRoot(a, k) < FromRoot(c, k) /\ Agree(a, c, k - 1) /\ k <= Len(c)
        BY <1>1, <1>4, <2>2, <3>3 DEF Agree
      <4>. QED BY <4>1, BeforeLabels
    <3>. QED BY <1>1, <3>1, <3>2, <3>3
  <2>. QED BY <2>1, <2>2, BeforeLabels
<1>. QED BY <1>3, <1>4, BeforeLabels

\* Every nonempty set of naturals has a least element.
LEMMA LeastNatural ==
  ASSUME NEW S \in SUBSET Nat, S # {}
  PROVE  \E i \in S : \A j \in S : i <= j
<1>. DEFINE Less == {p \in Nat \X Nat : p[1] < p[2]}
<1>1. IsWellFoundedOn(Less, Nat)
  BY NatLessThanWellFounded DEF OpToRel
<1>2. PICK i \in S : \A j \in S : ~(<<j, i>> \in Less)
  BY <1>1, WFMin
<1>3. ASSUME NEW j \in S
      PROVE  i <= j
  <2>1. i \in Nat /\ j \in Nat
    OBVIOUS
  <2>2. j < i => <<j, i>> \in Less
    BY <2>1
  <2>. QED BY <1>2, <2>1, <2>2
<1>. QED BY <1>3

LEMMA BeforeTotal ==
  ASSUME NEW a \in Seq(Nat), NEW b \in Seq(Nat), a # b
  PROVE  Before(a, b) \/ Before(b, a)
<1>1. Len(a) \in Nat /\ Len(b) \in Nat
  OBVIOUS
<1>2. /\ \A i \in 1..Len(a) : FromRoot(a, i) \in Nat
      /\ \A i \in 1..Len(b) : FromRoot(b, i) \in Nat
  BY Labels
<1>. DEFINE S == {i \in 1..Len(a) : i <= Len(b) /\ FromRoot(a, i) # FromRoot(b, i)}
<1>3. CASE S = {}
  <2>1. Len(a) # Len(b)
    <3>1. ASSUME Len(a) = Len(b) PROVE FALSE
      <4>1. \A i \in 1..Len(a) : FromRoot(a, i) = FromRoot(b, i)
        BY <1>1, <1>3, <3>1
      <4>. QED BY <3>1, <4>1, SameLabels
    <3>. QED BY <3>1
  <2>2. CASE Len(a) < Len(b)
    <3>1. Agree(a, b, Len(a))
      BY <1>1, <1>3, <2>2 DEF Agree
    <3>. QED BY <2>2, <3>1, BeforeLabels
  <2>3. CASE Len(b) < Len(a)
    <3>1. Agree(b, a, Len(b))
      BY <1>1, <1>3, <2>3 DEF Agree
    <3>. QED BY <2>3, <3>1, BeforeLabels
  <2>. QED BY <1>1, <2>1, <2>2, <2>3
<1>4. CASE S # {}
  <2>1. S \in SUBSET Nat
    BY <1>1
  <2>2. PICK i \in S : \A j \in S : i <= j
    <3>. HIDE DEF S
    <3>. QED BY <1>4, <2>1, LeastNatural
  <2>3. i \in 1..Len(a) /\ i \in 1..Len(b) /\ i <= Len(a) /\ i <= Len(b)
    BY <1>1
  <2>4. Agree(a, b, i - 1) /\ Agree(b, a, i - 1)
    <3>1. ASSUME NEW j \in 1..(i - 1)
          PROVE  FromRoot(a, j) = FromRoot(b, j)
      <4>1. j \in 1..Len(a) /\ j <= Len(b) /\ ~(i <= j)
        BY <1>1, <2>3
      <4>. QED BY <2>2, <4>1
    <3>. QED BY <3>1 DEF Agree
  <2>5. FromRoot(a, i) < FromRoot(b, i) \/ FromRoot(b, i) < FromRoot(a, i)
    <3>1. FromRoot(a, i) \in Nat /\ FromRoot(b, i) \in Nat /\ FromRoot(a, i) # FromRoot(b, i)
      BY <1>2, <2>3
    <3>. QED BY <3>1
  <2>6. CASE FromRoot(a, i) < FromRoot(b, i)
    BY <2>3, <2>4, <2>6, BeforeLabels
  <2>7. CASE FromRoot(b, i) < FromRoot(a, i)
    BY <2>3, <2>4, <2>7, BeforeLabels
  <2>. QED BY <2>5, <2>6, <2>7
<1>. QED BY <1>3, <1>4

-----------------------------------------------------------------------------
(* Least elements *)

\* A strict order on a finite set has a least element.
LEMMA FiniteLeast ==
  ASSUME NEW S, IsFiniteSet(S), S # {}, NEW R,
         \A a \in S : <<a, a>> \notin R,
         \A a, b, c \in S : <<a, b>> \in R /\ <<b, c>> \in R => <<a, c>> \in R
  PROVE  \E n \in S : \A o \in S : <<o, n>> \notin R
<1>. DEFINE B(n) == {o \in S : <<o, n>> \in R}
<1>1. \A n \in S : IsFiniteSet(B(n)) /\ Cardinality(B(n)) \in Nat
  <2>1. \A n \in S : B(n) \in SUBSET S
    OBVIOUS
  <2>. QED BY <2>1, FS_Subset, FS_CardinalityType
<1>. DEFINE C == {Cardinality(B(n)) : n \in S}
<1>2. C \in SUBSET Nat /\ C # {}
  <2>. HIDE DEF B
  <2>. QED BY <1>1
<1>3. PICK i \in C : \A j \in C : i <= j
  <2>. HIDE DEF C
  <2>. QED BY <1>2, LeastNatural
<1>4. PICK n \in S : i = Cardinality(B(n))
  OBVIOUS
<1>5. ASSUME NEW o \in S, <<o, n>> \in R
      PROVE  FALSE
  <2>1. B(o) \in SUBSET B(n) /\ o \in B(n) /\ o \notin B(o)
    BY <1>5
  <2>2. Cardinality(B(o)) <= Cardinality(B(n))
        /\ (Cardinality(B(n)) = Cardinality(B(o)) => B(n) = B(o))
    <3>. HIDE DEF B
    <3>. QED BY <1>1, <2>1, FS_Subset
  <2>3. i <= Cardinality(B(o))
    <3>1. Cardinality(B(o)) \in C
      OBVIOUS
    <3>. HIDE DEF C
    <3>. QED BY <1>3, <3>1
  <2>4. Cardinality(B(n)) # Cardinality(B(o))
    <3>. HIDE DEF B
    <3>. QED BY <2>1, <2>2
  <2>. HIDE DEF B
  <2>. QED BY <1>1, <1>4, <2>2, <2>3, <2>4
<1>. QED BY <1>5

\* FirstName is the first name of a finite set.
LEMMA FirstNameIs ==
  ASSUME NEW S \in SUBSET Seq(Nat), IsFiniteSet(S), S # {}
  PROVE  FirstName(S) \in S /\ \A o \in S : FirstName(S) = o \/ Before(FirstName(S), o)
<1>. DEFINE R == {p \in S \X S : Before(p[1], p[2])}
<1>1. \A a, b \in S : <<a, b>> \in R <=> Before(a, b)
  OBVIOUS
<1>2. \A a \in S : <<a, a>> \notin R
  BY <1>1, BeforeIrreflexive
<1>3. \A a, b, c \in S : <<a, b>> \in R /\ <<b, c>> \in R => <<a, c>> \in R
  <2>. HIDE DEF R
  <2>. QED BY <1>1, BeforeTransitive
<1>4. PICK n \in S : \A o \in S : <<o, n>> \notin R
  <2>. HIDE DEF R
  <2>. QED BY <1>2, <1>3, FiniteLeast
<1>5. \A o \in S : n = o \/ Before(n, o)
  <2>. HIDE DEF R
  <2>. QED BY <1>1, <1>4, BeforeTotal
<1>. QED BY <1>5 DEF FirstName

\* The last name of a set before another.
LEMMA LastBefore ==
  ASSUME NEW S \in SUBSET Seq(Nat), IsFiniteSet(S), NEW n, NEW m \in S, Before(m, n)
  PROVE  \E l \in S : Before(l, n) /\ \A o \in S : Before(o, n) => ~Before(l, o)
<1>. DEFINE T == {o \in S : Before(o, n)}
            R == {p \in T \X T : Before(p[2], p[1])}
<1>0. T \in SUBSET S /\ T # {} /\ T \in SUBSET Seq(Nat)
  OBVIOUS
<1>1. IsFiniteSet(T)
  <2>. HIDE DEF T
  <2>. QED BY <1>0, FS_Subset
<1>2. \A a, b \in T : <<a, b>> \in R <=> Before(b, a)
  OBVIOUS
<1>. HIDE DEF R
<1>3. \A a \in T : <<a, a>> \notin R
  BY <1>2, BeforeIrreflexive
<1>4. \A a, b, c \in T : <<a, b>> \in R /\ <<b, c>> \in R => <<a, c>> \in R
  BY <1>2, <1>0, BeforeTransitive
<1>5. PICK l \in T : \A o \in T : <<o, l>> \notin R
  <2>. HIDE DEF T
  <2>. QED BY <1>0, <1>1, <1>3, <1>4, FiniteLeast
<1>. QED BY <1>2, <1>5

\* Least and greatest of a finite set of numbers.
LEMMA LeastHash ==
  ASSUME NEW S \in SUBSET Nat, S # {}
  PROVE  FirstHash(S) \in S /\ \A g \in S : FirstHash(S) <= g
BY LeastNatural DEF FirstHash

\* A finite set of numbers has a greatest one.
LEMMA GreatestNatural ==
  ASSUME NEW S \in SUBSET Nat, IsFiniteSet(S), S # {}
  PROVE  \E i \in S : \A j \in S : j <= i
<1>. DEFINE R == {p \in S \X S : p[2] < p[1]}
<1>1. \A a, b \in S : <<a, b>> \in R <=> b < a
  OBVIOUS
<1>. HIDE DEF R
<1>2. \A a \in S : <<a, a>> \notin R
  BY <1>1
<1>3. \A a, b, c \in S : <<a, b>> \in R /\ <<b, c>> \in R => <<a, c>> \in R
  BY <1>1
<1>4. PICK n \in S : \A o \in S : <<o, n>> \notin R
  BY <1>2, <1>3, FiniteLeast
<1>5. \A j \in S : ~(n < j)
  BY <1>1, <1>4
<1>6. \A x, y \in Nat : ~(x < y) => y <= x
  OBVIOUS
<1>7. \A j \in S : j <= n
  BY <1>5, <1>6
<1>. QED BY <1>7

-----------------------------------------------------------------------------
(* Ancestors *)

\* Above are the ancestors, the name itself among them.
LEMMA AboveIs ==
  ASSUME NEW n \in Seq(Nat)
  PROVE  /\ \A a \in Above(n) : a \in Seq(Nat) /\ ZoneOf(a, n)
         /\ \A a \in Seq(Nat) : ZoneOf(a, n) => a \in Above(n)
         /\ n \in Above(n)
<1>1. ASSUME NEW a \in Above(n)
      PROVE  a \in Seq(Nat) /\ ZoneOf(a, n)
  <2>1. PICK p \in 0..Len(n) : a = Ancestor(n, p)
    BY DEF Above
  <2>2. a \in Seq(Nat) /\ Len(a) = p
    BY <2>1, AncestorLabels
  <2>3. Len(a) <= Len(n) /\ a = Ancestor(n, Len(a))
    BY <2>1, <2>2
  <2>. QED BY <2>2, <2>3 DEF ZoneOf, Ancestor
<1>2. ASSUME NEW a \in Seq(Nat), ZoneOf(a, n)
      PROVE  a \in Above(n)
  <2>1. Len(a) \in 0..Len(n) /\ a = Ancestor(n, Len(a))
    BY <1>2 DEF ZoneOf, Ancestor
  <2>. QED BY <2>1 DEF Above
<1>3. ZoneOf(n, n)
  BY ZoneLabels
<1>. QED BY <1>1, <1>2, <1>3

LEMMA ZoneTransitive ==
  ASSUME NEW a \in Seq(Nat), NEW b \in Seq(Nat), NEW c \in Seq(Nat),
         ZoneOf(a, b), ZoneOf(b, c)
  PROVE  ZoneOf(a, c)
<1>1. Len(a) \in Nat /\ Len(b) \in Nat /\ Len(c) \in Nat
  OBVIOUS
<1>. QED BY <1>1, ZoneLabels

\* Of two ancestors of a name the shorter is an ancestor of the other.
LEMMA ZoneChain ==
  ASSUME NEW a \in Seq(Nat), NEW b \in Seq(Nat), NEW c \in Seq(Nat),
         ZoneOf(a, c), ZoneOf(b, c), Len(a) <= Len(b)
  PROVE  ZoneOf(a, b) /\ (Len(a) = Len(b) => a = b)
<1>1. Len(a) \in Nat /\ Len(b) \in Nat /\ Len(c) \in Nat
  OBVIOUS
<1>2. \A i \in 1..Len(a) : FromRoot(a, i) = FromRoot(b, i)
  BY <1>1, ZoneLabels
<1>. QED BY <1>2, ZoneLabels, SameLabels

\* A proper ancestor comes first in the canonical order.
LEMMA ZoneBefore ==
  ASSUME NEW a \in Seq(Nat), NEW b \in Seq(Nat), ZoneOf(a, b)
  PROVE  /\ Len(a) <= Len(b)
         /\ a # b <=> Len(a) < Len(b)
         /\ a # b => Before(a, b)
<1>1. Len(a) \in Nat /\ Len(b) \in Nat /\ Len(a) <= Len(b)
  BY DEF ZoneOf
<1>2. Len(a) = Len(b) => a = b
  BY ZoneLabels, SameLabels
<1>3. a # b => Before(a, b)
  BY DEF Before
<1>4. \A x, y \in Nat : x <= y => (x < y <=> x # y)
  OBVIOUS
<1>. QED BY <1>1, <1>2, <1>3, <1>4

\* Longest picks an ancestor that no other is longer than.
LEMMA LongestIs ==
  ASSUME NEW n \in Seq(Nat), NEW S \in SUBSET Above(n), S # {}
  PROVE  Longest(S) \in S /\ \A m \in S : Len(m) <= Len(Longest(S))
<1>. DEFINE D == {Len(n) - Len(m) : m \in S}
<1>1. \A m \in S : Len(m) \in Nat /\ Len(m) <= Len(n) /\ Len(n) \in Nat
  BY AboveIs DEF ZoneOf
<1>2. D \in SUBSET Nat /\ D # {}
  BY <1>1
<1>3. PICK i \in D : \A j \in D : i <= j
  <2>. HIDE DEF D
  <2>. QED BY <1>2, LeastNatural
<1>4. PICK l \in S : i = Len(n) - Len(l)
  OBVIOUS
<1>5. \A m \in S : Len(m) <= Len(l)
  <2>1. \A m \in S : Len(n) - Len(l) <= Len(n) - Len(m)
    BY <1>3, <1>4
  <2>. QED BY <1>1, <2>1
<1>. QED BY <1>5 DEF Longest

\* The bounded walk upwards tries every ancestor within its bound.
LEMMA TriedIs ==
  ASSUME NEW n \in Seq(Nat)
  PROVE  /\ Tried(n) \subseteq Above(n)
         /\ \A a \in Above(n) : Len(n) - Len(a) < EncloserSteps => a \in Tried(n)
<1>1. Tried(n) \subseteq Above(n)
  BY DEF Tried, Above
<1>2. ASSUME NEW a \in Above(n), Len(n) - Len(a) < EncloserSteps
      PROVE  a \in Tried(n)
  <2>1. Len(a) \in 0..Len(n) /\ a = Ancestor(n, Len(a))
    BY AboveIs DEF ZoneOf, Ancestor
  <2>. QED BY <1>2, <2>1 DEF Tried
<1>. QED BY <1>1, <1>2

\* The ancestors of the parent are those of the name without itself.
LEMMA BaseIs ==
  ASSUME NEW n \in Seq(Nat)
  PROVE  /\ Base(n) \in Seq(Nat)
         /\ n # Root => Len(Base(n)) = Len(n) - 1
         /\ Above(Base(n)) \subseteq Above(n)
         /\ \A a \in Above(n) : a # n => a \in Above(Base(n))
         /\ n # Root => n \notin Above(Base(n))
<1>1. CASE n = Root
  <2>1. Base(n) = n /\ Len(n) = 0
    BY <1>1 DEF Base, Root
  <2>. QED BY <1>1, <2>1
<1>2. CASE n # Root
  <2>1. /\ Base(n) \in Seq(Nat) /\ Len(Base(n)) = Len(n) - 1
        /\ \A i \in 1..(Len(n) - 1) : Base(n)[i] = n[i + 1]
    BY <1>2, HeadTailProperties DEF Base, Root
  <2>2. Len(n) \in Nat /\ Len(n) # 0
    BY <1>2, EmptySeq DEF Root
  <2>3. ASSUME NEW i \in 1..(Len(n) - 1)
        PROVE  FromRoot(Base(n), i) = FromRoot(n, i)
    <3>. DEFINE j == Len(Base(n)) - i + 1
    <3>1. j \in 1..(Len(n) - 1) /\ j + 1 = Len(n) - i + 1
      BY <2>1, <2>2
    <3>2. Base(n)[j] = n[j + 1]
      <4>. HIDE DEF j
      <4>. QED BY <2>1, <3>1
    <3>3. Base(n)[j] = n[Len(n) - i + 1]
      BY <3>1, <3>2
    <3>. QED BY <3>3 DEF FromRoot
  <2>4. ZoneOf(Base(n), n)
    BY <2>1, <2>2, <2>3, ZoneLabels
  <2>5. ASSUME NEW a \in Above(Base(n)) PROVE a \in Above(n) /\ a # n
    <3>1. a \in Seq(Nat) /\ ZoneOf(a, Base(n))
      BY <2>1, AboveIs
    <3>2. ZoneOf(a, n)
      BY <2>1, <2>4, <3>1, ZoneTransitive
    <3>3. Len(a) <= Len(n) - 1
      BY <2>1, <3>1 DEF ZoneOf
    <3>. QED BY <2>2, <3>1, <3>2, <3>3, AboveIs
  <2>6. ASSUME NEW a \in Above(n), a # n PROVE a \in Above(Base(n))
    <3>1. a \in Seq(Nat) /\ ZoneOf(a, n)
      BY AboveIs
    <3>2. Len(a) < Len(n) /\ Len(a) \in Nat
      BY <2>6, <3>1, ZoneBefore
    <3>3. Len(a) <= Len(Base(n))
      BY <2>1, <2>2, <3>2
    <3>4. ZoneOf(a, Base(n))
      BY <2>1, <2>4, <3>1, <3>3, ZoneChain
    <3>. QED BY <2>1, <3>1, <3>4, AboveIs
  <2>. QED BY <1>2, <2>1, <2>5, <2>6
<1>. QED BY <1>1, <1>2

LEMMA AboveFinite ==
  ASSUME NEW n \in Seq(Nat)
  PROVE  IsFiniteSet(Above(n))
<1>. DEFINE f == [p \in 0..Len(n) |-> Ancestor(n, p)]
<1>1. IsFiniteSet(0..Len(n))
  BY FS_Interval
<1>2. f \in Surjection(0..Len(n), Above(n))
  BY DEF Surjection, Above
<1>. HIDE DEF f
<1>. QED BY <1>1, <1>2, FS_Surjection

-----------------------------------------------------------------------------
(* The names of a zone *)

\* The names that exist are finitely many, and whole up to the apex.
LEMMA ZoneNames ==
  ASSUME NEW zone \in Contents
  PROVE  /\ DOMAIN zone \subseteq Existing(zone) /\ Apex \in DOMAIN zone
         /\ IsFiniteSet(Existing(zone)) /\ IsFiniteSet(DOMAIN zone)
         /\ \A x \in Existing(zone) : x \in Seq(Nat) /\ ZoneOf(Apex, x)
         /\ \A x \in Existing(zone), y \in Seq(Nat) :
              ZoneOf(Apex, y) /\ ZoneOf(y, x) => y \in Existing(zone)
         /\ Existing(zone) \subseteq Hashable
<1>1. /\ Apex \in Seq(Nat) /\ IsFiniteSet(DOMAIN zone) /\ Apex \in DOMAIN zone
      /\ \A n \in DOMAIN zone : n \in Seq(Nat) /\ ZoneOf(Apex, n)
  BY ContentsAssumption
<1>. DEFINE U == UNION {Above(o) : o \in DOMAIN zone}
<1>2. \A x : x \in Existing(zone) <=>
                (\E o \in DOMAIN zone : x \in Above(o)) /\ ZoneOf(Apex, x)
  BY DEF Existing
<1>3. DOMAIN zone \subseteq Existing(zone)
  BY <1>1, <1>2, AboveIs
<1>4. \A x \in Existing(zone) : x \in Seq(Nat) /\ ZoneOf(Apex, x)
  BY <1>1, <1>2, AboveIs
<1>5. ASSUME NEW x \in Existing(zone), NEW y \in Seq(Nat), ZoneOf(Apex, y), ZoneOf(y, x)
      PROVE  y \in Existing(zone)
  <2>1. PICK o \in DOMAIN zone : x \in Above(o)
    BY <1>2
  <2>2. o \in Seq(Nat) /\ x \in Seq(Nat) /\ ZoneOf(x, o)
    BY <1>1, <2>1, AboveIs
  <2>3. y \in Above(o)
    BY <1>5, <2>2, ZoneTransitive, AboveIs
  <2>. QED BY <1>2, <1>5, <2>3
<1>6. IsFiniteSet(U)
  <2>. DEFINE A == {Above(o) : o \in DOMAIN zone}
              f == [o \in DOMAIN zone |-> Above(o)]
  <2>1. f \in Surjection(DOMAIN zone, A)
    BY DEF Surjection
  <2>2. IsFiniteSet(A)
    <3>. HIDE DEF f, A
    <3>. QED BY <1>1, <2>1, FS_Surjection
  <2>3. \A S \in A : IsFiniteSet(S)
    BY <1>1, AboveFinite
  <2>4. IsFiniteSet(UNION A)
    <3>. HIDE DEF A
    <3>. QED BY <2>2, <2>3, FS_UNION
  <2>. QED BY <2>4
<1>7. IsFiniteSet(Existing(zone))
  <2>1. Existing(zone) \in SUBSET U
    BY DEF Existing
  <2>. HIDE DEF U
  <2>. QED BY <1>6, <2>1, FS_Subset
<1>8. Existing(zone) \subseteq Hashable
  <2>1. \A o \in DOMAIN zone : o \in Asked \cup UNION {DOMAIN z : z \in Contents}
    OBVIOUS
  <2>. QED BY <1>2, <2>1 DEF Hashable
<1>. QED BY <1>1, <1>3, <1>4, <1>5, <1>7, <1>8

LEMMA AskedIs ==
  ASSUME NEW q \in Asked
  PROVE  /\ q \in Seq(Nat) /\ ZoneOf(Apex, q) /\ Apex \in Above(q)
         /\ Above(q) \subseteq Hashable /\ Len(q) < Len(Apex) + EncloserSteps
<1>1. q \in Seq(Nat) /\ ZoneOf(Apex, q) /\ Apex \in Seq(Nat)
  BY ContentsAssumption
<1>2. Apex \in Above(q)
  BY <1>1, AboveIs
<1>3. Above(q) \subseteq Hashable
  BY DEF Hashable
<1>. QED BY <1>1, <1>2, <1>3, SearchAssumption

\* The closest encloser of q among names H that exist.
LEMMA EncloserIs ==
  ASSUME NEW zone \in Contents, NEW H \in SUBSET Existing(zone), Apex \in H,
         NEW q \in Seq(Nat), ZoneOf(Apex, q)
  PROVE  LET c == Encloser(H, q)
         IN  /\ c \in H /\ c \in Above(q) /\ c \in Seq(Nat) /\ ZoneOf(Apex, c) /\ ZoneOf(c, q)
             /\ \A m \in H \cap Above(q) : Len(m) <= Len(c)
<1>. DEFINE S == Above(q) \cap H
<1>1. Apex \in Seq(Nat)
  BY ContentsAssumption
<1>2. S # {} /\ S \in SUBSET Above(q)
  BY <1>1, AboveIs
<1>3. Longest(S) \in S /\ \A m \in S : Len(m) <= Len(Longest(S))
  <2>. HIDE DEF S
  <2>. QED BY <1>2, LongestIs
<1>4. Longest(S) \in Seq(Nat) /\ ZoneOf(Longest(S), q) /\ ZoneOf(Apex, Longest(S))
  BY <1>3, AboveIs, ZoneNames
<1>. QED BY <1>3, <1>4 DEF Encloser

\* The longest of some ancestors is the one that no other is longer than.
LEMMA LongestUnique ==
  ASSUME NEW q \in Seq(Nat), NEW S \in SUBSET Above(q), NEW c \in S,
         \A m \in S : Len(m) <= Len(c)
  PROVE  Longest(S) = c
<1>. DEFINE l == Longest(S)
<1>1. l \in S /\ Len(c) <= Len(l)
  BY LongestIs
<1>. HIDE DEF l
<1>2. l \in Seq(Nat) /\ c \in Seq(Nat) /\ ZoneOf(l, q) /\ ZoneOf(c, q)
  BY <1>1, AboveIs
<1>3. Len(l) = Len(c)
  BY <1>1, <1>2
<1>4. l = c
  BY <1>2, <1>3, ZoneChain
<1>. QED BY <1>4 DEF l

-----------------------------------------------------------------------------
(* The NSEC records of a zone *)

\* The record of a name points to the next name, or back to the first.
LEMMA NsecOfIs ==
  ASSUME NEW zone \in Contents, NEW n \in DOMAIN zone
  PROVE  LET x == NsecOf(zone, n).next
         IN  /\ NsecOf(zone, n).owner = n /\ NsecOf(zone, n).types = zone[n] \cup {"NSEC"}
             /\ x \in DOMAIN zone
             /\ (\E o \in DOMAIN zone : Before(n, o))
                  => /\ Before(n, x)
                     /\ \A o \in DOMAIN zone : Before(n, o) => x = o \/ Before(x, o)
             /\ (\A o \in DOMAIN zone : ~Before(n, o))
                  => \A o \in DOMAIN zone : x = o \/ Before(x, o)
<1>. DEFINE after == {o \in DOMAIN zone : Before(n, o)}
            S == IF after = {} THEN DOMAIN zone ELSE after
<1>1. IsFiniteSet(DOMAIN zone) /\ DOMAIN zone \in SUBSET Seq(Nat)
  BY ZoneNames
<1>2. S \in SUBSET DOMAIN zone /\ S # {}
  OBVIOUS
<1>3. IsFiniteSet(S) /\ S \in SUBSET Seq(Nat)
  <2>. HIDE DEF S
  <2>. QED BY <1>1, <1>2, FS_Subset
<1>4. FirstName(S) \in S /\ \A o \in S : FirstName(S) = o \/ Before(FirstName(S), o)
  <2>. HIDE DEF S
  <2>. QED BY <1>2, <1>3, FirstNameIs
<1>5. /\ NsecOf(zone, n).owner = n /\ NsecOf(zone, n).types = zone[n] \cup {"NSEC"}
      /\ NsecOf(zone, n).next = FirstName(S)
  BY DEF NsecOf
<1>. DEFINE x == FirstName(S)
<1>6. CASE after = {}
  BY <1>4, <1>5, <1>6
<1>7. CASE after # {}
  <2>1. S = after
    BY <1>7
  <2>2. x \in after /\ \A o \in after : x = o \/ Before(x, o)
    <3>. HIDE DEF S
    <3>. QED BY <1>4, <2>1
  <2>. HIDE DEF x
  <2>. QED BY <1>5, <1>7, <2>2 DEF x
<1>. QED BY <1>6, <1>7

\* No record of a zone covers a name of it.
LEMMA NsecGap ==
  ASSUME NEW zone \in Contents, NEW r \in Nsecs(zone), NEW o \in DOMAIN zone
  PROVE  ~Covers(r, o)
<1>1. PICK n \in DOMAIN zone : r = NsecOf(zone, n)
  BY DEF Nsecs
<1>. DEFINE x == r.next
<1>2. /\ r.owner = n /\ x \in DOMAIN zone
      /\ (\E p \in DOMAIN zone : Before(n, p))
           => /\ Before(n, x)
              /\ \A p \in DOMAIN zone : Before(n, p) => x = p \/ Before(x, p)
      /\ (\A p \in DOMAIN zone : ~Before(n, p))
           => \A p \in DOMAIN zone : x = p \/ Before(x, p)
  BY <1>1, NsecOfIs
<1>3. n \in Seq(Nat) /\ x \in Seq(Nat) /\ o \in Seq(Nat)
  BY <1>2, ZoneNames
<1>4. ~(Before(o, x) /\ (x = o \/ Before(x, o)))
  BY <1>3, BeforeIrreflexive, BeforeTransitive
<1>5. CASE Before(n, x)
  BY <1>2, <1>4, <1>5 DEF Covers
<1>6. CASE ~Before(n, x)
  <2>1. \A p \in DOMAIN zone : ~Before(n, p)
    BY <1>2, <1>6
  <2>. QED BY <1>2, <1>4, <1>6, <2>1 DEF Covers
<1>. QED BY <1>5, <1>6

\* A record that covers a name is the one of the last name before it.
LEMMA NsecUnique ==
  ASSUME NEW zone \in Contents, NEW r \in Nsecs(zone), NEW n \in Seq(Nat),
         n \notin DOMAIN zone, ZoneOf(Apex, n), Covers(r, n)
  PROVE  r \in NsecOver(zone, n)
<1>1. PICK m \in DOMAIN zone : r = NsecOf(zone, m)
  BY DEF Nsecs
<1>. DEFINE x == r.next
<1>2. /\ r.owner = m /\ x \in DOMAIN zone
      /\ (\E p \in DOMAIN zone : Before(m, p))
           => /\ Before(m, x)
              /\ \A p \in DOMAIN zone : Before(m, p) => x = p \/ Before(x, p)
      /\ (\A p \in DOMAIN zone : ~Before(m, p))
           => \A p \in DOMAIN zone : x = p \/ Before(x, p)
  BY <1>1, NsecOfIs
<1>3. m \in Seq(Nat) /\ x \in Seq(Nat) /\ Apex \in DOMAIN zone /\ Apex \in Seq(Nat)
  BY <1>2, ZoneNames
<1>. HIDE DEF x
<1>4. CASE Before(m, x)
  <2>1. Before(m, n) /\ Before(n, x)
    BY <1>2, <1>4 DEF Covers, x
  <2>2. ASSUME NEW o \in DOMAIN zone, Before(o, n), Before(m, o)
        PROVE  FALSE
    <3>1. o \in Seq(Nat) /\ (x = o \/ Before(x, o))
      BY <1>2, <2>2, ZoneNames
    <3>2. Before(o, x)
      BY <1>3, <2>1, <2>2, <3>1, BeforeTransitive
    <3>. QED BY <1>3, <3>1, <3>2, BeforeIrreflexive, BeforeTransitive
  <2>. QED BY <1>2, <2>1, <2>2 DEF NsecOver
<1>5. CASE ~Before(m, x)
  <2>1. \A p \in DOMAIN zone : ~Before(m, p) /\ (x = p \/ Before(x, p))
    BY <1>2, <1>5
  <2>2. ~Before(n, x)
    <3>1. ASSUME Before(n, x) PROVE FALSE
      <4>1. Before(Apex, n)
        BY <1>3, ZoneBefore
      <4>2. x = Apex \/ Before(x, Apex)
        BY <1>3, <2>1
      <4>3. Before(x, n)
        BY <1>3, <4>1, <4>2, BeforeTransitive
      <4>. QED BY <1>3, <3>1, <4>3, BeforeIrreflexive, BeforeTransitive
    <3>. QED BY <3>1
  <2>3. Before(m, n)
    BY <1>2, <1>5, <2>2 DEF Covers, x
  <2>. QED BY <1>2, <2>1, <2>3 DEF NsecOver
<1>. QED BY <1>4, <1>5

\* One record covers a name that is not in the zone: that of the last name before it.
LEMMA NsecOverIs ==
  ASSUME NEW zone \in Contents, NEW n \in Seq(Nat), n \notin DOMAIN zone, ZoneOf(Apex, n)
  PROVE  \E m \in DOMAIN zone :
           /\ NsecOver(zone, n) = {NsecOf(zone, m)} /\ Covers(NsecOf(zone, m), n)
           /\ Before(m, n)
           /\ \A o \in DOMAIN zone : Before(o, n) => ~Before(m, o)
<1>1. /\ IsFiniteSet(DOMAIN zone) /\ DOMAIN zone \in SUBSET Seq(Nat)
      /\ Apex \in DOMAIN zone /\ Apex \in Seq(Nat)
  BY ZoneNames
<1>2. Before(Apex, n)
  BY <1>1, ZoneBefore
<1>3. PICK m \in DOMAIN zone : Before(m, n) /\ \A o \in DOMAIN zone : Before(o, n) => ~Before(m, o)
  BY <1>1, <1>2, LastBefore
<1>. DEFINE r == NsecOf(zone, m)
            x == r.next
<1>4. r.owner = m /\ r \in Nsecs(zone)
  BY NsecOfIs DEF Nsecs
<1>5. NsecOver(zone, n) = {r}
  <2>1. r \in NsecOver(zone, n)
    BY <1>3, <1>4 DEF NsecOver
  <2>2. ASSUME NEW s \in NsecOver(zone, n)
        PROVE  s = r
    <3>1. /\ s \in Nsecs(zone) /\ Before(s.owner, n)
          /\ \A o \in DOMAIN zone : Before(o, n) => ~Before(s.owner, o)
      BY DEF NsecOver
    <3>2. PICK l \in DOMAIN zone : s = NsecOf(zone, l)
      BY <3>1 DEF Nsecs
    <3>3. s.owner = l
      BY <3>2, NsecOfIs
    <3>4. l = m
      BY <1>1, <1>3, <3>1, <3>3, BeforeTotal
    <3>. QED BY <3>2, <3>4
  <2>. QED BY <2>1, <2>2
<1>6. Covers(r, n)
  <2>1. /\ x \in DOMAIN zone
        /\ (\E p \in DOMAIN zone : Before(m, p)) => Before(m, x)
    BY NsecOfIs
  <2>2. CASE Before(m, x)
    <3>1. ~Before(x, n) /\ x # n /\ x \in Seq(Nat)
      BY <1>1, <1>3, <2>1, <2>2
    <3>2. Before(n, x)
      BY <3>1, BeforeTotal
    <3>. QED BY <1>3, <1>4, <2>2, <3>2 DEF Covers
  <2>3. CASE ~Before(m, x)
    BY <1>3, <1>4, <2>3 DEF Covers
  <2>. QED BY <2>2, <2>3
<1>. QED BY <1>3, <1>5, <1>6

LEMMA NsecAnswerIs ==
  ASSUME NEW zone \in Contents, NEW q
  PROVE  NsecAnswer(zone, q) \subseteq Nsecs(zone)
BY DEF NsecAnswer, NsecOver, At

\* An owner has one record.
LEMMA NsecAt ==
  ASSUME NEW zone \in Contents, NEW n, NEW recs \in SUBSET Nsecs(zone)
  PROVE  \A r \in At(recs, n) : n \in DOMAIN zone /\ r = NsecOf(zone, n)
<1>. SUFFICES ASSUME NEW r \in At(recs, n)
              PROVE  n \in DOMAIN zone /\ r = NsecOf(zone, n)
  OBVIOUS
<1>1. r \in Nsecs(zone) /\ r.owner = n
  BY DEF At
<1>2. PICK m \in DOMAIN zone : r = NsecOf(zone, m)
  BY <1>1 DEF Nsecs
<1>3. r.owner = m
  BY <1>2, NsecOfIs
<1>. QED BY <1>1, <1>2, <1>3

\* A name of a zone is denied no type that it has, whatever records of the zone
\* are shown (check_nsec_nodata, check_nsec_wildcard_nodata, check_nsec_nxdomain).
THEOREM PresentNeverDenied ==
  ASSUME NEW zone \in Contents, NEW q \in DOMAIN zone, NEW t,
         {t, "CNAME"} \cap zone[q] # {}, NEW recs \in SUBSET Nsecs(zone)
  PROVE  NsecVerdict(q, t, recs) = "Bogus"
<1>1. ~Covered(recs, q)
  BY NsecGap DEF Covered
<1>2. ~NsecNodata(q, t, recs)
  <2>1. NsecOf(zone, q).types = zone[q] \cup {"NSEC"}
    BY NsecOfIs
  <2>2. \A r \in At(recs, q) : r.types = zone[q] \cup {"NSEC"}
    BY <2>1, NsecAt
  <2>. QED BY <2>2 DEF NsecNodata, Lacks
<1>. QED BY <1>1, <1>2 DEF NsecVerdict, NsecWildcardNodata, NsecNxdomain

-----------------------------------------------------------------------------
(* What the servers of a zone prove with NSEC *)

\* The wildcard right below a name of the zone.
LEMMA WildcardIs ==
  ASSUME NEW e \in Seq(Nat), ZoneOf(Apex, e)
  PROVE  /\ Wildcard(e) \in Seq(Nat) /\ ZoneOf(e, Wildcard(e)) /\ ZoneOf(Apex, Wildcard(e))
         /\ Wildcard(e) # Apex /\ Wildcard(e) # e /\ Head(Wildcard(e)) = Star
         /\ Before(e, Wildcard(e))
<1>1. Apex \in Seq(Nat) /\ Len(Apex) <= Len(e)
  BY ContentsAssumption DEF ZoneOf
<1>2. /\ Wildcard(e) \in Seq(Nat) /\ Len(Wildcard(e)) = Len(e) + 1
      /\ \A i \in 1..Len(e) : FromRoot(Wildcard(e), i) = FromRoot(e, i)
      /\ Head(Wildcard(e)) = Star
  BY WildcardLabels
<1>3. Len(e) \in Nat /\ Len(Apex) \in Nat
  BY <1>1
<1>4. ZoneOf(e, Wildcard(e))
  BY <1>2, <1>3, ZoneLabels
<1>5. Wildcard(e) # e /\ Wildcard(e) # Apex
  BY <1>1, <1>2, <1>3
<1>. QED BY <1>1, <1>2, <1>4, <1>5, ZoneTransitive, ZoneBefore

\* No name sorts between a name and the wildcard right below it.
LEMMA NoneBelowWildcard ==
  ASSUME NEW e \in Seq(Nat), NEW o \in Seq(Nat), Before(e, o), Before(o, Wildcard(e))
  PROVE  FALSE
<1>. DEFINE w == Wildcard(e)
<1>1. /\ w \in Seq(Nat) /\ Len(w) = Len(e) + 1
      /\ \A i \in 1..Len(e) : FromRoot(w, i) = FromRoot(e, i)
      /\ FromRoot(w, Len(e) + 1) = 0
  BY WildcardLabels DEF Star
<1>. HIDE DEF w
<1>2. Len(e) \in Nat /\ Len(o) \in Nat
  OBVIOUS
<1>3. /\ \A i \in 1..Len(e) : FromRoot(e, i) \in Nat
      /\ \A i \in 1..Len(o) : FromRoot(o, i) \in Nat
  BY Labels
<1>4. \/ Len(e) < Len(o) /\ Agree(e, o, Len(e))
      \/ \E i \in 1..Len(e) : i <= Len(o) /\ FromRoot(e, i) < FromRoot(o, i)
                              /\ Agree(e, o, i - 1)
  BY BeforeLabels
<1>5. \/ Len(o) < Len(w) /\ Agree(o, w, Len(o))
      \/ \E i \in 1..Len(o) : i <= Len(w) /\ FromRoot(o, i) < FromRoot(w, i)
                              /\ Agree(o, w, i - 1)
  BY <1>1, BeforeLabels DEF w
<1>6. CASE Len(e) < Len(o) /\ Agree(e, o, Len(e))
  <2>1. ~(Len(o) < Len(w))
    BY <1>1, <1>2, <1>6
  <2>2. ASSUME NEW k \in 1..Len(o), k <= Len(w), FromRoot(o, k) < FromRoot(w, k)
        PROVE  FALSE
    <3>1. CASE k <= Len(e)
      <4>1. FromRoot(o, k) = FromRoot(w, k) /\ FromRoot(o, k) \in Nat
        BY <1>1, <1>2, <1>3, <1>6, <3>1 DEF Agree
      <4>. QED BY <2>2, <4>1
    <3>2. CASE k = Len(e) + 1
      <4>1. FromRoot(w, k) = 0 /\ FromRoot(o, k) \in Nat
        BY <1>1, <1>3, <3>2
      <4>. QED BY <2>2, <4>1
    <3>. QED BY <1>1, <1>2, <2>2, <3>1, <3>2
  <2>. QED BY <1>5, <2>1, <2>2
<1>7. ASSUME NEW i \in 1..Len(e), i <= Len(o), FromRoot(e, i) < FromRoot(o, i),
             Agree(e, o, i - 1)
      PROVE  FALSE
  <2>1. /\ FromRoot(e, i) \in Nat /\ FromRoot(o, i) \in Nat /\ i \in 1..Len(o)
        /\ FromRoot(w, i) = FromRoot(e, i)
    BY <1>1, <1>2, <1>3, <1>7
  <2>2. ~Agree(o, w, Len(o))
    BY <1>7, <2>1 DEF Agree
  <2>3. ASSUME NEW k \in 1..Len(o), k <= Len(w), FromRoot(o, k) < FromRoot(w, k),
               Agree(o, w, k - 1)
        PROVE  FALSE
    <3>1. CASE k < i
      <4>1. k \in 1..Len(e) /\ k \in 1..(i - 1)
        BY <1>2, <3>1
      <4>2. FromRoot(o, k) = FromRoot(w, k) /\ FromRoot(o, k) \in Nat
        BY <1>1, <1>3, <1>7, <4>1 DEF Agree
      <4>. QED BY <2>3, <4>2
    <3>2. CASE k = i
      BY <1>7, <2>1, <2>3, <3>2
    <3>3. CASE i < k
      <4>1. i \in 1..(k - 1)
        BY <1>2, <3>3
      <4>2. FromRoot(o, i) = FromRoot(w, i)
        BY <2>3, <4>1 DEF Agree
      <4>. QED BY <1>7, <2>1, <4>2
    <3>. QED BY <1>2, <3>1, <3>2, <3>3
  <2>. QED BY <1>5, <2>2, <2>3
<1>. QED BY <1>4, <1>6, <1>7

\* The record that shows that there is no wildcard below e is that of e.
LEMMA EncloserOwner ==
  ASSUME NEW zone \in Contents, NEW e \in DOMAIN zone, Wildcard(e) \notin DOMAIN zone
  PROVE  NsecOver(zone, Wildcard(e)) = {NsecOf(zone, e)} /\ Covers(NsecOf(zone, e), Wildcard(e))
<1>1. e \in Seq(Nat) /\ ZoneOf(Apex, e)
  BY ZoneNames
<1>2. Wildcard(e) \in Seq(Nat) /\ ZoneOf(Apex, Wildcard(e)) /\ Before(e, Wildcard(e))
  BY <1>1, WildcardIs
<1>3. PICK m \in DOMAIN zone :
        /\ NsecOver(zone, Wildcard(e)) = {NsecOf(zone, m)}
        /\ Covers(NsecOf(zone, m), Wildcard(e)) /\ Before(m, Wildcard(e))
        /\ \A o \in DOMAIN zone : Before(o, Wildcard(e)) => ~Before(m, o)
  BY <1>2, NsecOverIs
<1>4. m \in Seq(Nat) /\ ~Before(m, e)
  BY <1>2, <1>3, ZoneNames
<1>5. m = e
  BY <1>1, <1>3, <1>4, BeforeTotal, NoneBelowWildcard
<1>. QED BY <1>3, <1>5

\* The enclosers found are names of the zone above q.
LEMMA NsecFound ==
  ASSUME NEW zone \in Contents, NEW q \in Seq(Nat), NEW recs \in SUBSET Nsecs(zone)
  PROVE  /\ NsecEnclosers(q, recs) \subseteq Above(Base(q)) \cap DOMAIN zone
         /\ NsecEnclosers(q, recs) \subseteq Above(q)
<1>1. NsecEnclosers(q, recs) \subseteq Tried(Base(q)) \cap DOMAIN zone
  BY NsecAt DEF NsecEnclosers
<1>. QED BY <1>1, BaseIs, TriedIs

\* A name that does not exist, and what is closest above it.
LEMMA NotHashed ==
  ASSUME NEW zone \in Contents, NEW H \in SUBSET Existing(zone), Apex \in H,
         NEW q \in Asked, q \notin H
  PROVE  LET c == Encloser(H, q)
         IN  /\ c \in H /\ c \in Above(q) /\ c \in Seq(Nat) /\ ZoneOf(Apex, c) /\ ZoneOf(c, q)
             /\ c # q /\ Len(c) < Len(q) /\ q # Root
             /\ c \in Tried(q) /\ c \in Tried(Base(q))
             /\ \A m \in H \cap Above(q) : Len(m) <= Len(c)
<1>. DEFINE c == Encloser(H, q)
<1>1. /\ q \in Seq(Nat) /\ ZoneOf(Apex, q) /\ Apex \in Seq(Nat)
      /\ Len(q) < Len(Apex) + EncloserSteps
  BY AskedIs, ContentsAssumption
<1>2. /\ c \in H /\ c \in Above(q) /\ c \in Seq(Nat) /\ ZoneOf(Apex, c) /\ ZoneOf(c, q)
      /\ \A m \in H \cap Above(q) : Len(m) <= Len(c)
  BY <1>1, EncloserIs
<1>. HIDE DEF c
<1>3. c # q /\ Len(c) < Len(q) /\ Len(c) \in Nat /\ Len(q) \in Nat /\ Len(Apex) <= Len(c)
  BY <1>1, <1>2, ZoneBefore
<1>4. q # Root
  BY <1>3 DEF Root
<1>5. c \in Above(Base(q)) /\ Base(q) \in Seq(Nat) /\ Len(Base(q)) = Len(q) - 1
  BY <1>1, <1>2, <1>3, <1>4, BaseIs
<1>6. Len(q) - Len(c) < EncloserSteps /\ Len(Base(q)) - Len(c) < EncloserSteps
  BY <1>1, <1>3, <1>5, SearchAssumption
<1>. QED BY <1>1, <1>2, <1>3, <1>4, <1>5, <1>6, TriedIs DEF c

\* With NSEC, what the servers of a zone deny is accepted (validate_negative).
THEOREM NsecAccepts ==
  ASSUME NEW zone \in Contents, NEW q \in Asked, NEW t \in QTypes, Denied(zone, q, t),
         Gaps(zone) = {}, ~ByWildcard(zone, q)
  PROVE  NsecVerdict(q, t, NsecAnswer(zone, q)) = "Secure"
<1>. DEFINE A == NsecAnswer(zone, q)
<1>1. /\ Existing(zone) = DOMAIN zone /\ Apex \in DOMAIN zone
      /\ A \in SUBSET Nsecs(zone)
  BY ZoneNames, NsecAnswerIs DEF Gaps
<1>2. CASE q \in DOMAIN zone
  <2>. DEFINE r == NsecOf(zone, q)
  <2>1. r.owner = q /\ r.types = zone[q] \cup {"NSEC"} /\ r \in Nsecs(zone)
    BY <1>2, NsecOfIs DEF Nsecs
  <2>2. r \in At(A, q)
    BY <1>2, <2>1 DEF NsecAnswer, At
  <2>3. {t, "CNAME"} \cap zone[q] = {}
    BY <1>1, <1>2 DEF Denied, Absent
  <2>4. Lacks(r, t)
    BY <2>1, <2>3 DEF Lacks, QTypes
  <2>5. NsecNodata(q, t, A)
    BY <2>2, <2>4 DEF NsecNodata
  <2>6. ~FromChild(t, At(A, q))
    <3>1. ASSUME t = "DS", NEW s \in At(A, q), "SOA" \in s.types
          PROVE  FALSE
      <4>1. s = r
        BY <1>1, NsecAt
      <4>2. "SOA" \in zone[q]
        BY <2>1, <3>1, <4>1
      <4>. QED BY <1>2, <3>1, <4>2, ContentsAssumption DEF Denied
    <3>. QED BY <3>1 DEF FromChild
  <2>. QED BY <2>5, <2>6 DEF NsecVerdict
<1>3. CASE q \notin DOMAIN zone
  <2>. DEFINE e == Encloser(Existing(zone), q)
              found == NsecEnclosers(q, A)
  <2>1. /\ q \in Seq(Nat) /\ ZoneOf(Apex, q) /\ e \in DOMAIN zone /\ e \in Tried(Base(q))
        /\ \A m \in DOMAIN zone \cap Above(q) : Len(m) <= Len(e)
    BY <1>1, <1>3, AskedIs, NotHashed
  <2>. HIDE DEF e
  <2>2. Source(zone, q) = Wildcard(e) /\ Wildcard(e) \notin DOMAIN zone
    BY <1>1, <1>3 DEF Source, ByWildcard, e
  <2>3. /\ NsecOver(zone, Wildcard(e)) = {NsecOf(zone, e)}
        /\ Covers(NsecOf(zone, e), Wildcard(e)) /\ NsecOf(zone, e).owner = e
    BY <2>1, <2>2, EncloserOwner, NsecOfIs
  <2>4. PICK m \in DOMAIN zone : /\ NsecOver(zone, q) = {NsecOf(zone, m)}
                                 /\ Covers(NsecOf(zone, m), q)
    BY <1>3, <2>1, NsecOverIs
  <2>5. NsecOf(zone, e) \in A /\ NsecOf(zone, m) \in A
    BY <1>1, <1>3, <2>2, <2>3, <2>4 DEF NsecAnswer
  <2>6. e \in found
    BY <2>1, <2>3, <2>5 DEF NsecEnclosers, At
  <2>7. Longest(found) = e
    <3>1. found \subseteq DOMAIN zone \cap Above(q)
      BY <1>1, <2>1, NsecFound
    <3>2. \A n \in found : Len(n) <= Len(e)
      BY <2>1, <3>1
    <3>. HIDE DEF found
    <3>. QED BY <2>1, <2>6, <3>1, <3>2, LongestUnique
  <2>8. NsecNxdomain(q, e, A)
    BY <2>3, <2>4, <2>5 DEF NsecNxdomain, Covered
  <2>9. ~FromChild(t, At(A, q))
    BY <1>1, <1>3, NsecAt DEF FromChild
  <2>. QED BY <2>6, <2>7, <2>8, <2>9 DEF NsecVerdict
<1>. QED BY <1>2, <1>3

\* The same of a name that only the wildcard of the apex stands for.
THEOREM WildcardNeverDenied ==
  ASSUME NEW zone \in Contents, NEW q \in Asked, NEW t, ~Absent(zone, q, t),
         q \notin Existing(zone), Encloser(Existing(zone), q) = Apex,
         NEW recs \in SUBSET Nsecs(zone)
  PROVE  NsecVerdict(q, t, recs) = "Bogus"
<1>. DEFINE w == Wildcard(Apex)
            found == NsecEnclosers(q, recs)
            c == Longest(found)
<1>1. w \in DOMAIN zone /\ {t, "CNAME"} \cap zone[w] # {}
  BY DEF Absent, Source
<1>2. /\ q \in Seq(Nat) /\ ZoneOf(Apex, q) /\ Apex \in DOMAIN zone
      /\ DOMAIN zone \subseteq Existing(zone) /\ Apex \in Existing(zone)
      /\ \A m \in Existing(zone) \cap Above(q) : Len(m) <= Len(Apex)
  BY AskedIs, ZoneNames, EncloserIs
<1>3. ~NsecNodata(q, t, recs)
  BY <1>2, NsecAt DEF NsecNodata
<1>4. ASSUME found # {}
      PROVE  c = Apex
  <2>1. found \subseteq DOMAIN zone /\ found \in SUBSET Above(q)
    BY <1>2, NsecFound
  <2>2. c \in found
    <3>. HIDE DEF found
    <3>. QED BY <1>2, <1>4, <2>1, LongestIs
  <2>3. c \in Seq(Nat) /\ ZoneOf(Apex, c) /\ Len(c) <= Len(Apex)
    BY <1>2, <2>1, <2>2, ZoneNames
  <2>. HIDE DEF c, found
  <2>4. Apex \in Seq(Nat) /\ Len(Apex) <= Len(c)
    BY <1>2, <2>3, ZoneNames, ZoneBefore
  <2>5. ~(Len(Apex) < Len(c))
    BY <2>3, <2>4
  <2>. QED BY <2>3, <2>4, <2>5, ZoneBefore
<1>5. ~NsecWildcardNodata(q, t, Apex, recs)
  <2>1. \A r \in At(recs, w) : r.types = zone[w] \cup {"NSEC"}
    BY NsecAt, NsecOfIs
  <2>. QED BY <1>1, <2>1 DEF NsecWildcardNodata, Lacks
<1>6. ~NsecNxdomain(q, Apex, recs)
  BY <1>1, NsecGap DEF NsecNxdomain, Covered
<1>. QED BY <1>3, <1>4, <1>5, <1>6 DEF NsecVerdict

\* A denial with NSEC of which a record is missing is not accepted.
THEOREM NsecWholeOnly ==
  ASSUME NEW zone \in Contents, NEW q \in Asked, NEW t, Gaps(zone) = {},
         NEW S \in Parts(NsecAnswer(zone, q))
  PROVE  NsecVerdict(q, t, S) = "Bogus"
<1>. DEFINE A == NsecAnswer(zone, q)
            found == NsecEnclosers(q, S)
            c == Longest(found)
<1>1. /\ Existing(zone) = DOMAIN zone /\ Apex \in DOMAIN zone
      /\ S \in SUBSET Nsecs(zone) /\ S \subseteq A /\ S # A
      /\ q \in Seq(Nat) /\ ZoneOf(Apex, q)
  <2>1. Existing(zone) = DOMAIN zone /\ Apex \in DOMAIN zone
    BY ZoneNames DEF Gaps
  <2>2. A \subseteq Nsecs(zone)
    BY NsecAnswerIs
  <2>3. S \subseteq A /\ S # A
    BY DEF Parts
  <2>. QED BY <2>1, <2>2, <2>3, AskedIs
<1>2. CASE q \in DOMAIN zone
  <2>1. \A r \in A : r = NsecOf(zone, q)
    <3>1. A = At(Nsecs(zone), q)
      BY <1>2 DEF NsecAnswer
    <3>. QED BY <3>1, NsecAt
  <2>2. S = {}
    BY <1>1, <2>1
  <2>. QED BY <2>2 DEF NsecVerdict, NsecNodata, NsecEnclosers, At
<1>3. CASE q \notin DOMAIN zone
  <2>. DEFINE e == Encloser(Existing(zone), q)
  <2>1. /\ e \in DOMAIN zone /\ e \in Seq(Nat) /\ ZoneOf(Apex, e) /\ ZoneOf(e, q) /\ e # q
        /\ \A m \in DOMAIN zone \cap Above(q) : Len(m) <= Len(e)
    BY <1>1, <1>3, NotHashed
  <2>. HIDE DEF e
  <2>2. Source(zone, q) = Wildcard(e)
    BY DEF Source, e
  <2>3. PICK m \in DOMAIN zone :
          /\ NsecOver(zone, q) = {NsecOf(zone, m)}
          /\ \A o \in DOMAIN zone : Before(o, q) => ~Before(m, o)
    BY <1>1, <1>3, NsecOverIs
  <2>. DEFINE r == NsecOf(zone, m)
  <2>4. r.owner = m
    BY NsecOfIs
  <2>5. \A s \in S : Covers(s, q) => s = r
    BY <1>1, <1>3, <2>3, NsecUnique
  <2>6. ~NsecNodata(q, t, S)
    BY <1>1, <1>3, NsecAt DEF NsecNodata
  <2>. HIDE DEF r
  <2>7. ASSUME found # {}, Covered(S, q),
               (\E s \in At(S, Wildcard(c)) : Lacks(s, t)) \/ Covered(S, Wildcard(c))
        PROVE  FALSE
    <3>1. r \in S
      BY <2>5, <2>7 DEF Covered
    <3>2. found \subseteq DOMAIN zone /\ found \in SUBSET Above(q)
      BY <1>1, NsecFound
    <3>3. c \in found
      <4>. HIDE DEF found
      <4>. QED BY <1>1, <2>7, <3>2, LongestIs
    <3>4. c \in Seq(Nat) /\ ZoneOf(c, q) /\ Len(c) <= Len(e)
      BY <1>1, <2>1, <3>2, <3>3, AboveIs
    <3>5. PICK s \in S : s.owner = c
      BY <3>3 DEF NsecEnclosers, At
    <3>. HIDE DEF c, found
    <3>6. A = {r} \cup NsecOver(zone, Wildcard(e)) \cup At(Nsecs(zone), Wildcard(e))
      BY <1>1, <1>3, <2>2, <2>3 DEF NsecAnswer, r
    <3>7. PICK u \in Nsecs(zone) :
            /\ A = {r, u}
            /\ u.owner = IF Wildcard(e) \in DOMAIN zone THEN Wildcard(e) ELSE e
            /\ Wildcard(e) \notin DOMAIN zone =>
                 \A v \in Nsecs(zone) : Covers(v, Wildcard(e)) => v = u
      <4>1. CASE Wildcard(e) \in DOMAIN zone
        <5>. DEFINE u == NsecOf(zone, Wildcard(e))
        <5>1. u \in Nsecs(zone) /\ u.owner = Wildcard(e)
          BY <4>1, NsecOfIs DEF Nsecs
        <5>2. At(Nsecs(zone), Wildcard(e)) = {u}
          <6>1. u \in At(Nsecs(zone), Wildcard(e))
            BY <5>1 DEF At
          <6>. QED BY <6>1, NsecAt
        <5>3. NsecOver(zone, Wildcard(e)) = {}
          BY <4>1 DEF NsecOver
        <5>4. A = {r, u}
          BY <3>6, <5>2, <5>3
        <5>. QED BY <4>1, <5>1, <5>4
      <4>2. CASE Wildcard(e) \notin DOMAIN zone
        <5>. DEFINE u == NsecOf(zone, e)
        <5>1. u \in Nsecs(zone) /\ u.owner = e
          BY <2>1, NsecOfIs DEF Nsecs
        <5>2. At(Nsecs(zone), Wildcard(e)) = {}
          BY <4>2, NsecAt
        <5>3. NsecOver(zone, Wildcard(e)) = {u}
          BY <2>1, <4>2, EncloserOwner
        <5>4. A = {r, u}
          BY <3>6, <5>2, <5>3
        <5>5. \A v \in Nsecs(zone) : Covers(v, Wildcard(e)) => v = u
          BY <2>1, <4>2, <5>3, WildcardIs, NsecUnique
        <5>. QED BY <4>2, <5>1, <5>4, <5>5
      <4>. QED BY <4>1, <4>2
    <3>8. S = {r} /\ u # r /\ s = r
      BY <1>1, <3>1, <3>5, <3>7
    <3>9. c = m
      BY <2>4, <3>5, <3>8
    <3>10. c = e
      <4>1. ASSUME c # e PROVE FALSE
        <5>1. ZoneOf(c, e)
          BY <1>1, <2>1, <3>4, ZoneChain
        <5>2. Before(c, e) /\ Before(e, q)
          BY <1>1, <2>1, <3>4, <4>1, <5>1, ZoneBefore
        <5>. QED BY <2>1, <2>3, <3>9, <5>2
      <4>. QED BY <4>1
    <3>11. Wildcard(e) # e
      BY <2>1, WildcardIs
    <3>12. At(S, Wildcard(c)) = {}
      BY <2>4, <3>8, <3>9, <3>10, <3>11 DEF At
    <3>13. r \in Nsecs(zone) /\ Covers(r, Wildcard(e))
      BY <1>1, <2>7, <3>8, <3>10, <3>12 DEF Covered
    <3>14. Wildcard(e) \notin DOMAIN zone
      BY <3>13, NsecGap
    <3>. QED BY <3>7, <3>8, <3>13, <3>14
  <2>. QED BY <2>6, <2>7 DEF NsecVerdict, NsecWildcardNodata, NsecNxdomain
<1>. QED BY <1>2, <1>3

-----------------------------------------------------------------------------
(* The NSEC3 records of a zone *)

\* The hashed names are finitely many, the apex among them, and do not collide.
LEMMA Hashes ==
  ASSUME NEW zone \in Contents, NEW out
  PROVE  /\ Apex \in Hashed(zone, out) /\ Hashed(zone, out) \in SUBSET Existing(zone)
         /\ IsFiniteSet(Hashed(zone, out))
         /\ \A n \in Hashed(zone, out) : n \in DOMAIN Hash
         /\ \A n \in DOMAIN Hash : Hash[n] \in Nat
         /\ \A m, n \in DOMAIN Hash : Hash[m] = Hash[n] => m = n
<1>1. Apex \in Existing(zone)
  BY ZoneNames
<1>2. zone[Apex] # {"NS"}
  <2>1. "SOA" \in zone[Apex] /\ "SOA" # "NS"
    BY ContentsAssumption
  <2>. QED BY <2>1
<1>3. Apex \in Hashed(zone, out)
  BY <1>1, <1>2 DEF Hashed
<1>4. Hashed(zone, out) \in SUBSET Existing(zone)
  BY DEF Hashed
<1>5. IsFiniteSet(Hashed(zone, out))
  BY <1>4, ZoneNames, FS_Subset
<1>6. \A n \in Hashed(zone, out) : n \in DOMAIN Hash
  BY <1>4, ZoneNames, SearchAssumption
<1>7. /\ \A n \in DOMAIN Hash : Hash[n] \in Nat
      /\ \A m, n \in DOMAIN Hash : Hash[m] = Hash[n] => m = n
  BY SearchAssumption
<1>. QED BY <1>3, <1>4, <1>5, <1>6, <1>7

\* The record of a hash points to the next hash, or back to the first.
LEMMA Nsec3OfIs ==
  ASSUME NEW zone \in Contents, NEW out, NEW n \in Hashed(zone, out)
  PROVE  /\ Nsec3Of(zone, out, n).owner = Hash[n] /\ Nsec3Of(zone, out, n).optOut = out
         /\ Nsec3Of(zone, out, n).types = IF n \in DOMAIN zone THEN zone[n] ELSE {}
         /\ \E x \in Hashed(zone, out) :
              /\ Nsec3Of(zone, out, n).next = Hash[x]
              /\ (\E o \in Hashed(zone, out) : Hash[o] > Hash[n])
                   => /\ Hash[x] > Hash[n]
                      /\ \A o \in Hashed(zone, out) : Hash[o] > Hash[n] => Hash[x] <= Hash[o]
              /\ (\A o \in Hashed(zone, out) : ~(Hash[o] > Hash[n]))
                   => \A o \in Hashed(zone, out) : Hash[x] <= Hash[o]
<1>. DEFINE H == Hashed(zone, out)
            hashes == {Hash[o] : o \in H}
            after == {h \in hashes : h > Hash[n]}
            S == IF after = {} THEN hashes ELSE after
<1>1. \A o \in H : Hash[o] \in Nat
  BY Hashes
<1>. HIDE DEF H
<1>2. n \in H
  BY DEF H
<1>3. S \in SUBSET Nat /\ S # {} /\ S \subseteq hashes
  BY <1>1, <1>2
<1>4. FirstHash(S) \in S /\ \A g \in S : FirstHash(S) <= g
  <2>. HIDE DEF S
  <2>. QED BY <1>3, LeastHash
<1>5. /\ Nsec3Of(zone, out, n).owner = Hash[n] /\ Nsec3Of(zone, out, n).optOut = out
      /\ Nsec3Of(zone, out, n).types = IF n \in DOMAIN zone THEN zone[n] ELSE {}
      /\ Nsec3Of(zone, out, n).next = FirstHash(S)
  BY DEF Nsec3Of, H
<1>6. PICK x \in H : FirstHash(S) = Hash[x]
  <2>1. FirstHash(S) \in hashes
    <3>. HIDE DEF S, hashes
    <3>. QED BY <1>3, <1>4
  <2>. QED BY <2>1
<1>7. ASSUME NEW p \in H, Hash[p] > Hash[n]
      PROVE  Hash[x] > Hash[n] /\ \A o \in H : Hash[o] > Hash[n] => Hash[x] <= Hash[o]
  <2>1. S = after
    BY <1>7
  <2>2. Hash[x] \in after /\ \A g \in after : Hash[x] <= g
    <3>. HIDE DEF S, after
    <3>. QED BY <1>4, <1>6, <2>1
  <2>. QED BY <2>2
<1>8. ASSUME \A o \in H : ~(Hash[o] > Hash[n])
      PROVE  \A o \in H : Hash[x] <= Hash[o]
  <2>1. S = hashes
    BY <1>8
  <2>2. \A g \in hashes : Hash[x] <= g
    <3>. HIDE DEF S, hashes
    <3>. QED BY <1>4, <1>6, <2>1
  <2>. QED BY <2>2
<1>. QED BY <1>5, <1>6, <1>7, <1>8 DEF H

\* A hash has one record.
LEMMA Nsec3At ==
  ASSUME NEW zone \in Contents, NEW out, NEW n \in DOMAIN Hash,
         NEW recs \in SUBSET Nsec3s(zone, out)
  PROVE  \A r \in At3(recs, n) : n \in Hashed(zone, out) /\ r = Nsec3Of(zone, out, n)
<1>. SUFFICES ASSUME NEW r \in At3(recs, n)
              PROVE  n \in Hashed(zone, out) /\ r = Nsec3Of(zone, out, n)
  OBVIOUS
<1>1. r \in Nsec3s(zone, out) /\ r.owner = Hash[n]
  BY DEF At3, At
<1>2. PICK m \in Hashed(zone, out) : r = Nsec3Of(zone, out, m)
  BY <1>1 DEF Nsec3s
<1>3. r.owner = Hash[m]
  BY <1>2, Nsec3OfIs
<1>4. m = n
  BY <1>1, <1>3, Hashes
<1>. QED BY <1>2, <1>4

\* A record covers no hash of the zone but its own.
LEMMA Nsec3Gap ==
  ASSUME NEW zone \in Contents, NEW out, NEW r \in Nsec3s(zone, out),
         NEW m \in Hashed(zone, out), Covers3(r, Hash[m])
  PROVE  r.owner = Hash[m]
<1>. DEFINE H == Hashed(zone, out)
<1>1. PICK n \in H : r = Nsec3Of(zone, out, n)
  BY DEF Nsec3s
<1>2. \A o \in H : Hash[o] \in Nat
  BY Hashes
<1>3. PICK x \in H :
        /\ r.owner = Hash[n] /\ r.next = Hash[x]
        /\ (\E o \in H : Hash[o] > Hash[n])
             => Hash[x] > Hash[n] /\ \A o \in H : Hash[o] > Hash[n] => Hash[x] <= Hash[o]
        /\ (\A o \in H : ~(Hash[o] > Hash[n])) => \A o \in H : Hash[x] <= Hash[o]
  BY <1>1, Nsec3OfIs
<1>. HIDE DEF H
<1>4. m \in H
  BY DEF H
<1>5. Hash[n] \in Nat /\ Hash[x] \in Nat /\ Hash[m] \in Nat
  BY <1>2, <1>4
<1>6. CASE \E o \in H : Hash[o] > Hash[n]
  BY <1>3, <1>4, <1>5, <1>6 DEF Covers3
<1>7. CASE \A o \in H : ~(Hash[o] > Hash[n])
  BY <1>3, <1>4, <1>5, <1>7 DEF Covers3
<1>. QED BY <1>6, <1>7

\* A record covers its own hash, unless it is the only one.
LEMMA Nsec3Self ==
  ASSUME NEW zone \in Contents, NEW out, NEW n \in Hashed(zone, out),
         Hashed(zone, out) # {Apex}
  PROVE  Covers3(Nsec3Of(zone, out, n), Hash[n])
<1>. DEFINE H == Hashed(zone, out)
            r == Nsec3Of(zone, out, n)
<1>1. /\ \A o \in H : o \in DOMAIN Hash /\ Hash[o] \in Nat
      /\ \A a, b \in H : Hash[a] = Hash[b] => a = b
      /\ Apex \in H
  BY Hashes
<1>2. PICK x \in H :
        /\ r.owner = Hash[n] /\ r.next = Hash[x]
        /\ (\E o \in H : Hash[o] > Hash[n])
             => Hash[x] > Hash[n] /\ \A o \in H : Hash[o] > Hash[n] => Hash[x] <= Hash[o]
        /\ (\A o \in H : ~(Hash[o] > Hash[n])) => \A o \in H : Hash[x] <= Hash[o]
  BY Nsec3OfIs
<1>3. PICK y \in H : y # n
  BY <1>1
<1>. HIDE DEF H, r
<1>4. n \in H
  BY DEF H
<1>5. /\ Hash[n] \in Nat /\ Hash[x] \in Nat /\ Hash[y] \in Nat /\ Hash[y] # Hash[n]
  BY <1>1, <1>3, <1>4
<1>6. CASE \E o \in H : Hash[o] > Hash[n]
  <2>1. Hash[n] < Hash[x]
    BY <1>2, <1>5, <1>6
  <2>. QED BY <1>2, <1>5, <2>1 DEF Covers3, r
<1>7. CASE \A o \in H : ~(Hash[o] > Hash[n])
  <2>1. Hash[x] <= Hash[y] /\ ~(Hash[y] > Hash[n])
    BY <1>2, <1>3, <1>7
  <2>2. ~(Hash[n] <= Hash[x])
    BY <1>5, <2>1
  <2>. QED BY <1>2, <1>5, <2>2 DEF Covers3, r
<1>. QED BY <1>6, <1>7

\* At most one record covers a hash that is not in the zone: that of the last hash
\* before it, or of the last of all; where there are two records it does cover it.
LEMMA Nsec3OverIs ==
  ASSUME NEW zone \in Contents, NEW out, NEW n \in DOMAIN Hash, n \notin Hashed(zone, out)
  PROVE  \E m \in Hashed(zone, out) :
           /\ Nsec3Over(Nsec3s(zone, out), n) = {Nsec3Of(zone, out, m)}
           /\ Hashed(zone, out) # {Apex} => Covers3(Nsec3Of(zone, out, m), Hash[n])
           /\ \A r \in Nsec3s(zone, out) : Covers3(r, Hash[n]) => r = Nsec3Of(zone, out, m)
<1>. DEFINE H == Hashed(zone, out)
            recs == Nsec3s(zone, out)
            of(m) == Nsec3Of(zone, out, m)
            k == Hash[n]
<1>1. /\ \A o \in H : o \in DOMAIN Hash /\ Hash[o] \in Nat
      /\ \A a, b \in H : Hash[a] = Hash[b] => a = b
      /\ Apex \in H /\ IsFiniteSet(H) /\ k \in Nat /\ \A o \in H : Hash[o] # k
  BY Hashes
<1>2. \A m \in H : of(m).owner = Hash[m] /\ of(m) \in recs
  BY Nsec3OfIs DEF Nsec3s
<1>3. \A r \in recs : \E m \in H : r = of(m)
  BY DEF Nsec3s
<1>4. At3(recs, n) = {}
  BY Nsec3At
\* The last of the hashes before k, or the last of all.
<1>5. PICK m \in H :
        /\ (\E o \in H : Hash[o] < k)
             => Hash[m] < k /\ \A o \in H : Hash[o] < k => Hash[o] <= Hash[m]
        /\ (\A o \in H : ~(Hash[o] < k)) => \A o \in H : Hash[o] <= Hash[m]
  <2>. DEFINE B == {o \in H : Hash[o] < k}
              T == IF B = {} THEN H ELSE B
              G == {Hash[o] : o \in T}
              f == [o \in T |-> Hash[o]]
  <2>1. T \in SUBSET H /\ T # {}
    BY <1>1
  <2>2. f \in Surjection(T, G)
    <3>. HIDE DEF T
    <3>. QED BY DEF Surjection
  <2>3. IsFiniteSet(T)
    <3>. HIDE DEF T, H
    <3>. QED BY <1>1, <2>1, FS_Subset
  <2>4. G \in SUBSET Nat /\ G # {} /\ IsFiniteSet(G)
    <3>1. IsFiniteSet(G)
      <4>. HIDE DEF T, G, f
      <4>. QED BY <2>2, <2>3, FS_Surjection
    <3>. HIDE DEF T, H
    <3>. QED BY <1>1, <2>1, <3>1
  <2>5. PICK i \in G : \A j \in G : j <= i
    <3>. HIDE DEF G
    <3>. QED BY <2>4, GreatestNatural
  <2>6. PICK m \in T : i = Hash[m]
    BY <2>5
  <2>7. m \in H /\ \A o \in T : Hash[o] <= Hash[m]
    <3>. HIDE DEF T, H
    <3>. QED BY <2>1, <2>5, <2>6
  <2>. HIDE DEF H
  <2>8. CASE B = {}
    BY <2>7, <2>8
  <2>9. CASE B # {}
    BY <2>6, <2>7, <2>9
  <2>. QED BY <2>8, <2>9
<1>6. Nsec3Over(recs, n) = {of(m)}
  <2>. DEFINE before == {r \in recs : r.owner < k}
              S == IF before = {} THEN recs ELSE before
  <2>1. Nsec3Over(recs, n) = {r \in S : \A o \in S : o.owner <= r.owner}
    BY <1>4 DEF Nsec3Over
  <2>2. of(m) \in S /\ \A o \in S : o.owner <= of(m).owner
    <3>. HIDE DEF H, recs, of, k
    <3>. QED BY <1>1, <1>2, <1>3, <1>5
  <2>3. ASSUME NEW r \in S, \A o \in S : o.owner <= r.owner
        PROVE  r = of(m)
    <3>1. r \in recs
      OBVIOUS
    <3>2. PICK l \in H : r = of(l)
      BY <1>3, <3>1
    <3>3. Hash[m] <= Hash[l] /\ Hash[l] <= Hash[m]
      <4>. HIDE DEF S, of, H
      <4>. QED BY <1>2, <2>2, <2>3, <3>2
    <3>4. l = m
      <4>. HIDE DEF H
      <4>. QED BY <1>1, <3>3
    <3>. QED BY <3>2, <3>4
  <2>. HIDE DEF S, of
  <2>. QED BY <2>1, <2>2, <2>3
<1>7. ASSUME NEW l \in H
      PROVE  \E x \in H :
               /\ of(l).next = Hash[x]
               /\ (\E o \in H : Hash[o] > Hash[l])
                   => Hash[x] > Hash[l] /\ \A o \in H : Hash[o] > Hash[l] => Hash[x] <= Hash[o]
               /\ (\A o \in H : ~(Hash[o] > Hash[l])) => \A o \in H : Hash[x] <= Hash[o]
  BY Nsec3OfIs
<1>. HIDE DEF H, of, recs, k
<1>8. ASSUME H # {Apex}
      PROVE  Covers3(of(m), k)
  <2>1. PICK x \in H :
               /\ of(m).next = Hash[x]
               /\ (\E o \in H : Hash[o] > Hash[m])
                   => Hash[x] > Hash[m] /\ \A o \in H : Hash[o] > Hash[m] => Hash[x] <= Hash[o]
               /\ (\A o \in H : ~(Hash[o] > Hash[m])) => \A o \in H : Hash[x] <= Hash[o]
    BY <1>7
  <2>2. PICK y \in H : y # m
    BY <1>1, <1>8
  <2>3. /\ Hash[m] \in Nat /\ Hash[x] \in Nat /\ Hash[y] \in Nat /\ Hash[y] # Hash[m]
        /\ Hash[m] # k /\ Hash[x] # k /\ k \in Nat
    BY <1>1, <2>2
  <2>4. CASE \A o \in H : ~(Hash[o] < k)
    <3>1. Hash[y] <= Hash[m] /\ ~(Hash[m] < k) /\ ~(Hash[x] < k)
      BY <1>5, <2>2, <2>4
    <3>2. \A o \in H : ~(Hash[o] > Hash[m])
      <4>1. ASSUME NEW o \in H PROVE ~(Hash[o] > Hash[m])
        <5>1. Hash[o] <= Hash[m] /\ Hash[o] \in Nat
          BY <1>1, <1>5, <2>4
        <5>. QED BY <2>3, <5>1
      <4>. QED BY <4>1
    <3>3. Hash[x] <= Hash[y]
      BY <2>1, <2>2, <3>2
    <3>4. k < Hash[x] /\ ~(Hash[m] <= Hash[x])
      BY <2>3, <3>1, <3>3
    <3>. QED BY <1>2, <2>1, <3>4 DEF Covers3
  <2>5. CASE \E o \in H : Hash[o] < k
    <3>1. Hash[m] < k /\ \A o \in H : Hash[o] < k => Hash[o] <= Hash[m]
      BY <1>5, <2>5
    <3>2. CASE \E o \in H : Hash[o] > Hash[m]
      <4>1. Hash[x] > Hash[m]
        BY <2>1, <3>2
      <4>2. Hash[m] <= k /\ k < Hash[x] /\ Hash[m] <= Hash[x]
        BY <2>3, <3>1, <4>1
      <4>. QED BY <1>2, <2>1, <4>2 DEF Covers3
    <3>3. CASE \A o \in H : ~(Hash[o] > Hash[m])
      <4>1. Hash[x] <= Hash[y] /\ ~(Hash[y] > Hash[m])
        BY <2>1, <2>2, <3>3
      <4>2. ~(Hash[m] <= Hash[x]) /\ Hash[m] <= k
        BY <2>3, <3>1, <4>1
      <4>. QED BY <1>2, <2>1, <4>2 DEF Covers3
    <3>. QED BY <3>2, <3>3
  <2>. QED BY <2>4, <2>5
<1>9. ASSUME NEW r \in recs, Covers3(r, k)
      PROVE  r = of(m)
  <2>1. PICK l \in H : r = of(l)
    BY <1>3
  <2>2. PICK x \in H :
               /\ of(l).next = Hash[x]
               /\ (\E o \in H : Hash[o] > Hash[l])
                   => Hash[x] > Hash[l] /\ \A o \in H : Hash[o] > Hash[l] => Hash[x] <= Hash[o]
               /\ (\A o \in H : ~(Hash[o] > Hash[l])) => \A o \in H : Hash[x] <= Hash[o]
    BY <1>7
  <2>3. /\ Hash[m] \in Nat /\ Hash[x] \in Nat /\ Hash[l] \in Nat /\ k \in Nat
        /\ Hash[m] # k /\ Hash[x] # k /\ Hash[l] # k
    BY <1>1
  <2>4. r.owner = Hash[l] /\ r.next = Hash[x]
    BY <1>2, <2>1, <2>2
  <2>5. CASE \E o \in H : Hash[o] > Hash[l]
    <3>1. Hash[l] < Hash[x] /\ Hash[l] < k /\ k < Hash[x]
      <4>1. Hash[x] > Hash[l]
        BY <2>2, <2>5
      <4>. QED BY <1>9, <2>3, <2>4, <4>1 DEF Covers3
    <3>2. Hash[m] < k /\ Hash[l] <= Hash[m]
      BY <1>5, <3>1
    <3>3. ~(Hash[m] > Hash[l])
      <4>1. Hash[m] > Hash[l] => Hash[x] <= Hash[m]
        BY <2>2, <2>5
      <4>. QED BY <2>3, <3>1, <3>2, <4>1
    <3>4. Hash[l] = Hash[m]
      BY <2>3, <3>2, <3>3
    <3>. QED BY <1>1, <2>1, <3>4
  <2>6. CASE \A o \in H : ~(Hash[o] > Hash[l])
    <3>1. (\A o \in H : Hash[x] <= Hash[o]) /\ ~(Hash[m] > Hash[l])
      BY <2>2, <2>6
    <3>2. Hash[l] < k \/ k < Hash[x]
      BY <1>9, <2>3, <2>4 DEF Covers3
    <3>3. Hash[l] <= Hash[m]
      <4>1. CASE Hash[l] < k
        BY <1>5, <4>1
      <4>2. CASE k < Hash[x]
        <5>1. ASSUME NEW o \in H PROVE ~(Hash[o] < k)
          <6>1. Hash[x] <= Hash[o] /\ Hash[o] \in Nat
            BY <1>1, <3>1
          <6>. QED BY <2>3, <4>2, <6>1
        <5>. QED BY <1>5, <5>1
      <4>. QED BY <3>2, <4>1, <4>2
    <3>4. Hash[l] = Hash[m]
      BY <2>3, <3>1, <3>3
    <3>. QED BY <1>1, <2>1, <3>4
  <2>. QED BY <2>5, <2>6
<1>. QED BY <1>6, <1>8, <1>9 DEF H, of, recs, k

-----------------------------------------------------------------------------
(* What the servers of a zone prove with NSEC3 *)

LEMMA NextCloserIs ==
  ASSUME NEW q \in Seq(Nat), NEW c \in Above(q), c # q
  PROVE  NextCloser(q, c) \in Above(q) /\ Len(NextCloser(q, c)) = Len(c) + 1
<1>1. c \in Seq(Nat) /\ ZoneOf(c, q)
  BY AboveIs
<1>2. Len(c) < Len(q) /\ Len(c) \in Nat /\ Len(q) \in Nat
  BY <1>1, ZoneBefore
<1>3. Len(c) + 1 \in 0..Len(q)
  BY <1>2
<1>. QED BY <1>3, AncestorLabels DEF NextCloser, Above

\* The enclosers found are hashed names of the zone above q, q among them only
\* if its own record is shown.
LEMMA Nsec3Found ==
  ASSUME NEW zone \in Contents, NEW out, NEW q \in Asked, NEW recs \in SUBSET Nsec3s(zone, out)
  PROVE  LET found == {n \in Tried(q) : At3(recs, n) # {}}
         IN  /\ found \in SUBSET Above(q) /\ found \subseteq Hashed(zone, out)
             /\ \A m \in Above(q) \cap Hashed(zone, out) :
                  (\E r \in recs : r.owner = Hash[m]) => m \in found
<1>1. /\ q \in Seq(Nat) /\ Above(q) \subseteq DOMAIN Hash
      /\ Len(q) < Len(Apex) + EncloserSteps /\ Apex \in Seq(Nat)
  BY AskedIs, SearchAssumption, ContentsAssumption
<1>2. Tried(q) \subseteq Above(q)
  BY <1>1, TriedIs
<1>3. ASSUME NEW n \in Tried(q), At3(recs, n) # {}
      PROVE  n \in Hashed(zone, out)
  BY <1>1, <1>2, <1>3, Nsec3At
<1>4. ASSUME NEW m \in Above(q) \cap Hashed(zone, out)
      PROVE  m \in Tried(q)
  <2>1. m \in Seq(Nat) /\ ZoneOf(Apex, m)
    BY Hashes, ZoneNames
  <2>2. Len(Apex) <= Len(m) /\ Len(m) \in Nat /\ Len(Apex) \in Nat /\ Len(q) \in Nat
    BY <1>1, <2>1, ZoneBefore
  <2>3. Len(q) - Len(m) < EncloserSteps
    BY <1>1, <2>2, SearchAssumption
  <2>. QED BY <1>1, <2>3, TriedIs
<1>. QED BY <1>2, <1>3, <1>4 DEF At3, At

\* With NSEC3, what the servers of a zone of more than one record deny is
\* accepted, or proves an insecure delegation (verify_nsec3).
THEOREM Nsec3Accepts ==
  ASSUME NEW zone \in Contents, NEW out \in BOOLEAN, NEW q \in Asked, NEW t \in QTypes,
         Denied(zone, q, t), Hashed(zone, out) # {Apex}
  PROVE  Nsec3Verdict(q, t, Nsec3Answer(zone, out, q))
           \in {"Secure"} \cup IF out /\ t = "DS" THEN {"InsecureUnsigned"} ELSE {}
<1>. DEFINE H == Hashed(zone, out)
            recs == Nsec3s(zone, out)
            A == Nsec3Answer(zone, out, q)
            of(m) == Nsec3Of(zone, out, m)
<1>1. /\ q \in Seq(Nat) /\ ZoneOf(Apex, q) /\ Above(q) \subseteq DOMAIN Hash
      /\ q \in Above(q) /\ q \in DOMAIN Hash
  BY AskedIs, AboveIs, SearchAssumption
<1>2. /\ Apex \in H /\ H \in SUBSET Existing(zone)
      /\ \A m \in H : m \in DOMAIN Hash /\ Wildcard(m) \in DOMAIN Hash
  BY Hashes, ZoneNames, SearchAssumption
<1>3. \A m \in H : of(m).owner = Hash[m] /\ of(m) \in recs /\ of(m).optOut = out
  BY Nsec3OfIs DEF Nsec3s
<1>4. CASE q \in H
  <2>1. A = At3(recs, q)
    BY <1>4 DEF Nsec3Answer
  <2>2. of(q) \in At3(A, q) /\ \A r \in At3(A, q) : r = of(q)
    <3>1. of(q) \in At3(A, q)
      BY <1>3, <1>4, <2>1 DEF At3, At
    <3>2. \A r \in At3(recs, q) : r = of(q)
      BY <1>1, Nsec3At
    <3>. QED BY <2>1, <3>1, <3>2 DEF At3, At
  <2>3. of(q).types = IF q \in DOMAIN zone THEN zone[q] ELSE {}
    BY <1>4, Nsec3OfIs
  <2>4. Lacks(of(q), t)
    <3>1. q \in Existing(zone)
      BY <1>2, <1>4
    <3>2. q \in DOMAIN zone => {t, "CNAME"} \cap zone[q] = {}
      BY <3>1 DEF Denied, Absent
    <3>. HIDE DEF of
    <3>. QED BY <2>3, <3>2 DEF Lacks
  <2>5. ~FromChild(t, At3(A, q))
    <3>1. ASSUME t = "DS", "SOA" \in of(q).types PROVE FALSE
      <4>1. q \in DOMAIN zone /\ "SOA" \in zone[q]
        BY <2>3, <3>1
      <4>. QED BY <3>1, <4>1, ContentsAssumption DEF Denied
    <3>. HIDE DEF of
    <3>. QED BY <2>2, <3>1 DEF FromChild
  <2>. QED BY <2>2, <2>4, <2>5 DEF Nsec3Verdict
<1>5. CASE q \notin H
  <2>. DEFINE c == Encloser(H, q)
              n == NextCloser(q, c)
              w == Wildcard(c)
              found == {m \in Tried(q) : At3(A, m) # {}}
  <2>1. /\ c \in H /\ c \in Above(q) /\ c \in Seq(Nat) /\ c # q /\ c \in Tried(q)
        /\ \A m \in H \cap Above(q) : Len(m) <= Len(c)
    BY <1>2, <1>5, NotHashed
  <2>2. A = At3(recs, c) \cup Nsec3Over(recs, n) \cup Nsec3Over(recs, w) \cup At3(recs, w)
    BY <1>5 DEF Nsec3Answer
  <2>. HIDE DEF c
  <2>3. A \in SUBSET recs
    BY <2>2 DEF Nsec3Over, At3, At
  <2>4. n \in Above(q) /\ n \notin H /\ n \in DOMAIN Hash /\ w \in DOMAIN Hash
    <3>1. n \in Above(q) /\ Len(n) = Len(c) + 1 /\ Len(c) \in Nat
      BY <1>1, <2>1, NextCloserIs
    <3>2. ~(Len(n) <= Len(c))
      BY <3>1
    <3>. HIDE DEF n, H
    <3>. QED BY <1>1, <1>2, <2>1, <3>1, <3>2
  <2>5. At3(A, q) = {}
    BY <1>1, <1>5, <2>3, Nsec3At
  <2>6. of(c) \in A /\ of(c) \in At3(A, c)
    BY <1>3, <2>1, <2>2 DEF At3, At
  <2>7. c \in found /\ found \in SUBSET Above(q) /\ found \subseteq H
    BY <2>1, <2>3, <2>6, Nsec3Found
  <2>8. Longest(found) = c /\ Enclosers3(q, t, A) = found
    <3>1. found # {} /\ Enclosers3(q, t, A) = found
      BY <2>7 DEF Enclosers3
    <3>2. \A m \in found : Len(m) <= Len(c)
      <4>. HIDE DEF found, H
      <4>. QED BY <2>1, <2>7
    <3>. HIDE DEF found
    <3>. QED BY <1>1, <2>7, <3>1, <3>2, LongestUnique
  <2>9. \E r \in A : Covers3(r, Hash[n])
    <3>1. PICK m \in H : Nsec3Over(recs, n) = {of(m)} /\ Covers3(of(m), Hash[n])
      BY <2>4, Nsec3OverIs
    <3>. QED BY <2>2, <3>1
  <2>10. \E r \in A : Covers3(r, Hash[w])
    <3>1. CASE w \in H
      <4>1. of(w) \in A
        BY <1>3, <2>2, <3>1 DEF At3, At
      <4>. QED BY <3>1, <4>1, Nsec3Self
    <3>2. CASE w \notin H
      <4>1. PICK m \in H : Nsec3Over(recs, w) = {of(m)} /\ Covers3(of(m), Hash[w])
        BY <2>4, <3>2, Nsec3OverIs
      <4>. QED BY <2>2, <4>1
    <3>. QED BY <3>1, <3>2
  <2>11. \A r \in A : r.optOut = out
    BY <1>3, <2>3 DEF Nsec3s
  <2>12. Nsec3Verdict(q, t, A) \in {"Secure", Nxdomain3(q, t, c, A)}
    <3>1. ~FromChild(t, At3(A, q)) /\ ~\E r \in At3(A, q) : Lacks(r, t)
      BY <2>5 DEF FromChild
    <3>. HIDE DEF A, found
    <3>. QED BY <2>1, <2>7, <2>8, <3>1 DEF Nsec3Verdict
  <2>13. Nxdomain3(q, t, c, A)
           \in {"Secure"} \cup IF out /\ t = "DS" THEN {"InsecureUnsigned"} ELSE {}
    <3>. HIDE DEF A
    <3>. QED BY <2>9, <2>10, <2>11 DEF Nxdomain3
  <2>. QED BY <2>12, <2>13
<1>. QED BY <1>4, <1>5

LEMMA Nsec3AnswerIs ==
  ASSUME NEW zone \in Contents, NEW out, NEW q
  PROVE  Nsec3Answer(zone, out, q) \subseteq Nsec3s(zone, out)
BY DEF Nsec3Answer, Nsec3Over, At3, At

\* The next closer name below an encloser that was found is not a hashed name
\* of which the record is shown, so no record covers it if the zone has it.
LEMMA NextCloserOpen ==
  ASSUME NEW zone \in Contents, NEW out, NEW q \in Asked, NEW recs \in SUBSET Nsec3s(zone, out),
         NEW c \in Above(q), c # q,
         \A m \in Above(q) \cap Hashed(zone, out) :
           (\E r \in recs : r.owner = Hash[m]) => Len(m) <= Len(c),
         NextCloser(q, c) \in Hashed(zone, out)
  PROVE  \A r \in recs : ~Covers3(r, Hash[NextCloser(q, c)])
<1>. DEFINE n == NextCloser(q, c)
<1>1. n \in Above(q) /\ Len(n) = Len(c) + 1 /\ Len(c) \in Nat
  BY AskedIs, AboveIs, NextCloserIs
<1>2. ~(Len(n) <= Len(c))
  BY <1>1
<1>3. ASSUME NEW r \in recs, Covers3(r, Hash[n])
      PROVE  FALSE
  <2>1. r.owner = Hash[n]
    BY <1>3, Nsec3Gap
  <2>. HIDE DEF n
  <2>. QED BY <1>1, <1>2, <2>1 DEF n
<1>. QED BY <1>3

\* Without wildcards in the zone none is found below the closest encloser shown.
LEMMA NoWildcardAt ==
  ASSUME NEW zone \in Contents, NEW out, NEW q \in Asked, NEW recs \in SUBSET Nsec3s(zone, out),
         NEW c \in Above(q), ~HasWildcard(zone),
         \A m \in Above(q) \cap Hashed(zone, out) :
           (\E r \in recs : r.owner = Hash[m]) => Len(m) <= Len(c)
  PROVE  At3(recs, Wildcard(c)) = {}
<1>. DEFINE w == Wildcard(c)
<1>1. q \in Seq(Nat) /\ Above(q) \subseteq Hashable /\ Apex \in Above(q)
  BY AskedIs
<1>2. c \in Seq(Nat) /\ w \in DOMAIN Hash /\ Len(w) = Len(c) + 1 /\ Head(w) = Star
  BY <1>1, AboveIs, SearchAssumption, WildcardLabels
<1>. HIDE DEF w
<1>3. ASSUME NEW r \in At3(recs, w)
      PROVE  FALSE
  <2>1. w \in Hashed(zone, out) /\ r \in recs /\ r.owner = Hash[w]
    BY <1>2, Nsec3At DEF At3, At
  <2>2. CASE w = Apex
    <3>1. Len(w) <= Len(c)
      BY <1>1, <2>1, <2>2
    <3>2. Len(c) \in Nat
      BY <1>2
    <3>. QED BY <1>2, <3>1, <3>2
  <2>3. CASE w # Apex
    BY <1>2, <2>1, <2>3, Hashes DEF HasWildcard
  <2>. QED BY <2>2, <2>3
<1>. QED BY <1>3 DEF w

\* With NSEC3, a name of a zone without wildcards is denied no type that it has,
\* whatever records of the zone are shown, if no opt-out span leaves it or a name
\* above it out (verify_nsec3, check_nsec3_nxdomain).
THEOREM PresentNeverDenied3 ==
  ASSUME NEW zone \in Contents, NEW out, NEW q \in Asked, NEW t, q \in DOMAIN zone,
         {t, "CNAME"} \cap zone[q] # {}, ~HasWildcard(zone),
         Above(q) \cap Existing(zone) \subseteq Hashed(zone, out),
         NEW recs \in SUBSET Nsec3s(zone, out)
  PROVE  Nsec3Verdict(q, t, recs) = "Bogus"
<1>. DEFINE H == Hashed(zone, out)
            shown == {m \in Tried(q) : At3(recs, m) # {}}
            found == Enclosers3(q, t, recs)
            c == Longest(found)
<1>1. /\ q \in Seq(Nat) /\ ZoneOf(Apex, q) /\ q \in Above(q) /\ q \in DOMAIN Hash
      /\ q \in Existing(zone) /\ q \in H /\ Apex \in Seq(Nat)
  BY AskedIs, AboveIs, ZoneNames, SearchAssumption
<1>2. ~\E r \in At3(recs, q) : Lacks(r, t)
  <2>1. \A r \in At3(recs, q) : r.types = zone[q]
    BY <1>1, Nsec3At, Nsec3OfIs
  <2>. QED BY <2>1 DEF Lacks
<1>3. /\ shown \in SUBSET Above(q) /\ shown \subseteq H
      /\ \A m \in Above(q) \cap H : (\E r \in recs : r.owner = Hash[m]) => m \in shown
  BY Nsec3Found
<1>4. ASSUME found # {}, c # q, Nsec3Verdict(q, t, recs) # "Bogus"
      PROVE  FALSE
  \* c is an encloser that was found, or the parent of q when none was.
  <2>1. /\ c \in Above(q)
        /\ \A m \in shown : Len(m) <= Len(c)
        /\ c \in shown \/ Len(c) = Len(q) - 1
    <3>1. CASE shown # {}
      <4>1. found = shown
        BY <3>1 DEF Enclosers3
      <4>2. Longest(shown) \in shown /\ \A m \in shown : Len(m) <= Len(Longest(shown))
        <5>. HIDE DEF shown
        <5>. QED BY <1>1, <1>3, <3>1, LongestIs
      <4>. QED BY <1>3, <4>1, <4>2
    <3>2. CASE shown = {}
      <4>1. found = {Base(q)}
        BY <1>4, <3>2 DEF Enclosers3
      <4>2. c = Base(q)
        BY <4>1 DEF Longest
      <4>3. c \in Above(q)
        <5>1. Base(q) \in Seq(Nat) /\ Above(Base(q)) \subseteq Above(q)
          BY <1>1, BaseIs
        <5>. QED BY <4>2, <5>1, AboveIs
      <4>4. Len(c) = Len(q) - 1
        <5>1. q # Root
          BY <1>4, <4>2 DEF Base
        <5>. QED BY <1>1, <4>2, <5>1, BaseIs
      <4>. QED BY <3>2, <4>3, <4>4
    <3>. QED BY <3>1, <3>2
  <2>2. c \in Seq(Nat) /\ ZoneOf(c, q) /\ Len(c) < Len(q) /\ Len(c) \in Nat /\ Len(q) \in Nat
    <3>1. c \in Seq(Nat) /\ ZoneOf(c, q)
      BY <1>1, <2>1, AboveIs
    <3>. HIDE DEF c
    <3>. QED BY <1>1, <1>4, <3>1, ZoneBefore
  <2>. HIDE DEF c
  <2>3. \A m \in Above(q) \cap H : (\E r \in recs : r.owner = Hash[m]) => Len(m) <= Len(c)
    <3>. HIDE DEF shown
    <3>. QED BY <1>3, <2>1
  <2>4. At3(recs, Wildcard(c)) = {}
    BY <2>1, <2>3, NoWildcardAt
  <2>. DEFINE n == NextCloser(q, c)
  <2>5. n \in H
    <3>1. n \in Above(q) /\ Len(n) = Len(c) + 1
      BY <1>1, <1>4, <2>1, NextCloserIs
    <3>. HIDE DEF n
    <3>2. n \in Seq(Nat) /\ ZoneOf(n, q)
      BY <1>1, <3>1, AboveIs
    <3>3. CASE c \in shown
      <4>1. ZoneOf(Apex, c)
        BY <1>3, <3>3, Hashes, ZoneNames
      <4>2. Len(Apex) <= Len(n)
        <5>1. Len(Apex) <= Len(c) /\ Len(Apex) \in Nat
          BY <1>1, <2>2, <4>1, ZoneBefore
        <5>. QED BY <2>2, <3>1, <5>1
      <4>3. ZoneOf(Apex, n)
        BY <1>1, <3>2, <4>2, ZoneChain
      <4>4. n \in Existing(zone)
        BY <1>1, <3>2, <4>3, ZoneNames
      <4>. QED BY <3>1, <4>4
    <3>4. CASE Len(c) = Len(q) - 1
      <4>1. Len(n) = Len(q)
        BY <2>2, <3>1, <3>4
      <4>2. n = q
        BY <1>1, <3>2, <4>1, ZoneLabels, SameLabels
      <4>. QED BY <1>1, <4>2
    <3>. QED BY <2>1, <3>3, <3>4
  <2>6. \A r \in recs : ~Covers3(r, Hash[n])
    BY <1>4, <2>1, <2>3, <2>5, NextCloserOpen
  <2>7. Nxdomain3(q, t, c, recs) = "Bogus"
    BY <2>6 DEF Nxdomain3
  <2>. QED BY <1>2, <1>4, <2>4, <2>7 DEF Nsec3Verdict, c
<1>. QED BY <1>2, <1>4 DEF Nsec3Verdict

\* A denial with NSEC3 of which a record is missing is not accepted in a zone
\* without wildcards, except for DS.
THEOREM Nsec3WholeOnly ==
  ASSUME NEW zone \in Contents, NEW q \in Asked, NEW t, t # "DS", ~HasWildcard(zone),
         NEW S \in Parts(Nsec3Answer(zone, FALSE, q))
  PROVE  Nsec3Verdict(q, t, S) = "Bogus"
<1>. DEFINE H == Hashed(zone, FALSE)
            recs == Nsec3s(zone, FALSE)
            A == Nsec3Answer(zone, FALSE, q)
            of(m) == Nsec3Of(zone, FALSE, m)
            found == {n \in Tried(q) : At3(S, n) # {}}
            l == Longest(found)
<1>1. /\ q \in Seq(Nat) /\ ZoneOf(Apex, q) /\ Above(q) \subseteq DOMAIN Hash
      /\ q \in Above(q) /\ q \in DOMAIN Hash /\ Apex \in Seq(Nat)
  BY AskedIs, AboveIs, SearchAssumption, ContentsAssumption
<1>2. /\ Apex \in H /\ H = Existing(zone) /\ H \in SUBSET Existing(zone)
      /\ \A m \in H : m \in DOMAIN Hash /\ Wildcard(m) \in DOMAIN Hash
  BY Hashes, ZoneNames, SearchAssumption DEF Hashed
<1>3. S \subseteq A /\ S # A /\ S \in SUBSET recs
  BY Nsec3AnswerIs DEF Parts
<1>4. Enclosers3(q, t, S) = found
  BY DEF Enclosers3
<1>5. CASE q \in H
  <2>1. \A r \in A : r = of(q)
    <3>1. A = At3(recs, q)
      BY <1>5 DEF Nsec3Answer
    <3>2. \A r \in At3(recs, q) : r = of(q)
      BY <1>1, Nsec3At
    <3>. HIDE DEF A
    <3>. QED BY <3>1, <3>2
  <2>2. S = {}
    <3>. HIDE DEF A, of
    <3>. QED BY <1>3, <2>1
  <2>3. found = {} /\ At3(S, q) = {}
    BY <2>2 DEF At3, At
  <2>. HIDE DEF found
  <2>. QED BY <1>4, <2>3 DEF Nsec3Verdict, FromChild
<1>6. CASE q \notin H
  <2>. DEFINE c == Encloser(H, q)
              n == NextCloser(q, c)
              w == Wildcard(c)
  <2>1. /\ c \in H /\ c \in Above(q) /\ c \in Seq(Nat) /\ c # q /\ ZoneOf(Apex, c) /\ ZoneOf(c, q)
        /\ \A m \in H \cap Above(q) : Len(m) <= Len(c)
    BY <1>2, <1>6, NotHashed
  <2>2. A = At3(recs, c) \cup Nsec3Over(recs, n) \cup Nsec3Over(recs, w) \cup At3(recs, w)
    BY <1>6 DEF Nsec3Answer
  <2>. HIDE DEF c
  <2>3. w \notin H
    BY <1>2, <2>1, WildcardIs DEF HasWildcard
  <2>4. n \in DOMAIN Hash /\ n \notin H /\ w \in DOMAIN Hash
    <3>1. n \in Above(q) /\ Len(n) = Len(c) + 1 /\ Len(c) \in Nat
      BY <1>1, <2>1, NextCloserIs
    <3>2. ~(Len(n) <= Len(c))
      BY <3>1
    <3>. HIDE DEF n, H
    <3>. QED BY <1>1, <1>2, <2>1, <3>1, <3>2
  <2>5. PICK x \in H : /\ Nsec3Over(recs, n) = {of(x)}
                       /\ \A r \in recs : Covers3(r, Hash[n]) => r = of(x)
    BY <2>4, Nsec3OverIs
  <2>6. PICK y \in H : /\ Nsec3Over(recs, w) = {of(y)}
                       /\ \A r \in recs : Covers3(r, Hash[w]) => r = of(y)
    BY <2>3, <2>4, Nsec3OverIs
  <2>7. \A r \in A : r \in {of(c), of(x), of(y)}
    <3>1. At3(recs, w) = {} /\ \A r \in At3(recs, c) : r = of(c)
      BY <1>2, <2>1, <2>3, <2>4, Nsec3At
    <3>. HIDE DEF A, of
    <3>. QED BY <2>2, <2>5, <2>6, <3>1
  <2>8. At3(S, q) = {}
    BY <1>1, <1>3, <1>6, Nsec3At
  <2>9. /\ found \in SUBSET Above(q) /\ found \subseteq H
        /\ \A m \in Above(q) \cap H : (\E r \in S : r.owner = Hash[m]) => m \in found
    BY <1>3, Nsec3Found
  <2>10. ASSUME found # {}, Nsec3Verdict(q, t, S) # "Bogus"
         PROVE  FALSE
    <3>1. l \in found /\ \A m \in found : Len(m) <= Len(l)
      <4>. HIDE DEF found
      <4>. QED BY <1>1, <2>9, <2>10, LongestIs
    <3>2. l \in Above(q) /\ l \in H /\ l # q
      <4>. HIDE DEF found, H
      <4>. QED BY <1>6, <2>9, <3>1
    <3>3. l \in Seq(Nat) /\ ZoneOf(l, q) /\ ZoneOf(Apex, l)
      BY <1>1, <1>2, <3>2, AboveIs, ZoneNames
    <3>4. \A m \in Above(q) \cap H : (\E r \in S : r.owner = Hash[m]) => Len(m) <= Len(l)
      <4>. HIDE DEF found, H, l
      <4>. QED BY <2>9, <3>1
    <3>. HIDE DEF l
    <3>5. At3(S, Wildcard(l)) = {}
      BY <1>3, <3>2, <3>4, NoWildcardAt
    <3>6. /\ \E r \in S : Covers3(r, Hash[NextCloser(q, l)])
          /\ \E r \in S : Covers3(r, Hash[Wildcard(l)])
      <4>1. Nxdomain3(q, t, l, S) # "Bogus"
        <5>. HIDE DEF found, H
        <5>. QED BY <1>4, <2>8, <2>10, <3>2, <3>5 DEF Nsec3Verdict, l
      <4>. QED BY <4>1 DEF Nxdomain3
    <3>7. l = c
      <4>1. NextCloser(q, l) \notin H
        BY <1>3, <3>2, <3>4, <3>6, NextCloserOpen
      <4>2. NextCloser(q, l) \in Above(q) /\ Len(NextCloser(q, l)) = Len(l) + 1
        BY <1>1, <3>2, NextCloserIs
      <4>. DEFINE k == NextCloser(q, l)
      <4>3. k \in Seq(Nat) /\ ZoneOf(k, q)
        BY <1>1, <4>2, AboveIs
      <4>. HIDE DEF k
      <4>4. Len(k) = Len(l) + 1 /\ k \notin H
        BY <4>1, <4>2 DEF k
      <4>5. Len(l) \in Nat /\ Len(c) \in Nat /\ Len(Apex) \in Nat
            /\ Len(Apex) <= Len(l) /\ Len(l) <= Len(c)
        <5>1. Len(Apex) <= Len(l)
          BY <1>1, <3>3, ZoneBefore
        <5>2. Len(l) <= Len(c)
          <6>. HIDE DEF H
          <6>. QED BY <2>1, <3>2
        <5>. QED BY <1>1, <2>1, <3>3, <5>1, <5>2
      <4>6. ASSUME Len(l) < Len(c) PROVE FALSE
        <5>1. Len(k) <= Len(c) /\ Len(Apex) <= Len(k)
          BY <4>4, <4>5, <4>6
        <5>2. ZoneOf(k, c) /\ ZoneOf(Apex, k)
          BY <1>1, <2>1, <4>3, <5>1, ZoneChain
        <5>. QED BY <1>2, <2>1, <4>3, <4>4, <5>2, ZoneNames
      <4>7. Len(l) = Len(c)
        BY <4>5, <4>6
      <4>. QED BY <1>1, <2>1, <3>3, <4>7, ZoneChain
    <3>8. of(c) \in S
      <4>1. c \in found
        BY <3>1, <3>7
      <4>2. \A r \in At3(S, c) : r = of(c)
        BY <1>2, <1>3, <2>1, Nsec3At
      <4>. HIDE DEF of
      <4>. QED BY <4>1, <4>2 DEF At3, At
    <3>9. of(x) \in S /\ of(y) \in S
      <4>. HIDE DEF of
      <4>. QED BY <1>3, <2>5, <2>6, <3>6, <3>7
    <3>. HIDE DEF A, of
    <3>. QED BY <1>3, <2>7, <3>8, <3>9
  <2>. HIDE DEF found
  <2>. QED BY <1>4, <2>8, <2>10 DEF Nsec3Verdict, FromChild
<1>. QED BY <1>5, <1>6

-----------------------------------------------------------------------------
(* The verdicts on proofs of denial *)

\* The records of a zone are such as RecordsTrue asks of those shown for a child
\* with a DS, whichever of them are shown: all of NSEC, and of NSEC3, with opt-out
\* or without, all but that of a wildcard right below the apex, which
\* check_nsec3_wildcard_nodata takes for a denial of the child's DS.
THEOREM ZoneRecordsTrue ==
  ASSUME NEW zone \in Contents, NEW z \in DOMAIN zone, z # Root, Base(z) = Apex,
         "DS" \in zone[z]
  PROVE  /\ \A r \in Nsecs(zone) : TrueNsec(r, z)
         /\ \A out \in BOOLEAN : \A r \in Nsec3s(zone, out) :
              r.owner # Hash[Wildcard(Apex)] => TrueNsec3(r, z)
<1>1. /\ z \in Seq(Nat) /\ Apex \in Seq(Nat) /\ Len(Apex) = Len(z) - 1
      /\ z \in Existing(zone)
  BY ZoneNames, ContentsAssumption, BaseIs
<1>2. ASSUME NEW r \in Nsecs(zone)
      PROVE  TrueNsec(r, z)
  <2>1. ~Covers(r, z)
    BY NsecGap
  <2>2. r.owner = z => "DS" \in r.types
    BY NsecAt, NsecOfIs DEF At
  <2>. QED BY <2>1, <2>2 DEF TrueNsec
<1>3. ASSUME NEW out \in BOOLEAN, NEW r \in Nsec3s(zone, out),
             r.owner # Hash[Wildcard(Apex)]
      PROVE  TrueNsec3(r, z)
  <2>1. z \in Hashed(zone, out)
    BY <1>1 DEF Hashed
  <2>2. \A a \in Above(z) : a \in DOMAIN Hash
    BY SearchAssumption DEF Hashable
  <2>3. Covers3(r, Hash[z]) => r.owner = Hash[z]
    BY <2>1, Nsec3Gap
  <2>4. \A a \in Above(z) : r.owner = Hash[a] =>
          a \in Hashed(zone, out) /\ r = Nsec3Of(zone, out, a)
    BY <2>2, Nsec3At DEF At3, At
  <2>5. r.owner = Hash[z] => "DS" \in r.types
    BY <1>1, <2>1, <2>4, AboveIs, Nsec3OfIs
  <2>6. ASSUME NEW p \in 0..Len(z), r.owner = Hash[Ancestor(z, p)]
        PROVE  p + 1 >= Len(z)
    <3>1. Ancestor(z, p) \in Hashed(zone, out)
      BY <2>4, <2>6 DEF Above
    <3>2. ZoneOf(Apex, Ancestor(z, p)) /\ Len(Ancestor(z, p)) = p
      BY <1>1, <3>1, Hashes, ZoneNames, AncestorLabels
    <3>. QED BY <1>1, <3>2 DEF ZoneOf
  <2>. QED BY <1>3, <2>3, <2>5, <2>6 DEF TrueNsec3
<1>. QED BY <1>2, <1>3

\* In every zone, what its servers deny is accepted (validate_negative).
THEOREM AcceptsDenialsHolds == AcceptsDenials
<1>. SUFFICES ASSUME NEW zone \in Contents, NEW p \in Questions(zone)
              PROVE  /\ Gaps(zone) = {} /\ ~ByWildcard(zone, p[1])
                          => NsecVerdict(p[1], p[2], NsecAnswer(zone, p[1])) = "Secure"
                     /\ \A out \in BOOLEAN :
                          /\ Hashed(zone, out) # {Apex}
                          /\ out => p[2] = "DS" \/ p[1] \in Hashed(zone, out)
                          => Nsec3Verdict(p[1], p[2], Nsec3Answer(zone, out, p[1]))
                               \in {"Secure"} \cup
                                   IF out /\ p[2] = "DS" THEN {"InsecureUnsigned"} ELSE {}
  BY DEF AcceptsDenials
<1>1. p[1] \in Asked /\ p[2] \in QTypes /\ Denied(zone, p[1], p[2])
  BY DEF Questions
<1>. QED BY <1>1, NsecAccepts, Nsec3Accepts

\* A question with an answer is about a name of the zone, or a wildcard stands for it.
LEMMA PresentIs ==
  ASSUME NEW zone \in Contents, NEW q \in Present(zone)
  PROVE  /\ q[1] \in Asked
         /\ q[1] \in Existing(zone)
              => q[1] \in DOMAIN zone /\ {q[2], "CNAME"} \cap zone[q[1]] # {}
         /\ q[1] \notin Existing(zone) => HasWildcard(zone)
<1>1. q[1] \in Asked /\ ~Absent(zone, q[1], q[2])
  BY DEF Present
<1>2. ASSUME q[1] \notin Existing(zone)
      PROVE  HasWildcard(zone)
  <2>. DEFINE e == Encloser(Existing(zone), q[1])
  <2>1. Source(zone, q[1]) \in Existing(zone)
    BY <1>1, <1>2, ZoneNames DEF Absent
  <2>2. Apex \in Existing(zone) /\ q[1] \in Seq(Nat) /\ ZoneOf(Apex, q[1])
    BY <1>1, ZoneNames, AskedIs
  <2>3. e \in Seq(Nat) /\ ZoneOf(Apex, e)
    BY <2>2, EncloserIs
  <2>4. Source(zone, q[1]) # Apex /\ Head(Source(zone, q[1])) = Star
    <3>1. Source(zone, q[1]) = Wildcard(e)
      BY DEF Source
    <3>. HIDE DEF e
    <3>. QED BY <2>3, <3>1, WildcardIs
  <2>. QED BY <2>1, <2>4 DEF HasWildcard
<1>. QED BY <1>1, <1>2 DEF Absent

\* In every zone, nothing is denied on less than its servers send, or on their
\* denial of something else (validate_negative).
THEOREM OnlyWholeDenialsHolds == OnlyWholeDenials
<1>. SUFFICES ASSUME NEW zone \in Contents, NEW p \in Questions(zone)
              PROVE  /\ Gaps(zone) = {} => \A S \in Parts(NsecAnswer(zone, p[1])) :
                          NsecVerdict(p[1], p[2], S) = "Bogus"
                     /\ \A q \in Present(zone) : BelowApex(zone, q[1]) =>
                          NsecVerdict(q[1], q[2], NsecAnswer(zone, p[1])) = "Bogus"
                     /\ ~HasWildcard(zone) =>
                          /\ p[2] # "DS" =>
                               \A S \in Parts(Nsec3Answer(zone, FALSE, p[1])) :
                                 Nsec3Verdict(p[1], p[2], S) = "Bogus"
                          /\ \A q \in Present(zone) :
                               Nsec3Verdict(q[1], q[2], Nsec3Answer(zone, FALSE, p[1])) = "Bogus"
  BY DEF OnlyWholeDenials
<1>1. p[1] \in Asked
  BY DEF Questions
<1>2. ASSUME NEW q \in Present(zone), BelowApex(zone, q[1])
      PROVE  NsecVerdict(q[1], q[2], NsecAnswer(zone, p[1])) = "Bogus"
  <2>1. CASE q[1] \in Existing(zone)
    BY <2>1, PresentIs, PresentNeverDenied, NsecAnswerIs
  <2>2. CASE q[1] \notin Existing(zone)
    <3>1. q[1] \in Asked /\ ~Absent(zone, q[1], q[2])
      BY DEF Present
    <3>2. Encloser(Existing(zone), q[1]) = Apex
      BY <1>2, <2>2 DEF BelowApex
    <3>. QED BY <2>2, <3>1, <3>2, WildcardNeverDenied, NsecAnswerIs
  <2>. QED BY <2>1, <2>2
<1>3. ASSUME ~HasWildcard(zone), NEW q \in Present(zone)
      PROVE  Nsec3Verdict(q[1], q[2], Nsec3Answer(zone, FALSE, p[1])) = "Bogus"
  <2>1. /\ q[1] \in Asked /\ q[1] \in DOMAIN zone
        /\ {q[2], "CNAME"} \cap zone[q[1]] # {}
    BY <1>3, PresentIs
  <2>2. Above(q[1]) \cap Existing(zone) \subseteq Hashed(zone, FALSE)
    BY DEF Hashed
  <2>. QED BY <1>3, <2>1, <2>2, PresentNeverDenied3, Nsec3AnswerIs
<1>. QED BY <1>1, <1>2, <1>3, NsecWholeOnly, Nsec3WholeOnly

\* Whenever a validation reads a proof of denial, it accepts what the servers of
\* a zone deny.
THEOREM DenialAcceptedHolds == Spec => []DenialAccepted
<1>1. DenialAccepted
  BY AcceptsDenialsHolds DEF DenialAccepted
<1>. QED BY <1>1, PTL

\* Whenever a validation reads a proof of denial, it takes nothing for denied on a
\* part of a proof or on the proof of something else.
THEOREM DenialSoundHolds == Spec => []DenialSound
<1>1. DenialSound
  BY OnlyWholeDenialsHolds DEF DenialSound
<1>. QED BY <1>1, PTL
=============================================================================
