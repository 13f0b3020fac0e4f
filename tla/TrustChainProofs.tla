-------------------------- MODULE TrustChainProofs --------------------------
(***************************************************************************)
(* Proofs about TrustChain: for any set of names, keys, messages, replies  *)
(* and validators, what its validations return is what Validation allows;  *)
(* and, told only what is whole, it is what the message deserves.          *)
(***************************************************************************)
EXTENDS TrustChain, SequenceTheorems, FiniteSetTheorems, WellFoundedInduction, TLAPS

-----------------------------------------------------------------------------
(* Names *)

\* The names above a name, and their place in it.
LEMMA AncestorFacts ==
  ASSUME NEW n \in Names, NEW p \in 0..Len(n)
  PROVE  /\ Ancestor(n, p) \in Names
         /\ Len(Ancestor(n, p)) = p
         /\ ZoneOf(Ancestor(n, p), n)
<1>1. n \in Seq(Nat) /\ Len(n) \in Nat
  BY TrustAssumption
<1>2. Ancestor(n, p) \in Names
  BY TrustAssumption
<1>3. \A i \in (Len(n) - p + 1)..Len(n) : n[i] \in Nat
  BY <1>1
<1>4. Len(Ancestor(n, p)) = p
  <2>1. Len(n) - p + 1 \in Int /\ Len(n) \in Int
    BY <1>1
  <2>2. Len(SubSeq(n, Len(n) - p + 1, Len(n)))
          = IF Len(n) - p + 1 <= Len(n) THEN Len(n) - (Len(n) - p + 1) + 1 ELSE 0
    BY <1>3, <2>1, SubSeqProperties
  <2>. QED BY <1>1, <2>2 DEF Ancestor
<1>. QED BY <1>1, <1>2, <1>4 DEF Ancestor, ZoneOf

\* A name is its own ancestor, and the root one of all.
LEMMA AncestorEnds ==
  ASSUME NEW n \in Names
  PROVE  /\ Ancestor(n, Len(n)) = n
         /\ Ancestor(n, 0) = Root
         /\ n \in Seq(Nat) /\ Len(n) \in Nat
<1>1. n \in Seq(Nat) /\ Len(n) \in Nat
  BY TrustAssumption
<1>2. SubSeq(n, 1, Len(n)) = n
  BY <1>1, SubSeqFull
<1>3. SubSeq(n, Len(n) + 1, Len(n)) = <<>>
  BY <1>1, SubSeqEmpty
<1>. QED BY <1>1, <1>2, <1>3 DEF Ancestor, Root

\* One label less is the ancestor before.
LEMMA BaseOfAncestor ==
  ASSUME NEW n \in Names, NEW p \in 1..Len(n)
  PROVE  /\ Ancestor(n, p) # Root
         /\ Base(Ancestor(n, p)) = Ancestor(n, p - 1)
<1>1. n \in Seq(Nat) /\ Len(n) \in Nat
  BY TrustAssumption
<1>2. Len(Ancestor(n, p)) = p
  BY <1>1, AncestorFacts
<1>3. Ancestor(n, p) # Root
  BY <1>2 DEF Root
<1>4. Tail(SubSeq(n, Len(n) - p + 1, Len(n))) = SubSeq(n, Len(n) - p + 2, Len(n))
  <2>1. Len(n) - p + 1 \in 1..Len(n) /\ Len(n) \in (Len(n) - p + 1)..Len(n)
    BY <1>1
  <2>2. Tail(SubSeq(n, Len(n) - p + 1, Len(n))) = SubSeq(n, (Len(n) - p + 1) + 1, Len(n))
    BY <1>1, <2>1, HeadTailOfSubSeq
  <2>. QED BY <1>1, <2>2
<1>5. Len(n) - (p - 1) + 1 = Len(n) - p + 2
  BY <1>1
<1>. QED BY <1>3, <1>4, <1>5 DEF Ancestor, Base

\* Being below a zone is transitive.
LEMMA ZoneOfTransitive ==
  ASSUME NEW z \in Names, NEW m \in Names, NEW n \in Names,
         ZoneOf(z, m), ZoneOf(m, n)
  PROVE  ZoneOf(z, n)
<1>1. /\ z \in Seq(Nat) /\ m \in Seq(Nat) /\ n \in Seq(Nat)
      /\ Len(z) \in Nat /\ Len(m) \in Nat /\ Len(n) \in Nat
  BY TrustAssumption
<1>2. Len(z) <= Len(m) /\ Len(m) <= Len(n)
  BY DEF ZoneOf
<1>3. CASE Len(z) = 0
  <2>1. SubSeq(n, Len(n) - Len(z) + 1, Len(n)) = <<>>
    BY <1>1, <1>3, SubSeqEmpty
  <2>. QED BY <1>1, <1>2, <1>3, <2>1 DEF ZoneOf
<1>4. CASE Len(z) > 0
  <2>. DEFINE i == Len(n) - Len(m) + 1
              a == Len(m) - Len(z) + 1
  <2>1. /\ i \in 1..Len(n) /\ Len(n) \in 1..Len(n)
        /\ a \in 1..(Len(n) - i + 1) /\ Len(m) \in 1..(Len(n) - i + 1)
        /\ i + a - 1 = Len(n) - Len(z) + 1 /\ i + Len(m) - 1 = Len(n)
    BY <1>1, <1>2, <1>4
  <2>2. m = SubSeq(n, i, Len(n)) /\ z = SubSeq(m, a, Len(m))
    BY DEF ZoneOf
  <2>3. SubSeq(SubSeq(n, i, Len(n)), a, Len(m)) = SubSeq(n, i + a - 1, i + Len(m) - 1)
    <3>. HIDE DEF i, a
    <3>. QED BY <1>1, <2>1, SubSeqOfSubSeq
  <2>4. z = SubSeq(n, Len(n) - Len(z) + 1, Len(n))
    BY <2>1, <2>2, <2>3
  <2>. QED BY <1>1, <1>2, <2>4 DEF ZoneOf
<1>. QED BY <1>1, <1>3, <1>4

\* What is below an insecure delegation has one above it.
LEMMA UnsecuredBelow ==
  ASSUME NEW z \in Names, NEW n \in Names, ZoneOf(z, n), Unsecured(z)
  PROVE  Unsecured(n)
<1>1. PICK d \in NoDs : ZoneOf(d, z)
  BY DEF Unsecured
<1>2. d \in Names
  BY TrustAssumption
<1>3. ZoneOf(d, n)
  BY <1>1, <1>2, ZoneOfTransitive
<1>. QED BY <1>3 DEF Unsecured

LEMMA ReadsUnsecuredBelow ==
  ASSUME NEW z \in Names, NEW n \in Names, ZoneOf(z, n), ReadsUnsecured(z)
  PROVE  ReadsUnsecured(n)
<1>1. PICK d \in Names : ZoneOf(d, z) /\ MissingDs(d)
  BY DEF ReadsUnsecured
<1>2. ZoneOf(d, n)
  BY <1>1, ZoneOfTransitive
<1>. QED BY <1>1, <1>2 DEF ReadsUnsecured

-----------------------------------------------------------------------------
(* The invariant *)

Walking == {"walk", "ds", "dnskey", "trusted", "unsigned", "broken"}

\* A call between its start and its end: the message is one that was not judged
\* at once, and all its RRsets before the one at hand are signed.
Called(v) ==
  /\ pc[v] = "idle" => asked[v] = None /\ verdict[v] = None
  /\ pc[v] = "done" => asked[v] \in Jobs /\ verdict[v] # None
  /\ pc[v] \notin {"idle", "done"} => asked[v] \in Jobs /\ verdict[v] = None
  /\ pc[v] \in {"idle", "done", "called"} => at[v] = 1
  /\ pc[v] \in {"rrset", "apex"} \cup Walking => AtOnce(asked[v]) = None
  /\ pc[v] \in {"rrset", "apex"} => asked[v].kind = "answer"
  /\ pc[v] \in {"rrset", "apex"} \cup Walking /\ asked[v].kind = "answer" =>
       /\ at[v] \in DOMAIN asked[v].rrsets
       /\ \A i \in 1..(at[v] - 1) : SignedRRset(asked[v].rrsets[i])
  /\ pc[v] = "apex" => RR(v).sigs = <<>>

\* What a chain is built for; without a trusted chain before, the signatures
\* before the one at hand are by zones that are read to be unsigned.
Aims(v) ==
  IF asked[v].kind = "negative" THEN target[v] = asked[v].soa
  ELSE IF RR(v).sigs = <<>> THEN target[v] \in Apexes[RR(v).owner]
  ELSE /\ cand[v] \in Candidates(RR(v)) /\ target[v] = RR(v).sigs[cand[v]].signer
       /\ ~trusted[v] => \A i \in Candidates(RR(v)) :
            i < cand[v] => ReadsUnsecured(RR(v).sigs[i].signer)

\* The keys at hand are those of the zone above, of the target at the end.
Chained(v) ==
  /\ pc[v] \in Walking => Aims(v)
  /\ pc[v] \in {"walk", "dnskey"} => pos[v] \in 0..Len(target[v])
  /\ pc[v] = "ds" => pos[v] \in 1..Len(target[v])
  /\ pc[v] \in {"walk", "ds"} /\ pos[v] # 0
       => keys[v] \subseteq KeysOf[Ancestor(target[v], pos[v] - 1)]
  /\ pc[v] = "dnskey" => ds[v] \subseteq KeysOf[Zone(v)] \cup {Unsupported}
  /\ pc[v] = "trusted" => keys[v] \subseteq KeysOf[target[v]]
  /\ pc[v] = "unsigned" => ReadsUnsecured(target[v])

\* A budget that has run out leads nowhere but to the end.
Spent(v) ==
  refused[v] => \/ pc[v] = "broken"
                \/ pc[v] = "done" /\ verdict[v] \in {"Bogus", "InsecureUnknown"}

VInv(v) == Called(v) /\ Chained(v) /\ Spent(v)

MemoTrue == \A n \in Names : memo[n] = "Unsigned" => ReadsUnsecured(n)

IInv ==
  /\ TypeOK
  /\ KeysGenuine
  /\ MemoTrue
  /\ \A v \in Validators : VInv(v)

\* All that a validation keeps to itself.
Local(v) ==
  <<asked[v], verdict[v], pc[v], at[v], cand[v], trusted[v], target[v], pos[v],
    keys[v], ds[v], used[v], refused[v]>>

-----------------------------------------------------------------------------
(* Messages and replies *)

LEMMA JobFacts ==
  ASSUME NEW m \in Jobs
  PROVE  /\ m.kind \in {"answer", "negative", "other"}
         /\ m.kind = "answer" =>
              /\ m.rrsets \in Seq(RRset)
              /\ m.end = "data" => m.rrsets # <<>>
         /\ m.kind = "negative" => m \in NegativeJob
<1>1. m \in AnswerJob \cup NegativeJob \cup OtherJob
  BY TrustAssumption
<1>2. m.kind = "answer" /\ m.end = "data" => m.rrsets # <<>>
  BY TrustAssumption
<1>3. m \in AnswerJob => m.kind = "answer" /\ m.rrsets \in Seq(RRset)
  BY DEF AnswerJob
<1>4. m \in NegativeJob => m.kind = "negative"
  BY DEF NegativeJob
<1>5. m \in OtherJob => m.kind = "other"
  BY DEF OtherJob
<1>. QED BY <1>1, <1>2, <1>3, <1>4, <1>5

\* A message that is not judged at once is an answer or a denial.
LEMMA LaterFacts ==
  ASSUME NEW m \in Jobs, AtOnce(m) = None
  PROVE  /\ m.kind \in {"answer", "negative"}
         /\ m.kind = "answer" => m.rrsets # <<>>
         /\ m.kind = "negative" => m.soa \in Names
<1>1. None \notin Verdicts
  BY NoneAssumption
<1>2. m.kind \in {"answer", "negative", "other"}
  BY JobFacts
<1>3. m.kind # "other"
  BY <1>1 DEF AtOnce, Verdicts
<1>4. m.kind = "answer" => m.rrsets # <<>>
  BY <1>1 DEF AtOnce, Verdicts
<1>5. ASSUME m.kind = "negative"
      PROVE  m.soa \in Names
  <2>1. m.soa # None
    BY <1>1, <1>5 DEF AtOnce, Verdicts
  <2>2. m.soa \in Names \cup {None}
    BY <1>5, JobFacts DEF NegativeJob
  <2>. QED BY <2>1, <2>2
<1>. QED BY <1>2, <1>3, <1>4, <1>5

\* The RRset at hand.
LEMMA RRFacts ==
  ASSUME NEW m \in Jobs, m.kind = "answer", NEW i \in DOMAIN m.rrsets
  PROVE  /\ m.rrsets[i] \in RRset
         /\ i \in 1..Len(m.rrsets) /\ Len(m.rrsets) \in Nat
<1>1. m.rrsets \in Seq(RRset)
  BY JobFacts
<1>. QED BY <1>1

LEMMA CandidateFacts ==
  ASSUME NEW rr \in RRset, NEW i \in Candidates(rr)
  PROVE  /\ i \in Nat
         /\ rr.owner \in Names
         /\ rr.sigs[i].signer \in Names
         /\ ZoneOf(rr.sigs[i].signer, rr.owner)
<1>1. rr.sigs \in Seq(RRSIG) /\ rr.owner \in Names
  BY DEF RRset
<1>2. i \in DOMAIN rr.sigs /\ ZoneOf(rr.sigs[i].signer, rr.owner)
  BY DEF Candidates
<1>3. rr.sigs[i] \in RRSIG
  BY <1>1, <1>2
<1>. QED BY <1>1, <1>2, <1>3 DEF RRSIG

\* There is a first of some candidates.
LEMMA NextCandidateFacts ==
  ASSUME NEW rr \in RRset, NEW S \in SUBSET Candidates(rr), S # {}
  PROVE  NextCandidate(S) \in S /\ \A i \in S : NextCandidate(S) <= i
<1>1. S \subseteq Nat
  BY CandidateFacts
<1>2. \E i \in S : \A j \in S : i <= j
  <2>. DEFINE Less == {p \in Nat \X Nat : p[1] < p[2]}
  <2>1. IsWellFoundedOn(Less, Nat)
    BY NatLessThanWellFounded DEF OpToRel
  <2>2. PICK i \in S : \A j \in S : ~(<<j, i>> \in Less)
    BY <1>1, <2>1, WFMin
  <2>3. ASSUME NEW j \in S
        PROVE  i <= j
    <3>1. i \in Nat /\ j \in Nat
      BY <1>1
    <3>2. j < i => <<j, i>> \in Less
      BY <3>1
    <3>. QED BY <2>2, <3>1, <3>2
  <2>. QED BY <2>3
<1>. QED BY <1>2 DEF NextCandidate

-----------------------------------------------------------------------------
(* Parts of steps *)

\* A step of one validation leaves the others what they are.
LEMMA OthersKeep ==
  ASSUME NEW w \in Validators, VInv(w), Local(w)' = Local(w)
  PROVE  VInv(w)'
<1>1. /\ asked'[w] = asked[w] /\ verdict'[w] = verdict[w] /\ pc'[w] = pc[w]
      /\ at'[w] = at[w] /\ cand'[w] = cand[w] /\ trusted'[w] = trusted[w]
      /\ target'[w] = target[w] /\ pos'[w] = pos[w] /\ keys'[w] = keys[w] /\ ds'[w] = ds[w]
      /\ refused'[w] = refused[w]
  BY DEF Local
<1>2. RR(w)' = RR(w) /\ Zone(w)' = Zone(w)
  BY <1>1 DEF RR, Zone
<1>3. Called(w)'
  BY <1>1, <1>2 DEF VInv, Called, Walking
<1>4. Chained(w)'
  BY <1>1, <1>2 DEF VInv, Chained, Aims, Walking
<1>5. Spent(w)'
  BY <1>1 DEF VInv, Spent
<1>. QED BY <1>3, <1>4, <1>5 DEF VInv

LEMMA Continues ==
  ASSUME IInv, NEW v \in Validators, TypeOK', KeysGenuine', MemoTrue', VInv(v)',
         \A w \in Validators \ {v} : Local(w)' = Local(w)
  PROVE  IInv'
<1>1. \A w \in Validators : VInv(w)'
  BY OthersKeep DEF IInv
<1>. QED BY <1>1 DEF IInv

\* The caches remain as good as they were.
CachesWell ==
  /\ keyCache' \in [Names -> {None} \cup SUBSET Keys]
  /\ memo' \in [Names -> {None, "Signed", "Unsigned"}]
  /\ KeysGenuine' /\ MemoTrue'

\* The budget of v alone has changed, within its bound.
SpentWell(v) ==
  /\ used' \in [Validators -> 0..MaxChecks]
  /\ refused' \in [Validators -> BOOLEAN] /\ plain' \in [Validators -> BOOLEAN]
  /\ \A w \in Validators \ {v} : used'[w] = used[w] /\ refused'[w] = refused[w]

LEMMA CachesSame ==
  ASSUME IInv, UNCHANGED caches
  PROVE  CachesWell
BY DEF IInv, TypeOK, KeysGenuine, MemoTrue, caches, CachesWell

LEMMA BudgetSame ==
  ASSUME IInv, NEW v \in Validators, UNCHANGED <<used, refused>>,
         plain' \in [Validators -> BOOLEAN]
  PROVE  SpentWell(v)
BY DEF IInv, TypeOK, SpentWell

LEMMA BudgetSpent ==
  ASSUME IInv, NEW v \in Validators, NEW n \in Nat, Spend(v, n),
         plain' \in [Validators -> BOOLEAN]
  PROVE  /\ SpentWell(v)
         /\ refused'[v] = (refused[v] \/ ~Afford(v, n))
<1>1. used[v] \in 0..MaxChecks /\ MaxChecks \in Nat
  BY TrustAssumption DEF IInv, TypeOK
<1>2. used' \in [Validators -> 0..MaxChecks]
  BY <1>1 DEF IInv, TypeOK, Spend, Afford
<1>3. refused' \in [Validators -> BOOLEAN] /\ refused'[v] = (refused[v] \/ ~Afford(v, n))
  BY DEF IInv, TypeOK, Spend
<1>4. \A w \in Validators \ {v} : used'[w] = used[w] /\ refused'[w] = refused[w]
  BY DEF IInv, TypeOK, Spend
<1>. QED BY <1>2, <1>3, <1>4 DEF SpentWell

\* A verdict that is allowed ends the call.
LEMMA Returns ==
  ASSUME IInv, NEW v \in Validators, NEW d \in Verdicts, Return(v, d),
         pc[v] \notin {"idle", "done"}, CachesWell, SpentWell(v),
         refused'[v] => d \in {"Bogus", "InsecureUnknown"},
         d = "Secure" => Signed(asked[v]),
         d = "InsecureUnsigned" => Insecure(asked[v])
  PROVE  IInv' /\ [V!Next]_V!vars
<1>1. asked[v] \in Jobs /\ verdict[v] = None /\ None \notin Verdicts /\ asked[v] # None
  BY NoneAssumption DEF IInv, VInv, Called
<1>2. Root \in Names \/ Names = {}
  BY AncestorEnds, AncestorFacts
<1>3. target[v] \in Names
  BY DEF IInv, TypeOK
<1>4. TypeOK'
  <2>1. /\ verdict' \in [Validators -> Verdicts \cup {None}]
        /\ pc' \in [Validators -> Points]
        /\ asked' \in [Validators -> Jobs \cup {None}]
    BY DEF IInv, TypeOK, Return, Goto, Points
  <2>2. /\ at' \in [Validators -> Nat] /\ cand' \in [Validators -> Nat]
        /\ trusted' \in [Validators -> BOOLEAN]
    BY DEF IInv, TypeOK, Return, Begin
  <2>3. /\ target' \in [Validators -> Names] /\ pos' \in [Validators -> Nat]
        /\ keys' \in [Validators -> SUBSET Keys]
        /\ ds' \in [Validators -> SUBSET (Keys \cup {Unsupported})]
    BY <1>2, <1>3 DEF IInv, TypeOK, Return, Enter
  <2>. QED BY <2>1, <2>2, <2>3 DEF CachesWell, SpentWell, TypeOK
<1>5. VInv(v)'
  <2>1. /\ pc'[v] = "done" /\ verdict'[v] = d /\ asked'[v] = asked[v] /\ at'[v] = 1
    BY DEF IInv, TypeOK, Return, Goto, Begin
  <2>. QED BY <1>1, <2>1 DEF VInv, Called, Chained, Spent, Walking
<1>6. \A w \in Validators \ {v} : Local(w)' = Local(w)
  BY DEF IInv, TypeOK, Return, Goto, Enter, Begin, SpentWell, Local
<1>7. IInv'
  BY <1>4, <1>5, <1>6, Continues DEF CachesWell
<1>8. V!Judge(v)
  <2>1. verdict' = [verdict EXCEPT ![v] = d] /\ asked' = asked
    BY DEF Return
  <2>2. verdict'[v] = d
    BY <2>1 DEF IInv, TypeOK
  <2>. QED BY <1>1, <2>1, <2>2 DEF V!Judge, V!Pending, V!Allowed, V!Verdicts, Verdicts
<1>. QED BY <1>7, <1>8 DEF V!Next

\* Once a message is looked into: what is at hand.
LEMMA AtHand ==
  ASSUME IInv, NEW v \in Validators, pc[v] \in {"rrset", "apex"} \cup Walking
  PROVE  /\ asked[v] \in Jobs /\ AtOnce(asked[v]) = None
         /\ asked[v].kind \in {"answer", "negative"}
         /\ asked[v].kind = "answer" =>
              /\ RR(v) \in RRset
              /\ at[v] \in 1..Len(asked[v].rrsets) /\ Len(asked[v].rrsets) \in Nat
              /\ at[v] \in DOMAIN asked[v].rrsets
              /\ \A i \in 1..(at[v] - 1) : SignedRRset(asked[v].rrsets[i])
         /\ verdict[v] = None /\ (pc[v] # "broken" => ~refused[v])
<1>1. /\ asked[v] \in Jobs /\ AtOnce(asked[v]) = None /\ verdict[v] = None
      /\ asked[v].kind = "answer" =>
           /\ at[v] \in DOMAIN asked[v].rrsets
           /\ \A i \in 1..(at[v] - 1) : SignedRRset(asked[v].rrsets[i])
  BY DEF IInv, VInv, Called, Walking
<1>2. pc[v] # "broken" => ~refused[v]
  BY DEF IInv, VInv, Spent, Walking
<1>. QED BY <1>1, <1>2, LaterFacts, RRFacts DEF RR

\* The RRset at hand is the first that is not signed.
LEMMA InsecureFacts ==
  ASSUME IInv, NEW v \in Validators, pc[v] \in {"rrset", "apex"} \cup Walking,
         asked[v].kind = "answer", UnsignedRRset(RR(v), {n \in Names : ReadsUnsecured(n)})
  PROVE  Insecure(asked[v])
BY AtHand DEF Insecure, InsecureIn, RR

\* A chain is begun.
LEMMA Walks ==
  ASSUME IInv, NEW v \in Validators, NEW z \in Names, Walk(v, z),
         UNCHANGED <<asked, verdict, at>>,
         cand' \in [Validators -> Nat], trusted' \in [Validators -> BOOLEAN],
         \A w \in Validators \ {v} : cand'[w] = cand[w] /\ trusted'[w] = trusted[w],
         pc[v] \notin {"idle", "done"}, AtOnce(asked[v]) = None, CachesWell, SpentWell(v),
         ~refused'[v], Aims(v)',
         asked[v].kind = "answer" =>
           /\ at[v] \in DOMAIN asked[v].rrsets
           /\ \A i \in 1..(at[v] - 1) : SignedRRset(asked[v].rrsets[i])
  PROVE  IInv' /\ [V!Next]_V!vars
<1>1. z \in Seq(Nat) /\ Len(z) \in Nat
  BY AncestorEnds
<1>2. TypeOK'
  <2>1. pc' \in [Validators -> Points]
    BY DEF IInv, TypeOK, Walk, Goto, Points
  <2>2. /\ target' \in [Validators -> Names] /\ pos' \in [Validators -> Nat]
        /\ keys' \in [Validators -> SUBSET Keys]
        /\ ds' \in [Validators -> SUBSET (Keys \cup {Unsupported})]
    BY DEF IInv, TypeOK, Walk, Enter
  <2>. QED BY <2>1, <2>2 DEF IInv, CachesWell, SpentWell, TypeOK
<1>3. VInv(v)'
  <2>1. /\ pc'[v] = "walk" /\ target'[v] = z /\ pos'[v] = 0
    BY DEF IInv, TypeOK, Walk, Enter, Goto
  <2>2. asked[v] \in Jobs /\ verdict[v] = None
    BY DEF IInv, VInv, Called
  <2>3. Called(v)'
    BY <2>1, <2>2 DEF Called, Walking
  <2>4. Chained(v)'
    BY <1>1, <2>1 DEF Chained
  <2>. QED BY <2>3, <2>4 DEF VInv, Spent
<1>4. \A w \in Validators \ {v} : Local(w)' = Local(w)
  BY DEF IInv, TypeOK, Walk, Goto, Enter, SpentWell, Local
<1>5. IInv'
  BY <1>2, <1>3, <1>4, Continues DEF CachesWell
<1>. QED BY <1>5 DEF V!vars

\* The next signature of an RRset is looked at.
LEMMA TriesOn ==
  ASSUME IInv, NEW v \in Validators, pc[v] \in {"rrset", "apex"} \cup Walking,
         asked[v].kind = "answer", NEW S \in SUBSET Candidates(RR(v)), S # {},
         NEW any \in BOOLEAN, Try(v, S, any), CachesWell, SpentWell(v), ~refused'[v],
         ~any => \A i \in Candidates(RR(v)) \ S : ReadsUnsecured(RR(v).sigs[i].signer)
  PROVE  IInv' /\ [V!Next]_V!vars
<1>. DEFINE c == NextCandidate(S)
<1>1. RR(v) \in RRset
  BY AtHand
<1>2. c \in Candidates(RR(v))
  BY <1>1, NextCandidateFacts
<1>3. c \in Nat /\ RR(v).sigs[c].signer \in Names
  BY <1>1, <1>2, CandidateFacts
<1>4. RR(v).sigs # <<>>
  BY <1>2 DEF Candidates
<1>5. UNCHANGED <<asked, verdict, at>> /\ Walk(v, RR(v).sigs[c].signer)
  BY DEF Try
<1>6. /\ cand' \in [Validators -> Nat] /\ trusted' \in [Validators -> BOOLEAN]
      /\ cand'[v] = c /\ trusted'[v] = any
      /\ \A w \in Validators \ {v} : cand'[w] = cand[w] /\ trusted'[w] = trusted[w]
  <2>. HIDE DEF c
  <2>. QED BY <1>3 DEF IInv, TypeOK, Try, c
<1>7. target'[v] = RR(v).sigs[c].signer
  BY <1>5 DEF IInv, TypeOK, Walk, Enter
<1>8. RR(v)' = RR(v)
  BY <1>5 DEF RR
<1>9. Aims(v)'
  <2>1. ASSUME NEW i \in Candidates(RR(v)), i < c
        PROVE  i \notin S
    <3>1. c <= i => ~(i < c)
      <4>. HIDE DEF c
      <4>. QED BY <1>1, <1>3, CandidateFacts
    <3>. QED BY <1>1, <2>1, <3>1, NextCandidateFacts
  <2>. HIDE DEF c
  <2>. QED BY <1>2, <1>4, <1>5, <1>6, <1>7, <1>8, <2>1 DEF Aims
<1>10. /\ pc[v] \notin {"idle", "done"} /\ AtOnce(asked[v]) = None
       /\ at[v] \in DOMAIN asked[v].rrsets
       /\ \A i \in 1..(at[v] - 1) : SignedRRset(asked[v].rrsets[i])
  BY AtHand DEF Walking
<1>. HIDE DEF c
<1>. QED BY <1>3, <1>5, <1>6, <1>9, <1>10, Walks

LEMMA TriesNext ==
  ASSUME IInv, NEW v \in Validators, pc[v] \in {"rrset", "apex"} \cup Walking,
         asked[v].kind = "answer", NEW any \in BOOLEAN, TryNext(v, any),
         CachesWell, SpentWell(v), ~refused'[v], cand[v] \in Candidates(RR(v)),
         ~any => \A i \in Candidates(RR(v)) :
                   i <= cand[v] => ReadsUnsecured(RR(v).sigs[i].signer)
  PROVE  IInv' /\ [V!Next]_V!vars
<1>. DEFINE others == {i \in Candidates(RR(v)) : i > cand[v]}
<1>1. RR(v) \in RRset /\ \A i \in Candidates(RR(v)) : i \in Nat
  BY AtHand, CandidateFacts
<1>2. \A i \in Candidates(RR(v)) : i \notin others => i <= cand[v]
  BY <1>1
<1>3. CASE others # {} /\ Try(v, others, any)
  <2>1. others \in SUBSET Candidates(RR(v))
    OBVIOUS
  <2>. HIDE DEF others
  <2>. QED BY <1>2, <1>3, <2>1, TriesOn
<1>4. CASE others = {} /\ Return(v, IF any THEN "Bogus" ELSE "InsecureUnsigned")
  <2>1. pc[v] \notin {"idle", "done"}
    BY DEF Walking
  <2>2. ASSUME ~any
        PROVE  Insecure(asked[v])
    <3>. HIDE DEF others
    <3>1. \A i \in Candidates(RR(v)) : ReadsUnsecured(RR(v).sigs[i].signer)
      BY <1>2, <1>4, <2>2
    <3>2. \A i \in Candidates(RR(v)) : RR(v).sigs[i].signer \in {n \in Names : ReadsUnsecured(n)}
      BY <1>1, <3>1, CandidateFacts
    <3>3. RR(v).sigs # <<>>
      BY DEF Candidates
    <3>. QED BY <3>2, <3>3, InsecureFacts DEF UnsignedRRset
  <2>. QED BY <1>4, <2>1, <2>2, Returns DEF Verdicts
<1>. QED BY <1>3, <1>4 DEF TryNext

\* An RRset is Secure.
LEMMA NextRRsetFacts ==
  ASSUME IInv, NEW v \in Validators, pc[v] \in {"rrset", "apex"} \cup Walking,
         asked[v].kind = "answer", NextRRset(v), SignedRRset(RR(v)),
         CachesWell, SpentWell(v), ~refused'[v]
  PROVE  IInv' /\ [V!Next]_V!vars
<1>1. /\ asked[v] \in Jobs /\ AtOnce(asked[v]) = None /\ verdict[v] = None
      /\ at[v] \in 1..Len(asked[v].rrsets) /\ Len(asked[v].rrsets) \in Nat
      /\ DOMAIN asked[v].rrsets = 1..Len(asked[v].rrsets)
      /\ \A i \in 1..(at[v] - 1) : SignedRRset(asked[v].rrsets[i])
  BY AtHand, JobFacts
<1>2. \A i \in 1..at[v] : SignedRRset(asked[v].rrsets[i])
  BY <1>1 DEF RR
<1>3. CASE at[v] < Len(asked[v].rrsets)
  <2>1. /\ Begin(v, at[v] + 1) /\ Enter(v, Root) /\ Goto(v, "rrset")
        /\ UNCHANGED <<verdict, asked>>
    BY <1>3 DEF NextRRset
  <2>2. Root \in Names
    BY AncestorEnds, AncestorFacts DEF IInv, TypeOK
  <2>3. TypeOK'
    <3>1. pc' \in [Validators -> Points]
      BY <2>1 DEF IInv, TypeOK, Goto, Points
    <3>2. /\ at' \in [Validators -> Nat] /\ cand' \in [Validators -> Nat]
          /\ trusted' \in [Validators -> BOOLEAN]
      BY <2>1 DEF IInv, TypeOK, Begin
    <3>3. /\ target' \in [Validators -> Names] /\ pos' \in [Validators -> Nat]
          /\ keys' \in [Validators -> SUBSET Keys]
          /\ ds' \in [Validators -> SUBSET (Keys \cup {Unsupported})]
      BY <2>1, <2>2 DEF IInv, TypeOK, Enter
    <3>. QED BY <2>1, <3>1, <3>2, <3>3 DEF IInv, CachesWell, SpentWell, TypeOK
  <2>4. VInv(v)'
    <3>1. /\ pc'[v] = "rrset" /\ at'[v] = at[v] + 1
          /\ asked'[v] = asked[v] /\ verdict'[v] = verdict[v]
      BY <2>1 DEF IInv, TypeOK, Goto, Begin
    <3>2. at[v] + 1 \in 1..Len(asked[v].rrsets) /\ (at[v] + 1) - 1 = at[v]
      BY <1>1, <1>3
    <3>. QED BY <1>1, <1>2, <3>1, <3>2 DEF VInv, Called, Chained, Spent, Walking
  <2>5. \A w \in Validators \ {v} : Local(w)' = Local(w)
    BY <2>1 DEF IInv, TypeOK, Goto, Enter, Begin, SpentWell, Local
  <2>6. IInv'
    BY <2>3, <2>4, <2>5, Continues DEF CachesWell
  <2>. QED BY <2>1, <2>6 DEF V!vars
<1>4. CASE ~(at[v] < Len(asked[v].rrsets))
  <2>. DEFINE d == IF asked[v].end = "data" THEN "Secure" ELSE "InsecureUnknown"
  <2>1. Return(v, d)
    BY <1>4 DEF NextRRset
  <2>2. d = "Secure" => Signed(asked[v])
    BY <1>1, <1>2, <1>4 DEF Signed
  <2>3. d \in Verdicts /\ d # "InsecureUnsigned" /\ pc[v] \notin {"idle", "done"}
    BY DEF Verdicts, Walking
  <2>. HIDE DEF d
  <2>. QED BY <2>1, <2>2, <2>3, Returns
<1>. QED BY <1>3, <1>4

\* A chain moves on to an answer, or to its end without keys.
LEMMA Goes ==
  ASSUME IInv, NEW v \in Validators, NEW p \in {"ds", "dnskey", "unsigned", "broken"},
         Goto(v, p), pc[v] \in Walking,
         UNCHANGED <<asked, verdict, at, cand, trusted, target, pos, keys>>,
         ds' \in [Validators -> SUBSET (Keys \cup {Unsupported})],
         \A w \in Validators \ {v} : ds'[w] = ds[w],
         CachesWell, SpentWell(v),
         p # "broken" => ~refused'[v],
         p = "unsigned" => ReadsUnsecured(target[v]),
         p = "ds" => /\ pos[v] \in 1..Len(target[v])
                     /\ keys[v] \subseteq KeysOf[Ancestor(target[v], pos[v] - 1)],
         p = "dnskey" => /\ pos[v] \in 0..Len(target[v])
                         /\ ds'[v] \subseteq KeysOf[Zone(v)] \cup {Unsupported}
  PROVE  IInv' /\ [V!Next]_V!vars
<1>1. pc'[v] = p /\ pc' \in [Validators -> Points]
  BY DEF IInv, TypeOK, Goto, Points
<1>2. TypeOK'
  BY <1>1 DEF IInv, TypeOK, CachesWell, SpentWell
<1>3. VInv(v)'
  <2>1. RR(v)' = RR(v) /\ Zone(v)' = Zone(v)
    BY DEF RR, Zone
  <2>2. Called(v)'
    BY <1>1 DEF IInv, VInv, Called, Walking
  <2>3. Chained(v)'
    <3>1. Aims(v)'
      BY <2>1 DEF IInv, VInv, Chained, Aims
    <3>. QED BY <1>1, <2>1, <3>1 DEF Chained, Walking
  <2>4. Spent(v)'
    BY <1>1 DEF Spent
  <2>. QED BY <2>2, <2>3, <2>4 DEF VInv
<1>4. \A w \in Validators \ {v} : Local(w)' = Local(w)
  BY DEF IInv, TypeOK, Goto, SpentWell, Local
<1>5. IInv'
  BY <1>2, <1>3, <1>4, Continues DEF CachesWell
<1>. QED BY <1>5 DEF V!vars

\* The zone at hand is above the target.
LEMMA ZoneFacts ==
  ASSUME IInv, NEW v \in Validators, pc[v] \in {"walk", "ds", "dnskey"}
  PROVE  /\ target[v] \in Names /\ Len(target[v]) \in Nat
         /\ pos[v] \in 0..Len(target[v])
         /\ Zone(v) \in Names /\ ZoneOf(Zone(v), target[v])
         /\ pos[v] = Len(target[v]) => Zone(v) = target[v]
         /\ pos[v] = 0 => Zone(v) = Root
         /\ pos[v] # 0 => Zone(v) # Root /\ Base(Zone(v)) = Ancestor(target[v], pos[v] - 1)
<1>1. target[v] \in Names
  BY DEF IInv, TypeOK
<1>2. Len(target[v]) \in Nat
  BY <1>1, AncestorEnds
<1>3. pos[v] \in 0..Len(target[v])
  BY <1>2 DEF IInv, VInv, Chained
<1>4. pos[v] # 0 => pos[v] \in 1..Len(target[v])
  BY <1>2, <1>3
<1>5. Zone(v) \in Names /\ ZoneOf(Zone(v), target[v])
  BY <1>1, <1>3, AncestorFacts DEF Zone
<1>6. /\ pos[v] = Len(target[v]) => Zone(v) = target[v]
      /\ pos[v] = 0 => Zone(v) = Root
  BY <1>1, AncestorEnds DEF Zone
<1>7. pos[v] # 0 => Zone(v) # Root /\ Base(Zone(v)) = Ancestor(target[v], pos[v] - 1)
  BY <1>1, <1>4, BaseOfAncestor DEF Zone
<1>. QED BY <1>1, <1>2, <1>3, <1>5, <1>6, <1>7

\* The keys of the zone at hand are known.
LEMMA Reaches ==
  ASSUME IInv, NEW v \in Validators, pc[v] \in {"walk", "dnskey"},
         NEW ks \in SUBSET Keys, ks \subseteq KeysOf[Zone(v)], Reached(v, ks),
         UNCHANGED <<asked, verdict, at, cand, trusted, target>>,
         ds' \in [Validators -> SUBSET (Keys \cup {Unsupported})],
         \A w \in Validators \ {v} : ds'[w] = ds[w],
         CachesWell, SpentWell(v), ~refused'[v]
  PROVE  IInv' /\ [V!Next]_V!vars
<1>1. /\ target[v] \in Names /\ Len(target[v]) \in Nat /\ pos[v] \in 0..Len(target[v])
      /\ pos[v] = Len(target[v]) => Zone(v) = target[v]
  BY ZoneFacts
<1>2. keys'[v] = ks /\ keys' \in [Validators -> SUBSET Keys]
  BY DEF IInv, TypeOK, Reached
<1>3. \/ pos[v] = Len(target[v]) /\ pc'[v] = "trusted" /\ pos' = pos
      \/ pos[v] # Len(target[v]) /\ pc'[v] = "walk" /\ pos'[v] = pos[v] + 1
  BY DEF IInv, TypeOK, Reached, Goto
<1>4. TypeOK'
  <2>0. \/ Goto(v, "trusted") /\ pos' = pos
        \/ Goto(v, "walk") /\ pos' = [pos EXCEPT ![v] = pos[v] + 1]
    BY DEF Reached
  <2>1. pc' \in [Validators -> Points]
    BY <2>0 DEF IInv, TypeOK, Goto, Points
  <2>2. pos' \in [Validators -> Nat]
    BY <2>0 DEF IInv, TypeOK
  <2>. QED BY <1>2, <2>1, <2>2 DEF IInv, TypeOK, CachesWell, SpentWell
<1>5. VInv(v)'
  <2>1. RR(v)' = RR(v)
    BY DEF RR
  <2>2. Called(v)'
    BY <1>3 DEF IInv, VInv, Called, Walking
  <2>3. Aims(v)'
    BY <2>1 DEF IInv, VInv, Chained, Aims, Walking
  <2>4. Chained(v)'
    <3>1. CASE pc'[v] = "trusted"
      BY <1>1, <1>2, <1>3, <2>3, <3>1 DEF Chained, Walking
    <3>2. CASE pc'[v] = "walk"
      <4>1. pos'[v] \in 1..Len(target[v]) /\ pos'[v] - 1 = pos[v]
        BY <1>1, <1>3, <3>2
      <4>2. keys'[v] \subseteq KeysOf[Ancestor(target[v], pos'[v] - 1)]
        BY <1>2, <4>1 DEF Zone
      <4>. QED BY <1>1, <2>3, <3>2, <4>1, <4>2 DEF Chained, Walking
    <3>. QED BY <1>3, <3>1, <3>2
  <2>5. Spent(v)'
    BY DEF Spent
  <2>. QED BY <2>2, <2>4, <2>5 DEF VInv
<1>6. \A w \in Validators \ {v} : Local(w)' = Local(w)
  BY DEF IInv, TypeOK, Reached, Goto, SpentWell, Local
<1>7. IInv'
  BY <1>4, <1>5, <1>6, Continues DEF CachesWell
<1>. QED BY <1>7 DEF V!vars

-----------------------------------------------------------------------------
(* Steps *)

LEMMA AskStep ==
  ASSUME IInv, NEW v \in Validators, NEW m \in Jobs, Ask(v, m)
  PROVE  IInv' /\ [V!Next]_V!vars
<1>1. m # None
  BY NoneAssumption
<1>2. pc[v] \in {"idle", "done"}
  BY DEF Ask
<1>3. ~V!Pending(v)
  BY <1>2, NoneAssumption DEF IInv, VInv, Called, V!Pending
<1>4. /\ asked'[v] = m /\ verdict'[v] = None /\ pc'[v] = "called" /\ at' = at
      /\ refused'[v] = FALSE
  BY DEF IInv, TypeOK, Ask, Goto
<1>5. TypeOK'
  <2>1. /\ asked' \in [Validators -> Jobs \cup {None}]
        /\ verdict' \in [Validators -> Verdicts \cup {None}]
        /\ pc' \in [Validators -> Points]
    BY DEF IInv, TypeOK, Ask, Goto, Points
  <2>2. /\ used' \in [Validators -> 0..MaxChecks]
        /\ refused' \in [Validators -> BOOLEAN] /\ plain' \in [Validators -> BOOLEAN]
    BY TrustAssumption DEF IInv, TypeOK, Ask
  <2>. QED BY <2>1, <2>2 DEF IInv, TypeOK, Ask, caches, walk
<1>6. VInv(v)'
  BY <1>2, <1>4 DEF IInv, VInv, Called, Chained, Spent, Walking
<1>7. \A w \in Validators \ {v} : Local(w)' = Local(w)
  BY DEF IInv, TypeOK, Ask, Goto, walk, Local
<1>8. KeysGenuine' /\ MemoTrue'
  BY DEF IInv, KeysGenuine, MemoTrue, Ask, caches
<1>9. IInv'
  BY <1>5, <1>6, <1>7, <1>8, Continues
<1>10. V!Ask(v)
  BY <1>3 DEF Ask, V!Ask
<1>. QED BY <1>9, <1>10 DEF V!Next

LEMMA DispatchStep ==
  ASSUME IInv, NEW v \in Validators, Dispatch(v)
  PROVE  IInv' /\ [V!Next]_V!vars
<1>1. /\ pc[v] = "called" /\ asked[v] \in Jobs /\ verdict[v] = None
      /\ at[v] = 1 /\ ~refused[v]
  BY DEF IInv, VInv, Called, Spent, Dispatch
<1>2. CachesWell /\ SpentWell(v) /\ ~refused'[v]
  <2>1. UNCHANGED <<caches, used, refused, plain>>
    BY DEF Dispatch, history
  <2>2. plain' \in [Validators -> BOOLEAN]
    BY <2>1 DEF IInv, TypeOK
  <2>. QED BY <1>1, <2>1, <2>2, CachesSame, BudgetSame
<1>3. CASE AtOnce(asked[v]) # None /\ Return(v, AtOnce(asked[v]))
  <2>1. AtOnce(asked[v]) \in {"Bogus", "InsecureUnknown"}
    BY <1>3 DEF AtOnce
  <2>. QED BY <1>1, <1>2, <1>3, <2>1, Returns DEF Verdicts
<1>4. CASE /\ AtOnce(asked[v]) = None /\ asked[v].kind = "answer"
           /\ Goto(v, "rrset") /\ UNCHANGED <<verdict, calls, walk>>
  <2>1. pc'[v] = "rrset" /\ pc' \in [Validators -> Points]
    BY <1>4 DEF IInv, TypeOK, Goto, Points
  <2>2. 1 \in DOMAIN asked[v].rrsets
    BY <1>1, <1>4, LaterFacts, JobFacts
  <2>3. TypeOK'
    BY <1>2, <1>4, <2>1 DEF IInv, TypeOK, CachesWell, SpentWell, calls, walk
  <2>4. VInv(v)'
    BY <1>1, <1>2, <1>4, <2>1, <2>2
       DEF VInv, Called, Chained, Spent, Walking, calls, walk
  <2>5. \A w \in Validators \ {v} : Local(w)' = Local(w)
    BY <1>2, <1>4 DEF IInv, TypeOK, Goto, SpentWell, Local, calls, walk
  <2>6. IInv'
    BY <1>2, <2>3, <2>4, <2>5, Continues DEF CachesWell
  <2>. QED BY <1>4, <2>6 DEF calls, V!vars
<1>5. CASE /\ AtOnce(asked[v]) = None /\ asked[v].kind = "negative"
           /\ Walk(v, asked[v].soa) /\ UNCHANGED <<verdict, calls>>
  <2>1. asked[v].soa \in Names
    BY <1>1, <1>5, LaterFacts
  <2>2. target'[v] = asked[v].soa
    BY <1>5 DEF IInv, TypeOK, Walk, Enter
  <2>3. UNCHANGED <<asked, at, cand, trusted, verdict>>
    BY <1>5 DEF calls
  <2>4. Aims(v)'
    BY <1>5, <2>2, <2>3 DEF Aims
  <2>5. cand' \in [Validators -> Nat] /\ trusted' \in [Validators -> BOOLEAN]
    BY <2>3 DEF IInv, TypeOK
  <2>. QED BY <1>1, <1>2, <1>5, <2>1, <2>3, <2>4, <2>5, Walks
<1>. QED BY <1>3, <1>4, <1>5 DEF Dispatch

\* What the memo says of a name is true of it.
LEMMA KnownFacts ==
  ASSUME IInv, NEW n \in Names, Known(n) = "Unsigned"
  PROVE  ReadsUnsecured(n)
<1>1. PICK p \in 0..Len(n) : memo[Ancestor(n, p)] = "Unsigned"
  BY NoneAssumption DEF Known
<1>2. Ancestor(n, p) \in Names /\ ZoneOf(Ancestor(n, p), n)
  BY AncestorFacts
<1>3. ReadsUnsecured(Ancestor(n, p))
  BY <1>1, <1>2 DEF IInv, MemoTrue
<1>. QED BY <1>2, <1>3, ReadsUnsecuredBelow

LEMMA UnprovenStep ==
  ASSUME IInv, NEW v \in Validators, Unproven(v)
  PROVE  IInv' /\ [V!Next]_V!vars
<1>1. pc[v] = "rrset" /\ asked[v].kind = "answer" /\ RR(v).sigs = <<>>
  BY DEF IInv, VInv, Called, Unproven
<1>2. /\ asked[v] \in Jobs /\ RR(v) \in RRset /\ ~refused[v] /\ verdict[v] = None
      /\ at[v] \in DOMAIN asked[v].rrsets
  BY <1>1, AtHand
<1>3. CachesWell /\ SpentWell(v) /\ ~refused'[v]
  <2>1. UNCHANGED <<caches, used, refused, plain>>
    BY DEF Unproven, history
  <2>2. plain' \in [Validators -> BOOLEAN]
    BY <2>1 DEF IInv, TypeOK
  <2>. QED BY <1>2, <2>1, <2>2, CachesSame, BudgetSame
<1>4. CASE Return(v, "Bogus")
  BY <1>1, <1>3, <1>4, Returns DEF Verdicts
<1>5. CASE Known(RR(v).owner) = "Unsigned" /\ Return(v, "InsecureUnsigned")
  <2>1. RR(v).owner \in Names
    BY <1>2 DEF RRset
  <2>2. ReadsUnsecured(RR(v).owner)
    BY <1>5, <2>1, KnownFacts
  <2>3. Insecure(asked[v])
    BY <1>1, <2>1, <2>2, InsecureFacts DEF UnsignedRRset
  <2>. QED BY <1>1, <1>3, <1>5, <2>3, Returns DEF Verdicts
<1>6. CASE Goto(v, "apex") /\ UNCHANGED <<verdict, calls, walk>>
  <2>1. pc'[v] = "apex" /\ pc' \in [Validators -> Points]
    BY <1>6 DEF IInv, TypeOK, Goto, Points
  <2>2. TypeOK'
    BY <1>3, <1>6, <2>1 DEF IInv, TypeOK, CachesWell, SpentWell, calls, walk
  <2>3. RR(v)' = RR(v)
    BY <1>6 DEF RR, calls
  <2>4. VInv(v)'
    BY <1>1, <1>3, <1>6, <2>1, <2>3
       DEF IInv, VInv, Called, Chained, Spent, Walking, calls, walk
  <2>5. \A w \in Validators \ {v} : Local(w)' = Local(w)
    BY <1>3, <1>6 DEF IInv, TypeOK, Goto, SpentWell, Local, calls, walk
  <2>6. IInv'
    BY <1>3, <2>2, <2>4, <2>5, Continues DEF CachesWell
  <2>. QED BY <1>6, <2>6 DEF calls, V!vars
<1>. QED BY <1>4, <1>5, <1>6 DEF Unproven

LEMMA FindApexStep ==
  ASSUME IInv, NEW v \in Validators, NEW z \in Names, FindApex(v, z)
  PROVE  IInv' /\ [V!Next]_V!vars
<1>1. /\ pc[v] = "apex" /\ asked[v].kind = "answer" /\ RR(v).sigs = <<>>
      /\ z \in Apexes[RR(v).owner] /\ Walk(v, z)
      /\ UNCHANGED <<caches, verdict, calls, used, refused>>
  BY DEF IInv, VInv, Called, FindApex
<1>2. /\ AtOnce(asked[v]) = None /\ ~refused[v]
      /\ at[v] \in DOMAIN asked[v].rrsets
      /\ \A i \in 1..(at[v] - 1) : SignedRRset(asked[v].rrsets[i])
  BY <1>1, AtHand
<1>3. CachesWell /\ SpentWell(v) /\ ~refused'[v]
  <2>1. plain' \in [Validators -> BOOLEAN]
    BY DEF IInv, TypeOK, FindApex
  <2>. QED BY <1>1, <1>2, <2>1, CachesSame, BudgetSame
<1>4. /\ UNCHANGED <<asked, verdict, at, cand, trusted>>
      /\ cand' \in [Validators -> Nat] /\ trusted' \in [Validators -> BOOLEAN]
  BY <1>1 DEF IInv, TypeOK, calls
<1>5. target'[v] = z /\ RR(v)' = RR(v)
  BY <1>1, <1>4 DEF IInv, TypeOK, Walk, Enter, RR
<1>6. Aims(v)'
  BY <1>1, <1>4, <1>5 DEF Aims
<1>. QED BY <1>1, <1>2, <1>3, <1>4, <1>6, Walks

LEMMA ProvenStep ==
  ASSUME IInv, NEW v \in Validators, Proven(v)
  PROVE  IInv' /\ [V!Next]_V!vars
<1>1. pc[v] = "rrset" /\ asked[v].kind = "answer"
  BY DEF IInv, VInv, Called, Proven
<1>2. CachesWell /\ SpentWell(v) /\ ~refused'[v]
  <2>1. UNCHANGED <<caches, used, refused, plain>>
    BY DEF Proven, history
  <2>2. plain' \in [Validators -> BOOLEAN]
    BY <2>1 DEF IInv, TypeOK
  <2>. QED BY <1>1, <2>1, <2>2, AtHand, CachesSame, BudgetSame
<1>3. CASE Return(v, "Bogus")
  BY <1>1, <1>2, <1>3, Returns DEF Verdicts
<1>4. CASE Candidates(RR(v)) # {} /\ Try(v, Candidates(RR(v)), FALSE)
  <2>1. Candidates(RR(v)) \ Candidates(RR(v)) = {}
    OBVIOUS
  <2>. QED BY <1>1, <1>2, <1>4, <2>1, TriesOn
<1>. QED BY <1>3, <1>4 DEF Proven

LEMMA LookupStep ==
  ASSUME IInv, NEW v \in Validators, Lookup(v)
  PROVE  IInv' /\ [V!Next]_V!vars
<1>1. /\ pc[v] = "walk" /\ ~refused[v]
      /\ UNCHANGED <<caches, asked, verdict, at, cand, trusted, target, used, refused, plain>>
  BY AtHand DEF Lookup, Walking, calls, history
<1>2. CachesWell /\ SpentWell(v) /\ ~refused'[v]
  <2>1. plain' \in [Validators -> BOOLEAN]
    BY <1>1 DEF IInv, TypeOK
  <2>. QED BY <1>1, <2>1, CachesSame, BudgetSame
<1>3. /\ Zone(v) \in Names /\ pos[v] \in 0..Len(target[v]) /\ Len(target[v]) \in Nat
      /\ pos[v] = 0 => Zone(v) = Root
  BY <1>1, ZoneFacts
<1>4. CASE keyCache[Zone(v)] # None /\ Reached(v, keyCache[Zone(v)]) /\ UNCHANGED ds
  <2>1. keyCache[Zone(v)] \in SUBSET Keys /\ keyCache[Zone(v)] \subseteq KeysOf[Zone(v)]
    BY <1>3, <1>4 DEF IInv, TypeOK, KeysGenuine
  <2>2. ds' \in [Validators -> SUBSET (Keys \cup {Unsupported})]
    BY <1>4 DEF IInv, TypeOK
  <2>. QED BY <1>1, <1>2, <1>4, <2>1, <2>2, Reaches
<1>5. CASE /\ Goto(v, IF pos[v] = 0 THEN "dnskey" ELSE "ds")
           /\ ds' = [ds EXCEPT ![v] = IF pos[v] = 0 THEN Anchors ELSE {}]
           /\ UNCHANGED <<pos, keys>>
  <2>1. Anchors \subseteq KeysOf[Root]
    BY GenuineSignatures
  <2>2. pos[v] = 0 => Anchors \subseteq KeysOf[Zone(v)] /\ KeysOf[Zone(v)] \subseteq Keys
    BY <1>3, <2>1, TrustAssumption
  <2>3. /\ ds' \in [Validators -> SUBSET (Keys \cup {Unsupported})]
        /\ \A w \in Validators \ {v} : ds'[w] = ds[w]
        /\ pos[v] = 0 => ds'[v] \subseteq KeysOf[Zone(v)] \cup {Unsupported}
    BY <1>5, <2>2 DEF IInv, TypeOK
  <2>4. pos[v] # 0 => /\ pos[v] \in 1..Len(target[v])
                      /\ keys[v] \subseteq KeysOf[Ancestor(target[v], pos[v] - 1)]
    BY <1>1, <1>3 DEF IInv, VInv, Chained
  <2>5. CASE pos[v] = 0
    BY <1>1, <1>2, <1>3, <1>5, <2>3, <2>5, Goes DEF Walking
  <2>6. CASE pos[v] # 0
    BY <1>1, <1>2, <1>5, <2>3, <2>4, <2>6, Goes DEF Walking
  <2>. QED BY <2>5, <2>6
<1>. QED BY <1>4, <1>5 DEF Lookup

\* A denial is accepted only with a signature of the keys it is checked with.
LEMMA DeniesFacts ==
  ASSUME NEW q, NEW t, NEW p, NEW ks,
         Denies(q, t, p, ks) \in {"Secure", "InsecureUnsigned"}
  PROVE  /\ p.ev.sigs \cap ks # {}
         /\ Content(q, t, p) = Denies(q, t, p, ks)
<1>1. UpFront(p) # "Secure" /\ UpFront(p) # "InsecureUnsigned"
  BY NoneAssumption DEF UpFront, Verdicts
<1>. QED BY <1>1 DEF Denies

\* With more keys what was accepted is accepted.
LEMMA DeniesMore ==
  ASSUME NEW q, NEW t, NEW p, NEW ks, NEW more, ks \subseteq more,
         Denies(q, t, p, ks) \in {"Secure", "InsecureUnsigned"}
  PROVE  Denies(q, t, p, more) \in {"Secure", "InsecureUnsigned"}
<1>1. p.ev.sigs \cap more # {} /\ Content(q, t, p) \in {"Secure", "InsecureUnsigned"}
  BY DeniesFacts
<1>2. UpFront(p) = None
  <2>1. UpFront(p) \in {"InsecureUnknown", "Bogus", None}
    BY DEF UpFront
  <2>. QED BY <2>1 DEF Denies
<1>. QED BY <1>1, <1>2 DEF Denies

\* The number of checks a proof takes.
LEMMA TriesFacts ==
  ASSUME NEW p \in Proof
  PROVE  Tries(p) \in Nat
BY DEF Tries, Proof, Evidence

LEMMA DsAnswerStep ==
  ASSUME IInv, NEW v \in Validators, NEW r \in DsReplies[Zone(v)], DsAnswer(v, r)
  PROVE  IInv' /\ [V!Next]_V!vars
<1>1. /\ pc[v] = "ds" /\ ~refused[v]
      /\ UNCHANGED <<caches, asked, verdict, at, cand, trusted, target, pos, keys>>
  BY AtHand DEF DsAnswer, Walking, calls
<1>2. CachesWell /\ plain' \in [Validators -> BOOLEAN]
  BY <1>1, CachesSame DEF IInv, TypeOK, DsAnswer
<1>3. /\ Zone(v) \in Names /\ target[v] \in Names /\ ZoneOf(Zone(v), target[v])
      /\ pos[v] \in 1..Len(target[v]) /\ Len(target[v]) \in Nat
      /\ Zone(v) # Root /\ Base(Zone(v)) = Ancestor(target[v], pos[v] - 1)
  <2>1. pos[v] \in 1..Len(target[v])
    BY <1>1 DEF IInv, VInv, Chained
  <2>2. pos[v] # 0
    BY <1>1, <2>1, ZoneFacts
  <2>. QED BY <1>1, <2>1, <2>2, ZoneFacts
<1>4. keys[v] \subseteq KeysOf[Base(Zone(v))]
  <2>1. pos[v] # 0
    BY <1>3
  <2>. QED BY <1>1, <1>3, <2>1 DEF IInv, VInv, Chained
<1>5. MissingDs(Zone(v)) => ReadsUnsecured(target[v])
  BY <1>3 DEF ReadsUnsecured
<1>6. r # None => r \in DsReply
  BY <1>3, TrustAssumption
<1>7. CASE r = None /\ Goto(v, "broken") /\ UNCHANGED <<ds, used, refused>>
  <2>1. SpentWell(v)
    BY <1>2, <1>7, BudgetSame
  <2>2. /\ ds' \in [Validators -> SUBSET (Keys \cup {Unsupported})]
        /\ \A w \in Validators \ {v} : ds'[w] = ds[w]
    BY <1>7 DEF IInv, TypeOK
  <2>. QED BY <1>1, <1>2, <1>7, <2>1, <2>2, Goes DEF Walking
<1>8. CASE /\ r # None /\ r.ds = {}
           /\ Spend(v, Tries(r.proof))
           /\ Goto(v, IF /\ Afford(v, Tries(r.proof))
                         /\ Denies(Zone(v), "DS", r.proof, keys[v])
                              \in {"Secure", "InsecureUnsigned"}
                        THEN "unsigned" ELSE "broken")
           /\ UNCHANGED ds
  <2>1. Tries(r.proof) \in Nat
    BY <1>6, <1>8, TriesFacts DEF DsReply
  <2>2. SpentWell(v) /\ refused'[v] = (refused[v] \/ ~Afford(v, Tries(r.proof)))
    BY <1>2, <1>8, <2>1, BudgetSpent
  <2>3. /\ ds' \in [Validators -> SUBSET (Keys \cup {Unsupported})]
        /\ \A w \in Validators \ {v} : ds'[w] = ds[w]
    BY <1>8 DEF IInv, TypeOK
  <2>4. CASE /\ Afford(v, Tries(r.proof))
             /\ Denies(Zone(v), "DS", r.proof, keys[v]) \in {"Secure", "InsecureUnsigned"}
    <3>1. Denies(Zone(v), "DS", r.proof, KeysOf[Base(Zone(v))]) \in {"Secure", "InsecureUnsigned"}
      BY <1>4, <2>4, DeniesMore
    <3>2. MissingDs(Zone(v))
      BY <1>3, <1>8, <3>1 DEF MissingDs
    <3>. QED BY <1>1, <1>2, <1>5, <1>8, <2>2, <2>3, <2>4, <3>2, Goes DEF Walking
  <2>5. CASE ~ (/\ Afford(v, Tries(r.proof))
                /\ Denies(Zone(v), "DS", r.proof, keys[v])
                     \in {"Secure", "InsecureUnsigned"})
    <3>1. Goto(v, "broken")
      BY <1>8, <2>5
    <3>. QED BY <1>1, <1>2, <2>2, <2>3, <3>1, Goes DEF Walking
  <2>. QED BY <2>4, <2>5
<1>9. CASE /\ r # None
           /\ Spend(v, r.ev.tries)
           /\ IF Afford(v, r.ev.tries) /\ Verifies(r.ev, keys[v])
                THEN Goto(v, IF r.ds = {Unsupported} THEN "unsigned" ELSE "dnskey")
                ELSE Goto(v, "broken")
           /\ ds' = [ds EXCEPT ![v] = r.ds]
  <2>1. r.ev.tries \in Nat /\ r.ds \in SUBSET (Keys \cup {Unsupported})
    BY <1>6, <1>9 DEF DsReply, Evidence
  <2>2. SpentWell(v) /\ refused'[v] = (refused[v] \/ ~Afford(v, r.ev.tries))
    BY <1>2, <1>9, <2>1, BudgetSpent
  <2>3. /\ ds' \in [Validators -> SUBSET (Keys \cup {Unsupported})]
        /\ ds'[v] = r.ds
        /\ \A w \in Validators \ {v} : ds'[w] = ds[w]
    BY <1>9, <2>1 DEF IInv, TypeOK
  <2>4. CASE Afford(v, r.ev.tries) /\ Verifies(r.ev, keys[v])
    <3>1. r.ev.sigs \cap KeysOf[Base(Zone(v))] # {}
      BY <1>4, <2>4 DEF Verifies
    <3>2. /\ r.ds \subseteq KeysOf[Zone(v)] \cup {Unsupported}
          /\ r.ds = {Unsupported} => Zone(v) \in NoDs
      BY <1>3, <1>9, <3>1, GenuineSignatures
    <3>3. pos[v] \in 0..Len(target[v])
      BY <1>3
    <3>4. CASE r.ds = {Unsupported}
      <4>1. MissingDs(Zone(v))
        BY <3>2, <3>4 DEF MissingDs
      <4>. QED BY <1>1, <1>2, <1>5, <1>9, <2>2, <2>3, <2>4, <3>4, <4>1, Goes DEF Walking
    <3>5. CASE r.ds # {Unsupported}
      BY <1>1, <1>2, <1>9, <2>2, <2>3, <2>4, <3>2, <3>3, <3>5, Goes DEF Walking
    <3>. QED BY <3>4, <3>5
  <2>5. CASE ~(Afford(v, r.ev.tries) /\ Verifies(r.ev, keys[v]))
    <3>1. Goto(v, "broken")
      BY <1>9, <2>5
    <3>. QED BY <1>1, <1>2, <2>2, <2>3, <3>1, Goes DEF Walking
  <2>. QED BY <2>4, <2>5
<1>. QED BY <1>7, <1>8, <1>9 DEF DsAnswer

LEMMA KeyAnswerStep ==
  ASSUME IInv, NEW v \in Validators, NEW r \in KeyReplies[Zone(v)], KeyAnswer(v, r)
  PROVE  IInv' /\ [V!Next]_V!vars
<1>. DEFINE matched == IF r = None THEN {} ELSE r.keys \cap ds[v]
<1>1. /\ pc[v] = "dnskey" /\ ~refused[v]
      /\ UNCHANGED <<memo, asked, verdict, at, cand, trusted, target>>
  BY AtHand DEF KeyAnswer, Walking, calls
<1>2. plain' \in [Validators -> BOOLEAN]
  BY DEF IInv, TypeOK, KeyAnswer
<1>3. /\ ds' \in [Validators -> SUBSET (Keys \cup {Unsupported})]
      /\ \A w \in Validators \ {v} : ds'[w] = ds[w]
  BY DEF IInv, TypeOK, KeyAnswer
<1>4. /\ Zone(v) \in Names
      /\ ds[v] \subseteq KeysOf[Zone(v)] \cup {Unsupported}
      /\ Unsupported \notin Keys
  BY <1>1, ZoneFacts, TrustAssumption DEF IInv, VInv, Chained
<1>5. r # None => r \in KeyReply
  BY <1>4, TrustAssumption
<1>6. ASSUME Goto(v, "broken"), UNCHANGED <<keyCache, pos, keys>>, SpentWell(v)
      PROVE  IInv' /\ [V!Next]_V!vars
  <2>1. CachesWell
    BY <1>1, <1>6, CachesSame DEF caches
  <2>. QED BY <1>1, <1>3, <1>6, <2>1, Goes DEF Walking
<1>7. CASE Goto(v, "broken") /\ UNCHANGED <<keyCache, pos, keys, used, refused>>
  BY <1>2, <1>6, <1>7, BudgetSame
<1>8. CASE /\ matched # {}
           /\ Spend(v, r.ev.tries)
           /\ IF Afford(v, r.ev.tries) /\ Verifies(r.ev, matched)
                THEN /\ keyCache' = [keyCache EXCEPT ![Zone(v)] = r.zoneKeys]
                     /\ Reached(v, r.zoneKeys)
                ELSE Goto(v, "broken") /\ UNCHANGED <<keyCache, pos, keys>>
  <2>1. r # None /\ r \in KeyReply
    BY <1>5, <1>8
  <2>2. /\ r.ev.tries \in Nat /\ r.keys \in SUBSET Keys /\ r.zoneKeys \in SUBSET Keys
    BY <2>1 DEF KeyReply, Evidence
  <2>3. SpentWell(v) /\ refused'[v] = (refused[v] \/ ~Afford(v, r.ev.tries))
    BY <1>2, <1>8, <2>2, BudgetSpent
  <2>4. CASE Afford(v, r.ev.tries) /\ Verifies(r.ev, matched)
    <3>1. matched \subseteq KeysOf[Zone(v)]
      BY <1>4, <2>1, <2>2
    <3>2. r.ev.sigs \cap KeysOf[Zone(v)] # {}
      BY <2>4, <3>1 DEF Verifies
    <3>3. r.zoneKeys \subseteq KeysOf[Zone(v)]
      BY <1>4, <2>1, <3>2, GenuineSignatures
    <3>4. CachesWell
      <4>1. keyCache' = [keyCache EXCEPT ![Zone(v)] = r.zoneKeys]
        BY <1>8, <2>4
      <4>2. keyCache' \in [Names -> {None} \cup SUBSET Keys] /\ KeysGenuine'
        BY <1>4, <2>2, <3>3, <4>1 DEF IInv, TypeOK, KeysGenuine
      <4>3. memo' \in [Names -> {None, "Signed", "Unsigned"}] /\ MemoTrue'
        BY <1>1 DEF IInv, TypeOK, MemoTrue
      <4>. QED BY <4>2, <4>3 DEF CachesWell
    <3>. QED BY <1>1, <1>3, <1>8, <2>2, <2>3, <2>4, <3>3, <3>4, Reaches
  <2>5. CASE ~(Afford(v, r.ev.tries) /\ Verifies(r.ev, matched))
    BY <1>6, <1>8, <2>3, <2>5
  <2>. QED BY <2>4, <2>5
<1>. QED BY <1>7, <1>8 DEF KeyAnswer

\* The zone of a chain is at or above what is validated.
LEMMA TargetFacts ==
  ASSUME IInv, NEW v \in Validators, pc[v] \in Walking
  PROVE  /\ target[v] \in Names
         /\ asked[v].kind = "negative" => target[v] = asked[v].soa /\ asked[v].soa # None
         /\ asked[v].kind = "answer" =>
              /\ RR(v).owner \in Names /\ ZoneOf(target[v], RR(v).owner)
              /\ RR(v).sigs # <<>> => /\ cand[v] \in Candidates(RR(v))
                                      /\ target[v] = RR(v).sigs[cand[v]].signer
<1>1. target[v] \in Names /\ Aims(v) /\ asked[v] \in Jobs /\ AtOnce(asked[v]) = None
  BY AtHand DEF IInv, TypeOK, VInv, Chained
<1>2. asked[v].kind = "negative" => asked[v].soa \in Names /\ target[v] = asked[v].soa
  BY <1>1, LaterFacts DEF Aims
<1>3. ASSUME asked[v].kind = "answer"
      PROVE  /\ RR(v).owner \in Names /\ ZoneOf(target[v], RR(v).owner)
             /\ RR(v).sigs # <<>> => /\ cand[v] \in Candidates(RR(v))
                                     /\ target[v] = RR(v).sigs[cand[v]].signer
  <2>1. RR(v) \in RRset
    BY <1>3, AtHand
  <2>2. RR(v).owner \in Names
    BY <2>1 DEF RRset
  <2>3. CASE RR(v).sigs = <<>>
    BY <1>1, <1>3, <2>2, <2>3, TrustAssumption DEF Aims
  <2>4. CASE RR(v).sigs # <<>>
    BY <1>1, <1>3, <2>1, <2>2, <2>4, CandidateFacts DEF Aims
  <2>. QED BY <2>2, <2>3, <2>4
<1>. QED BY <1>1, <1>2, <1>3, NoneAssumption

LEMMA BrokenStep ==
  ASSUME IInv, NEW v \in Validators, Broken(v)
  PROVE  IInv' /\ [V!Next]_V!vars
<1>1. pc[v] = "broken"
  BY DEF Broken
<1>2. CachesWell /\ SpentWell(v)
  <2>1. UNCHANGED <<caches, used, refused, plain>>
    BY DEF Broken, history
  <2>2. plain' \in [Validators -> BOOLEAN]
    BY <2>1 DEF IInv, TypeOK
  <2>. QED BY <2>1, <2>2, CachesSame, BudgetSame
<1>. QED BY <1>1, <1>2, Returns DEF Broken, Verdicts

LEMMA UnsignedStep ==
  ASSUME IInv, NEW v \in Validators, Unsigned(v)
  PROVE  IInv' /\ [V!Next]_V!vars
<1>1. /\ pc[v] = "unsigned" /\ ReadsUnsecured(target[v]) /\ target[v] \in Names
      /\ UNCHANGED <<keyCache, used, refused, plain>>
  BY TargetFacts DEF IInv, VInv, Chained, Unsigned, Walking, history
<1>2. /\ asked[v] \in Jobs /\ asked[v].kind \in {"answer", "negative"} /\ ~refused[v]
      /\ asked[v].kind = "answer" => at[v] \in DOMAIN asked[v].rrsets
  BY <1>1, AtHand DEF Walking
<1>3. SpentWell(v) /\ ~refused'[v]
  <2>1. plain' \in [Validators -> BOOLEAN]
    BY <1>1 DEF IInv, TypeOK
  <2>. QED BY <1>1, <1>2, <2>1, BudgetSame
<1>4. ASSUME Negative(v) \/ Searching(v)
      PROVE  Insecure(asked[v])
  <2>1. CASE Negative(v)
    BY <1>1, <2>1, TargetFacts DEF Insecure, InsecureIn, Negative, Walking
  <2>2. CASE Searching(v)
    <3>1. asked[v].kind = "answer" /\ RR(v).sigs = <<>>
      BY <1>2, <2>2 DEF Searching, Negative
    <3>2. RR(v).owner \in Names /\ ZoneOf(target[v], RR(v).owner)
      BY <1>1, <3>1, TargetFacts DEF Walking
    <3>3. ReadsUnsecured(RR(v).owner)
      BY <1>1, <3>2, ReadsUnsecuredBelow
    <3>. QED BY <1>1, <3>1, <3>2, <3>3, InsecureFacts DEF UnsignedRRset, Walking
  <2>. QED BY <1>4, <2>1, <2>2
<1>5. CASE Negative(v) /\ Return(v, "InsecureUnsigned") /\ UNCHANGED memo
  <2>1. CachesWell
    BY <1>1, <1>5, CachesSame DEF caches
  <2>. QED BY <1>1, <1>3, <1>4, <1>5, <2>1, Returns DEF Verdicts
<1>6. CASE /\ Searching(v)
           /\ memo' = [memo EXCEPT ![target[v]] = "Unsigned"]
           /\ Return(v, "InsecureUnsigned")
  <2>1. CachesWell
    BY <1>1, <1>6 DEF IInv, TypeOK, KeysGenuine, MemoTrue, CachesWell
  <2>. QED BY <1>1, <1>3, <1>4, <1>6, <2>1, Returns DEF Verdicts
<1>7. CASE Checking(v) /\ TryNext(v, trusted[v]) /\ UNCHANGED memo
  <2>1. CachesWell
    BY <1>1, <1>7, CachesSame DEF caches
  <2>2. trusted[v] \in BOOLEAN /\ asked[v].kind = "answer" /\ RR(v).sigs # <<>>
    BY <1>2, <1>7 DEF IInv, TypeOK, Checking, Negative
  <2>3. /\ cand[v] \in Candidates(RR(v)) /\ target[v] = RR(v).sigs[cand[v]].signer
        /\ ~trusted[v] => \A i \in Candidates(RR(v)) :
             i < cand[v] => ReadsUnsecured(RR(v).sigs[i].signer)
    BY <1>1, <2>2 DEF IInv, VInv, Chained, Aims, Walking
  <2>4. \A i \in Candidates(RR(v)) : i <= cand[v] => i < cand[v] \/ i = cand[v]
    BY <1>1, <2>2, <2>3, AtHand, CandidateFacts DEF Walking
  <2>. QED BY <1>1, <1>3, <1>7, <2>1, <2>2, <2>3, <2>4, TriesNext DEF Walking
<1>. QED BY <1>5, <1>6, <1>7 DEF Unsigned

LEMMA MissingStep ==
  ASSUME IInv, NEW v \in Validators, Missing(v)
  PROVE  IInv' /\ [V!Next]_V!vars
<1>1. /\ pc[v] = "trusted" /\ target[v] \in Names
      /\ UNCHANGED <<keyCache, used, refused, plain>>
      /\ memo' = [memo EXCEPT ![target[v]] = "Signed"]
      /\ Return(v, "Bogus")
  BY TargetFacts DEF Missing, Walking, history
<1>2. SpentWell(v)
  <2>1. plain' \in [Validators -> BOOLEAN]
    BY <1>1 DEF IInv, TypeOK
  <2>. QED BY <1>1, <2>1, BudgetSame
<1>3. CachesWell
  BY <1>1 DEF IInv, TypeOK, KeysGenuine, MemoTrue, CachesWell
<1>. QED BY <1>1, <1>2, <1>3, Returns DEF Verdicts

LEMMA TryKeysStep ==
  ASSUME IInv, NEW v \in Validators, NEW n \in 0..Cardinality(keys[v]), TryKeys(v, n)
  PROVE  IInv' /\ [V!Next]_V!vars
<1>. DEFINE good == RR(v).sigs[cand[v]].by \in keys[v]
<1>1. /\ pc[v] = "trusted" /\ Checking(v) /\ Spend(v, n)
      /\ UNCHANGED <<caches, plain>>
  BY DEF TryKeys
<1>2. /\ asked[v] \in Jobs /\ asked[v].kind = "answer" /\ ~refused[v]
      /\ keys[v] \subseteq KeysOf[target[v]]
  BY <1>1, AtHand DEF IInv, VInv, Chained, Checking, Negative, Walking
<1>3. n \in Nat
  OBVIOUS
<1>4. CachesWell /\ SpentWell(v) /\ refused'[v] = ~Afford(v, n)
  <2>1. plain' \in [Validators -> BOOLEAN]
    BY <1>1 DEF IInv, TypeOK
  <2>2. SpentWell(v) /\ refused'[v] = (refused[v] \/ ~Afford(v, n))
    BY <1>1, <1>3, <2>1, BudgetSpent
  <2>. QED BY <1>1, <1>2, <2>2, CachesSame
<1>5. CASE Return(v, "Bogus")
  BY <1>1, <1>4, <1>5, Returns DEF Verdicts
<1>6. CASE Afford(v, n) /\ good /\ NextRRset(v)
  <2>1. cand[v] \in Candidates(RR(v)) /\ target[v] = RR(v).sigs[cand[v]].signer
    BY <1>1, <1>2, TargetFacts DEF Walking, Checking
  <2>2. SignedRRset(RR(v))
    BY <1>2, <1>6, <2>1 DEF SignedRRset
  <2>. QED BY <1>1, <1>2, <1>4, <1>6, <2>2, NextRRsetFacts DEF Walking
<1>7. CASE Afford(v, n) /\ TryNext(v, TRUE)
  <2>1. cand[v] \in Candidates(RR(v))
    BY <1>1, <1>2, TargetFacts DEF Walking, Checking
  <2>. QED BY <1>1, <1>2, <1>4, <1>7, <2>1, TriesNext DEF Walking
<1>. QED BY <1>5, <1>6, <1>7 DEF TryKeys

LEMMA CheckNegativeStep ==
  ASSUME IInv, NEW v \in Validators, CheckNegative(v)
  PROVE  IInv' /\ [V!Next]_V!vars
<1>. DEFINE m == asked[v]
            n == IF Verifies(m.ev, keys[v]) THEN Tries(m.proof) ELSE 0
            d == IF Afford(v, m.ev.tries + n) /\ Verifies(m.ev, keys[v])
                   THEN Denies(m.name, m.type, m.proof, keys[v]) ELSE "Bogus"
<1>1. /\ pc[v] = "trusted" /\ m.kind = "negative"
      /\ Spend(v, m.ev.tries + n) /\ Return(v, d)
      /\ UNCHANGED <<caches, plain>>
  BY DEF CheckNegative, Negative
<1>2. /\ m \in Jobs /\ ~refused[v] /\ m.soa # None /\ target[v] = m.soa
      /\ keys[v] \subseteq KeysOf[m.soa]
  BY <1>1, AtHand, TargetFacts DEF IInv, VInv, Chained, Walking
<1>3. m \in NegativeJob
  BY <1>1, <1>2, JobFacts
<1>4. m.ev.tries + n \in Nat
  <2>1. m.ev.tries \in Nat /\ m.proof \in Proof
    BY <1>3 DEF NegativeJob, Evidence
  <2>2. n \in Nat
    BY <2>1, TriesFacts
  <2>. HIDE DEF n, m
  <2>. QED BY <2>1, <2>2
<1>5. CachesWell /\ SpentWell(v) /\ refused'[v] = ~Afford(v, m.ev.tries + n)
  <2>1. plain' \in [Validators -> BOOLEAN]
    BY <1>1 DEF IInv, TypeOK
  <2>2. SpentWell(v) /\ refused'[v] = (refused[v] \/ ~Afford(v, m.ev.tries + n))
    <3>. HIDE DEF n, m
    <3>. QED BY <1>1, <1>4, <2>1, BudgetSpent
  <2>. QED BY <1>1, <1>2, <2>2, CachesSame
<1>6. d \in {"Secure", "InsecureUnsigned"} => SignedDenial(m) /\ Content(m.name, m.type, m.proof) = d
  <2>1. SUFFICES ASSUME d \in {"Secure", "InsecureUnsigned"}
                 PROVE  SignedDenial(m) /\ Content(m.name, m.type, m.proof) = d
    OBVIOUS
  <2>2. Verifies(m.ev, keys[v]) /\ d = Denies(m.name, m.type, m.proof, keys[v])
    BY <2>1
  <2>3. /\ m.proof.ev.sigs \cap keys[v] # {}
        /\ Content(m.name, m.type, m.proof) = d
    BY <2>1, <2>2, DeniesFacts
  <2>. QED BY <1>2, <2>2, <2>3 DEF SignedDenial, Verifies
<1>7. d \in Verdicts
  BY DEF Verdicts, Denies, UpFront, Content, NsecVerdict, Nsec3Verdict, Nxdomain3
<1>8. /\ d = "Secure" => Signed(m)
      /\ d = "InsecureUnsigned" => Insecure(m)
  BY <1>1, <1>6 DEF Signed, Insecure, InsecureIn
<1>9. refused'[v] => d \in {"Bogus", "InsecureUnknown"}
  BY <1>5
<1>. HIDE DEF d
<1>. QED BY <1>1, <1>5, <1>7, <1>8, <1>9, Returns

LEMMA ExpireStep ==
  ASSUME IInv, NEW z \in Names, Expire(z)
  PROVE  IInv' /\ [V!Next]_V!vars
<1>1. /\ UNCHANGED <<asked, verdict, pc, at, cand, trusted, target, pos, keys, ds,
                     used, refused, plain>>
      /\ keyCache' \in [Names -> {None} \cup SUBSET Keys]
      /\ memo' \in [Names -> {None, "Signed", "Unsigned"}]
  BY DEF IInv, TypeOK, Expire, calls, walk, history
<1>2. KeysGenuine' /\ MemoTrue'
  BY NoneAssumption DEF IInv, TypeOK, KeysGenuine, MemoTrue, Expire
<1>3. TypeOK'
  BY <1>1 DEF IInv, TypeOK
<1>4. \A w \in Validators : Local(w)' = Local(w)
  BY <1>1 DEF Local
<1>5. \A w \in Validators : VInv(w)'
  BY <1>4, OthersKeep DEF IInv
<1>. QED BY <1>1, <1>2, <1>3, <1>5 DEF IInv, V!vars

-----------------------------------------------------------------------------
(* The verdict of a validation that was told only what is whole *)

\* What is above a zone, other than the zone, is above its parent.
LEMMA ZoneOfBase ==
  ASSUME NEW d \in Names, NEW a \in Names, a # Root, ZoneOf(d, a), d # a
  PROVE  ZoneOf(d, Base(a))
<1>1. /\ a \in Seq(Nat) /\ d \in Seq(Nat) /\ Len(a) \in Nat \ {0} /\ Len(d) \in Nat
  BY AncestorEnds DEF Root
<1>2. Len(d) <= Len(a) /\ d = SubSeq(a, Len(a) - Len(d) + 1, Len(a))
  BY DEF ZoneOf
<1>3. SubSeq(a, 1, Len(a)) = a
  BY <1>1, SubSeqFull
<1>4. Len(d) < Len(a)
  <2>1. ASSUME Len(d) = Len(a) PROVE FALSE
    <3>1. Len(a) - Len(d) + 1 = 1
      BY <1>1, <2>1
    <3>. QED BY <1>2, <1>3, <3>1
  <2>. QED BY <1>1, <1>2, <2>1
<1>5. Base(a) = SubSeq(a, 2, Len(a)) /\ Len(Base(a)) = Len(a) - 1
  <2>1. 1 \in 1..Len(a) /\ Len(a) \in 1..Len(a)
    BY <1>1
  <2>2. Tail(SubSeq(a, 1, Len(a))) = SubSeq(a, 1 + 1, Len(a))
    BY <1>1, <2>1, HeadTailOfSubSeq
  <2>3. Len(Tail(a)) = Len(a) - 1
    BY <1>1
  <2>. QED BY <1>3, <2>2, <2>3 DEF Base
<1>6. CASE Len(d) = 0
  <2>1. Base(a) \in Seq(Nat)
    BY <1>1 DEF Base, Root
  <2>2. SubSeq(Base(a), Len(Base(a)) + 1, Len(Base(a))) = <<>>
    BY <2>1, SubSeqEmpty
  <2>3. d = <<>> /\ Len(Base(a)) - Len(d) + 1 = Len(Base(a)) + 1 /\ Len(d) <= Len(Base(a))
    BY <1>1, <1>5, <1>6
  <2>. QED BY <2>2, <2>3 DEF ZoneOf
<1>7. CASE Len(d) > 0
  <2>. DEFINE m == (Len(a) - 1) - Len(d) + 1
              n == Len(a) - 1
  <2>1. /\ 2 \in 1..Len(a) /\ Len(a) \in 1..Len(a)
        /\ m \in 1..(Len(a) - 2 + 1) /\ n \in 1..(Len(a) - 2 + 1)
        /\ 2 + m - 1 = Len(a) - Len(d) + 1 /\ 2 + n - 1 = Len(a)
    BY <1>1, <1>4, <1>7
  <2>2. SubSeq(SubSeq(a, 2, Len(a)), m, n) = SubSeq(a, 2 + m - 1, 2 + n - 1)
    <3>. HIDE DEF m, n
    <3>. QED BY <1>1, <2>1, SubSeqOfSubSeq
  <2>3. d = SubSeq(Base(a), m, n)
    BY <1>2, <1>5, <2>1, <2>2
  <2>4. m = Len(Base(a)) - Len(d) + 1 /\ n = Len(Base(a)) /\ Len(d) <= Len(Base(a))
    BY <1>1, <1>4, <1>5
  <2>. HIDE DEF m, n
  <2>. QED BY <2>3, <2>4 DEF ZoneOf
<1>. QED BY <1>1, <1>6, <1>7

\* Below a zone that is secured only a missing DS ends the chain.
LEMMA SecuredBelow ==
  ASSUME NEW z \in Names, NEW p \in 1..Len(z),
         ~Unsecured(Ancestor(z, p - 1)), Ancestor(z, p) \notin NoDs
  PROVE  ~Unsecured(Ancestor(z, p))
<1>. DEFINE a == Ancestor(z, p)
<1>1. a \in Names /\ a # Root /\ Base(a) = Ancestor(z, p - 1)
  <2>1. Len(z) \in Nat
    BY AncestorEnds
  <2>. QED BY <2>1, AncestorFacts, BaseOfAncestor
<1>2. ASSUME NEW d \in NoDs, ZoneOf(d, a)
      PROVE  FALSE
  <2>1. d \in Names /\ d # a
    BY TrustAssumption
  <2>2. ZoneOf(d, Base(a))
    BY <1>1, <1>2, <2>1, ZoneOfBase
  <2>. QED BY <1>1, <2>2 DEF Unsecured
<1>. QED BY <1>2 DEF Unsecured

LEMMA RootSecured ==
  ASSUME Steady
  PROVE  ~Unsecured(Root)
<1>1. ASSUME NEW d \in NoDs, ZoneOf(d, Root)
      PROVE  FALSE
  <2>1. d \in Seq(Nat) /\ Len(d) \in Nat
    BY TrustAssumption, AncestorEnds
  <2>2. Len(d) = 0
    BY <1>1, <2>1 DEF ZoneOf, Root
  <2>3. d = Root
    BY <2>1, <2>2 DEF Root
  <2>. QED BY <2>3 DEF Steady
<1>. QED BY <1>1 DEF Unsecured

\* True records of the zone above deny no DS that there is.
LEMMA TrueNsecDenial ==
  ASSUME NEW z, NEW recs, \A r \in recs : TrueNsec(r, z)
  PROVE  NsecVerdict(z, "DS", recs) = "Bogus"
<1>1. ~NsecNodata(z, "DS", recs)
  BY DEF NsecNodata, At, Lacks, TrueNsec
<1>2. ~Covered(recs, z)
  BY DEF Covered, TrueNsec
<1>. QED BY <1>1, <1>2 DEF NsecVerdict, NsecWildcardNodata, NsecNxdomain

LEMMA TrueNsec3Denial ==
  ASSUME NEW z \in Names \ {Root}, NEW recs, \A r \in recs : TrueNsec3(r, z)
  PROVE  Nsec3Verdict(z, "DS", recs) = "Bogus"
<1>. DEFINE found == Enclosers3(z, "DS", recs)
            c     == Longest(found)
<1>1. /\ z \in Seq(Nat) /\ Len(z) \in Nat \ {0} /\ Ancestor(z, Len(z)) = z
      /\ Base(z) = Ancestor(z, Len(z) - 1) /\ Len(Base(z)) = Len(z) - 1
  <2>1. z \in Seq(Nat) /\ Len(z) \in Nat \ {0} /\ Ancestor(z, Len(z)) = z
    BY AncestorEnds DEF Root
  <2>2. Len(z) \in 1..Len(z) /\ Len(z) - 1 \in 0..Len(z)
    BY <2>1
  <2>3. Base(z) = Ancestor(z, Len(z) - 1)
    BY <2>1, <2>2, BaseOfAncestor
  <2>. QED BY <2>1, <2>2, <2>3, AncestorFacts
<1>2. \A r \in At3(recs, z) : ~Lacks(r, "DS")
  BY DEF At3, At, Lacks, TrueNsec3
<1>3. z \in Tried(z)
  <2>1. Len(z) \in 0..Len(z) /\ Len(z) - Len(z) < EncloserSteps
    BY <1>1, TrustAssumption
  <2>. QED BY <1>1, <2>1 DEF Tried
<1>4. \A n \in Tried(z) : At3(recs, n) # {} => n \in {z, Base(z)}
  <2>1. ASSUME NEW p \in 0..Len(z), At3(recs, Ancestor(z, p)) # {}
        PROVE  p = Len(z) \/ p = Len(z) - 1
    <3>1. PICK r \in recs : r.owner = Hash[Ancestor(z, p)]
      BY <2>1 DEF At3, At
    <3>2. p + 1 >= Len(z)
      BY <3>1 DEF TrueNsec3
    <3>. QED BY <1>1, <3>2
  <2>. QED BY <1>1, <2>1 DEF Tried
<1>5. CASE At3(recs, z) # {}
  <2>1. z \in found /\ found \subseteq {z, Base(z)}
    BY <1>3, <1>4, <1>5 DEF Enclosers3
  <2>2. c = z
    <3>1. \A m \in found : Len(m) <= Len(z)
      BY <1>1, <2>1
    <3>2. ~(Len(z) <= Len(Base(z)))
      BY <1>1
    <3>. HIDE DEF found
    <3>. QED BY <2>1, <3>1, <3>2 DEF Longest
  <2>. HIDE DEF found, c
  <2>. QED BY <1>2, <2>2 DEF Nsec3Verdict, found, c
<1>6. CASE At3(recs, z) = {}
  <2>1. found = {Base(z)}
    BY <1>4, <1>6 DEF Enclosers3
  <2>2. c = Base(z)
    <3>. HIDE DEF found
    <3>. QED BY <2>1 DEF Longest
  <2>3. At3(recs, Wildcard(Base(z))) = {}
    BY DEF At3, At, TrueNsec3
  <2>4. NextCloser(z, Base(z)) = z
    BY <1>1 DEF NextCloser
  <2>5. \A r \in recs : ~Covers3(r, Hash[z])
    BY <1>6 DEF At3, At, TrueNsec3
  <2>6. Nxdomain3(z, "DS", Base(z), recs) = "Bogus"
    BY <2>4, <2>5 DEF Nxdomain3
  <2>. HIDE DEF found, c
  <2>. QED BY <1>6, <2>2, <2>3, <2>6 DEF Nsec3Verdict, found, c
<1>. QED BY <1>5, <1>6

\* So none but a zone without DS is read to be one.
LEMMA ReadsTrue ==
  ASSUME RecordsTrue, NEW n \in Names
  PROVE  ReadsUnsecured(n) <=> Unsecured(n)
<1>1. ASSUME NEW z \in Names \ {Root}, z \notin NoDs, NEW r \in DsReplies[z] \ {None},
             Denies(z, "DS", r.proof, KeysOf[Base(z)]) \in {"Secure", "InsecureUnsigned"}
      PROVE  FALSE
  <2>1. /\ Verifies(r.proof.ev, KeysOf[Base(z)])
        /\ Content(z, "DS", r.proof) \in {"Secure", "InsecureUnsigned"}
    BY <1>1, DeniesFacts DEF Verifies
  <2>2. \A rec \in r.proof.recs :
          IF r.proof.kind = "nsec" THEN TrueNsec(rec, z) ELSE TrueNsec3(rec, z)
    BY <1>1, <2>1 DEF RecordsTrue
  <2>3. Content(z, "DS", r.proof) = "Bogus"
    BY <2>2, TrueNsecDenial, TrueNsec3Denial DEF Content
  <2>. QED BY <2>1, <2>3
<1>2. \A z \in Names : MissingDs(z) => z \in NoDs
  BY <1>1 DEF MissingDs
<1>3. \A z \in NoDs : z \in Names /\ MissingDs(z)
  BY TrustAssumption DEF MissingDs
<1>. QED BY <1>2, <1>3 DEF ReadsUnsecured, Unsecured

\* Nothing was told but what is whole, and no check was refused.
Undisturbed(v) == plain[v] /\ ~refused[v]

\* With a steady world the key cache holds all the keys of secured zones alone,
\* and only such zones are remembered as signed.
KeysWhole   == \A z \in Names : keyCache[z] # None => keyCache[z] = KeysOf[z] /\ ~Unsecured(z)
MemoSecured == \A n \in Names : memo[n] = "Signed" => ~Unsecured(n)

\* A chain has come down through secured zones.
Secured(v) ==
  /\ pc[v] \in {"walk", "ds"} /\ pos[v] # 0 =>
       /\ keys[v] = KeysOf[Ancestor(target[v], pos[v] - 1)]
       /\ ~Unsecured(Ancestor(target[v], pos[v] - 1))
  /\ pc[v] = "dnskey" => ~Unsecured(Zone(v))
  /\ pc[v] = "trusted" => keys[v] = KeysOf[target[v]] /\ ~Unsecured(target[v])

\* Told what is whole, it breaks only where that does not lead on.
Straight(v) ==
  Undisturbed(v) =>
    /\ pc[v] = "dnskey" => ds[v] = IF pos[v] = 0 THEN Anchors ELSE WholeDs[Zone(v)].ds
    /\ pc[v] = "broken" => ~Served(target[v])

\* The RRsets before the one at hand were Secure; of that, the signatures before
\* the one at hand led to no zone that made it.
Passed(v) == \A i \in 1..(at[v] - 1) : RRsetDue(asked[v].rrsets[i]) = "Secure"
Looked(v) ==
  IF RR(v).sigs = <<>> THEN target[v] = ApexOf[RR(v).owner]
  ELSE /\ \A i \in SecureSigs(RR(v)) : i < cand[v] =>
            trusted[v] /\ RR(v).sigs[i].by \notin KeysOf[RR(v).sigs[i].signer]
       /\ trusted[v] => SecureSigs(RR(v)) # {}

Judged(v) ==
  Undisturbed(v) /\ pc[v] # "idle" /\ MessageServed(asked[v]) =>
    /\ pc[v] \in {"rrset", "apex"} \cup Walking /\ asked[v].kind = "answer" => Passed(v)
    /\ pc[v] \in Walking /\ asked[v].kind = "answer" => Looked(v)
    /\ pc[v] = "done" => verdict[v] = MessageDue(asked[v])

WInv(v) == Secured(v) /\ Straight(v) /\ Judged(v)

JInv == KeysWhole /\ MemoSecured /\ \A v \in Validators : WInv(v)

\* A step of one validation leaves the others what they are.
LEMMA OthersJudged ==
  ASSUME NEW w \in Validators, WInv(w), Local(w)' = Local(w), plain'[w] = plain[w]
  PROVE  WInv(w)'
<1>1. /\ asked'[w] = asked[w] /\ verdict'[w] = verdict[w] /\ pc'[w] = pc[w]
      /\ at'[w] = at[w] /\ cand'[w] = cand[w] /\ trusted'[w] = trusted[w]
      /\ target'[w] = target[w] /\ pos'[w] = pos[w] /\ keys'[w] = keys[w]
      /\ ds'[w] = ds[w] /\ refused'[w] = refused[w]
  BY DEF Local
<1>2. RR(w)' = RR(w) /\ Zone(w)' = Zone(w) /\ Undisturbed(w)' = Undisturbed(w)
  BY <1>1 DEF RR, Zone, Undisturbed
<1>3. Secured(w)'
  BY <1>1, <1>2 DEF WInv, Secured
<1>4. Straight(w)'
  BY <1>1, <1>2 DEF WInv, Straight
<1>5. Judged(w)'
  <2>1. Passed(w)' = Passed(w) /\ Looked(w)' = Looked(w)
    BY <1>1, <1>2 DEF Passed, Looked
  <2>. QED BY <1>1, <1>2, <2>1 DEF WInv, Judged, Walking
<1>. QED BY <1>3, <1>4, <1>5 DEF WInv

LEMMA JudgedOn ==
  ASSUME JInv, NEW v \in Validators, KeysWhole', MemoSecured', WInv(v)',
         \A w \in Validators \ {v} : Local(w)' = Local(w) /\ plain'[w] = plain[w]
  PROVE  JInv'
<1>1. \A w \in Validators : WInv(w)'
  BY OthersJudged DEF JInv
<1>. QED BY <1>1 DEF JInv

\* The verdict of a message is that of its first RRset that is not Secure.
LEMMA FirstDue ==
  ASSUME IInv, JInv, NEW v \in Validators, pc[v] \in {"rrset", "apex"} \cup Walking,
         asked[v].kind = "answer", Passed(v)
  PROVE  /\ RRsetDue(RR(v)) # "Secure" => MessageDue(asked[v]) = RRsetDue(RR(v))
         /\ RRsetDue(RR(v)) = "Secure" /\ at[v] = Len(asked[v].rrsets) =>
              MessageDue(asked[v]) = IF asked[v].end = "data" THEN "Secure" ELSE "InsecureUnknown"
<1>. DEFINE rrsets == asked[v].rrsets
            others == {i \in DOMAIN rrsets : RRsetDue(rrsets[i]) # "Secure"}
<1>1. /\ asked[v] \in Jobs /\ AtOnce(asked[v]) = None
      /\ at[v] \in 1..Len(rrsets) /\ Len(rrsets) \in Nat /\ at[v] \in DOMAIN rrsets
      /\ DOMAIN rrsets = 1..Len(rrsets)
  BY AtHand, JobFacts
<1>2. MessageDue(asked[v]) =
        IF others # {} THEN RRsetDue(rrsets[NextCandidate(others)])
        ELSE IF asked[v].end = "data" THEN "Secure" ELSE "InsecureUnknown"
  BY <1>1 DEF MessageDue
<1>3. ASSUME RRsetDue(RR(v)) # "Secure"
      PROVE  MessageDue(asked[v]) = RRsetDue(RR(v))
  <2>1. at[v] \in others
    BY <1>1, <1>3 DEF RR
  <2>2. \A i \in others : at[v] <= i
    <3>1. ASSUME NEW i \in others PROVE at[v] <= i
      <4>1. i \in 1..Len(rrsets) /\ i \notin 1..(at[v] - 1)
        BY <1>1 DEF Passed
      <4>. QED BY <1>1, <4>1
    <3>. QED BY <3>1
  <2>3. \A i \in others : i \in Nat
    BY <1>1
  <2>. HIDE DEF others
  <2>4. NextCandidate(others) = at[v]
    BY <2>1, <2>2, <2>3 DEF NextCandidate
  <2>. QED BY <1>2, <2>1, <2>4 DEF RR
<1>4. ASSUME RRsetDue(RR(v)) = "Secure", at[v] = Len(rrsets)
      PROVE  MessageDue(asked[v]) = IF asked[v].end = "data" THEN "Secure" ELSE "InsecureUnknown"
  <2>1. others = {}
    <3>1. ASSUME NEW i \in DOMAIN rrsets PROVE RRsetDue(rrsets[i]) = "Secure"
      <4>1. i = at[v] \/ i \in 1..(at[v] - 1)
        BY <1>1, <1>4
      <4>. QED BY <1>4, <4>1 DEF Passed, RR
    <3>. QED BY <3>1
  <2>. HIDE DEF others
  <2>. QED BY <1>2, <2>1
<1>. QED BY <1>3, <1>4

\* The step ends the validation with the verdict that is due.
LEMMA ReturnsDue ==
  ASSUME IInv, JInv, NEW v \in Validators, NEW d, Return(v, d),
         KeysWhole', MemoSecured', SpentWell(v),
         \A w \in Validators \ {v} : plain'[w] = plain[w],
         Undisturbed(v)' /\ MessageServed(asked[v]) => d = MessageDue(asked[v])
  PROVE  JInv'
<1>1. pc'[v] = "done" /\ verdict'[v] = d /\ asked'[v] = asked[v]
  BY DEF IInv, TypeOK, Return, Goto
<1>2. WInv(v)'
  BY <1>1 DEF WInv, Secured, Straight, Judged, Walking
<1>3. \A w \in Validators \ {v} : Local(w)' = Local(w)
  BY DEF IInv, TypeOK, Return, Goto, Enter, Begin, SpentWell, Local
<1>. QED BY <1>2, <1>3, JudgedOn

\* A chain is begun.
LEMMA WalksDue ==
  ASSUME IInv, JInv, NEW v \in Validators, NEW z \in Names, Walk(v, z),
         UNCHANGED <<asked, verdict, at>>,
         \A w \in Validators \ {v} : cand'[w] = cand[w] /\ trusted'[w] = trusted[w]
                                     /\ plain'[w] = plain[w],
         KeysWhole', MemoSecured', SpentWell(v),
         Undisturbed(v)' /\ MessageServed(asked[v]) /\ asked[v].kind = "answer"
           => Passed(v) /\ Looked(v)'
  PROVE  JInv'
<1>1. pc'[v] = "walk" /\ pos'[v] = 0
  BY DEF IInv, TypeOK, Walk, Enter, Goto
<1>2. Passed(v)' = Passed(v)
  BY DEF Passed
<1>3. WInv(v)'
  BY <1>1, <1>2 DEF WInv, Secured, Straight, Judged
<1>4. \A w \in Validators \ {v} : Local(w)' = Local(w)
  BY DEF IInv, TypeOK, Walk, Goto, Enter, SpentWell, Local
<1>. QED BY <1>3, <1>4, JudgedOn

\* The next signature of an RRset is looked at; those left out led nowhere.
LEMMA TriesDue ==
  ASSUME IInv, JInv, NEW v \in Validators, pc[v] \in {"rrset", "apex"} \cup Walking,
         asked[v].kind = "answer", NEW S \in SUBSET Candidates(RR(v)), S # {},
         NEW any \in BOOLEAN, Try(v, S, any), KeysWhole', MemoSecured', SpentWell(v),
         \A w \in Validators \ {v} : plain'[w] = plain[w],
         Undisturbed(v)' /\ MessageServed(asked[v]) =>
           /\ Passed(v)
           /\ \A i \in SecureSigs(RR(v)) \ S :
                any /\ RR(v).sigs[i].by \notin KeysOf[RR(v).sigs[i].signer]
           /\ any => SecureSigs(RR(v)) # {}
  PROVE  JInv'
<1>. DEFINE c == NextCandidate(S)
<1>1. RR(v) \in RRset
  BY AtHand
<1>2. c \in S /\ \A i \in S : c <= i
  BY <1>1, NextCandidateFacts
<1>3. c \in Nat /\ RR(v).sigs[c].signer \in Names /\ \A i \in Candidates(RR(v)) : i \in Nat
  BY <1>1, <1>2, CandidateFacts
<1>4. RR(v).sigs # <<>>
  BY <1>2 DEF Candidates
<1>5. /\ UNCHANGED <<asked, verdict, at>> /\ Walk(v, RR(v).sigs[c].signer)
      /\ cand'[v] = c /\ trusted'[v] = any
      /\ \A w \in Validators \ {v} : cand'[w] = cand[w] /\ trusted'[w] = trusted[w]
  BY DEF IInv, TypeOK, Try
<1>6. RR(v)' = RR(v)
  BY <1>5 DEF RR
<1>. HIDE DEF c
<1>7. \A i \in SecureSigs(RR(v)) : i < c => i \notin S
  BY <1>2, <1>3 DEF SecureSigs
<1>8. Undisturbed(v)' /\ MessageServed(asked[v]) => Passed(v) /\ Looked(v)'
  BY <1>4, <1>5, <1>6, <1>7 DEF Looked
<1>. QED BY <1>3, <1>5, <1>8, WalksDue

LEMMA TriesNextDue ==
  ASSUME IInv, JInv, NEW v \in Validators, pc[v] \in Walking, Checking(v),
         NEW any \in BOOLEAN, TryNext(v, any), KeysWhole', MemoSecured', SpentWell(v),
         \A w \in Validators \ {v} : plain'[w] = plain[w],
         Undisturbed(v)' /\ MessageServed(asked[v]) =>
           /\ Passed(v)
           /\ \A i \in SecureSigs(RR(v)) : i <= cand[v] =>
                any /\ RR(v).sigs[i].by \notin KeysOf[RR(v).sigs[i].signer]
           /\ any => SecureSigs(RR(v)) # {}
  PROVE  JInv'
<1>. DEFINE others == {i \in Candidates(RR(v)) : i > cand[v]}
<1>1. asked[v].kind = "answer" /\ RR(v).sigs # <<>> /\ RR(v) \in RRset
  BY AtHand DEF Checking, Negative
<1>2. cand[v] \in Candidates(RR(v)) /\ \A i \in Candidates(RR(v)) : i \in Nat
  BY <1>1, TargetFacts, CandidateFacts
<1>3. \A i \in SecureSigs(RR(v)) : i \in others \/ i <= cand[v]
  BY <1>2 DEF SecureSigs
<1>4. CASE others # {} /\ Try(v, others, any)
  <2>1. others \in SUBSET Candidates(RR(v))
    OBVIOUS
  <2>. HIDE DEF others
  <2>. QED BY <1>1, <1>3, <1>4, <2>1, TriesDue
<1>5. CASE others = {} /\ Return(v, IF any THEN "Bogus" ELSE "InsecureUnsigned")
  <2>. DEFINE d == IF any THEN "Bogus" ELSE "InsecureUnsigned"
  <2>1. ASSUME Undisturbed(v)' /\ MessageServed(asked[v])
        PROVE  d = MessageDue(asked[v])
    <3>1. /\ \A i \in SecureSigs(RR(v)) : any /\ RR(v).sigs[i].by \notin KeysOf[RR(v).sigs[i].signer]
          /\ any => SecureSigs(RR(v)) # {}
          /\ Passed(v)
      <4>. HIDE DEF others
      <4>. QED BY <1>3, <1>5, <2>1
    <3>2. RRsetDue(RR(v)) = d
      BY <1>1, <1>2, <3>1 DEF RRsetDue
    <3>. QED BY <1>1, <3>1, <3>2, FirstDue
  <2>. HIDE DEF d
  <2>2. Return(v, d)
    BY <1>5 DEF d
  <2>. QED BY <2>1, <2>2, ReturnsDue
<1>. QED BY <1>4, <1>5 DEF TryNext

\* A chain moves on to an answer, or to its end without keys.
LEMMA GoesDue ==
  ASSUME IInv, JInv, NEW v \in Validators, NEW p \in {"ds", "dnskey", "unsigned", "broken"},
         Goto(v, p), pc[v] \in Walking,
         UNCHANGED <<asked, verdict, at, cand, trusted, target, pos, keys>>,
         \A w \in Validators \ {v} : ds'[w] = ds[w] /\ plain'[w] = plain[w],
         KeysWhole', MemoSecured', SpentWell(v),
         Undisturbed(v)' => Undisturbed(v),
         p = "ds" /\ pos[v] # 0 => /\ keys[v] = KeysOf[Ancestor(target[v], pos[v] - 1)]
                                   /\ ~Unsecured(Ancestor(target[v], pos[v] - 1)),
         p = "dnskey" => /\ ~Unsecured(Zone(v))
                         /\ Undisturbed(v)' =>
                              ds'[v] = IF pos[v] = 0 THEN Anchors ELSE WholeDs[Zone(v)].ds,
         p = "broken" /\ Undisturbed(v)' => ~Served(target[v])
  PROVE  JInv'
<1>1. pc'[v] = p
  BY DEF IInv, TypeOK, Goto
<1>2. RR(v)' = RR(v) /\ Zone(v)' = Zone(v)
  BY DEF RR, Zone
<1>3. Passed(v)' = Passed(v) /\ Looked(v)' = Looked(v)
  BY <1>2 DEF Passed, Looked
<1>4. Secured(v)'
  BY <1>1, <1>2 DEF Secured
<1>5. Straight(v)'
  BY <1>1, <1>2 DEF Straight
<1>6. Judged(v)'
  BY <1>1, <1>3 DEF JInv, WInv, Judged, Walking
<1>7. \A w \in Validators \ {v} : Local(w)' = Local(w)
  BY DEF IInv, TypeOK, Goto, SpentWell, Local
<1>. QED BY <1>4, <1>5, <1>6, <1>7, JudgedOn DEF WInv

\* All the keys of the zone at hand are known.
LEMMA ReachesDue ==
  ASSUME IInv, JInv, NEW v \in Validators, pc[v] \in {"walk", "dnskey"},
         NEW ks, ks = KeysOf[Zone(v)], ~Unsecured(Zone(v)), Reached(v, ks),
         UNCHANGED <<asked, verdict, at, cand, trusted, target>>,
         \A w \in Validators \ {v} : ds'[w] = ds[w] /\ plain'[w] = plain[w],
         KeysWhole', MemoSecured', SpentWell(v), Undisturbed(v)' => Undisturbed(v)
  PROVE  JInv'
<1>1. /\ Len(target[v]) \in Nat /\ pos[v] \in 0..Len(target[v])
      /\ pos[v] = Len(target[v]) => Zone(v) = target[v]
  BY ZoneFacts
<1>2. keys'[v] = ks
  BY DEF IInv, TypeOK, Reached
<1>3. \/ pos[v] = Len(target[v]) /\ pc'[v] = "trusted"
      \/ pc'[v] = "walk" /\ pos'[v] = pos[v] + 1
  BY DEF IInv, TypeOK, Reached, Goto
<1>4. RR(v)' = RR(v) /\ Passed(v)' = Passed(v)
  BY DEF RR, Passed
<1>5. Looked(v)' = Looked(v)
  BY <1>4 DEF Looked
<1>6. Secured(v)'
  <2>1. CASE pc'[v] = "trusted"
    BY <1>1, <1>2, <1>3, <2>1 DEF Secured
  <2>2. CASE pc'[v] = "walk"
    <3>1. pos'[v] - 1 = pos[v]
      BY <1>1, <1>3, <2>2
    <3>. QED BY <1>2, <2>2, <3>1 DEF Secured, Zone
  <2>. QED BY <1>3, <2>1, <2>2
<1>7. Straight(v)'
  BY <1>3 DEF Straight
<1>8. Judged(v)'
  BY <1>3, <1>4, <1>5 DEF JInv, WInv, Judged, Walking
<1>9. \A w \in Validators \ {v} : Local(w)' = Local(w)
  BY DEF IInv, TypeOK, Reached, Goto, SpentWell, Local
<1>. QED BY <1>6, <1>7, <1>8, <1>9, JudgedOn DEF WInv

\* Nothing but the way of v has changed.
LEMMA CachesKept ==
  ASSUME JInv, UNCHANGED caches
  PROVE  KeysWhole' /\ MemoSecured'
BY DEF JInv, KeysWhole, MemoSecured, caches

\* A step over caches and budget as they are.
LEMMA QuietDue ==
  ASSUME IInv, JInv, NEW v \in Validators, UNCHANGED <<caches, used, refused>>,
         plain' = plain
  PROVE  /\ KeysWhole' /\ MemoSecured' /\ SpentWell(v)
         /\ Undisturbed(v)' = Undisturbed(v)
         /\ \A w \in Validators \ {v} : plain'[w] = plain[w]
<1>1. plain' \in [Validators -> BOOLEAN]
  BY DEF IInv, TypeOK
<1>. QED BY <1>1, CachesKept, BudgetSame DEF Undisturbed

LEMMA AskDue ==
  ASSUME IInv, JInv, NEW v \in Validators, NEW m \in Jobs, Ask(v, m)
  PROVE  JInv'
<1>1. pc'[v] = "called"
  BY DEF IInv, TypeOK, Ask, Goto
<1>2. WInv(v)'
  BY <1>1 DEF WInv, Secured, Straight, Judged, Walking
<1>3. \A w \in Validators \ {v} : Local(w)' = Local(w) /\ plain'[w] = plain[w]
  BY DEF IInv, TypeOK, Ask, Goto, walk, Local
<1>4. KeysWhole' /\ MemoSecured'
  BY CachesKept DEF Ask
<1>. QED BY <1>2, <1>3, <1>4, JudgedOn

LEMMA DispatchDue ==
  ASSUME IInv, JInv, NEW v \in Validators, Dispatch(v)
  PROVE  JInv'
<1>1. /\ pc[v] = "called" /\ asked[v] \in Jobs /\ at[v] = 1
      /\ UNCHANGED <<caches, used, refused>> /\ plain' = plain
  BY DEF IInv, VInv, Called, Dispatch, history
<1>2. /\ KeysWhole' /\ MemoSecured' /\ SpentWell(v)
      /\ \A w \in Validators \ {v} : plain'[w] = plain[w]
  BY <1>1, QuietDue
<1>3. CASE AtOnce(asked[v]) # None /\ Return(v, AtOnce(asked[v]))
  <2>1. MessageDue(asked[v]) = AtOnce(asked[v])
    BY <1>3 DEF MessageDue
  <2>. QED BY <1>2, <1>3, <2>1, ReturnsDue
<1>4. CASE /\ asked[v].kind = "answer"
           /\ Goto(v, "rrset") /\ UNCHANGED <<verdict, calls, walk>>
  <2>1. pc'[v] = "rrset" /\ at'[v] = 1
    BY <1>1, <1>4 DEF IInv, TypeOK, Goto, calls
  <2>2. WInv(v)'
    BY <2>1 DEF WInv, Secured, Straight, Judged, Passed, Walking
  <2>3. \A w \in Validators \ {v} : Local(w)' = Local(w)
    BY <1>2, <1>4 DEF IInv, TypeOK, Goto, SpentWell, Local, calls, walk
  <2>. QED BY <1>2, <2>2, <2>3, JudgedOn
<1>5. CASE /\ AtOnce(asked[v]) = None /\ asked[v].kind = "negative"
           /\ Walk(v, asked[v].soa) /\ UNCHANGED <<verdict, calls>>
  <2>1. asked[v].soa \in Names
    BY <1>1, <1>5, LaterFacts
  <2>2. UNCHANGED <<asked, at, cand, trusted, verdict>>
    BY <1>5 DEF calls
  <2>. QED BY <1>2, <1>5, <2>1, <2>2, WalksDue
<1>. QED BY <1>3, <1>4, <1>5 DEF Dispatch

\* What an undisturbed validation at an RRset knows of it.
LEMMA PassedFacts ==
  ASSUME IInv, JInv, NEW v \in Validators, pc[v] \in {"rrset", "apex"} \cup Walking,
         Undisturbed(v), MessageServed(asked[v])
  PROVE  /\ asked[v].kind = "answer" =>
              /\ Passed(v) /\ RRsetServed(RR(v))
              /\ pc[v] \in Walking => Looked(v)
         /\ asked[v].kind = "negative" => Served(asked[v].soa)
<1>1. /\ AtOnce(asked[v]) = None
      /\ asked[v].kind = "answer" => at[v] \in DOMAIN asked[v].rrsets
  BY AtHand
<1>2. asked[v].kind = "answer" => RRsetServed(RR(v))
  BY <1>1 DEF MessageServed, RR
<1>3. asked[v].kind = "negative" => Served(asked[v].soa)
  BY <1>1 DEF MessageServed
<1>4. asked[v].kind = "answer" => Passed(v) /\ (pc[v] \in Walking => Looked(v))
  BY DEF JInv, WInv, Judged, Walking
<1>. QED BY <1>2, <1>3, <1>4

LEMMA UnprovenDue ==
  ASSUME Steady, IInv, JInv, NEW v \in Validators, Unproven(v)
  PROVE  JInv'
<1>1. pc[v] = "rrset" /\ asked[v].kind = "answer" /\ RR(v).sigs = <<>>
  BY DEF IInv, VInv, Called, Unproven
<1>2. RR(v) \in RRset /\ RR(v).owner \in Names
  BY <1>1, AtHand DEF RRset
<1>3. UNCHANGED <<caches, used, refused>> /\ plain' = plain
  BY DEF Unproven, history
<1>4. /\ KeysWhole' /\ MemoSecured' /\ SpentWell(v)
      /\ Undisturbed(v)' = Undisturbed(v)
      /\ \A w \in Validators \ {v} : plain'[w] = plain[w]
  BY <1>3, QuietDue
<1>5. CASE Known(RR(v).owner) = "Signed" /\ Return(v, "Bogus")
  <2>1. ~Unsecured(RR(v).owner)
    <3>1. memo[RR(v).owner] = "Signed"
      BY <1>5, NoneAssumption DEF Known
    <3>. QED BY <1>2, <3>1 DEF JInv, MemoSecured
  <2>2. ASSUME Undisturbed(v), MessageServed(asked[v])
        PROVE  MessageDue(asked[v]) = "Bogus"
    <3>1. Passed(v) /\ ~Unsecured(ApexOf[RR(v).owner])
      BY <1>1, <2>1, <2>2, PassedFacts DEF RRsetServed
    <3>2. RRsetDue(RR(v)) = "Bogus"
      BY <1>1, <3>1 DEF RRsetDue
    <3>. QED BY <1>1, <3>1, <3>2, FirstDue
  <2>. QED BY <1>4, <1>5, <2>2, ReturnsDue
<1>6. CASE Known(RR(v).owner) = "Unsigned" /\ Return(v, "InsecureUnsigned")
  <2>1. Unsecured(RR(v).owner)
    BY <1>2, <1>6, KnownFacts, ReadsTrue DEF Steady
  <2>2. ASSUME Undisturbed(v), MessageServed(asked[v])
        PROVE  MessageDue(asked[v]) = "InsecureUnsigned"
    <3>1. Passed(v) /\ Unsecured(ApexOf[RR(v).owner])
      BY <1>1, <2>1, <2>2, PassedFacts DEF RRsetServed
    <3>2. RRsetDue(RR(v)) = "InsecureUnsigned"
      BY <1>1, <3>1 DEF RRsetDue
    <3>. QED BY <1>1, <3>1, <3>2, FirstDue
  <2>. QED BY <1>4, <1>6, <2>2, ReturnsDue
<1>7. CASE Goto(v, "apex") /\ UNCHANGED <<verdict, calls, walk>>
  <2>1. pc'[v] = "apex"
    BY <1>7 DEF IInv, TypeOK, Goto
  <2>2. Passed(v)' = Passed(v) /\ asked' = asked
    BY <1>7 DEF Passed, calls
  <2>3. Judged(v)'
    BY <1>1, <1>4, <2>1, <2>2, PassedFacts DEF Judged, Walking
  <2>4. WInv(v)'
    BY <2>1, <2>3 DEF WInv, Secured, Straight
  <2>5. \A w \in Validators \ {v} : Local(w)' = Local(w)
    BY <1>4, <1>7 DEF IInv, TypeOK, Goto, SpentWell, Local, calls, walk
  <2>. QED BY <1>4, <2>4, <2>5, JudgedOn
<1>. QED BY <1>5, <1>6, <1>7 DEF Unproven

LEMMA FindApexDue ==
  ASSUME IInv, JInv, NEW v \in Validators, NEW z \in Names, FindApex(v, z)
  PROVE  JInv'
<1>1. /\ pc[v] = "apex" /\ asked[v].kind = "answer" /\ RR(v).sigs = <<>> /\ Walk(v, z)
      /\ UNCHANGED <<caches, verdict, asked, at, cand, trusted, used, refused>>
  BY DEF IInv, VInv, Called, FindApex, calls
<1>2. /\ plain' \in [Validators -> BOOLEAN] /\ \A w \in Validators \ {v} : plain'[w] = plain[w]
      /\ plain'[v] => plain[v] /\ z = ApexOf[RR(v).owner]
  BY DEF IInv, TypeOK, FindApex
<1>3. KeysWhole' /\ MemoSecured' /\ SpentWell(v)
  BY <1>1, <1>2, CachesKept, BudgetSame
<1>4. target'[v] = z /\ RR(v)' = RR(v)
  BY <1>1 DEF IInv, TypeOK, Walk, Enter, RR
<1>5. ASSUME Undisturbed(v)', MessageServed(asked[v])
      PROVE  Passed(v) /\ Looked(v)'
  <2>1. Undisturbed(v) /\ z = ApexOf[RR(v).owner]
    BY <1>1, <1>2, <1>5 DEF Undisturbed
  <2>. QED BY <1>1, <1>4, <1>5, <2>1, PassedFacts DEF Looked
<1>. QED BY <1>1, <1>2, <1>3, <1>5, WalksDue

LEMMA ProvenDue ==
  ASSUME IInv, JInv, NEW v \in Validators, Proven(v)
  PROVE  JInv'
<1>1. pc[v] = "rrset" /\ asked[v].kind = "answer" /\ RR(v).sigs # <<>>
  BY DEF IInv, VInv, Called, Proven
<1>2. UNCHANGED <<caches, used, refused>> /\ plain' = plain
  BY DEF Proven, history
<1>3. /\ KeysWhole' /\ MemoSecured' /\ SpentWell(v)
      /\ Undisturbed(v)' = Undisturbed(v)
      /\ \A w \in Validators \ {v} : plain'[w] = plain[w]
  BY <1>2, QuietDue
<1>4. CASE Candidates(RR(v)) = {} /\ Return(v, "Bogus")
  <2>1. RRsetDue(RR(v)) = "Bogus"
    BY <1>1, <1>4 DEF RRsetDue, SecureSigs
  <2>2. Undisturbed(v) /\ MessageServed(asked[v]) => MessageDue(asked[v]) = "Bogus"
    BY <1>1, <2>1, PassedFacts, FirstDue
  <2>. QED BY <1>3, <1>4, <2>2, ReturnsDue
<1>5. CASE Candidates(RR(v)) # {} /\ Try(v, Candidates(RR(v)), FALSE)
  <2>1. SecureSigs(RR(v)) \ Candidates(RR(v)) = {}
    BY DEF SecureSigs
  <2>. QED BY <1>1, <1>3, <1>5, <2>1, PassedFacts, TriesDue
<1>. QED BY <1>4, <1>5 DEF Proven

LEMMA LookupDue ==
  ASSUME Steady, IInv, JInv, NEW v \in Validators, Lookup(v)
  PROVE  JInv'
<1>1. /\ pc[v] = "walk"
      /\ UNCHANGED <<caches, asked, verdict, at, cand, trusted, target, used, refused>>
      /\ plain' = plain
  BY DEF Lookup, calls, history
<1>2. /\ KeysWhole' /\ MemoSecured' /\ SpentWell(v)
      /\ Undisturbed(v)' = Undisturbed(v)
      /\ \A w \in Validators \ {v} : plain'[w] = plain[w]
  BY <1>1, QuietDue
<1>3. Zone(v) \in Names /\ (pos[v] = 0 => Zone(v) = Root)
  BY <1>1, ZoneFacts
<1>4. CASE keyCache[Zone(v)] # None /\ Reached(v, keyCache[Zone(v)]) /\ UNCHANGED ds
  <2>1. keyCache[Zone(v)] = KeysOf[Zone(v)] /\ ~Unsecured(Zone(v))
    BY <1>3, <1>4 DEF JInv, KeysWhole
  <2>. QED BY <1>1, <1>2, <1>4, <2>1, ReachesDue
<1>5. CASE /\ Goto(v, IF pos[v] = 0 THEN "dnskey" ELSE "ds")
           /\ ds' = [ds EXCEPT ![v] = IF pos[v] = 0 THEN Anchors ELSE {}]
           /\ UNCHANGED <<pos, keys>>
  <2>1. /\ \A w \in Validators \ {v} : ds'[w] = ds[w]
        /\ pos[v] = 0 => ds'[v] = Anchors
    BY <1>5 DEF IInv, TypeOK
  <2>2. pos[v] # 0 => /\ keys[v] = KeysOf[Ancestor(target[v], pos[v] - 1)]
                      /\ ~Unsecured(Ancestor(target[v], pos[v] - 1))
    BY <1>1 DEF JInv, WInv, Secured
  <2>3. pos[v] = 0 => ~Unsecured(Zone(v))
    BY <1>3, RootSecured
  <2>4. CASE pos[v] = 0
    BY <1>1, <1>2, <1>5, <2>1, <2>3, <2>4, GoesDue DEF Walking
  <2>5. CASE pos[v] # 0
    BY <1>1, <1>2, <1>5, <2>1, <2>2, <2>5, GoesDue DEF Walking
  <2>. QED BY <2>4, <2>5
<1>. QED BY <1>4, <1>5 DEF Lookup

LEMMA DsAnswerDue ==
  ASSUME Steady, IInv, JInv, NEW v \in Validators, NEW r \in DsReplies[Zone(v)],
         DsAnswer(v, r)
  PROVE  JInv'
<1>. DEFINE up == KeysOf[Base(Zone(v))]
<1>1. /\ pc[v] = "ds"
      /\ UNCHANGED <<caches, asked, verdict, at, cand, trusted, target, pos, keys>>
  BY DEF DsAnswer, calls
<1>2. /\ plain' \in [Validators -> BOOLEAN] /\ \A w \in Validators \ {v} : plain'[w] = plain[w]
      /\ plain'[v] => plain[v] /\ r = WholeDs[Zone(v)]
  BY DEF IInv, TypeOK, DsAnswer
<1>3. /\ Zone(v) \in Names \ {Root} /\ target[v] \in Names
      /\ pos[v] \in 1..Len(target[v]) /\ pos[v] # 0 /\ Zone(v) = Ancestor(target[v], pos[v])
      /\ Base(Zone(v)) = Ancestor(target[v], pos[v] - 1)
  <2>1. pos[v] \in 1..Len(target[v]) /\ pos[v] # 0
    BY <1>1 DEF IInv, VInv, Chained
  <2>. QED BY <1>1, <2>1, ZoneFacts DEF Zone
<1>4. keys[v] = up /\ ~Unsecured(Ancestor(target[v], pos[v] - 1))
  BY <1>1, <1>3 DEF JInv, WInv, Secured
<1>5. Served(target[v]) => DsServed(Zone(v))
  BY <1>3, <1>4 DEF Served
<1>6. r # None => r \in DsReply
  BY <1>3, TrustAssumption
<1>7. r # None => /\ r.ev.tries \in Nat /\ Tries(r.proof) \in Nat
  BY <1>6, TriesFacts DEF DsReply, Evidence
<1>8. KeysWhole' /\ MemoSecured'
  BY <1>1, CachesKept
<1>9. ASSUME NEW n \in Nat, Spend(v, n)
      PROVE  /\ SpentWell(v) /\ (Undisturbed(v)' => Undisturbed(v))
             /\ Undisturbed(v)' => Afford(v, n)
  BY <1>2, <1>9, BudgetSpent DEF Undisturbed
<1>10. CASE r = None /\ Goto(v, "broken") /\ UNCHANGED <<ds, used, refused>>
  <2>1. SpentWell(v) /\ (Undisturbed(v)' => Undisturbed(v))
    BY <1>2, <1>10, BudgetSame DEF Undisturbed
  <2>2. Undisturbed(v)' => ~Served(target[v])
    BY <1>2, <1>5, <1>10 DEF Undisturbed, DsServed
  <2>. QED BY <1>1, <1>2, <1>8, <1>10, <2>1, <2>2, GoesDue DEF Walking
<1>11. CASE /\ r # None /\ r.ds = {}
            /\ Spend(v, Tries(r.proof))
            /\ Goto(v, IF /\ Afford(v, Tries(r.proof))
                          /\ Denies(Zone(v), "DS", r.proof, keys[v])
                               \in {"Secure", "InsecureUnsigned"}
                         THEN "unsigned" ELSE "broken")
            /\ UNCHANGED ds
  <2>. DEFINE denied == Denies(Zone(v), "DS", r.proof, up) \in {"Secure", "InsecureUnsigned"}
  <2>1. /\ SpentWell(v) /\ (Undisturbed(v)' => Undisturbed(v))
        /\ Undisturbed(v)' => Afford(v, Tries(r.proof))
    BY <1>7, <1>9, <1>11
  <2>2. Undisturbed(v)' /\ Served(target[v]) => denied
    BY <1>2, <1>5, <1>11 DEF Undisturbed, DsServed
  <2>3. Goto(v, IF Afford(v, Tries(r.proof)) /\ denied THEN "unsigned" ELSE "broken")
    BY <1>4, <1>11
  <2>. HIDE DEF denied, up
  <2>4. CASE Afford(v, Tries(r.proof)) /\ denied
    BY <1>1, <1>2, <1>8, <1>11, <2>1, <2>3, <2>4, GoesDue DEF Walking
  <2>5. CASE ~(Afford(v, Tries(r.proof)) /\ denied)
    BY <1>1, <1>2, <1>8, <1>11, <2>1, <2>2, <2>3, <2>5, GoesDue DEF Walking
  <2>. QED BY <2>4, <2>5
<1>12. CASE /\ r # None /\ r.ds # {}
            /\ Spend(v, r.ev.tries)
            /\ IF Afford(v, r.ev.tries) /\ Verifies(r.ev, keys[v])
                 THEN Goto(v, IF r.ds = {Unsupported} THEN "unsigned" ELSE "dnskey")
                 ELSE Goto(v, "broken")
            /\ ds' = [ds EXCEPT ![v] = r.ds]
  <2>1. /\ SpentWell(v) /\ (Undisturbed(v)' => Undisturbed(v))
        /\ Undisturbed(v)' => Afford(v, r.ev.tries)
    BY <1>7, <1>9, <1>12
  <2>2. ds'[v] = r.ds /\ \A w \in Validators \ {v} : ds'[w] = ds[w]
    BY <1>12 DEF IInv, TypeOK
  <2>3. CASE ~(Afford(v, r.ev.tries) /\ Verifies(r.ev, keys[v]))
    <3>1. Goto(v, "broken")
      BY <1>12, <2>3
    <3>2. Undisturbed(v)' => ~Served(target[v])
      BY <1>2, <1>4, <1>5, <1>12, <2>1, <2>3 DEF Undisturbed, DsServed
    <3>. QED BY <1>1, <1>2, <1>8, <2>1, <2>2, <3>1, <3>2, GoesDue DEF Walking
  <2>4. CASE Afford(v, r.ev.tries) /\ Verifies(r.ev, keys[v])
    <3>1. CASE r.ds = {Unsupported}
      <4>1. Goto(v, "unsigned")
        BY <1>12, <2>4, <3>1
      <4>. QED BY <1>1, <1>2, <1>8, <2>1, <2>2, <4>1, GoesDue DEF Walking
    <3>2. CASE r.ds # {Unsupported}
      <4>1. Goto(v, "dnskey")
        BY <1>12, <2>4, <3>2
      <4>2. Zone(v) \notin NoDs
        BY <1>3, <1>4, <1>12, <2>4, <3>2 DEF Steady
      <4>3. ~Unsecured(Zone(v))
        BY <1>3, <1>4, <4>2, SecuredBelow
      <4>4. Undisturbed(v)' => ds'[v] = IF pos[v] = 0 THEN Anchors ELSE WholeDs[Zone(v)].ds
        BY <1>2, <1>3, <2>2 DEF Undisturbed
      <4>. QED BY <1>1, <1>2, <1>8, <2>1, <2>2, <4>1, <4>3, <4>4, GoesDue DEF Walking
    <3>. QED BY <3>1, <3>2
  <2>. QED BY <2>3, <2>4
<1>. QED BY <1>10, <1>11, <1>12 DEF DsAnswer

LEMMA KeyAnswerDue ==
  ASSUME Steady, IInv, JInv, NEW v \in Validators, NEW r \in KeyReplies[Zone(v)],
         KeyAnswer(v, r)
  PROVE  JInv'
<1>. DEFINE matched == IF r = None THEN {} ELSE r.keys \cap ds[v]
<1>1. /\ pc[v] = "dnskey" /\ ~Unsecured(Zone(v))
      /\ UNCHANGED <<memo, asked, verdict, at, cand, trusted, target>>
  BY DEF JInv, WInv, Secured, KeyAnswer, calls
<1>2. /\ plain' \in [Validators -> BOOLEAN]
      /\ plain'[v] => plain[v] /\ r = WholeKeys[Zone(v)]
      /\ \A w \in Validators \ {v} : ds'[w] = ds[w] /\ plain'[w] = plain[w]
  BY DEF IInv, TypeOK, KeyAnswer
<1>3. /\ Zone(v) \in Names /\ target[v] \in Names /\ pos[v] \in 0..Len(target[v])
      /\ pos[v] = 0 <=> Zone(v) = Root
      /\ ds[v] \subseteq KeysOf[Zone(v)] \cup {Unsupported} /\ Unsupported \notin Keys
  BY <1>1, ZoneFacts, TrustAssumption DEF IInv, VInv, Chained
<1>4. r # None => r \in KeyReply
  BY <1>3, TrustAssumption
<1>5. ASSUME Undisturbed(v), r = WholeKeys[Zone(v)], Served(target[v])
      PROVE  r # None /\ Verifies(r.ev, matched)
  <2>1. ds[v] = IF Zone(v) = Root THEN Anchors ELSE WholeDs[Zone(v)].ds
    BY <1>1, <1>3, <1>5 DEF JInv, WInv, Straight
  <2>2. KeysServed(Zone(v))
    BY <1>1, <1>3, <1>5 DEF Served, Zone
  <2>. QED BY <1>5, <2>1, <2>2 DEF KeysServed
<1>6. ASSUME Goto(v, "broken"), UNCHANGED <<keyCache, pos, keys>>, SpentWell(v),
             Undisturbed(v)' => Undisturbed(v),
             Undisturbed(v)' => ~(r # None /\ Verifies(r.ev, matched))
      PROVE  JInv'
  <2>1. Undisturbed(v)' => ~Served(target[v])
    BY <1>2, <1>5, <1>6 DEF Undisturbed
  <2>2. KeysWhole' /\ MemoSecured'
    BY <1>1, <1>6, CachesKept DEF caches
  <2>. QED BY <1>1, <1>2, <1>6, <2>1, <2>2, GoesDue DEF Walking
<1>7. CASE /\ matched = {} /\ Goto(v, "broken")
           /\ UNCHANGED <<keyCache, pos, keys, used, refused>>
  <2>1. SpentWell(v) /\ (Undisturbed(v)' => Undisturbed(v))
    BY <1>2, <1>7, BudgetSame DEF Undisturbed
  <2>2. ~Verifies(r.ev, matched)
    BY <1>7 DEF Verifies
  <2>. QED BY <1>6, <1>7, <2>1, <2>2
<1>8. CASE /\ matched # {}
           /\ Spend(v, r.ev.tries)
           /\ IF Afford(v, r.ev.tries) /\ Verifies(r.ev, matched)
                THEN /\ keyCache' = [keyCache EXCEPT ![Zone(v)] = r.zoneKeys]
                     /\ Reached(v, r.zoneKeys)
                ELSE Goto(v, "broken") /\ UNCHANGED <<keyCache, pos, keys>>
  <2>1. r # None /\ r \in KeyReply
    BY <1>4, <1>8
  <2>2. r.ev.tries \in Nat /\ r.keys \in SUBSET Keys
    BY <2>1 DEF KeyReply, Evidence
  <2>3. /\ SpentWell(v) /\ (Undisturbed(v)' => Undisturbed(v))
        /\ Undisturbed(v)' => Afford(v, r.ev.tries)
    BY <1>2, <1>8, <2>2, BudgetSpent DEF Undisturbed
  <2>4. CASE Afford(v, r.ev.tries) /\ Verifies(r.ev, matched)
    <3>1. matched \subseteq KeysOf[Zone(v)]
      BY <1>3, <2>1, <2>2
    <3>2. Verifies(r.ev, KeysOf[Zone(v)])
      BY <2>4, <3>1 DEF Verifies
    <3>3. r.zoneKeys = KeysOf[Zone(v)]
      BY <1>3, <2>1, <3>2 DEF Steady
    <3>4. keyCache' = [keyCache EXCEPT ![Zone(v)] = r.zoneKeys] /\ Reached(v, r.zoneKeys)
      BY <1>8, <2>4
    <3>5. KeysWhole' /\ MemoSecured'
      BY <1>1, <1>3, <3>3, <3>4 DEF IInv, TypeOK, JInv, KeysWhole, MemoSecured
    <3>. QED BY <1>1, <1>2, <2>3, <3>3, <3>4, <3>5, ReachesDue
  <2>5. CASE ~(Afford(v, r.ev.tries) /\ Verifies(r.ev, matched))
    BY <1>6, <1>8, <2>3, <2>5
  <2>. QED BY <2>4, <2>5
<1>. QED BY <1>7, <1>8 DEF KeyAnswer

\* Of a message that is served every chain is.
LEMMA TargetServed ==
  ASSUME IInv, JInv, NEW v \in Validators, pc[v] \in Walking,
         Undisturbed(v), MessageServed(asked[v])
  PROVE  Served(target[v])
<1>1. CASE asked[v].kind = "negative"
  BY <1>1, PassedFacts, TargetFacts
<1>2. CASE asked[v].kind = "answer"
  BY <1>2, PassedFacts, TargetFacts DEF Looked, RRsetServed
<1>. QED BY <1>1, <1>2, AtHand

LEMMA BrokenDue ==
  ASSUME IInv, JInv, NEW v \in Validators, Broken(v)
  PROVE  JInv'
<1>1. pc[v] = "broken" /\ UNCHANGED <<caches, used, refused>> /\ plain' = plain
  BY DEF Broken, history
<1>2. ~(Undisturbed(v) /\ MessageServed(asked[v]))
  BY <1>1, TargetServed DEF JInv, WInv, Straight, Walking
<1>3. Return(v, IF Searching(v) THEN "InsecureUnknown" ELSE "Bogus")
  BY DEF Broken
<1>. QED BY <1>1, <1>2, <1>3, QuietDue, ReturnsDue

LEMMA UnsignedDue ==
  ASSUME Steady, IInv, JInv, NEW v \in Validators, Unsigned(v)
  PROVE  JInv'
<1>1. /\ pc[v] = "unsigned" /\ Unsecured(target[v]) /\ target[v] \in Names
      /\ UNCHANGED <<keyCache, used, refused>> /\ plain' = plain
  <2>1. pc[v] = "unsigned"
    BY DEF Unsigned
  <2>2. ReadsUnsecured(target[v]) /\ target[v] \in Names
    BY <2>1, TargetFacts DEF IInv, VInv, Chained, Walking
  <2>3. UNCHANGED <<keyCache, used, refused>> /\ plain' = plain
    BY DEF Unsigned, history
  <2>. QED BY <2>1, <2>2, <2>3, ReadsTrue DEF Steady
<1>2. /\ SpentWell(v) /\ Undisturbed(v)' = Undisturbed(v)
      /\ \A w \in Validators \ {v} : plain'[w] = plain[w]
      /\ AtOnce(asked[v]) = None /\ asked[v].kind \in {"answer", "negative"}
  <2>1. plain' \in [Validators -> BOOLEAN]
    BY <1>1 DEF IInv, TypeOK
  <2>. QED BY <1>1, <2>1, BudgetSame, AtHand DEF Undisturbed, Walking
<1>3. UNCHANGED memo => KeysWhole' /\ MemoSecured'
  BY <1>1, CachesKept DEF caches
<1>4. CASE Negative(v) /\ Return(v, "InsecureUnsigned") /\ UNCHANGED memo
  <2>1. MessageDue(asked[v]) = "InsecureUnsigned"
    BY <1>1, <1>2, <1>4, TargetFacts DEF MessageDue, Negative, Walking
  <2>. QED BY <1>2, <1>3, <1>4, <2>1, ReturnsDue
<1>5. CASE /\ Searching(v)
           /\ memo' = [memo EXCEPT ![target[v]] = "Unsigned"]
           /\ Return(v, "InsecureUnsigned")
  <2>1. KeysWhole' /\ MemoSecured'
    BY <1>1, <1>5 DEF IInv, TypeOK, JInv, KeysWhole, MemoSecured
  <2>2. ASSUME Undisturbed(v), MessageServed(asked[v])
        PROVE  MessageDue(asked[v]) = "InsecureUnsigned"
    <3>1. asked[v].kind = "answer" /\ RR(v).sigs = <<>>
      BY <1>2, <1>5 DEF Searching, Negative
    <3>2. Passed(v) /\ target[v] = ApexOf[RR(v).owner]
      BY <1>1, <2>2, <3>1, PassedFacts DEF Looked, Walking
    <3>3. RRsetDue(RR(v)) = "InsecureUnsigned"
      BY <1>1, <3>1, <3>2 DEF RRsetDue
    <3>. QED BY <1>1, <3>1, <3>2, <3>3, FirstDue DEF Walking
  <2>. QED BY <1>2, <1>5, <2>1, <2>2, ReturnsDue
<1>6. CASE Checking(v) /\ TryNext(v, trusted[v]) /\ UNCHANGED memo
  <2>1. /\ asked[v].kind = "answer" /\ RR(v).sigs # <<>> /\ trusted[v] \in BOOLEAN
        /\ RR(v) \in RRset /\ cand[v] \in Candidates(RR(v))
        /\ target[v] = RR(v).sigs[cand[v]].signer
    BY <1>1, <1>2, <1>6, AtHand, TargetFacts DEF IInv, TypeOK, Checking, Negative, Walking
  <2>2. cand[v] \in Nat /\ \A i \in SecureSigs(RR(v)) : i \in Nat /\ i # cand[v]
    BY <1>1, <2>1, CandidateFacts DEF SecureSigs
  <2>3. ASSUME Undisturbed(v), MessageServed(asked[v])
        PROVE  /\ Passed(v)
               /\ \A i \in SecureSigs(RR(v)) : i <= cand[v] =>
                    trusted[v] /\ RR(v).sigs[i].by \notin KeysOf[RR(v).sigs[i].signer]
               /\ trusted[v] => SecureSigs(RR(v)) # {}
    <3>1. Passed(v) /\ Looked(v)
      BY <1>1, <2>1, <2>3, PassedFacts DEF Walking
    <3>2. \A i \in SecureSigs(RR(v)) : i <= cand[v] => i < cand[v]
      BY <2>2
    <3>. QED BY <2>1, <3>1, <3>2 DEF Looked
  <2>. QED BY <1>1, <1>2, <1>3, <1>6, <2>1, <2>3, TriesNextDue DEF Walking
<1>. QED BY <1>4, <1>5, <1>6 DEF Unsigned

LEMMA MissingDue ==
  ASSUME IInv, JInv, NEW v \in Validators, Missing(v)
  PROVE  JInv'
<1>1. /\ pc[v] = "trusted" /\ Searching(v) /\ target[v] \in Names /\ ~Unsecured(target[v])
      /\ UNCHANGED <<keyCache, used, refused>> /\ plain' = plain
      /\ memo' = [memo EXCEPT ![target[v]] = "Signed"]
      /\ Return(v, "Bogus")
  BY TargetFacts DEF JInv, WInv, Secured, Missing, Walking, history
<1>2. /\ SpentWell(v) /\ Undisturbed(v)' = Undisturbed(v)
      /\ \A w \in Validators \ {v} : plain'[w] = plain[w]
  <2>1. plain' \in [Validators -> BOOLEAN]
    BY <1>1 DEF IInv, TypeOK
  <2>. QED BY <1>1, <2>1, BudgetSame DEF Undisturbed
<1>3. KeysWhole' /\ MemoSecured'
  BY <1>1 DEF IInv, TypeOK, JInv, KeysWhole, MemoSecured
<1>4. ASSUME Undisturbed(v), MessageServed(asked[v])
      PROVE  MessageDue(asked[v]) = "Bogus"
  <2>1. asked[v].kind = "answer" /\ RR(v).sigs = <<>>
    BY <1>1, AtHand DEF Searching, Negative, Walking
  <2>2. Passed(v) /\ target[v] = ApexOf[RR(v).owner]
    BY <1>1, <1>4, <2>1, PassedFacts DEF Looked, Walking
  <2>3. RRsetDue(RR(v)) = "Bogus"
    BY <1>1, <2>1, <2>2 DEF RRsetDue
  <2>. QED BY <1>1, <2>1, <2>2, <2>3, FirstDue DEF Walking
<1>. QED BY <1>1, <1>2, <1>3, <1>4, ReturnsDue

\* An RRset is Secure: the message is that of the next one.
LEMMA NextRRsetDue ==
  ASSUME IInv, JInv, NEW v \in Validators, pc[v] \in Walking, asked[v].kind = "answer",
         NextRRset(v), KeysWhole', MemoSecured', SpentWell(v),
         \A w \in Validators \ {v} : plain'[w] = plain[w],
         Undisturbed(v)' /\ MessageServed(asked[v]) =>
           Passed(v) /\ RRsetDue(RR(v)) = "Secure"
  PROVE  JInv'
<1>1. /\ at[v] \in 1..Len(asked[v].rrsets) /\ Len(asked[v].rrsets) \in Nat
  BY AtHand
<1>2. CASE at[v] < Len(asked[v].rrsets)
  <2>1. /\ Begin(v, at[v] + 1) /\ Enter(v, Root) /\ Goto(v, "rrset")
        /\ UNCHANGED <<verdict, asked>>
    BY <1>2 DEF NextRRset
  <2>2. pc'[v] = "rrset" /\ at'[v] = at[v] + 1 /\ asked' = asked
    BY <2>1 DEF IInv, TypeOK, Goto, Begin
  <2>3. ASSUME Undisturbed(v)', MessageServed(asked[v])
        PROVE  Passed(v)'
    <3>1. ASSUME NEW i \in 1..((at[v] + 1) - 1)
          PROVE  RRsetDue(asked[v].rrsets[i]) = "Secure"
      <4>1. i = at[v] \/ i \in 1..(at[v] - 1)
        BY <1>1
      <4>. QED BY <2>3, <4>1 DEF Passed, RR
    <3>. QED BY <2>2, <3>1 DEF Passed
  <2>4. WInv(v)'
    BY <2>2, <2>3 DEF WInv, Secured, Straight, Judged, Walking
  <2>5. \A w \in Validators \ {v} : Local(w)' = Local(w)
    BY <2>1 DEF IInv, TypeOK, Goto, Enter, Begin, SpentWell, Local
  <2>. QED BY <2>4, <2>5, JudgedOn
<1>3. CASE ~(at[v] < Len(asked[v].rrsets))
  <2>. DEFINE d == IF asked[v].end = "data" THEN "Secure" ELSE "InsecureUnknown"
  <2>1. Return(v, d)
    BY <1>3 DEF NextRRset
  <2>2. at[v] = Len(asked[v].rrsets)
    BY <1>1, <1>3
  <2>3. Undisturbed(v)' /\ MessageServed(asked[v]) => d = MessageDue(asked[v])
    BY <2>2, FirstDue
  <2>. HIDE DEF d
  <2>. QED BY <2>1, <2>3, ReturnsDue
<1>. QED BY <1>2, <1>3

LEMMA TryKeysDue ==
  ASSUME IInv, JInv, NEW v \in Validators, NEW n \in 0..Cardinality(keys[v]), TryKeys(v, n)
  PROVE  JInv'
<1>. DEFINE good == RR(v).sigs[cand[v]].by \in keys[v]
<1>1. /\ pc[v] = "trusted" /\ Checking(v) /\ Spend(v, n)
      /\ UNCHANGED <<caches, plain>> /\ n \in Nat
  BY DEF TryKeys
<1>2. /\ asked[v].kind = "answer" /\ RR(v).sigs # <<>>
      /\ keys[v] = KeysOf[target[v]] /\ ~Unsecured(target[v])
      /\ RR(v) \in RRset /\ cand[v] \in Candidates(RR(v))
      /\ target[v] = RR(v).sigs[cand[v]].signer
  BY <1>1, AtHand, TargetFacts DEF JInv, WInv, Secured, Checking, Negative, Walking
<1>3. /\ KeysWhole' /\ MemoSecured' /\ SpentWell(v)
      /\ \A w \in Validators \ {v} : plain'[w] = plain[w]
      /\ Undisturbed(v)' => Undisturbed(v) /\ Afford(v, n)
  <2>1. plain' \in [Validators -> BOOLEAN]
    BY <1>1 DEF IInv, TypeOK
  <2>2. SpentWell(v) /\ refused'[v] = (refused[v] \/ ~Afford(v, n))
    BY <1>1, <2>1, BudgetSpent
  <2>. QED BY <1>1, <2>2, CachesKept DEF Undisturbed
<1>4. cand[v] \in SecureSigs(RR(v))
  BY <1>2 DEF SecureSigs
<1>5. Undisturbed(v) /\ MessageServed(asked[v]) => Passed(v) /\ Looked(v)
  BY <1>1, <1>2, PassedFacts DEF Walking
<1>6. CASE ~Afford(v, n) /\ Return(v, "Bogus")
  BY <1>3, <1>6, ReturnsDue
<1>7. CASE good /\ NextRRset(v)
  <2>1. RRsetDue(RR(v)) = "Secure"
    BY <1>2, <1>4, <1>7 DEF RRsetDue
  <2>. QED BY <1>1, <1>2, <1>3, <1>5, <1>7, <2>1, NextRRsetDue DEF Walking
<1>8. CASE ~good /\ TryNext(v, TRUE)
  <2>1. cand[v] \in Nat /\ \A i \in SecureSigs(RR(v)) : i \in Nat
    BY <1>2, CandidateFacts DEF SecureSigs
  <2>2. ASSUME Undisturbed(v)', MessageServed(asked[v])
        PROVE  /\ Passed(v)
               /\ \A i \in SecureSigs(RR(v)) : i <= cand[v] =>
                    RR(v).sigs[i].by \notin KeysOf[RR(v).sigs[i].signer]
               /\ SecureSigs(RR(v)) # {}
    <3>1. Passed(v) /\ Looked(v)
      BY <1>3, <1>5, <2>2
    <3>2. \A i \in SecureSigs(RR(v)) : i <= cand[v] => i < cand[v] \/ i = cand[v]
      BY <2>1
    <3>3. RR(v).sigs[cand[v]].by \notin KeysOf[RR(v).sigs[cand[v]].signer]
      BY <1>2, <1>8
    <3>. QED BY <1>2, <1>4, <3>1, <3>2, <3>3 DEF Looked
  <2>. QED BY <1>1, <1>3, <1>8, <2>2, TriesNextDue DEF Walking
<1>. QED BY <1>6, <1>7, <1>8 DEF TryKeys

LEMMA CheckNegativeDue ==
  ASSUME IInv, JInv, NEW v \in Validators, CheckNegative(v)
  PROVE  JInv'
<1>. DEFINE m == asked[v]
            n == IF Verifies(m.ev, keys[v]) THEN Tries(m.proof) ELSE 0
            d == IF Afford(v, m.ev.tries + n) /\ Verifies(m.ev, keys[v])
                   THEN Denies(m.name, m.type, m.proof, keys[v]) ELSE "Bogus"
<1>1. /\ pc[v] = "trusted" /\ m.kind = "negative"
      /\ Spend(v, m.ev.tries + n) /\ Return(v, d)
      /\ UNCHANGED <<caches, plain>>
  BY DEF CheckNegative, Negative
<1>2. /\ m \in Jobs /\ AtOnce(m) = None
      /\ keys[v] = KeysOf[m.soa] /\ ~Unsecured(m.soa)
  BY <1>1, AtHand, TargetFacts DEF JInv, WInv, Secured, Walking
<1>3. m.ev.tries + n \in Nat
  <2>1. m.ev.tries \in Nat /\ m.proof \in Proof
    BY <1>1, <1>2, JobFacts DEF NegativeJob, Evidence
  <2>2. n \in Nat
    BY <2>1, TriesFacts
  <2>. HIDE DEF n, m
  <2>. QED BY <2>1, <2>2
<1>4. /\ KeysWhole' /\ MemoSecured' /\ SpentWell(v)
      /\ \A w \in Validators \ {v} : plain'[w] = plain[w]
      /\ Undisturbed(v)' => Afford(v, m.ev.tries + n)
  <2>1. plain' \in [Validators -> BOOLEAN]
    BY <1>1 DEF IInv, TypeOK
  <2>2. SpentWell(v) /\ refused'[v] = (refused[v] \/ ~Afford(v, m.ev.tries + n))
    <3>. HIDE DEF n, m
    <3>. QED BY <1>1, <1>3, <2>1, BudgetSpent
  <2>. QED BY <1>1, <2>2, CachesKept DEF Undisturbed
<1>5. MessageDue(m) = IF Verifies(m.ev, keys[v])
                        THEN Denies(m.name, m.type, m.proof, keys[v]) ELSE "Bogus"
  BY <1>1, <1>2 DEF MessageDue
<1>6. Undisturbed(v)' => d = MessageDue(m)
  BY <1>4, <1>5
<1>. HIDE DEF d
<1>. QED BY <1>1, <1>4, <1>6, ReturnsDue

LEMMA ExpireDue ==
  ASSUME IInv, JInv, NEW z \in Names, Expire(z)
  PROVE  JInv'
<1>1. UNCHANGED <<asked, verdict, pc, at, cand, trusted, target, pos, keys, ds,
                  used, refused, plain>>
  BY DEF Expire, calls, walk, history
<1>2. KeysWhole' /\ MemoSecured'
  BY NoneAssumption DEF IInv, TypeOK, JInv, KeysWhole, MemoSecured, Expire
<1>3. \A w \in Validators : WInv(w)'
  BY <1>1, OthersJudged DEF JInv, Local
<1>. QED BY <1>2, <1>3 DEF JInv

LEMMA InitDue ==
  ASSUME Init
  PROVE  JInv
<1>1. KeysWhole /\ MemoSecured
  BY NoneAssumption DEF Init, KeysWhole, MemoSecured
<1>2. \A v \in Validators : WInv(v)
  BY DEF Init, WInv, Secured, Straight, Judged, Walking
<1>. QED BY <1>1, <1>2 DEF JInv

LEMMA NextDue ==
  ASSUME Steady, IInv, JInv, [Next]_vars
  PROVE  JInv'
<1>1. CASE UNCHANGED vars
  <2>1. UNCHANGED <<keyCache, memo, asked, verdict, pc, at, cand, trusted, target, pos,
                    keys, ds, used, refused, plain>>
    BY <1>1 DEF vars, caches, calls, walk, history
  <2>2. KeysWhole' /\ MemoSecured'
    BY <2>1, CachesKept DEF caches
  <2>3. \A v \in Validators : WInv(v)'
    BY <2>1, OthersJudged DEF JInv, Local
  <2>. QED BY <2>2, <2>3 DEF JInv
<1>2. ASSUME NEW v \in Validators, NEW m \in Jobs, Ask(v, m)
      PROVE  JInv'
  BY <1>2, AskDue
<1>3. ASSUME NEW v \in Validators, Step(v)
      PROVE  JInv'
  <2>1. CASE Dispatch(v)
    BY <2>1, DispatchDue
  <2>2. CASE Unproven(v) \/ Proven(v)
    BY <2>2, UnprovenDue, ProvenDue
  <2>3. CASE \E z \in Names : FindApex(v, z)
    BY <2>3, FindApexDue
  <2>4. CASE Lookup(v)
    BY <2>4, LookupDue
  <2>5. CASE \E r \in DsReplies[Zone(v)] : DsAnswer(v, r)
    BY <2>5, DsAnswerDue
  <2>6. CASE \E r \in KeyReplies[Zone(v)] : KeyAnswer(v, r)
    BY <2>6, KeyAnswerDue
  <2>7. CASE Broken(v) \/ Unsigned(v) \/ Missing(v)
    BY <2>7, BrokenDue, UnsignedDue, MissingDue
  <2>8. CASE \E n \in 0..Cardinality(keys[v]) : TryKeys(v, n)
    BY <2>8, TryKeysDue
  <2>9. CASE CheckNegative(v)
    BY <2>9, CheckNegativeDue
  <2>. QED BY <1>3, <2>1, <2>2, <2>3, <2>4, <2>5, <2>6, <2>7, <2>8, <2>9 DEF Step
<1>4. ASSUME NEW z \in Names, Expire(z)
      PROVE  JInv'
  BY <1>4, ExpireDue
<1>. QED BY <1>1, <1>2, <1>3, <1>4 DEF Next

-----------------------------------------------------------------------------
(* Theorems *)

LEMMA InitFacts ==
  ASSUME Init
  PROVE  IInv /\ V!Init
<1>1. TypeOK
  BY RootAssumption, TrustAssumption DEF Init, TypeOK, Points
<1>2. KeysGenuine /\ MemoTrue
  BY NoneAssumption DEF Init, KeysGenuine, MemoTrue
<1>3. \A v \in Validators : VInv(v)
  BY DEF Init, VInv, Called, Chained, Spent, Walking
<1>. QED BY <1>1, <1>2, <1>3 DEF IInv, Init, V!Init

LEMMA NextFacts ==
  ASSUME IInv, [Next]_vars
  PROVE  IInv' /\ [V!Next]_V!vars
<1>1. CASE UNCHANGED vars
  <2>1. UNCHANGED <<keyCache, memo, asked, verdict, pc, at, cand, trusted, target, pos,
                    keys, ds, used, refused, plain>>
    BY <1>1 DEF vars, caches, calls, walk, history
  <2>2. TypeOK' /\ KeysGenuine' /\ MemoTrue'
    BY <2>1 DEF IInv, TypeOK, KeysGenuine, MemoTrue
  <2>3. \A v \in Validators : VInv(v)'
    BY <2>1, OthersKeep DEF IInv, Local
  <2>. QED BY <2>1, <2>2, <2>3 DEF IInv, V!vars
<1>2. ASSUME NEW v \in Validators, NEW m \in Jobs, Ask(v, m)
      PROVE  IInv' /\ [V!Next]_V!vars
  BY <1>2, AskStep
<1>3. ASSUME NEW v \in Validators, Step(v)
      PROVE  IInv' /\ [V!Next]_V!vars
  <2>1. CASE Dispatch(v)
    BY <2>1, DispatchStep
  <2>2. CASE Unproven(v) \/ Proven(v)
    BY <2>2, UnprovenStep, ProvenStep
  <2>3. CASE \E z \in Names : FindApex(v, z)
    BY <2>3, FindApexStep
  <2>4. CASE Lookup(v)
    BY <2>4, LookupStep
  <2>5. CASE \E r \in DsReplies[Zone(v)] : DsAnswer(v, r)
    BY <2>5, DsAnswerStep
  <2>6. CASE \E r \in KeyReplies[Zone(v)] : KeyAnswer(v, r)
    BY <2>6, KeyAnswerStep
  <2>7. CASE Broken(v) \/ Unsigned(v) \/ Missing(v)
    BY <2>7, BrokenStep, UnsignedStep, MissingStep
  <2>8. CASE \E n \in 0..Cardinality(keys[v]) : TryKeys(v, n)
    BY <2>8, TryKeysStep
  <2>9. CASE CheckNegative(v)
    BY <2>9, CheckNegativeStep
  <2>. QED BY <1>3, <2>1, <2>2, <2>3, <2>4, <2>5, <2>6, <2>7, <2>8, <2>9 DEF Step
<1>4. ASSUME NEW z \in Names, Expire(z)
      PROVE  IInv' /\ [V!Next]_V!vars
  BY <1>4, ExpireStep
<1>. QED BY <1>1, <1>2, <1>3, <1>4 DEF Next

LEMMA Invariance == Spec => []IInv
<1>1. Init => IInv
  BY InitFacts
<1>2. IInv /\ [Next]_vars => IInv'
  BY NextFacts
<1>. QED BY <1>1, <1>2, PTL DEF Spec

\* Whatever is sent, the validator's state is what its types allow; no message
\* costs more than MaxChecks signature checks (ValidationBudget::can_check_sig).
THEOREM TrustTypeCorrect == Spec => []TypeOK
<1>1. IInv => TypeOK
  BY DEF IInv
<1>. QED BY <1>1, Invariance, PTL

\* For any names, keys and replies, key_trust_cache has only keys of the zone.
THEOREM KeysGenuineHolds == Spec => []KeysGenuine
<1>1. IInv => KeysGenuine
  BY DEF IInv
<1>. QED BY <1>1, Invariance, PTL

\* Wherever along its chains a validation runs out of checks, build_trust_chain
\* and its callers make it end with a verdict that is not cached.
THEOREM BudgetFinalHolds == Spec => []BudgetFinal
<1>1. IInv => BudgetFinal
  BY DEF IInv, VInv, Spent, BudgetFinal
<1>. QED BY <1>1, Invariance, PTL

\* The validator implements Validation: validate_message is Secure only for what
\* the keys of its zones signed, and insecure only where keys of a zone signed
\* what validate_nsec or validate_nsec3 takes for the denial of a child's DS.
THEOREM ValidatesHolds == Spec => Validates
<1>1. Init => V!Init
  BY InitFacts
<1>2. IInv /\ [Next]_vars => [V!Next]_V!vars
  BY NextFacts
<1>. QED BY <1>1, <1>2, Invariance, PTL DEF Spec, Validates, V!Spec

\* What Validation allows at each step holds ever after.
AllAllowed == \A v \in Validators : verdict[v] # None => V!Allowed(asked[v], verdict[v])

LEMMA AllowedInvariance == Spec => []AllAllowed
<1>1. Init => AllAllowed
  BY DEF Init, AllAllowed
<1>2. IInv /\ AllAllowed /\ [V!Next]_V!vars => AllAllowed'
  <2>. SUFFICES ASSUME IInv, AllAllowed, [V!Next]_V!vars, NEW w \in Validators
                PROVE  (verdict[w] # None => V!Allowed(asked[w], verdict[w]))'
    BY DEF AllAllowed
  <2>1. CASE UNCHANGED V!vars
    BY <2>1 DEF AllAllowed, V!vars
  <2>2. ASSUME NEW v \in Validators, V!Ask(v)
        PROVE  (verdict[w] # None => V!Allowed(asked[w], verdict[w]))'
    BY <2>2 DEF IInv, TypeOK, AllAllowed, V!Ask
  <2>3. ASSUME NEW v \in Validators, V!Judge(v)
        PROVE  (verdict[w] # None => V!Allowed(asked[w], verdict[w]))'
    BY <2>3 DEF IInv, TypeOK, AllAllowed, V!Judge
  <2>. QED BY <2>1, <2>2, <2>3 DEF V!Next
<1>3. IInv /\ [Next]_vars => [V!Next]_V!vars
  BY NextFacts
<1>. QED BY <1>1, <1>2, <1>3, Invariance, PTL DEF Spec

\* What is called insecure lies below a zone without a usable DS, or is denied by
\* an opt-out span: the signed part of a zone is not downgraded.
NoDowngrade ==
  \A v \in Validators :
    verdict[v] = "InsecureUnsigned" => InsecureIn(asked[v], {n \in Names : Unsecured(n)})

\* So it is as long as the replies hold true records alone, whichever of a zone
\* they are, without the NSEC3 record of a wildcard beside a delegation, which
\* check_nsec3_wildcard_nodata takes for a denial of its DS.
THEOREM NoDowngradeHolds == RecordsTrue => (Spec => []NoDowngrade)
<1>. SUFFICES ASSUME RecordsTrue
              PROVE  Spec => []NoDowngrade
  OBVIOUS
<1>1. {n \in Names : ReadsUnsecured(n)} = {n \in Names : Unsecured(n)}
  BY ReadsTrue
<1>2. AllAllowed => NoDowngrade
  BY <1>1, NoneAssumption DEF AllAllowed, NoDowngrade, V!Allowed, Insecure, Verdicts
<1>. QED BY <1>2, AllowedInvariance, PTL

\* Undisturbed, validate_message returns what the zones deserve that sign the
\* message: for whatever messages, zones, keys and validations beside it.
ServedJudged ==
  \A v \in Validators :
    pc[v] = "done" /\ Undisturbed(v) /\ MessageServed(asked[v])
      => verdict[v] = MessageDue(asked[v])

THEOREM ServedJudgedHolds == Steady => (Spec => []ServedJudged)
<1>. SUFFICES ASSUME Steady
              PROVE  Spec => []ServedJudged
  OBVIOUS
<1>1. Init => JInv
  BY InitDue
<1>2. IInv /\ JInv /\ [Next]_vars => JInv'
  BY NextDue
<1>3. JInv => ServedJudged
  BY DEF JInv, WInv, Judged, ServedJudged
<1>. QED BY <1>1, <1>2, <1>3, Invariance, PTL DEF Spec

\* Therefore the verdicts of the messages of any instance are what it says is due.
THEOREM WholeAnswersJudgedHolds == Steady /\ DueJustified => (Spec => []WholeAnswersJudged)
<1>. SUFFICES ASSUME Steady, DueJustified
              PROVE  Spec => []WholeAnswersJudged
  OBVIOUS
<1>1. IInv /\ ServedJudged => WholeAnswersJudged
  BY DEF IInv, VInv, Called, ServedJudged, Undisturbed, WholeAnswersJudged, DueJustified
<1>2. Spec => []ServedJudged
  BY ServedJudgedHolds
<1>. QED BY <1>1, <1>2, Invariance, PTL
=============================================================================
