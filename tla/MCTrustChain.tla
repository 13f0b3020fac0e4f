---------------------------- MODULE MCTrustChain ----------------------------
(* Small instances of TrustChain.  The root and a zone below it sign, and    *)
(* a zone below that is an insecure delegation.                              *)
EXTENDS TrustDenials, TLC

CONSTANTS v1, v2, kr, ks, zs, kx, odd

Shop    == <<2>>            \* signed, with a key-signing and a zone key
Open    == <<3, 2>>         \* not signed
Www     == <<6, 2>>         \* a host of Shop
MCNames == {Root, Shop, Open, Www}

MCKeysOf ==
  [z \in MCNames |-> CASE z = Root -> {kr} [] z = Shop -> {ks, zs}
                       [] OTHER -> {}]
MCAnchors == {kr}
MCNoDs    == {Open}
MCApexOf  == [n \in MCNames |-> IF n = Www THEN Shop ELSE n]
MCApexes  == [n \in MCNames |-> {MCApexOf[n]} \cup IF n = Open THEN {Shop} ELSE {}]

-----------------------------------------------------------------------------
(* Zones below Shop, and names to ask them for *)

Below(l) == l \o Shop
Owners   == {Below(<<Star>>), Below(<<7>>), Below(<<8, 7>>), Below(<<9>>)}
TypesAt(n) ==
  IF n = Shop THEN {"SOA", "NS"} ELSE IF n = Below(<<9>>) THEN {"NS"} ELSE {"A"}

MCContents == {[n \in {Shop} \cup S |-> TypesAt(n)] : S \in SUBSET Owners}
MCAsked    == {Shop} \cup {Below(l) : l \in {<<5>>, <<7>>, <<9>>, <<5, 7>>, <<8, 7>>,
                                             <<7, 8>>, <<5, 8, 7>>}}

\* A hash without collisions among names of at most five labels.
Mixed(n) ==
  LET digit(i) == IF i \in DOMAIN n THEN FromRoot(n, i) + 1 ELSE 0
  IN  ((digit(1) + 11 * digit(2) + 121 * digit(3) + 1331 * digit(4)
          + 14641 * digit(5)) * 7919) % 161051
MCHashable == {Root, <<4>>, Open, Www, Below(<<8>>)} \cup MCAsked \cup Owners
MCHash == [n \in MCHashable \cup {Wildcard(m) : m \in MCHashable} |-> Mixed(n)]

-----------------------------------------------------------------------------
(* Answers *)

By(k)   == [sigs |-> {k}, tries |-> 1]
Unproved == [sigs |-> {}, tries |-> 0]
NoProof == [kind |-> "none", usable |-> TRUE, same |-> TRUE, recs |-> {}, ev |-> Unproved]
Shown(kind, recs, k) ==
  [kind |-> kind, usable |-> TRUE, same |-> TRUE, recs |-> recs,
   ev |-> [sigs |-> {k}, tries |-> Cardinality(recs)]]

Digest(D, k)  == [ds |-> D, ev |-> By(k), proof |-> NoProof]
NoDigest(p)   == [ds |-> {}, ev |-> Unproved, proof |-> p]
Published(K, k) == [keys |-> K, zoneKeys |-> K, ev |-> By(k)]

\* The record of the delegation without DS, in the zone above it.
OpenNsec == [owner |-> Open, next |-> Www, types |-> {"NS", "NSEC"}]

MCWholeDs ==
  [z \in MCNames |-> CASE z = Shop -> Digest({ks, odd}, kr)
                       [] z = Open -> NoDigest(Shown("nsec", {OpenNsec}, zs))
                       [] OTHER    -> None]
MCWholeKeys ==
  [z \in MCNames |-> CASE z = Root -> Published({kr}, kr)
                       [] z = Shop -> Published({ks, zs}, ks)
                       [] OTHER    -> None]

Bare     == NoDigest(NoProof)

\* Records of the root, which has Shop and another child, that do not deny the DS
\* of Shop: all of its NSEC records, that of the other child alone, and NSEC3
\* records of an opt-out zone without that of Shop.
Cafe     == <<4>>
RootZone == [n \in {Root, Shop, Cafe} |->
               CASE n = Root -> {"SOA", "NS"} [] n = Shop -> {"NS", "DS"} [] OTHER -> {"NS"}]
NextName(n)  == CASE n = Root -> Shop [] n = Shop -> Cafe [] OTHER -> Root
RootNsec(n)  == [owner |-> n, next |-> NextName(n), types |-> RootZone[n] \cup {"NSEC"}]
RootNsec3(n) ==
  LET hashes == {MCHash[o] : o \in {Root, Shop}}
      after  == {h \in hashes : h > MCHash[n]}
  IN  [owner |-> MCHash[n], next |-> FirstHash(IF after = {} THEN hashes ELSE after),
       types |-> RootZone[n], optOut |-> TRUE]
BesideShop ==
  {NoDigest(Shown("nsec", {RootNsec(n) : n \in {Root, Shop, Cafe}}, kr)),
   NoDigest(Shown("nsec", {RootNsec(Cafe)}, kr)),
   NoDigest(Shown("nsec3", {RootNsec3(Root)}, kr))}

\* Besides what is whole: errors, denials without proof, with one that was not
\* signed or one of something else, a stray digest, and keys signed by the zone
\* key alone or by a stray one.
MCDsReplies ==
  [z \in MCNames |->
     {MCWholeDs[z]} \cup
     CASE z = Shop -> BesideShop \cup {None, Bare,
                       [ds |-> {kx}, ev |-> [sigs |-> {}, tries |-> 1], proof |-> NoProof]}
       [] z = Open -> {Bare, NoDigest([Shown("nsec", {OpenNsec}, kx) EXCEPT !.ev.tries = 1])}
       [] OTHER    -> {None}]
MCKeyReplies ==
  [z \in MCNames |->
     {MCWholeKeys[z]} \cup
     CASE z = Shop -> {None, Published({ks, zs}, zs),
                       Published({ks, zs, kx}, kx)}
       [] OTHER    -> {}]

-----------------------------------------------------------------------------
(* Messages to validate *)

Sig(z, k)     == [signer |-> z, by |-> k, timely |-> TRUE]
Set(n, sigs)  == [owner |-> n, sigs |-> sigs]
Answer(rrsets, end) == [kind |-> "answer", rrsets |-> rrsets, end |-> end]

Good    == Set(Www, <<Sig(Shop, zs)>>)
Second  == Set(Www, <<Sig(Shop, None), Sig(Shop, zs)>>)   \* one bad signature first
Forged  == Set(Open, <<Sig(Open, kx), Sig(Shop, kx)>>)    \* the second chain is trusted
Late    == Set(Www, <<[Sig(Shop, zs) EXCEPT !.timely = FALSE]>>)
Foreign == Set(Open, <<Sig(Open, kx)>>)
Naked(n) == Set(n, <<>>)

\* Denials of Shop: of a name of a zone with one host and, in the second, of a
\* type at a name that the wildcard of its zone stands for.
Denial(n, t, kind, recs) ==
  [kind |-> "negative", soa |-> Shop, related |-> TRUE, ev |-> By(zs),
   name |-> n, type |-> t, proof |-> Shown(kind, recs, zs)]

HostZone == [n \in {Shop, Below(<<7>>)} |-> TypesAt(n)]
WildZone == [n \in {Shop, Below(<<Star>>)} |-> TypesAt(n)]
Nxdomain == Denial(Below(<<5>>), "A", "nsec3", Nsec3Answer(HostZone, FALSE, Below(<<5>>)))
WildcardNodata == Denial(Below(<<5>>), "TXT", "nsec", NsecAnswer(WildZone, Below(<<5>>)))

Insec == [Denial(Open, "A", "nsec", {}) EXCEPT !.soa = Open]

\* Messages that are judged at once, or after one look.
Trifles == {[kind |-> "other"], Answer(<<>>, "nothing"), Answer(<<Good>>, "loop"),
            [Nxdomain EXCEPT !.related = FALSE], Answer(<<Late>>, "data")}
Messages == Trifles \cup
  {Answer(<<Good>>, "nothing"), Answer(<<Second, Foreign>>, "data"), Answer(<<Forged>>, "data"),
   Answer(<<Naked(Open)>>, "data"), Answer(<<Naked(Shop)>>, "data"), Nxdomain, Insec}
Wildcards == {WildcardNodata, Answer(<<Good>>, "data")}

MCDue(m) ==
  CASE m = Nxdomain -> "Secure"
    [] m \in {Insec, Answer(<<Naked(Open)>>, "data"), Answer(<<Second, Foreign>>, "data")}
         -> "InsecureUnsigned"
    [] m \in {Answer(<<Naked(Shop)>>, "data"), Answer(<<Forged>>, "data"),
              Answer(<<Late>>, "data")} -> "Bogus"
    [] m = Answer(<<Good>>, "nothing") -> "InsecureUnknown"
    [] OTHER -> None
DueOf == [m \in Jobs |-> MCDue(m)]

\* The hypotheses of WholeAnswersJudgedHolds are met here: keys and delegations
\* stay as they are, and Due is what the zones say of the messages they serve.
ASSUME WorldAssumption == Steady /\ DueJustified

\* Bound of the instance: of the messages with the longest validations one is
\* being validated at a time, beside any other.
Long == {Answer(<<Second, Foreign>>, "data"), Answer(<<Forged>>, "data"),
         Answer(<<Naked(Open)>>, "data")}
Busy(v) == pc[v] \notin {"idle", "done"} /\ asked[v] \in Long
OneLong == \A v, w \in Validators : Busy(v) /\ Busy(w) => v = w

Twins == Permutations(Validators)

\* README.md:453-459: "Negative responses are validated cryptographically ... The
\* validator supports: ... Wildcard NODATA": a whole and signed NSEC proof that the
\* wildcard which stands for a name lacks the type is accepted.
WildcardNodataSupported ==
  \A v \in Validators :
    pc[v] = "done" /\ asked[v] = WildcardNodata /\ plain[v] /\ ~refused[v]
      => verdict[v] = "Secure"
=============================================================================
