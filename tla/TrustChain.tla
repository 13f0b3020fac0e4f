----------------------------- MODULE TrustChain -----------------------------
(***************************************************************************)
(* DnssecValidator of src/dnssec.rs: validations that run at the same time *)
(* walk the chain of trust from the root to the zone that signed, over two *)
(* caches they share, each within its budget of signature checks.          *)
(*                                                                         *)
(* A step ends at an await (the resolution of DS, DNSKEY or SOA records)   *)
(* or at a read of a cache.  What the resolver returns is the environment: *)
(* any of DsReplies and KeyReplies, as long as the keys of a zone sign only *)
(* keys and digests that are real (GenuineSignatures).  Cryptography is    *)
(* what a signature verifies with.  An expired cache entry is gone.        *)
(***************************************************************************)
EXTENDS Denial, FiniteSets

CONSTANTS
  Validators,
  Names,          \* zones, owners of records, and all that is above them
  Keys, KeysOf,   \* keys, and those a zone really uses
  Unsupported,    \* a digest of no use: its type or algorithm is unknown
  Anchors,        \* keys that ROOT_TRUST_ANCHORS digests match
  NoDs,           \* zones without a usable DS
  Jobs,           \* messages to validate
  DsReplies, KeyReplies,   \* answers to a DS or DNSKEY question for a name
  Apexes,         \* what a search for the apex of a name's zone may end at
  MaxChecks,      \* PER_VALIDATION_MAX_SIG_CHECKS
  WholeDs, WholeKeys, ApexOf, Due,   \* what a server that is up to date says of
                  \*   a name, and the verdict its messages deserve, if any
  None

Verdicts == {"Secure", "InsecureUnsigned", "InsecureUnknown", "Bogus"}

-----------------------------------------------------------------------------
(* Messages *)

\* `by` is the key an RRSIG verifies with, None if there is none; timely is
\* rrsig_time_valid.
RRSIG == [signer : Names, by : Keys \cup {None}, timely : BOOLEAN]
RRset == [owner : Names, sigs : Seq(RRSIG)]

\* `sigs` are the keys that an RRset, or every record of a proof, verifies
\* with; `tries` are the checks made until it does or no key is left to try.
Evidence == [sigs : SUBSET Keys, tries : Nat]

\* usable: SHA-1 and few iterations; same: one set of parameters.
Proof == [kind : {"none", "nsec", "nsec3"}, usable : BOOLEAN, same : BOOLEAN,
          recs : SUBSET (Nsec \cup Nsec3), ev : Evidence]

\* The RRsets of an answer in the order of its redirections; `end` is what is
\* found at the last owner.
AnswerJob   == [kind : {"answer"}, rrsets : Seq(RRset),
                end : {"data", "nothing", "loop"}]
NegativeJob == [kind : {"negative"}, soa : Names \cup {None}, related : BOOLEAN,
                ev : Evidence, name : Seq(Nat), type : STRING, proof : Proof]
OtherJob    == [kind : {"other"}]       \* neither NOERROR nor NXDOMAIN

DsReply  == [ds : SUBSET (Keys \cup {Unsupported}), ev : Evidence, proof : Proof]
KeyReply == [keys : SUBSET Keys, zoneKeys : SUBSET Keys, ev : Evidence]

-----------------------------------------------------------------------------
(* What signatures are worth *)

\* The verdict of a proof over its content, its signatures being good.
Content(q, t, p) ==
  IF p.kind = "nsec" THEN NsecVerdict(q, t, p.recs) ELSE Nsec3Verdict(q, t, p.recs)

\* The keys of a zone sign the digests of its children's keys, and its own keys.
\* What the denials they sign are taken for is no matter of this assumption.
ASSUME GenuineSignatures ==
  /\ Anchors \subseteq KeysOf[Root]
  /\ \A z \in Names \ {Root} : \A r \in DsReplies[z] \ {None} :
       r.ev.sigs \cap KeysOf[Base(z)] # {} =>
         /\ r.ds \subseteq KeysOf[z] \cup {Unsupported}
         /\ r.ds = {Unsupported} => z \in NoDs
  /\ \A z \in Names : \A r \in KeyReplies[z] \ {None} :
       /\ r.zoneKeys \subseteq r.keys
       /\ r.ev.sigs \cap KeysOf[z] # {} => r.keys \subseteq KeysOf[z]

ASSUME TrustAssumption ==
  /\ \A n \in Names : n \in Seq(Nat) /\ \A p \in 0..Len(n) : Ancestor(n, p) \in Names
  /\ KeysOf \in [Names -> SUBSET Keys] /\ IsFiniteSet(Keys)
  /\ NoDs \subseteq Names /\ Unsupported \notin Keys
  /\ Jobs \subseteq AnswerJob \cup NegativeJob \cup OtherJob
  /\ \A m \in Jobs : m.kind = "answer" /\ m.end = "data" => m.rrsets # <<>>
  /\ Apexes \in [Names -> SUBSET Names]
  /\ \A n \in Names : \A z \in Apexes[n] : ZoneOf(z, n)
  /\ DsReplies \in [Names -> SUBSET (DsReply \cup {None})]
  /\ KeyReplies \in [Names -> SUBSET (KeyReply \cup {None})]
  /\ MaxChecks \in Nat /\ EncloserSteps \in Nat \ {0}

ASSUME RootAssumption == Root \in Names

ASSUME NoneAssumption ==
  /\ None \notin Verdicts \cup {"Signed", "Unsigned"} /\ None \notin Keys
  /\ None \notin Names /\ None \notin Jobs
  /\ None \notin DsReply /\ None \notin KeyReply

VARIABLES
  keyCache,   \* key_trust_cache: the keys of a zone, or None
  memo,       \* signed_zone_cache: "Signed", "Unsigned" or None
  asked,      \* the message a validation was called with
  verdict,    \* what it returned, None while it runs
  pc,         \* where it stands
  at,         \* the RRset of the message it looks at
  cand,       \*   and the RRSIG of that RRset, 0 if it has none
  trusted,    \* any_trusted_chain
  target,     \* build_trust_chain: the zone to reach,
  pos,        \*   the labels of the zone it is at,
  keys,       \*   the keys of the zone before (at the end: of the target)
  ds,         \*   and the digests its DNSKEYs have to match
  used,       \* sig_checks of the budget
  refused,    \* history: the budget has refused a check
  plain       \* history: whatever it was told was complete and in order

caches  == <<keyCache, memo>>
walk    == <<target, pos, keys, ds>>
calls   == <<asked, at, cand, trusted>>
history == <<refused, plain>>
vars == <<caches, verdict, pc, calls, walk, used, history>>

Points == {"idle", "called", "rrset", "apex", "walk", "ds", "dnskey",
           "trusted", "unsigned", "broken", "done"}

Zone(v)  == Ancestor(target[v], pos[v])
RR(v)    == asked[v].rrsets[at[v]]

\* RRSIGs of an RRset in their time, by a zone at or above the owner.
Candidates(rr) ==
  {i \in DOMAIN rr.sigs : rr.sigs[i].timely /\ ZoneOf(rr.sigs[i].signer, rr.owner)}

NextCandidate(S) == CHOOSE i \in S : \A j \in S : i <= j

Goto(v, p) == pc' = [pc EXCEPT ![v] = p]

\* The locals of build_trust_chain(z), which starts at the root.
Enter(v, z) ==
  /\ target' = [target EXCEPT ![v] = z]
  /\ pos' = [pos EXCEPT ![v] = 0]
  /\ keys' = [keys EXCEPT ![v] = {}]
  /\ ds' = [ds EXCEPT ![v] = {}]

Walk(v, z) == Enter(v, z) /\ Goto(v, "walk")

\* validate_rrset begins with RRset i.
Begin(v, i) ==
  /\ at' = [at EXCEPT ![v] = i]
  /\ cand' = [cand EXCEPT ![v] = 0]
  /\ trusted' = [trusted EXCEPT ![v] = FALSE]

\* The validation ends with verdict d, and its locals with it.
Return(v, d) ==
  /\ verdict' = [verdict EXCEPT ![v] = d]
  /\ Goto(v, "done")
  /\ Enter(v, Root)
  /\ Begin(v, 1)
  /\ UNCHANGED asked

\* n checks of signatures are made, or as many of them as the budget allows.
Afford(v, n) == used[v] + n <= MaxChecks

\* Mutant of Spend: a check is counted when it has been made.
SpendAfter(v, n) ==
  /\ used' = [used EXCEPT ![v] = used[v] + n]
  /\ refused' = [refused EXCEPT ![v] = refused[v] \/ ~Afford(v, n)]

Spend(v, n) ==
  /\ used' = [used EXCEPT ![v] = IF Afford(v, n) THEN used[v] + n ELSE MaxChecks]
  /\ refused' = [refused EXCEPT ![v] = refused[v] \/ ~Afford(v, n)]

-----------------------------------------------------------------------------
(* validate_message and validate_answer *)

Ask(v, m) ==
  /\ pc[v] \in {"idle", "done"}
  /\ asked' = [asked EXCEPT ![v] = m]
  /\ verdict' = [verdict EXCEPT ![v] = None]
  /\ used' = [used EXCEPT ![v] = 0]
  /\ refused' = [refused EXCEPT ![v] = FALSE]
  /\ plain' = [plain EXCEPT ![v] = TRUE]
  /\ Goto(v, "called")
  /\ UNCHANGED <<caches, at, cand, trusted, walk>>

\* What is decided before anything is looked up.
AtOnce(m) ==
  IF m.kind = "other" THEN "InsecureUnknown"
  ELSE IF m.kind = "answer"
    THEN IF m.end = "loop" THEN "Bogus"
         ELSE IF m.rrsets = <<>> THEN "InsecureUnknown" ELSE None
  ELSE IF m.soa = None THEN "InsecureUnknown"
  ELSE IF ~m.related THEN "Bogus" ELSE None

Dispatch(v) ==
  /\ pc[v] = "called"
  /\ \/ /\ AtOnce(asked[v]) # None
        /\ Return(v, AtOnce(asked[v]))
     \/ /\ AtOnce(asked[v]) = None
        /\ asked[v].kind = "answer"
        /\ Goto(v, "rrset")
        /\ UNCHANGED <<verdict, calls, walk>>
     \/ /\ AtOnce(asked[v]) = None
        /\ asked[v].kind = "negative"
        /\ Walk(v, asked[v].soa)
        /\ UNCHANGED <<verdict, calls>>
  /\ UNCHANGED <<caches, used, history>>

\* The RRset at hand is Secure: on to the next redirection, or to the end.
NextRRset(v) ==
  IF at[v] < Len(asked[v].rrsets)
    THEN /\ Begin(v, at[v] + 1)
         /\ Enter(v, Root)
         /\ Goto(v, "rrset")
         /\ UNCHANGED <<verdict, asked>>
    ELSE Return(v, IF asked[v].end = "data" THEN "Secure" ELSE "InsecureUnknown")

-----------------------------------------------------------------------------
(* validate_rrset and is_zone_signed *)

\* Mutant of Known: what is known of a signed zone holds for all below it too.
KnownFromAbove(n) ==
  IF \E p \in 0..Len(n) : memo[Ancestor(n, p)] = "Unsigned" THEN "Unsigned"
  ELSE IF \E p \in 0..Len(n) : memo[Ancestor(n, p)] = "Signed" THEN "Signed"
  ELSE None

\* What signed_zone_cache says of a name: an unsigned zone makes all below it so.
Known(n) ==
  IF memo[n] = "Signed" THEN "Signed"
  ELSE IF \E p \in 0..Len(n) : memo[Ancestor(n, p)] = "Unsigned"
    THEN "Unsigned" ELSE None

\* An RRset without RRSIG: is its zone signed?
Unproven(v) ==
  /\ pc[v] = "rrset" /\ RR(v).sigs = <<>>
  /\ \/ Known(RR(v).owner) = "Signed" /\ Return(v, "Bogus")
     \/ Known(RR(v).owner) = "Unsigned" /\ Return(v, "InsecureUnsigned")
     \/ /\ Known(RR(v).owner) = None
        /\ Goto(v, "apex")
        /\ UNCHANGED <<verdict, calls, walk>>
  /\ UNCHANGED <<caches, used, history>>

\* find_zone_apex: the owner of an SOA at or above the name, as the resolver's
\* answers say, or where it gives up.
FindApex(v, z) ==
  /\ pc[v] = "apex"
  /\ z \in Apexes[RR(v).owner]
  /\ Walk(v, z)
  /\ plain' = [plain EXCEPT ![v] = plain[v] /\ z = ApexOf[RR(v).owner]]
  /\ UNCHANGED <<caches, verdict, calls, used, refused>>

\* The next RRSIG to try, among S; `any` is any_trusted_chain.
Try(v, S, any) ==
  /\ cand' = [cand EXCEPT ![v] = NextCandidate(S)]
  /\ trusted' = [trusted EXCEPT ![v] = any]
  /\ Walk(v, RR(v).sigs[NextCandidate(S)].signer)
  /\ UNCHANGED <<verdict, asked, at>>

Proven(v) ==
  /\ pc[v] = "rrset" /\ RR(v).sigs # <<>>
  /\ \/ Candidates(RR(v)) = {} /\ Return(v, "Bogus")
     \/ /\ Candidates(RR(v)) # {}
        /\ Try(v, Candidates(RR(v)), FALSE)
  /\ UNCHANGED <<caches, used, history>>

\* This RRSIG has led nowhere.
TryNext(v, any) ==
  LET others == {i \in Candidates(RR(v)) : i > cand[v]}
  IN  \/ others # {} /\ Try(v, others, any)
      \/ others = {} /\ Return(v, IF any THEN "Bogus" ELSE "InsecureUnsigned")

-----------------------------------------------------------------------------
(* build_trust_chain *)

\* ks are the keys of the zone at hand.
Reached(v, ks) ==
  /\ keys' = [keys EXCEPT ![v] = ks]
  /\ IF pos[v] = Len(target[v])
       THEN Goto(v, "trusted") /\ UNCHANGED pos
       ELSE Goto(v, "walk") /\ pos' = [pos EXCEPT ![v] = pos[v] + 1]

\* The keys of the zone are in the cache, or have to be asked for.
Lookup(v) ==
  /\ pc[v] = "walk"
  /\ \/ /\ keyCache[Zone(v)] # None
        /\ Reached(v, keyCache[Zone(v)])
        /\ UNCHANGED ds
     \/ /\ keyCache[Zone(v)] = None
        /\ Goto(v, IF pos[v] = 0 THEN "dnskey" ELSE "ds")
        /\ ds' = [ds EXCEPT ![v] = IF pos[v] = 0 THEN Anchors ELSE {}]
        /\ UNCHANGED <<pos, keys>>
  /\ UNCHANGED <<caches, verdict, calls, target, used, history>>

\* validate_nsec and validate_nsec3 over proof p; n checks were made before.
UpFront(p) ==
  IF p.kind = "nsec3" /\ ~p.usable THEN "InsecureUnknown"
  ELSE IF p.kind = "none" \/ (p.kind = "nsec3" /\ ~p.same) THEN "Bogus"
  ELSE None

Tries(p) == IF UpFront(p) = None THEN p.ev.tries ELSE 0

Denies(q, t, p, ks) ==
  IF UpFront(p) # None THEN UpFront(p)
  ELSE IF p.ev.sigs \cap ks = {} THEN "Bogus" ELSE Content(q, t, p)

Verifies(ev, ks) == ev.sigs \cap ks # {}

\* The answer to the DS question, None for an error.
DsAnswer(v, r) ==
  /\ pc[v] = "ds"
  /\ \/ r = None /\ Goto(v, "broken") /\ UNCHANGED <<ds, used, refused>>
     \/ /\ r # None /\ r.ds = {}
        /\ Spend(v, Tries(r.proof))
        /\ Goto(v, IF /\ Afford(v, Tries(r.proof))
                      /\ Denies(Zone(v), "DS", r.proof, keys[v])
                           \in {"Secure", "InsecureUnsigned"}
                     THEN "unsigned" ELSE "broken")
        /\ UNCHANGED ds
     \/ /\ r # None /\ r.ds # {}
        /\ Spend(v, r.ev.tries)
        /\ IF Afford(v, r.ev.tries) /\ Verifies(r.ev, keys[v])
             THEN Goto(v, IF r.ds = {Unsupported} THEN "unsigned" ELSE "dnskey")
             ELSE Goto(v, "broken")
        /\ ds' = [ds EXCEPT ![v] = r.ds]
  /\ plain' = [plain EXCEPT ![v] = plain[v] /\ r = WholeDs[Zone(v)]]
  /\ UNCHANGED <<caches, verdict, calls, target, pos, keys>>

\* Mutant of KeyAnswer: any of the keys may have signed them all.
KeyAnswerSelfSigned(v, r) ==
  LET matched == IF r = None THEN {} ELSE r.keys \cap ds[v]
  IN  /\ pc[v] = "dnskey"
      /\ \/ /\ matched = {}
            /\ Goto(v, "broken")
            /\ UNCHANGED <<keyCache, pos, keys, used, refused>>
         \/ /\ matched # {}
            /\ Spend(v, r.ev.tries)
            /\ IF Afford(v, r.ev.tries) /\ Verifies(r.ev, r.keys)
                 THEN /\ keyCache' = [keyCache EXCEPT ![Zone(v)] = r.zoneKeys]
                      /\ Reached(v, r.zoneKeys)
                 ELSE Goto(v, "broken") /\ UNCHANGED <<keyCache, pos, keys>>
      /\ plain' = [plain EXCEPT ![v] = plain[v] /\ r = WholeKeys[Zone(v)]]
      /\ ds' = [ds EXCEPT ![v] = {}]
      /\ UNCHANGED <<memo, verdict, calls, target>>

\* The answer to the DNSKEY question.  Of the keys the digests match one has to
\* sign them all; the zone keys among all of them go to the cache.
KeyAnswer(v, r) ==
  LET matched == IF r = None THEN {} ELSE r.keys \cap ds[v]
  IN  /\ pc[v] = "dnskey"
      /\ \/ /\ matched = {}
            /\ Goto(v, "broken")
            /\ UNCHANGED <<keyCache, pos, keys, used, refused>>
         \/ /\ matched # {}
            /\ Spend(v, r.ev.tries)
            /\ IF Afford(v, r.ev.tries) /\ Verifies(r.ev, matched)
                 THEN /\ keyCache' = [keyCache EXCEPT ![Zone(v)] = r.zoneKeys]
                      /\ Reached(v, r.zoneKeys)
                 ELSE Goto(v, "broken") /\ UNCHANGED <<keyCache, pos, keys>>
      /\ plain' = [plain EXCEPT ![v] = plain[v] /\ r = WholeKeys[Zone(v)]]
      /\ ds' = [ds EXCEPT ![v] = {}]
      /\ UNCHANGED <<memo, verdict, calls, target>>

-----------------------------------------------------------------------------
(* What the caller of build_trust_chain makes of its result *)

Negative(v) == asked[v].kind = "negative"
Searching(v) == ~Negative(v) /\ RR(v).sigs = <<>>       \* is_zone_signed
Checking(v)  == ~Negative(v) /\ RR(v).sigs # <<>>       \* validate_rrset

\* Mutant of Broken: a zone whose chain is broken is taken for an unsigned one.
BrokenIsUnsigned(v) ==
  /\ pc[v] = "broken"
  /\ Return(v, IF Searching(v) THEN "InsecureUnsigned" ELSE "Bogus")
  /\ UNCHANGED <<caches, used, history>>

\* ChainResult::Bogus; a zone whose chain is broken is of unknown signedness.
Broken(v) ==
  /\ pc[v] = "broken"
  /\ Return(v, IF Searching(v) THEN "InsecureUnknown" ELSE "Bogus")
  /\ UNCHANGED <<caches, used, history>>

\* ChainResult::Unsigned.
Unsigned(v) ==
  /\ pc[v] = "unsigned"
  /\ \/ Negative(v) /\ Return(v, "InsecureUnsigned") /\ UNCHANGED memo
     \/ /\ Searching(v)
        /\ memo' = [memo EXCEPT ![target[v]] = "Unsigned"]
        /\ Return(v, "InsecureUnsigned")
     \/ Checking(v) /\ TryNext(v, trusted[v]) /\ UNCHANGED memo
  /\ UNCHANGED <<keyCache, used, history>>

\* ChainResult::Trusted, for an RRset without RRSIG in a zone that signs.
Missing(v) ==
  /\ pc[v] = "trusted" /\ Searching(v)
  /\ memo' = [memo EXCEPT ![target[v]] = "Signed"]
  /\ Return(v, "Bogus")
  /\ UNCHANGED <<keyCache, used, history>>

\* Mutant of TryKeys: when the budget is spent the next RRSIG is tried.
TryKeysGoOn(v, n) ==
  LET good == RR(v).sigs[cand[v]].by \in keys[v]
  IN  /\ pc[v] = "trusted" /\ Checking(v)
      /\ n <= Cardinality(keys[v])
      /\ IF good THEN n > 0 ELSE n = Cardinality(keys[v])
      /\ Spend(v, n)
      /\ \/ ~Afford(v, n) /\ TryNext(v, trusted[v])
         \/ Afford(v, n) /\ good /\ NextRRset(v)
         \/ Afford(v, n) /\ ~good /\ TryNext(v, TRUE)
      /\ UNCHANGED <<caches, plain>>

\* The keys of the signer are tried in turn, n of them; all count, whatever
\* their tag.
TryKeys(v, n) ==
  LET good == RR(v).sigs[cand[v]].by \in keys[v]
  IN  /\ pc[v] = "trusted" /\ Checking(v)
      /\ n <= Cardinality(keys[v])
      /\ IF good THEN n > 0 ELSE n = Cardinality(keys[v])
      /\ Spend(v, n)
      /\ \/ ~Afford(v, n) /\ Return(v, "Bogus")
         \/ Afford(v, n) /\ good /\ NextRRset(v)
         \/ Afford(v, n) /\ ~good /\ TryNext(v, TRUE)
      /\ UNCHANGED <<caches, plain>>

\* validate_negative: the SOA, then the proof, with the keys of its zone.
CheckNegative(v) ==
  LET m  == asked[v]
      n  == IF Verifies(m.ev, keys[v]) THEN Tries(m.proof) ELSE 0
  IN  /\ pc[v] = "trusted" /\ Negative(v)
      /\ Spend(v, m.ev.tries + n)
      /\ Return(v, IF Afford(v, m.ev.tries + n) /\ Verifies(m.ev, keys[v])
                     THEN Denies(m.name, m.type, m.proof, keys[v])
                     ELSE "Bogus")
      /\ UNCHANGED <<caches, plain>>

-----------------------------------------------------------------------------

Init ==
  /\ keyCache = [z \in Names |-> None]
  /\ memo     = [z \in Names |-> None]
  /\ asked    = [v \in Validators |-> None]
  /\ verdict  = [v \in Validators |-> None]
  /\ pc       = [v \in Validators |-> "idle"]
  /\ at       = [v \in Validators |-> 1]
  /\ cand     = [v \in Validators |-> 0]
  /\ trusted  = [v \in Validators |-> FALSE]
  /\ target   = [v \in Validators |-> Root]
  /\ pos      = [v \in Validators |-> 0]
  /\ keys     = [v \in Validators |-> {}]
  /\ ds       = [v \in Validators |-> {}]
  /\ used     = [v \in Validators |-> 0]
  /\ refused  = [v \in Validators |-> FALSE]
  /\ plain    = [v \in Validators |-> TRUE]

\* An entry's time is up.
Expire(z) ==
  \/ /\ keyCache[z] # None
     /\ keyCache' = [keyCache EXCEPT ![z] = None]
     /\ UNCHANGED <<memo, verdict, pc, calls, walk, used, history>>
  \/ /\ memo[z] # None
     /\ memo' = [memo EXCEPT ![z] = None]
     /\ UNCHANGED <<keyCache, verdict, pc, calls, walk, used, history>>

Step(v) ==
  \/ Dispatch(v) \/ Unproven(v) \/ Proven(v)
  \/ \E z \in Names : FindApex(v, z)
  \/ Lookup(v)
  \/ \E r \in DsReplies[Zone(v)] : DsAnswer(v, r)
  \/ \E r \in KeyReplies[Zone(v)] : KeyAnswer(v, r)
  \/ Broken(v) \/ Unsigned(v) \/ Missing(v)
  \/ \E n \in 0..Cardinality(keys[v]) : TryKeys(v, n)
  \/ CheckNegative(v)

Next ==
  \/ \E v \in Validators : Step(v) \/ (\E m \in Jobs : Ask(v, m))
  \/ \E z \in Names : Expire(z)

Spec == Init /\ [][Next]_vars

-----------------------------------------------------------------------------
(* Properties *)

\* The locals and caches hold what their types allow; the budget is never
\* exceeded, over all RRsets and chains of one message together.
TypeOK ==
  /\ keyCache \in [Names -> {None} \cup SUBSET Keys]
  /\ memo \in [Names -> {None, "Signed", "Unsigned"}]
  /\ asked \in [Validators -> Jobs \cup {None}]
  /\ verdict \in [Validators -> Verdicts \cup {None}]
  /\ pc \in [Validators -> Points]
  /\ at \in [Validators -> Nat] /\ cand \in [Validators -> Nat]
  /\ trusted \in [Validators -> BOOLEAN]
  /\ target \in [Validators -> Names] /\ pos \in [Validators -> Nat]
  /\ keys \in [Validators -> SUBSET Keys]
  /\ ds \in [Validators -> SUBSET (Keys \cup {Unsupported})]
  /\ used \in [Validators -> 0..MaxChecks]
  /\ refused \in [Validators -> BOOLEAN] /\ plain \in [Validators -> BOOLEAN]

\* key_trust_cache holds for a zone only keys that the zone really uses,
\* whatever DS and DNSKEY answers were lost, cut or mixed up on the way down.
KeysGenuine ==
  \A z \in Names : keyCache[z] # None => keyCache[z] \subseteq KeysOf[z]

\* A validation whose budget has run out, wherever along the chain it did, does
\* not end with a verdict that lets the data be cached or marked as valid.
BudgetFinal ==
  \A v \in Validators :
    pc[v] = "done" /\ refused[v] => verdict[v] \in {"Bogus", "InsecureUnknown"}

\* A zone at or above n has no usable DS.
Unsecured(n) == \E z \in NoDs : ZoneOf(z, n)

\* It is read to have none: a denial of its DS can be had that keys of the zone
\* above it signed and that is taken for one, whatever it is in truth.
MissingDs(z) ==
  \/ z \in NoDs
  \/ /\ z # Root
     /\ \E r \in DsReplies[z] \ {None} :
          /\ r.ds = {}
          /\ Denies(z, "DS", r.proof, KeysOf[Base(z)]) \in {"Secure", "InsecureUnsigned"}

ReadsUnsecured(n) == \E z \in Names : ZoneOf(z, n) /\ MissingDs(z)

\* A record of the zone above z, which has a DS for it.
TrueNsec(r, z) == ~Covers(r, z) /\ (r.owner = z => "DS" \in r.types)

\* And of NSEC3, without that of a wildcard right below the zone above: it is no
\* less true, but check_nsec3_wildcard_nodata takes it for a denial of the DS.
TrueNsec3(r, z) ==
  /\ Covers3(r, Hash[z]) => r.owner = Hash[z]
  /\ r.owner = Hash[z] => "DS" \in r.types
  /\ \A p \in 0..Len(z) : r.owner = Hash[Ancestor(z, p)] => p + 1 >= Len(z)
  /\ r.owner # Hash[Wildcard(Base(z))]

\* Of a zone with a DS only true records can be had from the zone above it, be
\* they those for the question or others of the same zone.
RecordsTrue ==
  \A z \in Names \ (NoDs \cup {Root}) : \A r \in DsReplies[z] \ {None} :
    Verifies(r.proof.ev, KeysOf[Base(z)]) =>
      \A rec \in r.proof.recs :
        IF r.proof.kind = "nsec" THEN TrueNsec(rec, z) ELSE TrueNsec3(rec, z)

\* Nobody changes keys or delegations meanwhile: what the keys of a zone sign is
\* all of its keys, and digests or denials of the DS of a child that are true.
Steady ==
  /\ Root \notin NoDs /\ RecordsTrue
  /\ \A z \in Names :
       /\ \A r \in KeyReplies[z] \ {None} : Verifies(r.ev, KeysOf[z]) => r.zoneKeys = KeysOf[z]
       /\ z # Root => \A r \in DsReplies[z] \ {None} :
            r.ds # {} /\ Verifies(r.ev, KeysOf[Base(z)]) => (r.ds = {Unsupported} <=> z \in NoDs)

\* What the server of the zone above z says of its DS, and that of z of its keys,
\* is whole: signed, and what it has to be.
DsServed(z) ==
  LET r == WholeDs[z]
      signed == r.ds # {} /\ Verifies(r.ev, KeysOf[Base(z)])
      denied == r.ds = {} /\ Denies(z, "DS", r.proof, KeysOf[Base(z)])
                               \in {"Secure", "InsecureUnsigned"}
  IN  r # None /\ IF z \in NoDs THEN denied \/ (signed /\ r.ds = {Unsupported})
                                ELSE signed /\ r.ds # {Unsupported}
KeysServed(z) ==
  LET r == WholeKeys[z]
  IN  r # None /\ Verifies(r.ev, r.keys \cap IF z = Root THEN Anchors ELSE WholeDs[z].ds)

\* So it is all the way down to z, or to the insecure delegation above it.
Served(z) ==
  \A p \in 0..Len(z) :
    /\ p # 0 /\ ~Unsecured(Ancestor(z, p - 1)) => DsServed(Ancestor(z, p))
    /\ ~Unsecured(Ancestor(z, p)) => KeysServed(Ancestor(z, p))

\* The verdicts of an RRset and of a message, as the zones say that sign it.
SecureSigs(rr) == {i \in Candidates(rr) : ~Unsecured(rr.sigs[i].signer)}

RRsetDue(rr) ==
  IF rr.sigs = <<>> THEN IF Unsecured(ApexOf[rr.owner]) THEN "InsecureUnsigned" ELSE "Bogus"
  ELSE IF \E i \in SecureSigs(rr) : rr.sigs[i].by \in KeysOf[rr.sigs[i].signer] THEN "Secure"
  ELSE IF SecureSigs(rr) = {} /\ Candidates(rr) # {} THEN "InsecureUnsigned" ELSE "Bogus"

MessageDue(m) ==
  IF AtOnce(m) # None THEN AtOnce(m)
  ELSE IF m.kind = "answer"
    THEN LET others == {i \in DOMAIN m.rrsets : RRsetDue(m.rrsets[i]) # "Secure"}
         IN  IF others # {} THEN RRsetDue(m.rrsets[NextCandidate(others)])
             ELSE IF m.end = "data" THEN "Secure" ELSE "InsecureUnknown"
  ELSE IF Unsecured(m.soa) THEN "InsecureUnsigned"
  ELSE IF Verifies(m.ev, KeysOf[m.soa]) THEN Denies(m.name, m.type, m.proof, KeysOf[m.soa])
  ELSE "Bogus"

\* Every zone the verdict depends on is served.
RRsetServed(rr) ==
  IF rr.sigs = <<>>
    THEN Served(ApexOf[rr.owner]) /\ (Unsecured(rr.owner) <=> Unsecured(ApexOf[rr.owner]))
    ELSE \A i \in Candidates(rr) : Served(rr.sigs[i].signer)
MessageServed(m) ==
  AtOnce(m) = None =>
    IF m.kind = "answer" THEN \A i \in DOMAIN m.rrsets : RRsetServed(m.rrsets[i])
                         ELSE Served(m.soa)

DueJustified == \A m \in Jobs : Due[m] # None => MessageServed(m) /\ Due[m] = MessageDue(m)

\* A whole message validated along whole answers gets the verdict it deserves:
\* signed data is Secure, data of an insecure delegation is InsecureUnsigned,
\* and a proof of denial is accepted, whatever other validations left in the
\* caches and whichever entries expire on the way.
WholeAnswersJudged ==
  \A v \in Validators :
    pc[v] = "done" /\ plain[v] /\ ~refused[v] /\ Due[asked[v]] # None
      => verdict[v] = Due[asked[v]]

SignedRRset(rr) ==
  \E i \in Candidates(rr) : rr.sigs[i].by \in KeysOf[rr.sigs[i].signer]

SignedDenial(m) ==
  /\ m.soa # None
  /\ m.ev.sigs \cap KeysOf[m.soa] # {}
  /\ m.proof.ev.sigs \cap KeysOf[m.soa] # {}

Signed(m) ==
  \/ /\ m.kind = "answer" /\ m.end = "data"
     /\ \A i \in DOMAIN m.rrsets : SignedRRset(m.rrsets[i])
  \/ m.kind = "negative" /\ SignedDenial(m) /\ Content(m.name, m.type, m.proof) = "Secure"

\* Without signatures the owner, with them every signer is one of the names U.
UnsignedRRset(rr, U) ==
  IF rr.sigs = <<>> THEN rr.owner \in U
  ELSE Candidates(rr) # {} /\ \A i \in Candidates(rr) : rr.sigs[i].signer \in U

\* The first part of the message that is not signed lies in U, or it is a denial
\* by an opt-out span.
InsecureIn(m, U) ==
  \/ /\ m.kind = "answer"
     /\ \E i \in DOMAIN m.rrsets :
          /\ UnsignedRRset(m.rrsets[i], U)
          /\ \A j \in 1..(i - 1) : SignedRRset(m.rrsets[j])
  \/ /\ m.kind = "negative"
     /\ \/ m.soa \in U
        \/ SignedDenial(m) /\ Content(m.name, m.type, m.proof) = "InsecureUnsigned"

Insecure(m) == InsecureIn(m, {n \in Names : ReadsUnsecured(n)})

V == INSTANCE Validation WITH
       Messages <- Jobs, Signed <- Signed, Unsecured <- Insecure

\* What the chains, the caches they share and the budget do amounts to
\* Validation: one verdict for every message, Secure only for what the keys of
\* its zones signed, insecure only below a zone whose DS keys of the zone above
\* it denied, or digested in no usable way.
Validates == V!Spec
=============================================================================
