---------------------------- MODULE EngineProofs ----------------------------
(***************************************************************************)
(* What the resolution pipeline guarantees for every set of keys, queries, *)
(* messages and concurrent actors, and for every width of the clock word.  *)
(***************************************************************************)
EXTENDS Engine, WellFoundedInduction, TLAPS

-----------------------------------------------------------------------------
(* The time arithmetic, for every width of the word, every TTL and every set  *)
(* of signatures                                                              *)

\* The shape of what calculate_cache_ttl reads of a message.
IsMessage(msg) == msg.ttls \subseteq Word /\ msg.sigs \subseteq Word

\* Every nonempty set of naturals has a least element, which is what Min picks.
LEMMA MinOfNaturals ==
  ASSUME NEW S \in SUBSET Nat, S # {}
  PROVE  Min(S) \in S /\ \A x \in S : Min(S) <= x
<1> DEFINE Less == {ss \in Nat \X Nat : ss[1] < ss[2]}
<1>1. IsWellFoundedOn(Less, Nat)
  BY NatLessThanWellFounded DEF OpToRel
<1>2. \E x \in S : \A y \in S : ~ (<<y, x>> \in Less)
  BY <1>1, WFMin
<1>3. \E x \in S : \A y \in S : x =< y
  <2>1. PICK x \in S : \A y \in S : ~ (<<y, x>> \in Less)
    BY <1>2
  <2>2. ASSUME NEW y \in S PROVE x =< y
    <3>1. x \in Nat /\ y \in Nat /\ ~ (<<y, x>> \in Less)
      BY <2>1
    <3>2. ~ (y < x)
      BY <3>1
    <3> QED
      BY <3>1, <3>2
  <2> QED
    BY <2>2
<1> QED
  BY <1>3 DEF Min

\* calculate_min_ttl returns a natural number, at most the cap.
LEMMA MinTtlType ==
  ASSUME NEW msg, IsMessage(msg)
  PROVE  MinTtl(msg) \in 0 .. MaxAnswerTtl
<1> DEFINE least == Min(msg.ttls \cup {WordMod - 1})
<1>1. least \in Nat
  BY MinOfNaturals, WordAssumption DEF IsMessage, Word
<1>2. CASE least = WordMod - 1
  BY <1>2, TtlAssumption DEF MinTtl
<1>3. CASE least # WordMod - 1
  <2>1. Min({least, MaxAnswerTtl}) \in {least, MaxAnswerTtl}
        /\ Min({least, MaxAnswerTtl}) <= MaxAnswerTtl
    <3>1. {least, MaxAnswerTtl} \in SUBSET Nat /\ MaxAnswerTtl \in {least, MaxAnswerTtl}
      BY <1>1, TtlAssumption
    <3> HIDE DEF least
    <3> QED
      BY <3>1, MinOfNaturals
  <2> QED
    BY <1>1, <1>3, <2>1, TtlAssumption, WordAssumption DEF MinTtl
<1> QED
  BY <1>2, <1>3

\* A serial distance is an integer.
LEMMA SerialDiffType ==
  ASSUME NEW exp \in Word, NEW t \in Nat
  PROVE  SerialDiff(exp, t) \in Int
<1>1. t % WordMod \in Word
  BY WordAssumption DEF Word
<1>2. (exp - (t % WordMod)) % WordMod \in Word
  BY <1>1, WordAssumption DEF Word
<1> QED
  BY <1>2, WordAssumption DEF SerialDiff, AsSigned, WrappingSub, Word

\* calculate_cache_ttl never underflows.
LEMMA CacheTtlType ==
  ASSUME NEW msg, IsMessage(msg), NEW status, NEW t \in Nat
  PROVE  CacheTtl(msg, status, t) \in Nat
<1> DEFINE left == {SerialDiff(exp, t) : exp \in msg.sigs}
<1>1. MinTtl(msg) \in Nat
  BY MinTtlType, TtlAssumption
<1>2. left \subseteq Int
  BY SerialDiffType DEF IsMessage
<1>3. CASE status = "Secure" /\ \A d \in left : ~ (d <= 0)
  <2>1. left \cup {MinTtl(msg)} \in SUBSET Nat
    BY <1>1, <1>2, <1>3
  <2>2. Min(left \cup {MinTtl(msg)}) \in Nat
    BY <2>1, MinOfNaturals
  <2> QED
    BY <1>3, <2>2 DEF CacheTtl
<1>4. CASE ~ (status = "Secure" /\ \A d \in left : ~ (d <= 0))
  BY <1>1, <1>4 DEF CacheTtl
<1> QED
  BY <1>3, <1>4

\* A Secure message is never cached for longer than what is left of any of
\* its signatures.
LEMMA CacheTtlWithinSignature ==
  ASSUME NEW msg, IsMessage(msg), NEW t \in Nat,
         NEW exp \in msg.sigs, CacheTtl(msg, "Secure", t) > 0
  PROVE  CacheTtl(msg, "Secure", t) <= SerialDiff(exp, t)
<1> DEFINE left == {SerialDiff(x, t) : x \in msg.sigs}
<1>1. MinTtl(msg) \in Nat
  BY MinTtlType, TtlAssumption
<1>2. left \subseteq Int
  BY SerialDiffType DEF IsMessage
<1>3. \A d \in left : ~ (d <= 0)
  BY DEF CacheTtl
<1>4. left \cup {MinTtl(msg)} \in SUBSET Nat
  BY <1>1, <1>2, <1>3
<1>5. SerialDiff(exp, t) \in left \cup {MinTtl(msg)}
  OBVIOUS
<1>6. Min(left \cup {MinTtl(msg)}) <= SerialDiff(exp, t)
  BY <1>4, <1>5, MinOfNaturals
<1> QED
  BY <1>3, <1>6 DEF CacheTtl

\* No message is cached for longer than any of its records says.
LEMMA CacheTtlWithinTtls ==
  ASSUME NEW msg, IsMessage(msg), NEW status, NEW t \in Nat, NEW ttl \in msg.ttls
  PROVE  CacheTtl(msg, status, t) <= ttl
<1> DEFINE least == Min(msg.ttls \cup {WordMod - 1})
           left == {SerialDiff(exp, t) : exp \in msg.sigs}
<1>1. msg.ttls \cup {WordMod - 1} \in SUBSET Nat /\ ttl \in 0 .. WordMod - 1
  BY WordAssumption DEF IsMessage, Word
<1>2. least \in Nat /\ least <= ttl
  BY <1>1, MinOfNaturals
<1>3. MinTtl(msg) \in Nat /\ MinTtl(msg) <= ttl
  <2>1. CASE least = WordMod - 1
    BY <1>1, <1>2, <2>1, TtlAssumption, WordAssumption DEF MinTtl
  <2>2. CASE least # WordMod - 1
    <3>1. Min({least, MaxAnswerTtl}) \in Nat /\ Min({least, MaxAnswerTtl}) <= least
      <4>1. {least, MaxAnswerTtl} \in SUBSET Nat /\ least \in {least, MaxAnswerTtl}
        BY <1>2, TtlAssumption
      <4> HIDE DEF least
      <4> QED
        BY <4>1, MinOfNaturals
    <3> QED
      BY <1>1, <1>2, <2>2, <3>1 DEF MinTtl
  <2> QED
    BY <2>1, <2>2
<1>4. CASE status = "Secure" /\ \A d \in left : ~ (d <= 0)
  <2>1. left \subseteq Int
    BY SerialDiffType DEF IsMessage
  <2>2. left \cup {MinTtl(msg)} \in SUBSET Nat
    BY <1>3, <1>4, <2>1
  <2>3. Min(left \cup {MinTtl(msg)}) \in Nat /\ Min(left \cup {MinTtl(msg)}) <= MinTtl(msg)
    BY <2>2, MinOfNaturals
  <2> QED
    BY <1>1, <1>3, <1>4, <2>3 DEF CacheTtl
<1>5. CASE ~ (status = "Secure" /\ \A d \in left : ~ (d <= 0))
  BY <1>1, <1>3, <1>5 DEF CacheTtl
<1> QED
  BY <1>4, <1>5

\* Euclidean division by any modulus.
LEMMA Divide ==
  ASSUME NEW W \in Nat, W >= 1, NEW a \in Int
  PROVE  /\ a % W \in 0 .. W - 1
         /\ \E q \in Int : a = W * q + (a % W)
<1>1. a % W \in 0 .. W - 1
  OBVIOUS
<1>2. a \div W \in Int /\ a = W * (a \div W) + (a % W)
  OBVIOUS
<1> QED
  BY <1>1, <1>2

\* A remainder is unique.
LEMMA RemainderIsUnique ==
  ASSUME NEW W \in Nat, W >= 1, NEW p \in Int, NEW q \in Int,
         NEW r \in 0 .. W - 1, NEW s \in 0 .. W - 1, W * p + s = W * q + r
  PROVE  s = r
OBVIOUS

LEMMA ModIsRemainder ==
  ASSUME NEW W \in Nat, W >= 1, NEW a \in Int, NEW q \in Int,
         NEW r \in 0 .. W - 1, a = W * q + r
  PROVE  a % W = r
<1>1. PICK p \in Int : a = W * p + (a % W)
  BY Divide
<1>2. a % W \in 0 .. W - 1
  BY Divide
<1> QED
  BY <1>1, <1>2, RemainderIsUnique

\* As the clock advances by less than what is left of a signature, exactly that
\* much less is left: the comparison survives the u32 rollover.
LEMMA SerialShift ==
  ASSUME NEW exp \in Word, NEW t \in Nat, NEW d \in Nat, d < SerialDiff(exp, t)
  PROVE  SerialDiff(exp, t + d) = SerialDiff(exp, t) - d
<1> DEFINE w == t % WordMod
           left == (exp - w) % WordMod
           v == (t + d) % WordMod
<1>0. /\ WordMod \in Nat /\ WordMod >= 1 /\ Half \in Int /\ Half <= WordMod - 1
      /\ t \in Int /\ t + d \in Int
  BY WordAssumption DEF Half
<1>1. PICK qt \in Int : t = WordMod * qt + w
  BY <1>0, Divide
<1>2. w \in Word /\ v \in Word /\ exp \in Int
  BY <1>0, Divide DEF Word
<1>3. left \in Word
  <2>1. exp - w \in Int
    BY <1>2 DEF Word
  <2> QED
    BY <1>0, <2>1, Divide DEF Word
<1>4. PICK ql \in Int : exp - w = WordMod * ql + left
  <2>1. exp - w \in Int
    BY <1>2 DEF Word
  <2> QED
    BY <1>0, <2>1, Divide DEF Word
<1>5. PICK qv \in Int : t + d = WordMod * qv + v
  BY <1>0, Divide
<1>6. SerialDiff(exp, t) = AsSigned(left) /\ SerialDiff(exp, t + d) = AsSigned((exp - v) % WordMod)
  BY DEF SerialDiff, WrappingSub
<1> HIDE DEF v, left, w
<1>7. left < Half /\ SerialDiff(exp, t) = left
  BY <1>3, <1>6, <1>0 DEF AsSigned, Word
<1>8. left - d \in Word
  BY <1>3, <1>7, <1>0 DEF Word
<1>9. exp - v = WordMod * (ql - qt + qv) + (left - d)
  <2>1. v = t + d - WordMod * qv /\ w = t - WordMod * qt
    BY <1>1, <1>2, <1>5, <1>0 DEF Word
  <2>2. WordMod * (ql - qt + qv) = WordMod * ql - WordMod * qt + WordMod * qv
    BY <1>0
  <2> QED
    BY <1>2, <1>3, <1>4, <2>1, <2>2, <1>0 DEF Word
<1>10. (exp - v) % WordMod = left - d
  <2>1. exp - v \in Int /\ ql - qt + qv \in Int
    BY <1>2 DEF Word
  <2> QED
    BY <1>8, <1>9, <2>1, ModIsRemainder, <1>0 DEF Word
<1>11. AsSigned(left - d) = left - d
  BY <1>3, <1>7, <1>0 DEF AsSigned, Word
<1> QED
  BY <1>6, <1>7, <1>10, <1>11

\* A Secure message cached at t stays unexpired for as long as its TTL lasts:
\* what the whole bounding of TTLs by signatures is for.
THEOREM CacheTtlSafe ==
  ASSUME NEW msg, IsMessage(msg), NEW t \in Nat, NEW exp \in msg.sigs,
         NEW d \in 0 .. CacheTtl(msg, "Secure", t) - 1
  PROVE  SerialDiff(exp, t + d) > 0
<1>1. CacheTtl(msg, "Secure", t) \in Nat /\ SerialDiff(exp, t) \in Int
  BY CacheTtlType, SerialDiffType DEF IsMessage
<1>2. d < SerialDiff(exp, t)
  BY <1>1, CacheTtlWithinSignature
<1>3. SerialDiff(exp, t + d) = SerialDiff(exp, t) - d
  BY <1>1, <1>2, SerialShift DEF IsMessage
<1> QED
  BY <1>1, <1>2, <1>3

-----------------------------------------------------------------------------
(* The data *)

\* The messages of the model are what the TTL lemmas expect.
LEMMA MessagesAreMessages ==
  ASSUME NEW m \in Messages
  PROVE  IsMessage(m)
BY MessageAssumption DEF IsMessage

\* A resolution hands back a message and a verdict, never None.
LEMMA ResultsType ==
  ASSUME NEW t, NEW res \in Results(t)
  PROVE  res \in Result /\ res # None
<1>1. PICK m \in Messages : \E v \in VerdictsFor(m, t) : res = [msg |-> m, status |-> v]
  BY DEF Results
<1>2. VerdictsFor(m, t) \subseteq Verdicts
  BY DEF VerdictsFor, Verdicts
<1> QED
  BY <1>1, <1>2, NoneAssumption DEF Result

\* What is inserted into the cache is an entry.
LEMMA NewEntryType ==
  ASSUME NEW res \in Result, NEW t \in Nat
  PROVE  NewEntry(res, t) \in Entry
<1>1. CacheTtl(res.msg, res.status, t) \in Nat
  BY CacheTtlType, MessagesAreMessages DEF Result
<1> QED
  BY <1>1 DEF NewEntry, Entry, Result

\* An entry is fresh, stale or expired.
LEMMA FreshnessType ==
  ASSUME NEW e, NEW t
  PROVE  Freshness(e, t) \in Freshnesses
BY DEF Freshness, Freshnesses

\* A response without data is a reply.
LEMMA BareType ==
  ASSUME NEW o \in {"Success", "ServFail", "Truncated", "Dropped", "Malformed"}
  PROVE  Bare(o) \in Reply
BY DEF Bare, Reply

\* No TTL shown to a client underflows.
LEMMA ServedTtlType ==
  ASSUME NEW ttl \in Word, NEW e \in Entry, NEW f \in Freshnesses, NEW t \in Nat
  PROVE  ServedTtl(ttl, e, f, t) \in Nat
<1>1. Age(e, t) \in Nat
  BY DEF Age, SaturatingSub, Entry
<1>2. Age(e, t) % WordMod \in Nat
  <2>1. WordMod \in Nat /\ WordMod >= 1 /\ Age(e, t) \in Int
    BY <1>1, WordAssumption
  <2>2. Age(e, t) % WordMod \in 0 .. WordMod - 1
    BY <2>1, Divide
  <2> QED
    BY <2>1, <2>2
<1>3. CASE f = "Fresh"
  BY <1>2, <1>3, WordAssumption DEF ServedTtl, SaturatingSub, Word
<1>4. CASE f = "Stale"
  BY <1>4, TtlAssumption, WordAssumption DEF ServedTtl
<1>5. CASE f = "Expired"
  BY <1>5 DEF ServedTtl
<1> QED
  BY <1>3, <1>4, <1>5 DEF Freshnesses

\* A constructed response, or the challenge sent instead, is a reply.
LEMMA AnswerType ==
  ASSUME NEW q \in Queries, NEW e \in Entry, NEW from \in {"cache", "upstream"},
         NEW f \in Freshnesses, NEW t \in Nat,
         NEW rep \in Sized(q, Answer(q, e, from, f, t))
  PROVE  rep \in Reply
<1>1. e.msg \in Messages /\ e.msg.ttls \subseteq Word
  BY MessageAssumption DEF Entry
<1>2. {ServedTtl(x, e, f, t) : x \in e.msg.ttls} \subseteq Nat
  BY <1>1, ServedTtlType
<1>3. AdBit(q, e, f) \in BOOLEAN
  BY DEF AdBit
<1>4. Answer(q, e, from, f, t) \in Reply
  BY <1>2, <1>3 DEF Answer, Reply
<1>5. Bare("Truncated") \in Reply
  BY BareType
<1> QED
  BY <1>4, <1>5 DEF Sized

-----------------------------------------------------------------------------
(* Type correctness *)

\* A query ends only with a reply, wherever in the pipeline it ends.
LEMMA FinishType ==
  ASSUME TypeOK, NEW r \in Requests, pc[r] # "idle", NEW rep \in Reply, Finish(r, rep)
  PROVE  /\ pc' \in [Requests -> {"idle", "lookup", "resolve", "finish"}]
         /\ query' \in [Requests -> Queries \cup {None}]
         /\ at' \in [Requests -> Nat]
         /\ got' \in [Requests -> Result \cup {None}]
         /\ reply' \in [Requests -> Reply \cup {None}]
         /\ \A x \in Requests : (pc'[x] # "idle" => query'[x] # None)
                              /\ (pc'[x] = "finish" <=> got'[x] # None)
BY DEF TypeOK, Finish

\* Spawning a revalidation, or not, keeps the types of what it touches.
LEMMA SpawnType ==
  ASSUME TypeOK, NEW k \in Keys, NEW f, SpawnIfStale(k, f)
  PROVE  /\ inFlight' \in SUBSET Keys
         /\ tpc' \in [Tasks -> {"idle", "resolve", "store", "release"}]
         /\ tkey' \in [Tasks -> Keys \cup {None}]
         /\ tgot' \in [Tasks -> Result \cup {None}]
         /\ \A t \in Tasks : (tpc'[t] = "idle" <=> tkey'[t] = None)
                           /\ (tpc'[t] = "store" => tgot'[t] # None)
<1>1. CASE f = "Stale" /\ k \notin inFlight
  <2>1. PICK t \in Tasks : /\ tpc[t] = "idle"
                          /\ tpc' = [tpc EXCEPT ![t] = "resolve"]
                          /\ tkey' = [tkey EXCEPT ![t] = k]
                          /\ inFlight' = inFlight \cup {k}
                          /\ UNCHANGED tgot
    BY <1>1 DEF SpawnIfStale
  <2>2. k # None
    BY NoneAssumption
  <2> QED
    BY <2>1, <2>2 DEF TypeOK
<1>2. CASE ~ (f = "Stale" /\ k \notin inFlight)
  BY <1>2 DEF TypeOK, SpawnIfStale, taskVars
<1> QED
  BY <1>1, <1>2

\* Touching an entry leaves an entry.
LEMMA TouchType ==
  ASSUME NEW e \in Entry, NEW n \in Nat
  PROVE  /\ [e EXCEPT !.revalidatedAt = n] \in Entry
         /\ Content([e EXCEPT !.revalidatedAt = n]) = Content(e)
         /\ [e EXCEPT !.revalidatedAt = n] # None
BY NoneAssumption DEF Entry, Content

THEOREM InitTypeOK == Init => TypeOK
BY EngineAssumption DEF Init, TypeOK

THEOREM NextTypeOK == TypeOK /\ [Next]_vars => TypeOK'
<1> SUFFICES ASSUME TypeOK, [Next]_vars
             PROVE  TypeOK'
  OBVIOUS
<1>1. CASE Tick
  BY <1>1 DEF TypeOK, Tick, reqVars, taskVars, warmVars
<1>2. ASSUME NEW r \in Requests, Reject(r) PROVE TypeOK'
  <2>1. PICK o \in {"Malformed", "Truncated", "Dropped"} :
          reply' = [reply EXCEPT ![r] = Bare(o)]
    BY <1>2 DEF Reject
  <2>2. Bare(o) \in Reply
    BY BareType
  <2> QED
    BY <1>2, <2>1, <2>2 DEF TypeOK, Reject, taskVars, warmVars
<1>3. ASSUME NEW r \in Requests, Admit(r) PROVE TypeOK'
  <2>1. \A q \in Queries : q # None
    BY EngineAssumption, NoneAssumption
  <2> QED
    BY <1>3, <2>1 DEF TypeOK, Admit, taskVars, warmVars
<1>4. ASSUME NEW r \in Requests, CacheHit(r) PROVE TypeOK'
  <2> DEFINE q == query[r]
             e == cache[q.key]
             f == Freshness(e, at[r])
  <2>1. q \in Queries /\ q.key \in Keys /\ at[r] \in Nat
    BY <1>4, EngineAssumption DEF TypeOK, CacheHit, Query
  <2>2. e \in Entry
    BY <1>4, <2>1 DEF TypeOK, CacheHit
  <2>3. f \in Freshnesses
    BY FreshnessType
  <2>4. SpawnIfStale(q.key, f) /\ pc[r] = "lookup" /\ UNCHANGED <<now, cache, warmVars>>
    BY <1>4 DEF CacheHit
  <2>5. CASE \E rep \in Sized(q, Answer(q, e, "cache", f, at[r])) : Finish(r, rep)
    <3>1. PICK rep \in Sized(q, Answer(q, e, "cache", f, at[r])) : Finish(r, rep)
      BY <2>5
    <3>2. rep \in Reply
      BY <2>1, <2>2, <2>3, <3>1, AnswerType
    <3> HIDE DEF q, e, f
    <3> QED
      BY <2>1, <2>4, <3>1, <3>2, FinishType, SpawnType DEF TypeOK, warmVars
  <2>6. CASE pc' = [pc EXCEPT ![r] = "resolve"] /\ UNCHANGED <<query, at, got, reply>>
    <3> HIDE DEF e, f
    <3> QED
      BY <2>1, <2>4, <2>6, SpawnType, EngineAssumption, NoneAssumption DEF TypeOK, warmVars
  <2> QED
    BY <1>4, <2>5, <2>6 DEF CacheHit
<1>5. ASSUME NEW r \in Requests, CacheMiss(r) PROVE TypeOK'
  BY <1>5 DEF TypeOK, CacheMiss, taskVars, warmVars
<1>6. ASSUME NEW r \in Requests, Resolve(r) PROVE TypeOK'
  BY <1>6, ResultsType DEF TypeOK, Resolve, taskVars, warmVars
<1>7. ASSUME NEW r \in Requests, ResolveFail(r) \/ RefuseBogus(r) PROVE TypeOK'
  <2>1. Finish(r, Bare("ServFail")) /\ pc[r] # "idle"
        /\ UNCHANGED <<now, cache, inFlight, taskVars, warmVars>>
    BY <1>7 DEF ResolveFail, RefuseBogus
  <2>2. Bare("ServFail") \in Reply
    BY BareType
  <2> QED
    BY <2>1, <2>2, FinishType DEF TypeOK, taskVars, warmVars
<1>8. ASSUME NEW r \in Requests, Respond(r) PROVE TypeOK'
  <2> DEFINE q == query[r]
             e == NewEntry(got[r], at[r])
  <2>1. q \in Queries /\ q.key \in Keys /\ at[r] \in Nat /\ got[r] \in Result
    BY <1>8, EngineAssumption DEF TypeOK, Respond, Query
  <2>2. e \in Entry
    BY <2>1, NewEntryType
  <2>3. cache' \in [Keys -> Entry \cup {None}]
    BY <1>8, <2>1, <2>2 DEF TypeOK, Respond
  <2>4. PICK rep \in Reply : Finish(r, rep)
    <3>1. CASE \E rep \in Sized(q, Answer(q, e, "upstream", "Fresh", at[r])) : Finish(r, rep)
      BY <2>1, <2>2, <3>1, AnswerType DEF Freshnesses
    <3>2. CASE Finish(r, Bare("ServFail"))
      BY <3>2, BareType
    <3> QED
      BY <1>8, <3>1, <3>2 DEF Respond
  <2>5. pc[r] # "idle" /\ UNCHANGED <<now, inFlight, taskVars, warmVars>>
    BY <1>8 DEF Respond
  <2> QED
    BY <2>3, <2>4, <2>5, FinishType DEF TypeOK, taskVars, warmVars
<1>9. ASSUME NEW t \in Tasks, RevalResolve(t) PROVE TypeOK'
  BY <1>9, ResultsType DEF TypeOK, RevalResolve, reqVars, warmVars
<1>10. ASSUME NEW t \in Tasks, RevalResolveFail(t) PROVE TypeOK'
  BY <1>10 DEF TypeOK, RevalResolveFail, reqVars, warmVars
<1>11. ASSUME NEW t \in Tasks, RevalBogus(t) \/ RevalRelease(t) PROVE TypeOK'
  BY <1>11 DEF TypeOK, RevalBogus, RevalRelease, EndReval, reqVars, warmVars
<1>12. ASSUME NEW t \in Tasks, RevalStore(t) PROVE TypeOK'
  <2>1. tkey[t] \in Keys /\ tgot[t] \in Result /\ now \in Nat
    BY <1>12 DEF TypeOK, RevalStore
  <2>2. NewEntry(tgot[t], now) \in Entry
    BY <2>1, NewEntryType
  <2>3. cache[tkey[t]] # None =>
          [cache[tkey[t]] EXCEPT !.revalidatedAt = now] \in Entry
    BY <2>1, TouchType DEF TypeOK
  <2>4. cache' \in [Keys -> Entry \cup {None}]
    BY <1>12, <2>1, <2>2, <2>3 DEF TypeOK, RevalStore
  <2>5. /\ tpc[t] = "store" /\ tpc' = [tpc EXCEPT ![t] = "release"]
        /\ UNCHANGED <<now, inFlight, reqVars, tkey, tgot, warmVars>>
    BY <1>12 DEF RevalStore
  <2> QED
    BY <2>4, <2>5 DEF TypeOK, reqVars, warmVars
<1>13. ASSUME NEW w \in Warmers, WarmSkip(w) \/ WarmResolveFail(w) PROVE TypeOK'
  <2>1. /\ wtodo[w] # <<>> /\ NextWarm(w)
        /\ UNCHANGED <<now, cache, inFlight, reqVars, taskVars>>
    BY <1>13 DEF TypeOK, WarmSkip, WarmResolveFail
  <2>2. Tail(wtodo[w]) \in Seq(Keys)
    BY <2>1 DEF TypeOK
  <2> QED
    BY <2>1, <2>2 DEF TypeOK, NextWarm, reqVars, taskVars
<1>14. ASSUME NEW w \in Warmers, WarmCheck(w) PROVE TypeOK'
  BY <1>14 DEF TypeOK, WarmCheck, reqVars, taskVars
<1>15. ASSUME NEW w \in Warmers, WarmResolve(w) PROVE TypeOK'
  BY <1>15, ResultsType DEF TypeOK, WarmResolve, reqVars, taskVars
<1>16. ASSUME NEW w \in Warmers, WarmStore(w) PROVE TypeOK'
  <2>1. Head(wtodo[w]) \in Keys /\ wgot[w] \in Result /\ now \in Nat
    BY <1>16 DEF TypeOK, WarmStore
  <2>2. NewEntry(wgot[w], now) \in Entry
    BY <2>1, NewEntryType
  <2>3. cache' \in [Keys -> Entry \cup {None}]
    BY <1>16, <2>1, <2>2 DEF TypeOK, WarmStore
  <2> QED
    BY <1>16, <2>3 DEF TypeOK, WarmStore, NextWarm, reqVars, taskVars
<1>17. CASE UNCHANGED vars
  BY <1>17 DEF TypeOK, vars, reqVars, taskVars, warmVars
<1> QED
  BY <1>1, <1>2, <1>3, <1>4, <1>5, <1>6, <1>7, <1>8, <1>9, <1>10, <1>11, <1>12,
     <1>13, <1>14, <1>15, <1>16, <1>17
  DEF Next, RequestStep, TaskStep, WarmStep

\* Every reachable state is well typed: in particular no TTL, age or cached
\* lifetime ever underflows, and no actor acts on a result it does not have.
THEOREM TypeCorrect == Spec => []TypeOK
BY InitTypeOK, NextTypeOK, PTL DEF Spec

-----------------------------------------------------------------------------
(* Single flight *)

\* Only a spawn and the end of a revalidation touch in_flight and the keys
\* under work, and each keeps them in step.
LEMMA SpawnSingleFlight ==
  ASSUME TypeOK, SingleFlight, NEW k \in Keys, NEW f, SpawnIfStale(k, f)
  PROVE  SingleFlight'
<1>1. CASE f = "Stale" /\ k \notin inFlight
  <2>1. PICK t \in Tasks : /\ tpc[t] = "idle"
                          /\ tkey' = [tkey EXCEPT ![t] = k]
                          /\ inFlight' = inFlight \cup {k}
    BY <1>1 DEF SpawnIfStale
  <2>2. k # None /\ tkey[t] = None
    BY <2>1, NoneAssumption DEF TypeOK
  <2>3. \A s \in Tasks : tkey[s] # k
    BY <1>1 DEF SingleFlight
  <2>4. \A s \in Tasks : tkey'[s] = IF s = t THEN k ELSE tkey[s]
    BY <2>1 DEF TypeOK
  <2>5. \A x \in Keys : x # None
    BY NoneAssumption
  <2> QED
    BY <2>1, <2>2, <2>3, <2>4, <2>5 DEF SingleFlight
<1>2. CASE ~ (f = "Stale" /\ k \notin inFlight)
  BY <1>2 DEF SingleFlight, SpawnIfStale, taskVars
<1> QED
  BY <1>1, <1>2

LEMMA EndSingleFlight ==
  ASSUME TypeOK, SingleFlight, NEW t \in Tasks, tpc[t] # "idle", EndReval(t)
  PROVE  SingleFlight'
<1>1. tkey[t] \in Keys /\ tkey[t] # None
  BY DEF TypeOK
<1>2. \A s \in Tasks : tkey'[s] = IF s = t THEN None ELSE tkey[s]
  BY DEF TypeOK, EndReval
<1>3. inFlight' = inFlight \ {tkey[t]}
  BY DEF EndReval
<1>4. \A x \in Keys : x # None
  BY NoneAssumption
<1> QED
  BY <1>1, <1>2, <1>3, <1>4 DEF SingleFlight

THEOREM NextSingleFlight == TypeOK /\ SingleFlight /\ [Next]_vars => SingleFlight'
<1> SUFFICES ASSUME TypeOK, SingleFlight, [Next]_vars
             PROVE  SingleFlight'
  OBVIOUS
<1>1. ASSUME NEW r \in Requests, CacheHit(r) PROVE SingleFlight'
  <2>1. query[r].key \in Keys
    BY <1>1, EngineAssumption DEF TypeOK, CacheHit, Query
  <2>2. SpawnIfStale(query[r].key, Freshness(cache[query[r].key], at[r]))
    BY <1>1 DEF CacheHit
  <2> QED
    BY <2>1, <2>2, SpawnSingleFlight
<1>2. ASSUME NEW t \in Tasks, RevalBogus(t) \/ RevalRelease(t) PROVE SingleFlight'
  BY <1>2, EndSingleFlight DEF RevalBogus, RevalRelease
<1>3. ASSUME UNCHANGED <<inFlight, tkey>> PROVE SingleFlight'
  BY <1>3 DEF SingleFlight
<1>4. ASSUME NEW r \in Requests, Reject(r) \/ Admit(r) \/ CacheMiss(r) \/ Resolve(r)
                                 \/ ResolveFail(r) \/ RefuseBogus(r) \/ Respond(r)
      PROVE UNCHANGED <<inFlight, tkey>>
  BY <1>4 DEF Reject, Admit, CacheMiss, Resolve, ResolveFail, RefuseBogus, Respond, taskVars
<1>5. ASSUME NEW t \in Tasks, RevalResolve(t) \/ RevalResolveFail(t) \/ RevalStore(t)
      PROVE UNCHANGED <<inFlight, tkey>>
  BY <1>5 DEF RevalResolve, RevalResolveFail, RevalStore
<1>6. ASSUME NEW w \in Warmers, WarmStep(w)
      PROVE UNCHANGED <<inFlight, tkey>>
  BY <1>6 DEF WarmStep, WarmSkip, WarmCheck, WarmResolve, WarmResolveFail, WarmStore, taskVars
<1>7. ASSUME Tick \/ UNCHANGED vars
      PROVE UNCHANGED <<inFlight, tkey>>
  BY <1>7 DEF Tick, vars, taskVars
<1> QED
  BY <1>1, <1>2, <1>3, <1>4, <1>5, <1>6, <1>7 DEF Next, RequestStep, TaskStep

\* in_flight coalesces: at every moment a key is recorded exactly while one
\* revalidation, and only one, works on it.
THEOREM SingleFlightHolds == Spec => []SingleFlight
<1>1. Init => SingleFlight
  BY NoneAssumption DEF Init, SingleFlight
<1> QED
  BY <1>1, NextSingleFlight, TypeCorrect, PTL DEF Spec

-----------------------------------------------------------------------------
(* The contents of the cache *)

\* An entry as every writer leaves it: conclusive, fresh for no longer than any
\* of its records says, and if Secure, fresh only while all its signatures last.
GoodEntry(e) ==
  /\ e.status \in Conclusive
  /\ \A ttl \in e.msg.ttls : e.minTtl <= ttl
  /\ e.status = "Secure" =>
       \A d \in 0 .. e.minTtl - 1 : \A exp \in e.msg.sigs :
         SerialDiff(exp, e.cachedAt + d) > 0

CacheGood == \A k \in Keys : cache[k] # None => GoodEntry(cache[k])

\* Whatever the clock read when a storable result was stamped.
LEMMA NewEntryGood ==
  ASSUME NEW res \in Result, Storable(res), NEW t \in Nat
  PROVE  GoodEntry(NewEntry(res, t))
<1> DEFINE e == NewEntry(res, t)
<1>1. e.status \in Conclusive /\ e.status = res.status /\ e.msg = res.msg /\ e.cachedAt = t
      /\ e.minTtl = CacheTtl(res.msg, res.status, t)
  BY DEF NewEntry, Storable
<1>2. IsMessage(res.msg)
  BY MessagesAreMessages DEF Result
<1>3. ASSUME res.status = "Secure", NEW d \in 0 .. e.minTtl - 1, NEW exp \in res.msg.sigs
      PROVE  SerialDiff(exp, t + d) > 0
  BY <1>1, <1>2, <1>3, CacheTtlSafe
<1>4. \A ttl \in res.msg.ttls : e.minTtl <= ttl
  BY <1>1, <1>2, CacheTtlWithinTtls
<1> HIDE DEF e
<1>5. GoodEntry(e)
  BY <1>1, <1>3, <1>4 DEF GoodEntry
<1> QED
  BY <1>5 DEF e

\* Touching an entry does not affect what is promised of it.
LEMMA TouchGood ==
  ASSUME NEW e \in Entry, GoodEntry(e), NEW n \in Nat
  PROVE  GoodEntry([e EXCEPT !.revalidatedAt = n])
<1> DEFINE f == [e EXCEPT !.revalidatedAt = n]
<1>1. f.status = e.status /\ f.msg = e.msg /\ f.minTtl = e.minTtl /\ f.cachedAt = e.cachedAt
  BY DEF Entry
<1> HIDE DEF f
<1>2. GoodEntry(f)
  BY <1>1 DEF GoodEntry
<1> QED
  BY <1>2 DEF f

\* The three writers, and nothing else, change the cache.
THEOREM NextCacheGood == TypeOK /\ CacheGood /\ [Next]_vars => CacheGood'
<1> SUFFICES ASSUME TypeOK, CacheGood, [Next]_vars
             PROVE  CacheGood'
  OBVIOUS
<1>1. ASSUME NEW k \in Keys, NEW e, GoodEntry(e), cache' = [cache EXCEPT ![k] = e]
      PROVE  CacheGood'
  <2>1. \A x \in Keys : cache'[x] = IF x = k THEN e ELSE cache[x]
    BY <1>1 DEF TypeOK
  <2> QED
    BY <1>1, <2>1 DEF CacheGood
<1>2. ASSUME cache' = cache PROVE CacheGood'
  BY <1>2 DEF CacheGood
<1>3. ASSUME NEW r \in Requests, Respond(r) PROVE CacheGood'
  <2>1. query[r].key \in Keys /\ at[r] \in Nat /\ got[r] \in Result
    BY <1>3, EngineAssumption DEF TypeOK, Respond, Query
  <2>2. cache' = cache \/ (Storable(got[r]) /\
          cache' = [cache EXCEPT ![query[r].key] = NewEntry(got[r], at[r])])
    BY <1>3 DEF Respond
  <2> QED
    BY <1>1, <1>2, <2>1, <2>2, NewEntryGood
<1>4. ASSUME NEW t \in Tasks, RevalStore(t) PROVE CacheGood'
  <2> DEFINE k == tkey[t]
             touched == [cache[k] EXCEPT !.revalidatedAt = now]
  <2>1. k \in Keys /\ tgot[t] \in Result /\ now \in Nat
    BY <1>4 DEF TypeOK, RevalStore
  <2>2. \/ cache' = cache
        \/ Storable(tgot[t]) /\ cache' = [cache EXCEPT ![k] = NewEntry(tgot[t], now)]
        \/ cache[k] # None /\ cache' = [cache EXCEPT ![k] = touched]
    BY <1>4, <2>1 DEF RevalStore, TypeOK
  <2>3. cache[k] # None => GoodEntry(touched)
    BY <2>1, TouchGood DEF CacheGood, TypeOK
  <2> QED
    BY <1>1, <1>2, <2>1, <2>2, <2>3, NewEntryGood
<1>5. ASSUME NEW w \in Warmers, WarmStore(w) PROVE CacheGood'
  <2>1. Head(wtodo[w]) \in Keys /\ wgot[w] \in Result /\ now \in Nat
    BY <1>5 DEF TypeOK, WarmStore
  <2>2. cache' = cache \/ (Storable(wgot[w]) /\
          cache' = [cache EXCEPT ![Head(wtodo[w])] = NewEntry(wgot[w], now)])
    BY <1>5 DEF WarmStore
  <2> QED
    BY <1>1, <1>2, <2>1, <2>2, NewEntryGood
<1>6. ASSUME NEW r \in Requests, Reject(r) \/ Admit(r) \/ CacheHit(r) \/ CacheMiss(r)
                                 \/ Resolve(r) \/ ResolveFail(r) \/ RefuseBogus(r)
      PROVE cache' = cache
  BY <1>6 DEF Reject, Admit, CacheHit, CacheMiss, Resolve, ResolveFail, RefuseBogus
<1>7. ASSUME NEW t \in Tasks, RevalResolve(t) \/ RevalResolveFail(t) \/ RevalBogus(t)
                              \/ RevalRelease(t)
      PROVE cache' = cache
  BY <1>7 DEF RevalResolve, RevalResolveFail, RevalBogus, RevalRelease
<1>8. ASSUME NEW w \in Warmers, WarmSkip(w) \/ WarmCheck(w) \/ WarmResolve(w)
                                \/ WarmResolveFail(w)
      PROVE cache' = cache
  BY <1>8 DEF WarmSkip, WarmCheck, WarmResolve, WarmResolveFail
<1>9. ASSUME Tick \/ UNCHANGED vars PROVE cache' = cache
  BY <1>9 DEF Tick, vars
<1> QED
  BY <1>2, <1>3, <1>4, <1>5, <1>6, <1>7, <1>8, <1>9 DEF Next, RequestStep, TaskStep, WarmStep

THEOREM CacheGoodHolds == Spec => []CacheGood
<1>1. Init => CacheGood
  BY DEF Init, CacheGood
<1> QED
  BY <1>1, NextCacheGood, TypeCorrect, PTL DEF Spec

\* Secure data is never fresh past the expiration of a signature it carries,
\* through every interleaving of the three writers and across the rollover of
\* the 32-bit clock.
THEOREM SecureWithinSignatureHolds == Spec => []SecureWithinSignature
<1>1. CacheGood => SecureWithinSignature
  BY DEF CacheGood, GoodEntry, SecureWithinSignature
<1> QED
  BY <1>1, CacheGoodHolds, PTL

-----------------------------------------------------------------------------
(* What goes out stale *)

\* Serving a stale entry leaves its key in in_flight, claimed now or before.
LEMMA SpawnClaims ==
  ASSUME NEW k, SpawnIfStale(k, "Stale")
  PROVE  k \in inFlight'
BY DEF SpawnIfStale

\* A query that ends with rep gives no other request a reply, and a stale one
\* to r only if rep is stale.
LEMMA FinishStale ==
  ASSUME TypeOK, NEW r \in Requests, NEW x \in Requests, NEW rep \in Reply,
         Finish(r, rep), reply'[x] # reply[x], reply'[x].freshness = "Stale"
  PROVE  x = r /\ rep.freshness = "Stale"
BY DEF Finish, TypeOK

\* No response but a constructed one has a freshness.
LEMMA BareNotStale == \A o : Bare(o).freshness # "Stale"
BY NoneAssumption DEF Bare, Freshnesses

LEMMA StaleStep ==
  ASSUME TypeOK, [Next]_vars, NEW x \in Requests, reply'[x] # reply[x],
         reply'[x] # None, reply'[x].freshness = "Stale"
  PROVE  query[x].key \in inFlight'
<1>1. ASSUME NEW r \in Requests, Reject(r) \/ Admit(r)
      PROVE  FALSE
  BY <1>1, BareNotStale DEF Reject, Admit, TypeOK
<1>2. ASSUME NEW r \in Requests, CacheHit(r)
      PROVE  query[x].key \in inFlight'
  <2> DEFINE q == query[r]
             entry == cache[q.key]
             f == Freshness(entry, at[r])
  <2>1. q \in Queries /\ q.key \in Keys /\ at[r] \in Nat /\ entry \in Entry
    BY <1>2, EngineAssumption DEF TypeOK, CacheHit, Query
  <2>2. f \in Freshnesses
    BY FreshnessType
  <2>3. SpawnIfStale(q.key, f)
    BY <1>2 DEF CacheHit
  <2>4. PICK rep \in Sized(q, Answer(q, entry, "cache", f, at[r])) : Finish(r, rep)
    BY <1>2 DEF CacheHit
  <2> HIDE DEF f, entry
  <2>5. rep \in Reply
    BY <2>1, <2>2, <2>4, AnswerType
  <2>6. x = r /\ rep.freshness = "Stale"
    BY <2>4, <2>5, FinishStale
  <2>7. f = "Stale"
    BY <2>4, <2>6, BareNotStale DEF Sized, Answer
  <2> QED
    BY <2>3, <2>6, <2>7, SpawnClaims
<1>3. ASSUME NEW r \in Requests, ResolveFail(r) \/ RefuseBogus(r)
      PROVE  FALSE
  <2>1. Finish(r, Bare("ServFail")) /\ Bare("ServFail") \in Reply
    BY <1>3, BareType DEF ResolveFail, RefuseBogus
  <2> QED
    BY <2>1, FinishStale, BareNotStale
<1>4. ASSUME NEW r \in Requests, Respond(r)
      PROVE  FALSE
  <2> DEFINE q == query[r]
             entry == NewEntry(got[r], at[r])
  <2>1. q \in Queries /\ at[r] \in Nat /\ got[r] \in Result
    BY <1>4 DEF TypeOK, Respond
  <2>2. entry \in Entry /\ "Fresh" \in Freshnesses
    BY <2>1, NewEntryType DEF Freshnesses
  <2>3. PICK rep : /\ Finish(r, rep)
                   /\ rep = Bare("ServFail")
                        \/ rep \in Sized(q, Answer(q, entry, "upstream", "Fresh", at[r]))
    BY <1>4 DEF Respond
  <2> HIDE DEF entry
  <2>4. rep \in Reply /\ rep.freshness # "Stale"
    BY <2>1, <2>2, <2>3, AnswerType, BareType, BareNotStale DEF Sized, Answer
  <2> QED
    BY <2>3, <2>4, FinishStale
<1>5. ASSUME NEW r \in Requests, CacheMiss(r) \/ Resolve(r)
      PROVE  FALSE
  BY <1>5 DEF CacheMiss, Resolve
<1>6. ASSUME UNCHANGED reply
      PROVE  FALSE
  BY <1>6
<1>7. ASSUME NEW t \in Tasks, TaskStep(t)
      PROVE  UNCHANGED reply
  BY <1>7 DEF TaskStep, RevalResolve, RevalResolveFail, RevalBogus, RevalStore,
              RevalRelease, reqVars
<1>8. ASSUME NEW w \in Warmers, WarmStep(w)
      PROVE  UNCHANGED reply
  BY <1>8 DEF WarmStep, WarmSkip, WarmCheck, WarmResolve, WarmResolveFail, WarmStore, reqVars
<1>9. ASSUME Tick \/ UNCHANGED vars
      PROVE  UNCHANGED reply
  BY <1>9 DEF Tick, vars, reqVars
<1> QED
  BY <1>1, <1>2, <1>3, <1>4, <1>5, <1>6, <1>7, <1>8, <1>9 DEF Next, RequestStep

\* However many clients hit a stale entry and whatever became of the earlier
\* revalidations, a stale answer leaves with its key in in_flight.
THEOREM StaleTriggersRefreshHolds == Spec => StaleTriggersRefresh
<1>1. TypeOK /\ [Next]_vars =>
        [\A r \in Requests :
           reply'[r] # reply[r] /\ reply'[r] # None /\ reply'[r].freshness = "Stale" =>
             query[r].key \in inFlight']_vars
  BY StaleStep
<1> QED
  BY <1>1, TypeCorrect, PTL DEF Spec, StaleTriggersRefresh

-----------------------------------------------------------------------------
(* What a failed revalidation leaves *)

\* Only the storing step of a revalidation that is not conclusive can touch an
\* entry, and all it touches is the stamp.
LEMMA KeepStep ==
  ASSUME TypeOK, [Next]_vars, NEW t \in Tasks, tpc[t] # "idle", tpc'[t] # tpc[t],
         ~ (tpc[t] = "store" /\ Storable(tgot[t])), NEW k \in Keys
  PROVE  Content(cache'[k]) = Content(cache[k])
<1>1. ASSUME NEW r \in Requests, CacheHit(r) PROVE cache' = cache
  BY <1>1 DEF CacheHit
<1>2. ASSUME NEW r \in Requests, \/ Reject(r) \/ Admit(r) \/ CacheMiss(r) \/ Resolve(r)
                                 \/ ResolveFail(r) \/ RefuseBogus(r) \/ Respond(r)
      PROVE  FALSE
  BY <1>2 DEF Reject, Admit, CacheMiss, Resolve, ResolveFail, RefuseBogus, Respond, taskVars
<1>3. ASSUME NEW s \in Tasks, RevalStore(s)
      PROVE  Content(cache'[k]) = Content(cache[k])
  <2>1. s = t
    BY <1>3 DEF RevalStore, TypeOK
  <2> DEFINE touched == [cache[tkey[t]] EXCEPT !.revalidatedAt = now]
  <2>2. \/ cache' = cache
        \/ cache[tkey[t]] # None /\ cache' = [cache EXCEPT ![tkey[t]] = touched]
    BY <1>3, <2>1 DEF RevalStore
  <2>3. tkey[t] \in Keys /\ now \in Nat
    BY DEF TypeOK
  <2>4. cache[tkey[t]] # None => Content(touched) = Content(cache[tkey[t]])
    BY <2>3, TouchType DEF TypeOK
  <2> HIDE DEF touched
  <2> QED
    BY <2>2, <2>3, <2>4 DEF TypeOK
<1>4. ASSUME NEW s \in Tasks, \/ RevalResolve(s) \/ RevalResolveFail(s) \/ RevalBogus(s)
                              \/ RevalRelease(s)
      PROVE  cache' = cache
  BY <1>4 DEF RevalResolve, RevalResolveFail, RevalBogus, RevalRelease
<1>5. ASSUME NEW w \in Warmers, WarmStep(w)
      PROVE  FALSE
  BY <1>5 DEF WarmStep, WarmSkip, WarmCheck, WarmResolve, WarmResolveFail, WarmStore, taskVars
<1>6. ASSUME Tick \/ UNCHANGED vars
      PROVE  FALSE
  BY <1>6 DEF Tick, vars, taskVars
<1> QED
  BY <1>1, <1>2, <1>3, <1>4, <1>5, <1>6 DEF Next, RequestStep, TaskStep

\* A revalidation that ends with an error, Bogus or an inconclusive verdict
\* leaves all that is served from the cache as it was.
THEOREM FailedRefreshKeepsEntryHolds == Spec => FailedRefreshKeepsEntry
<1>1. TypeOK /\ [Next]_vars =>
        [\A t \in Tasks :
           tpc[t] # "idle" /\ tpc'[t] # tpc[t]
             /\ ~ (tpc[t] = "store" /\ Storable(tgot[t])) =>
               \A k \in Keys : Content(cache'[k]) = Content(cache[k])]_vars
  BY KeepStep
<1> QED
  BY <1>1, TypeCorrect, PTL DEF Spec, FailedRefreshKeepsEntry

-----------------------------------------------------------------------------
(* What clients are told *)

\* What holds of a reply to q, which had read the clock at t.
Told(q, t, rep) ==
  /\ rep.outcome = "Success" /\ rep.entry.status = "Bogus" => ~ rep.ad /\ (q.cd \/ ~ Enforce)
  /\ rep.from = "cache" /\ rep.ad =>
       \A exp \in rep.entry.msg.sigs :
         SerialDiff(exp, IF t >= rep.entry.cachedAt THEN t ELSE rep.entry.cachedAt) > 0
  /\ rep.from = "cache" =>
       \A x \in rep.ttls :
         /\ x > 0
         /\ IF rep.freshness = "Fresh"
            THEN \E ttl \in rep.entry.msg.ttls : t + x <= rep.entry.cachedAt + ttl
            ELSE t + x < rep.entry.cachedAt + rep.entry.minTtl + MaxStale + StaleServeTtl

AllTold == \A r \in Requests : reply[r] # None => Told(query[r], at[r], reply[r])

\* A response without data says nothing.
LEMMA BareTold ==
  ASSUME NEW q, NEW t, NEW o \in {"ServFail", "Truncated", "Dropped", "Malformed"}
  PROVE  Told(q, t, Bare(o))
BY DEF Told, Bare

\* An age below a word is its own low word.
LEMMA SmallAge ==
  ASSUME NEW a \in 0 .. WordMod - 1
  PROVE  a % WordMod = a
<1>1. WordMod \in Nat /\ WordMod >= 1 /\ a \in Int /\ a = WordMod * 0 + a
  BY WordAssumption
<1> QED
  BY <1>1, ModIsRemainder

\* A fresh entry: AD is given within the signatures, TTLs within the records.
LEMMA FreshTold ==
  ASSUME NEW q \in Queries, NEW e \in Entry, GoodEntry(e), NEW t \in Nat,
         Freshness(e, t) = "Fresh"
  PROVE  Told(q, t, Answer(q, e, "cache", "Fresh", t))
<1> DEFINE later == IF t >= e.cachedAt THEN t ELSE e.cachedAt
           rep == Answer(q, e, "cache", "Fresh", t)
<1>1. Age(e, t) \in 0 .. e.minTtl - 1 /\ later = e.cachedAt + Age(e, t)
      /\ e.minTtl \in Nat /\ e.cachedAt \in Nat
  BY DEF Freshness, Age, SaturatingSub, Entry
<1>2. ASSUME e.status = "Secure", NEW exp \in e.msg.sigs
      PROVE  SerialDiff(exp, later) > 0
  BY <1>1, <1>2 DEF GoodEntry
<1>3. ASSUME NEW ttl \in e.msg.ttls
      PROVE  /\ ServedTtl(ttl, e, "Fresh", t) > 0
             /\ t + ServedTtl(ttl, e, "Fresh", t) <= e.cachedAt + ttl
  <2>1. ttl \in 0 .. WordMod - 1 /\ e.minTtl <= ttl
    BY MessageAssumption DEF Entry, Word, GoodEntry
  <2>2. Age(e, t) % WordMod = Age(e, t)
    BY <1>1, <2>1, WordAssumption, SmallAge
  <2>3. ServedTtl(ttl, e, "Fresh", t) = ttl - Age(e, t)
    BY <1>1, <2>1, <2>2, WordAssumption DEF ServedTtl, SaturatingSub
  <2> QED
    BY <1>1, <2>1, <2>3, WordAssumption
<1>4. /\ rep.outcome = "Success" /\ rep.entry = e /\ rep.from = "cache"
      /\ rep.freshness = "Fresh" /\ (rep.ad => e.status = "Secure")
      /\ rep.ttls = {ServedTtl(x, e, "Fresh", t) : x \in e.msg.ttls}
  BY DEF Answer, AdBit
<1>5. e.status # "Bogus"
  BY DEF GoodEntry, Conclusive
<1> HIDE DEF rep
<1> QED
  BY <1>2, <1>3, <1>4, <1>5 DEF Told, rep

\* A stale one: no AD, and TTLs within the stale window.
LEMMA StaleTold ==
  ASSUME NEW q \in Queries, NEW e \in Entry, GoodEntry(e), NEW t \in Nat,
         Freshness(e, t) = "Stale"
  PROVE  Told(q, t, Answer(q, e, "cache", "Stale", t))
<1> DEFINE rep == Answer(q, e, "cache", "Stale", t)
<1>1. t < e.cachedAt + e.minTtl + MaxStale /\ e.minTtl \in Nat /\ e.cachedAt \in Nat
  <2>1. Age(e, t) < e.minTtl + MaxStale
    BY DEF Freshness
  <2> QED
    BY <2>1, TtlAssumption DEF Age, SaturatingSub, Entry
<1>2. \A ttl \in e.msg.ttls : ServedTtl(ttl, e, "Stale", t) = StaleServeTtl
  BY DEF ServedTtl
<1>3. StaleServeTtl \in Nat /\ StaleServeTtl > 0 /\ MaxStale \in Nat
  BY TtlAssumption, WordAssumption
<1>4. /\ rep.outcome = "Success" /\ rep.entry = e /\ rep.from = "cache"
      /\ rep.freshness = "Stale" /\ rep.ad = FALSE
      /\ rep.ttls = {ServedTtl(x, e, "Stale", t) : x \in e.msg.ttls}
  BY DEF Answer, AdBit
<1>5. e.status # "Bogus"
  BY DEF GoodEntry, Conclusive
<1>6. t + StaleServeTtl < e.cachedAt + e.minTtl + MaxStale + StaleServeTtl
  BY <1>1, <1>3
<1>7. \A x \in rep.ttls : x = StaleServeTtl
  BY <1>2, <1>4
<1> HIDE DEF rep
<1> QED
  BY <1>3, <1>4, <1>5, <1>6, <1>7 DEF Told, rep

\* What comes from upstream has no AD unless it is Secure, and Bogus data was
\* let through by CD or by the lack of enforcement.
LEMMA UpstreamTold ==
  ASSUME NEW q, NEW e, NEW t, e.status = "Bogus" => q.cd \/ ~ Enforce
  PROVE  Told(q, t, Answer(q, e, "upstream", "Fresh", t))
BY DEF Told, Answer, AdBit

\* A query that ends with what may be told leaves all others as they were.
LEMMA FinishTold ==
  ASSUME TypeOK, AllTold, NEW r \in Requests, NEW rep, Finish(r, rep),
         Told(query[r], at[r], rep)
  PROVE  AllTold'
<1>1. \A x \in Requests : reply'[x] = IF x = r THEN rep ELSE reply[x]
  BY DEF TypeOK, Finish
<1>2. query' = query /\ at' = at
  BY DEF Finish
<1> QED
  BY <1>1, <1>2 DEF AllTold

THEOREM NextAllTold == TypeOK /\ CacheGood /\ AllTold /\ [Next]_vars => AllTold'
<1> SUFFICES ASSUME TypeOK, CacheGood, AllTold, [Next]_vars
             PROVE  AllTold'
  OBVIOUS
<1>1. ASSUME UNCHANGED <<query, at, reply>> PROVE AllTold'
  BY <1>1 DEF AllTold
<1>2. ASSUME NEW r \in Requests, Reject(r) PROVE AllTold'
  <2>1. PICK o \in {"Malformed", "Truncated", "Dropped"} :
          reply' = [reply EXCEPT ![r] = Bare(o)]
    BY <1>2 DEF Reject
  <2>2. \A x \in Requests : /\ reply'[x] = IF x = r THEN Bare(o) ELSE reply[x]
                            /\ x # r => query'[x] = query[x] /\ at'[x] = at[x]
    BY <1>2, <2>1 DEF TypeOK, Reject
  <2>3. Told(query'[r], at'[r], Bare(o))
    BY BareTold
  <2> QED
    BY <2>2, <2>3 DEF AllTold
<1>3. ASSUME NEW r \in Requests, Admit(r) PROVE AllTold'
  <2>1. \A x \in Requests : /\ reply'[x] = IF x = r THEN None ELSE reply[x]
                            /\ x # r => query'[x] = query[x] /\ at'[x] = at[x]
    BY <1>3 DEF TypeOK, Admit
  <2> QED
    BY <2>1 DEF AllTold
<1>4. ASSUME NEW r \in Requests, CacheHit(r) PROVE AllTold'
  <2> DEFINE q == query[r]
             e == cache[q.key]
             f == Freshness(e, at[r])
  <2>1. q \in Queries /\ q.key \in Keys /\ at[r] \in Nat /\ e \in Entry /\ e # None
    BY <1>4, EngineAssumption DEF TypeOK, CacheHit, Query
  <2>2. f \in {"Fresh", "Stale"} /\ GoodEntry(e)
    BY <1>4, <2>1, FreshnessType DEF CacheHit, Freshnesses, CacheGood
  <2>3. Told(q, at[r], Answer(q, e, "cache", f, at[r]))
    BY <2>1, <2>2, FreshTold, StaleTold
  <2>4. CASE UNCHANGED <<query, at, got, reply>>
    BY <1>1, <2>4
  <2>5. CASE \E rep \in Sized(q, Answer(q, e, "cache", f, at[r])) : Finish(r, rep)
    <3>1. PICK rep \in Sized(q, Answer(q, e, "cache", f, at[r])) : Finish(r, rep)
      BY <2>5
    <3>2. Told(q, at[r], rep)
      BY <2>3, <3>1, BareTold DEF Sized
    <3> QED
      BY <3>1, <3>2, FinishTold
  <2> QED
    BY <1>4, <2>4, <2>5 DEF CacheHit
<1>5. ASSUME NEW r \in Requests, ResolveFail(r) \/ RefuseBogus(r) PROVE AllTold'
  <2>1. Finish(r, Bare("ServFail"))
    BY <1>5 DEF ResolveFail, RefuseBogus
  <2> QED
    BY <2>1, BareTold, FinishTold
<1>6. ASSUME NEW r \in Requests, Respond(r) PROVE AllTold'
  <2> DEFINE q == query[r]
             e == NewEntry(got[r], at[r])
  <2>1. e.status = "Bogus" => q.cd \/ ~ Enforce
    BY <1>6 DEF Respond, NewEntry
  <2>2. Told(q, at[r], Answer(q, e, "upstream", "Fresh", at[r]))
    BY <2>1, UpstreamTold
  <2>3. PICK rep : /\ Finish(r, rep)
                   /\ rep = Bare("ServFail")
                        \/ rep \in Sized(q, Answer(q, e, "upstream", "Fresh", at[r]))
    BY <1>6 DEF Respond
  <2>4. Told(q, at[r], rep)
    BY <2>2, <2>3, BareTold DEF Sized
  <2> QED
    BY <2>3, <2>4, FinishTold
<1>7. ASSUME NEW r \in Requests, CacheMiss(r) \/ Resolve(r)
      PROVE  UNCHANGED <<query, at, reply>>
  BY <1>7 DEF CacheMiss, Resolve
<1>8. ASSUME NEW t \in Tasks, TaskStep(t)
      PROVE  UNCHANGED <<query, at, reply>>
  BY <1>8 DEF TaskStep, RevalResolve, RevalResolveFail, RevalBogus, RevalStore,
              RevalRelease, reqVars
<1>9. ASSUME NEW w \in Warmers, WarmStep(w)
      PROVE  UNCHANGED <<query, at, reply>>
  BY <1>9 DEF WarmStep, WarmSkip, WarmCheck, WarmResolve, WarmResolveFail, WarmStore, reqVars
<1>10. ASSUME Tick \/ UNCHANGED vars
       PROVE  UNCHANGED <<query, at, reply>>
  BY <1>10 DEF Tick, vars, reqVars
<1> QED
  BY <1>1, <1>2, <1>3, <1>4, <1>5, <1>6, <1>7, <1>8, <1>9, <1>10 DEF Next, RequestStep

LEMMA AllToldHolds == Spec => []AllTold
<1>1. Init => AllTold
  BY DEF Init, AllTold
<1> QED
  BY <1>1, NextAllTold, TypeCorrect, CacheGoodHolds, PTL DEF Spec

\* A client told AD=1 out of the cache is told so before any signature of the
\* answer expires, also when it had read the clock before the entry was written.
THEOREM AdWithinSignatureHolds == Spec => []AdWithinSignature
<1>1. AllTold => AdWithinSignature
  BY DEF AllTold, Told, AdWithinSignature
<1> QED
  BY <1>1, AllToldHolds, PTL

\* The TTLs a client is given keep it within those of the records or, for a
\* stale answer, within the stale window and one serving of it.
THEOREM ClientHorizonHolds == Spec => []ClientHorizon
<1>1. AllTold => ClientHorizon
  BY DEF AllTold, Told, ClientHorizon
<1> QED
  BY <1>1, AllToldHolds, PTL

\* Neither Bogus nor inconclusive data enters the cache through any of its
\* writers, and Bogus data reaches only those who asked for it.
THEOREM BogusContainedHolds == Spec => []BogusContained
<1>1. CacheGood /\ AllTold => BogusContained
  BY DEF CacheGood, GoodEntry, AllTold, Told, BogusContained
<1> QED
  BY <1>1, CacheGoodHolds, AllToldHolds, PTL
=============================================================================
