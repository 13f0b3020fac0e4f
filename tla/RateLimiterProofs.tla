-------------------------- MODULE RateLimiterProofs -------------------------
(***************************************************************************)
(* What the rate limiter guarantees for any number of threads, subnets and *)
(* domains, any burst and refill rate, and any resolution of the clock.    *)
(***************************************************************************)
EXTENDS RateLimiter, FiniteSetTheorems, TLAPS

-----------------------------------------------------------------------------
(* The data *)

\* Integer division rounds down.
LEMMA DivisionRoundsDown ==
  ASSUME NEW a \in Nat, NEW n \in Nat, n >= 1
  PROVE  a \div n \in Nat /\ (a \div n) * n <= a
<1>1. a \div n \in Nat
  OBVIOUS
<1>2. a = n * (a \div n) + (a % n) /\ a % n >= 0
  OBVIOUS
<1>3. a % n \in Nat
  OBVIOUS
<1> DEFINE d == a \div n
           m == a % n
<1>4. d \in Nat /\ m \in Nat /\ a = n * d + m
  BY <1>1, <1>2, <1>3
<1> HIDE DEF d, m
<1>5. n * d <= a
  BY <1>4
<1>6. n * d = d * n
  BY <1>4
<1>7. d * n <= a
  BY <1>5, <1>6
<1> QED
  BY <1>1, <1>7 DEF d

\* A refill keeps the bucket a bucket, does not overfill it, leaves lastSeen
\* alone, and adds no more than what the time since the last refill is worth.
LEMMA RefilledIsBounded ==
  ASSUME NEW b \in Bucket, b.tokens <= Capacity, NEW t \in Nat
  PROVE  LET r == Refilled(b, t)
         IN  /\ r \in Bucket
             /\ r.tokens <= Capacity
             /\ r.tokens * Second + Refill * b.lastRefill
                  <= b.tokens * Second + Refill * r.lastRefill
<1> DEFINE l == b.lastRefill
           new == ((t - l) * Refill) \div Second
<1>1. CASE ~ (t > l /\ new > 0)
  <2>1. Refilled(b, t) = b
    BY <1>1 DEF Refilled
  <2> QED
    BY <2>1, RateAssumption DEF Bucket
<1>2. CASE t > l /\ new > 0
  <2>1. l \in Int /\ b.tokens \in Nat
    BY DEF Bucket
  <2>2. (t - l) * Refill \in Nat
    <3>1. t - l \in Nat
      BY <1>2, <2>1
    <3> QED
      BY <3>1, RateAssumption
  <2>3. new \in Nat /\ new * Second <= (t - l) * Refill
    BY <2>2, RateAssumption, DivisionRoundsDown
  <2> DEFINE k == Lesser(b.tokens + new, Capacity)
  <2>4. Refilled(b, t) = [b EXCEPT !.lastRefill = t, !.tokens = k]
    BY <1>2 DEF Refilled
  <2> HIDE DEF new
  <2>5. k \in Nat /\ k <= Capacity /\ k <= b.tokens + new
    BY <2>1, <2>3, RateAssumption DEF Lesser
  <2> HIDE DEF k
  <2>6. /\ Refilled(b, t) \in Bucket
        /\ Refilled(b, t).tokens = k
        /\ Refilled(b, t).lastRefill = t
    <3>1. [b EXCEPT !.lastRefill = t] \in Bucket
      BY DEF Bucket
    <3>2. Refilled(b, t) = [[b EXCEPT !.lastRefill = t] EXCEPT !.tokens = k]
      BY <2>4, <3>1 DEF Bucket
    <3> DEFINE c == [b EXCEPT !.lastRefill = t]
    <3>3. c \in Bucket /\ c.lastRefill = t
      BY <3>1 DEF Bucket
    <3> HIDE DEF c
    <3>4. [c EXCEPT !.tokens = k] \in Bucket
          /\ [c EXCEPT !.tokens = k].tokens = k
          /\ [c EXCEPT !.tokens = k].lastRefill = t
      BY <2>5, <3>3 DEF Bucket
    <3> QED
      BY <3>2, <3>4 DEF c
  <2>7. k * Second <= (b.tokens + new) * Second
    BY <2>1, <2>3, <2>5, RateAssumption
  <2>8. (b.tokens + new) * Second = b.tokens * Second + new * Second
    BY <2>1, <2>3, RateAssumption
  <2>9. (t - l) * Refill = Refill * t - Refill * l
    BY <2>1, RateAssumption
  <2>10. k * Second \in Int /\ b.tokens * Second \in Int /\ new * Second \in Int
         /\ Refill * t \in Int /\ Refill * l \in Int
    BY <2>1, <2>3, <2>5, RateAssumption
  <2>11. k * Second + Refill * l <= b.tokens * Second + Refill * t
    BY <2>3, <2>7, <2>8, <2>9, <2>10
  <2> QED
    BY <2>5, <2>6, <2>11 DEF l
<1> QED
  BY <1>1, <1>2

\* A counter is a counter again after it has counted.
LEMMA CountedType ==
  ASSUME NEW c \in Counter, NEW t \in Nat
  PROVE  Counted(c, t) \in Counter
<1>1. \A d \in Counter : [d EXCEPT !.epoch = t] \in Counter
  BY DEF Counter
<1>2. \A d \in Counter, n \in Nat : [d EXCEPT !.count = n] \in Counter
  BY DEF Counter
<1>3. c.count + 1 \in Nat
  BY DEF Counter
<1>4. [c EXCEPT !.epoch = t, !.count = 1] = [[c EXCEPT !.epoch = t] EXCEPT !.count = 1]
  BY <1>1 DEF Counter
<1>5. [c EXCEPT !.epoch = t, !.count = 1] \in Counter
  BY <1>1, <1>2, <1>4
<1> QED
  BY <1>2, <1>3, <1>5 DEF Counted

\* Readings of the clock have seconds.
LEMMA SecType ==
  ASSUME NEW t \in Nat
  PROVE  Sec(t) \in Nat
BY RateAssumption DEF Sec

\* The bucket TakeToken works on, found or made, is a bucket.
LEMMA FoundType ==
  ASSUME TypeOK, NEW s \in Subnets, NEW t \in Nat
  PROVE  LET found == IF bucket[s] # None THEN bucket[s]
                      ELSE [tokens |-> Capacity, lastRefill |-> t, lastSeen |-> t]
             seen == [found EXCEPT !.lastSeen = t]
         IN  /\ seen \in Bucket
             /\ seen.tokens = found.tokens /\ seen.lastRefill = found.lastRefill
             /\ found.tokens <= Capacity
<1>1. CASE bucket[s] # None
  <2>1. bucket[s] \in Bucket /\ bucket[s].tokens <= Capacity
    BY <1>1 DEF TypeOK
  <2> QED
    BY <1>1, <2>1 DEF Bucket
<1>2. CASE bucket[s] = None
  BY <1>2, RateAssumption DEF Bucket
<1> QED
  BY <1>1, <1>2

-----------------------------------------------------------------------------
(* Type correctness *)

\* A call that returns leaves its slot empty.
LEMMA ReturnType ==
  ASSUME TypeOK, NEW th \in Threads, NEW v \in Verdicts, Return(th, v)
  PROVE  /\ pc' \in [Threads -> {"idle", "bucket", "table", "count"}]
         /\ query' \in [Threads -> Query \cup {None}]
         /\ \A x \in Threads : pc'[x] # "idle" <=> query'[x] # None
         /\ at' \in [Threads -> Nat]
         /\ verdict' \in Verdicts \cup {None}
BY DEF TypeOK, Return

\* So does a call that goes on within its subnet.
LEMMA GoOnType ==
  ASSUME TypeOK, NEW th \in Threads, pc[th] # "idle", Quiet, UNCHANGED <<query, at>>,
         NEW where \in {"table", "count"}, pc' = [pc EXCEPT ![th] = where]
  PROVE  /\ pc' \in [Threads -> {"idle", "bucket", "table", "count"}]
         /\ query' \in [Threads -> Query \cup {None}]
         /\ \A x \in Threads : pc'[x] # "idle" <=> query'[x] # None
         /\ at' \in [Threads -> Nat]
         /\ verdict' \in Verdicts \cup {None}
BY DEF TypeOK, Quiet

\* What TakeToken does to the bucket of its subnet and to the history.
LEMMA TakeTokenType ==
  ASSUME TypeOK, NEW th \in Threads, TakeToken(th)
  PROVE  /\ bucket' \in [Subnets -> Bucket \cup {None}]
         /\ \A s \in Subnets : bucket'[s] # None => bucket'[s].tokens <= Capacity
         /\ born' \in [Subnets -> Nat]
         /\ passed' \in [Subnets -> Nat]
<1> DEFINE s == query[th].subnet
           found == IF bucket[s] # None THEN bucket[s]
                    ELSE [tokens |-> Capacity, lastRefill |-> at[th], lastSeen |-> at[th]]
           seen == [found EXCEPT !.lastSeen = at[th]]
           full == Refilled(seen, at[th])
           taken == full.tokens > 0
           left == IF taken THEN [full EXCEPT !.tokens = @ - 1] ELSE full
<1>1. s \in Subnets /\ at[th] \in Nat
  BY DEF TypeOK, TakeToken, Query
<1>2. seen \in Bucket /\ seen.tokens <= Capacity
  BY <1>1, FoundType
<1>3. /\ bucket' = [bucket EXCEPT ![s] = left]
      /\ born' = [born EXCEPT ![s] = IF bucket[s] # None THEN @ ELSE at[th]]
      /\ passed' = [passed EXCEPT ![s] =
                      (IF bucket[s] # None THEN @ ELSE 0) + (IF taken THEN 1 ELSE 0)]
  BY DEF TakeToken
<1> HIDE DEF s, seen
<1>4. full \in Bucket /\ full.tokens <= Capacity
  BY <1>1, <1>2, RefilledIsBounded
<1> HIDE DEF full
<1>5. left \in Bucket /\ left.tokens <= Capacity
  BY <1>4, RateAssumption DEF Bucket
<1> HIDE DEF left
<1> QED
  BY <1>1, <1>3, <1>5 DEF TypeOK

THEOREM RateInitType == Init => TypeOK
BY RateAssumption DEF Init, TypeOK

THEOREM RateNextType == TypeOK /\ [Next]_vars => TypeOK'
<1> SUFFICES ASSUME TypeOK, [Next]_vars
             PROVE  TypeOK'
  OBVIOUS
<1> USE DEF callVars, cleanVars, ghosts
<1>1. CASE Tick
  BY <1>1 DEF TypeOK, Tick, Quiet
<1>2. ASSUME NEW th \in Threads, Bypass(th) PROVE TypeOK'
  BY <1>2 DEF TypeOK, Bypass, Verdicts
<1>3. ASSUME NEW th \in Threads, Arrive(th) PROVE TypeOK'
  BY <1>3, NoneAssumption DEF TypeOK, Arrive, Quiet
<1>4. ASSUME NEW th \in Threads, TakeToken(th) PROVE TypeOK'
  <2>1. \/ \E v \in Verdicts : Return(th, v)
        \/ /\ Quiet /\ UNCHANGED <<query, at>>
           /\ pc' = [pc EXCEPT ![th] = "table"]
    BY <1>4 DEF TakeToken, Verdicts
  <2>2. /\ pc' \in [Threads -> {"idle", "bucket", "table", "count"}]
        /\ query' \in [Threads -> Query \cup {None}]
        /\ \A x \in Threads : pc'[x] # "idle" <=> query'[x] # None
        /\ at' \in [Threads -> Nat]
        /\ verdict' \in Verdicts \cup {None}
    <3>1. pc[th] # "idle"
      BY <1>4 DEF TakeToken
    <3> QED
      BY <2>1, <3>1, ReturnType, GoOnType
  <2>3. UNCHANGED <<now, rrl, cleanVars, granted>>
    BY <1>4 DEF TakeToken
  <2> QED
    BY <1>4, <2>2, <2>3, TakeTokenType DEF TypeOK
<1>5. ASSUME NEW th \in Threads, CheckTable(th) PROVE TypeOK'
  <2>1. \/ Return(th, "Allow")
        \/ /\ Quiet /\ UNCHANGED <<query, at>>
           /\ pc' = [pc EXCEPT ![th] = "count"]
    BY <1>5 DEF CheckTable
  <2>2. /\ pc' \in [Threads -> {"idle", "bucket", "table", "count"}]
        /\ query' \in [Threads -> Query \cup {None}]
        /\ \A x \in Threads : pc'[x] # "idle" <=> query'[x] # None
        /\ at' \in [Threads -> Nat]
        /\ verdict' \in Verdicts \cup {None}
    <3>1. pc[th] # "idle" /\ "Allow" \in Verdicts
      BY <1>5 DEF CheckTable, Verdicts
    <3> QED
      BY <2>1, <3>1, ReturnType, GoOnType
  <2> QED
    BY <1>5, <2>2 DEF TypeOK, CheckTable
<1>6. ASSUME NEW th \in Threads, Count(th) PROVE TypeOK'
  <2> DEFINE k == Key(th)
             t == Sec(at[th])
             found == IF rrl[k] # None THEN rrl[k]
                      ELSE [epoch |-> t, count |-> 0, penalized |-> 0]
             next == Counted(found, t)
  <2>1. k \in Tracked /\ t \in Nat
    BY <1>6, SecType DEF TypeOK, Count, Key, Query, Tracked
  <2>2. found \in Counter
    BY <2>1 DEF TypeOK, Counter
  <2>3. next \in Counter
    BY <2>1, <2>2, CountedType
  <2>4. /\ \E v \in Verdicts : Return(th, v)
        /\ \E c \in {next, [found EXCEPT !.penalized = t + Penalty],
                     [next EXCEPT !.penalized = t + Penalty]} :
             rrl' = [rrl EXCEPT ![k] = c]
        /\ granted' \in {granted, [granted EXCEPT ![k] = @ \cup {t}]}
        /\ UNCHANGED <<now, bucket, cleanVars, born, passed>>
    BY <1>6 DEF Count, Verdicts
  <2> HIDE DEF k, t, found, next
  <2>5. \A c \in Counter : [c EXCEPT !.penalized = t + Penalty] \in Counter
    BY <2>1 DEF Counter, Penalty
  <2>6. rrl' \in [Tracked -> Counter \cup {None}]
    BY <2>1, <2>2, <2>3, <2>4, <2>5 DEF TypeOK
  <2>7. granted' \in [Tracked -> SUBSET Nat]
    BY <2>1, <2>4 DEF TypeOK
  <2> QED
    BY <2>4, <2>6, <2>7, ReturnType DEF TypeOK
<1>7. CASE CleanStart
  BY <1>7, RateAssumption DEF TypeOK, CleanStart, Quiet
<1>8. CASE CleanSubnet
  BY <1>8 DEF TypeOK, CleanSubnet, Quiet
<1>9. CASE CleanTurn
  BY <1>9 DEF TypeOK, CleanTurn, Quiet, Entries
<1>10. CASE CleanCounter
  <2>1. PICK k \in todo :
          /\ rrl' = [rrl EXCEPT ![k] =
                       IF rrl[k] # None /\ rrl[k].epoch < Sec(cutoff) THEN None ELSE @]
          /\ granted' = [granted EXCEPT ![k] =
                           IF rrl[k] # None /\ rrl[k].epoch < Sec(cutoff) THEN {} ELSE @]
          /\ todo' = todo \ {k}
    BY <1>10 DEF CleanCounter
  <2>2. UNCHANGED <<now, bucket, pc, query, at, cleaner, cutoff, born, passed>> /\ Quiet
    BY <1>10 DEF CleanCounter
  <2> QED
    BY <1>10, <2>1, <2>2 DEF TypeOK, Quiet, CleanCounter
<1>11. CASE CleanEnd
  BY <1>11 DEF TypeOK, CleanEnd, Quiet
<1>12. CASE UNCHANGED vars
  BY <1>12 DEF TypeOK, vars
<1> QED
  BY <1>1, <1>2, <1>3, <1>4, <1>5, <1>6, <1>7, <1>8, <1>9, <1>10, <1>11, <1>12 DEF Next

\* The limiter is type correct, and no bucket ever holds more than the burst.
THEOREM RateTypeCorrect == Spec => []TypeOK
<1> QED
  BY RateInitType, RateNextType, PTL DEF Spec

-----------------------------------------------------------------------------
(* Admission *)

\* AdmissionBound is inductive: a token taken moves from the balance to the
\* history, and a refill is paid for by the time that has passed since the
\* last one, so rounding and late clock readings only ever lose tokens.
THEOREM NextAdmission == TypeOK /\ AdmissionBound /\ [Next]_vars => AdmissionBound'
<1> SUFFICES ASSUME TypeOK, AdmissionBound, [Next]_vars
             PROVE  AdmissionBound'
  OBVIOUS
<1>1. CASE UNCHANGED <<bucket, born, passed>>
  BY <1>1 DEF AdmissionBound
<1>2. ASSUME NEW th \in Threads, TakeToken(th) PROVE AdmissionBound'
  <2> DEFINE s == query[th].subnet
             found == IF bucket[s] # None THEN bucket[s]
                      ELSE [tokens |-> Capacity, lastRefill |-> at[th], lastSeen |-> at[th]]
             seen == [found EXCEPT !.lastSeen = at[th]]
             full == Refilled(seen, at[th])
             taken == full.tokens > 0
             left == IF taken THEN [full EXCEPT !.tokens = @ - 1] ELSE full
             since == IF bucket[s] # None THEN born[s] ELSE at[th]
             before == IF bucket[s] # None THEN passed[s] ELSE 0
  <2>1. s \in Subnets /\ at[th] \in Nat
    BY <1>2 DEF TypeOK, TakeToken, Query
  <2>2. /\ seen \in Bucket
        /\ seen.tokens = found.tokens /\ seen.lastRefill = found.lastRefill
        /\ seen.tokens <= Capacity
    BY <2>1, FoundType
  <2>3. since \in Nat /\ before \in Nat
    BY <2>1 DEF TypeOK
  <2>4. (seen.tokens + before) * Second
          <= Capacity * Second + Refill * (seen.lastRefill - since)
    <3>1. CASE bucket[s] # None
      <4>1. (bucket[s].tokens + passed[s]) * Second
              <= Capacity * Second + Refill * (bucket[s].lastRefill - born[s])
        BY <2>1, <3>1 DEF AdmissionBound
      <4> QED
        BY <2>2, <3>1, <4>1
    <3>2. CASE bucket[s] = None
      <4>1. found.tokens = Capacity /\ found.lastRefill = at[th]
        BY <3>2
      <4>2. Refill * (at[th] - at[th]) = 0 /\ Capacity * Second \in Int
        BY <2>1, RateAssumption
      <4>3. Capacity + 0 = Capacity
        BY RateAssumption
      <4> QED
        BY <2>2, <3>2, <4>1, <4>2, <4>3
    <3> QED
      BY <3>1, <3>2
  <2>5. /\ bucket' = [bucket EXCEPT ![s] = left]
        /\ born' = [born EXCEPT ![s] = since]
        /\ passed' = [passed EXCEPT ![s] = before + (IF taken THEN 1 ELSE 0)]
    BY <1>2, <2>1 DEF TakeToken, TypeOK
  <2> HIDE DEF s, seen, since, before
  <2>6. /\ full \in Bucket
        /\ full.tokens * Second + Refill * seen.lastRefill
             <= seen.tokens * Second + Refill * full.lastRefill
    BY <2>1, <2>2, RefilledIsBounded
  <2> HIDE DEF full
  <2>7. /\ left \in Bucket
        /\ left.lastRefill = full.lastRefill
        /\ left.tokens + (before + (IF taken THEN 1 ELSE 0)) = full.tokens + before
    BY <2>3, <2>6 DEF Bucket
  <2>8. (full.tokens + before) * Second
          <= Capacity * Second + Refill * (full.lastRefill - since)
    <3> DEFINE a == full.tokens
               b == seen.tokens
               l == seen.lastRefill
               n == full.lastRefill
    <3>1. a \in Nat /\ b \in Nat /\ l \in Int /\ n \in Int
      BY <2>2, <2>6 DEF Bucket
    <3>2. a * Second + Refill * l <= b * Second + Refill * n
      BY <2>6
    <3>3. (b + before) * Second <= Capacity * Second + Refill * (l - since)
      BY <2>4
    <3> HIDE DEF a, b, l, n
    <3>4. /\ (a + before) * Second = a * Second + before * Second
          /\ (b + before) * Second = b * Second + before * Second
          /\ Refill * (l - since) = Refill * l - Refill * since
          /\ Refill * (n - since) = Refill * n - Refill * since
      BY <2>3, <3>1, RateAssumption
    <3>5. /\ a * Second \in Int /\ b * Second \in Int /\ before * Second \in Int
          /\ Refill * l \in Int /\ Refill * n \in Int /\ Refill * since \in Int
          /\ Capacity * Second \in Int
      BY <2>3, <3>1, RateAssumption
    <3>6. (a + before) * Second <= Capacity * Second + Refill * (n - since)
      BY <3>2, <3>3, <3>4, <3>5
    <3> QED
      BY <3>6 DEF a, n
  <2> HIDE DEF left
  <2>9. ASSUME NEW u \in Subnets, bucket'[u] # None
        PROVE  (bucket'[u].tokens + passed'[u]) * Second
                 <= Capacity * Second + Refill * (bucket'[u].lastRefill - born'[u])
    <3>1. CASE u = s
      <4>1. bucket'[u] = left /\ born'[u] = since
            /\ passed'[u] = before + (IF taken THEN 1 ELSE 0)
        BY <2>1, <2>5, <3>1 DEF TypeOK
      <4> QED
        BY <2>7, <2>8, <4>1
    <3>2. CASE u # s
      <4>1. bucket'[u] = bucket[u] /\ born'[u] = born[u] /\ passed'[u] = passed[u]
        BY <2>5, <3>2 DEF TypeOK
      <4> QED
        BY <2>9, <4>1 DEF AdmissionBound
    <3> QED
      BY <3>1, <3>2
  <2> QED
    BY <2>9 DEF AdmissionBound
<1>3. CASE CleanSubnet
  <2>1. PICK s \in todo :
          bucket' = [bucket EXCEPT ![s] =
                       IF @ # None /\ @.lastSeen < cutoff THEN None ELSE @]
    BY <1>3 DEF CleanSubnet
  <2>2. \A u \in Subnets : bucket'[u] # None => bucket'[u] = bucket[u]
    BY <2>1 DEF TypeOK
  <2>3. UNCHANGED <<born, passed>>
    BY <1>3 DEF CleanSubnet, ghosts
  <2> QED
    BY <2>2, <2>3 DEF AdmissionBound
<1> QED
  BY <1>1, <1>2, <1>3
  DEF Next, vars, ghosts, Tick, Bypass, Arrive, CheckTable, Count, CleanStart, CleanTurn,
      CleanCounter, CleanEnd

\* Over any run, the queries a bucket has let through and the tokens it still
\* holds never exceed the burst and the refill for the time since it was made.
THEOREM AdmissionHolds == Spec => []AdmissionBound
<1>1. Init => AdmissionBound
  BY DEF Init, AdmissionBound
<1> QED
  BY <1>1, RateTypeCorrect, NextAdmission, PTL DEF Spec

-----------------------------------------------------------------------------
(* The table of duplicates *)

\* Calls that hold the bucket of one subnet are the same call.
SubnetSerialized ==
  \A a, b \in Threads :
    pc[a] \in {"table", "count"} /\ pc[b] \in {"table", "count"}
      /\ query[a].subnet = query[b].subnet => a = b

\* Calls past the size check whose counter is not there (yet, or any more).
Pending == {th \in Threads : pc[th] = "count" /\ rrl[Key(th)] = None}

\* The strengthening of TableNearlyBounded that a step preserves: a call on its
\* way to insert counts like an entry.
TableInv ==
  /\ SubnetSerialized
  /\ Cardinality(Entries) + Cardinality(Pending) < MaxEntries + Cardinality(Threads)

\* What is counted is finite.
LEMMA TableFinite ==
  /\ IsFiniteSet(Tracked)
  /\ \A S \in SUBSET Tracked : IsFiniteSet(S) /\ Cardinality(S) \in Nat
  /\ \A S \in SUBSET Threads :
       IsFiniteSet(S) /\ Cardinality(S) \in Nat /\ Cardinality(S) <= Cardinality(Threads)
<1>1. IsFiniteSet(Tracked)
  BY RateAssumption, FS_Product DEF Tracked
<1>2. ASSUME NEW S \in SUBSET Tracked PROVE IsFiniteSet(S) /\ Cardinality(S) \in Nat
  BY <1>1, FS_Subset, FS_CardinalityType
<1>3. ASSUME NEW S \in SUBSET Threads
      PROVE  IsFiniteSet(S) /\ Cardinality(S) \in Nat /\ Cardinality(S) <= Cardinality(Threads)
  BY RateAssumption, FS_Subset, FS_CardinalityType
<1> QED
  BY <1>1, <1>2, <1>3

\* While a call holds the bucket of its subnet no other call of that subnet
\* gets past it.
LEMMA NextSerialized == TypeOK /\ SubnetSerialized /\ [Next]_vars => SubnetSerialized'
<1> SUFFICES ASSUME TypeOK, SubnetSerialized, [Next]_vars
             PROVE  SubnetSerialized'
  OBVIOUS
<1>1. CASE UNCHANGED <<pc, query>>
  BY <1>1 DEF SubnetSerialized
<1>2. ASSUME NEW th \in Threads, Arrive(th) PROVE SubnetSerialized'
  BY <1>2 DEF Arrive, SubnetSerialized, TypeOK
<1>3. ASSUME NEW th \in Threads, NEW v, Return(th, v) PROVE SubnetSerialized'
  BY <1>3 DEF Return, SubnetSerialized, TypeOK
<1>4. ASSUME NEW th \in Threads, TakeToken(th) PROVE SubnetSerialized'
  <2>1. CASE pc' = [pc EXCEPT ![th] = "table"] /\ UNCHANGED query
    <3>1. ~ Held(query[th].subnet)
      BY <1>4 DEF TakeToken
    <3> QED
      BY <2>1, <3>1 DEF Held, SubnetSerialized, TypeOK
  <2> QED
    BY <1>3, <1>4, <2>1 DEF TakeToken
<1>5. ASSUME NEW th \in Threads, CheckTable(th) PROVE SubnetSerialized'
  <2>1. CASE pc' = [pc EXCEPT ![th] = "count"] /\ UNCHANGED query
    <3>1. pc[th] = "table"
      BY <1>5 DEF CheckTable
    <3> QED
      BY <2>1, <3>1 DEF SubnetSerialized, TypeOK
  <2> QED
    BY <1>3, <1>5, <2>1 DEF CheckTable
<1>6. ASSUME NEW th \in Threads, Count(th) PROVE SubnetSerialized'
  BY <1>3, <1>6 DEF Count
<1> QED
  BY <1>1, <1>2, <1>4, <1>5, <1>6
  DEF Next, vars, callVars, Tick, Bypass, CleanStart, CleanSubnet, CleanTurn,
      CleanCounter, CleanEnd

\* A step that leaves the table alone, and lets no call past the size check,
\* adds no pending call.
LEMMA NothingPends ==
  ASSUME TypeOK, TableInv, SubnetSerialized', rrl' = rrl, Pending' \subseteq Pending
  PROVE  TableInv'
<1>1. Entries' = Entries
  BY DEF Entries
<1>2. Pending \in SUBSET Threads /\ Entries \in SUBSET Tracked
  BY DEF Pending, Entries
<1>3. Cardinality(Pending') <= Cardinality(Pending) /\ Cardinality(Pending') \in Nat
  BY <1>2, TableFinite, FS_Subset
<1>4. Cardinality(Entries) \in Nat /\ Cardinality(Pending) \in Nat
      /\ Cardinality(Threads) \in Nat /\ MaxEntries \in Nat
  BY <1>2, TableFinite, RateAssumption
<1> QED
  BY <1>1, <1>3, <1>4 DEF TableInv

THEOREM NextTable == TypeOK /\ TableInv /\ [Next]_vars => TableInv'
<1> SUFFICES ASSUME TypeOK, TableInv, [Next]_vars
             PROVE  TableInv'
  OBVIOUS
<1> USE DEF Key
<1>0. SubnetSerialized'
  BY NextSerialized DEF TableInv
<1>1. CASE UNCHANGED <<pc, query, rrl>>
  BY <1>0, <1>1, NothingPends DEF Pending
<1>2. ASSUME NEW th \in Threads, Arrive(th) PROVE TableInv'
  <2>1. Pending' \subseteq Pending /\ rrl' = rrl
    BY <1>2 DEF Arrive, Pending, TypeOK
  <2> QED
    BY <1>0, <2>1, NothingPends
<1>3. ASSUME NEW th \in Threads, NEW v, Return(th, v), rrl' = rrl PROVE TableInv'
  <2>1. Pending' \subseteq Pending
    BY <1>3 DEF Return, Pending, TypeOK
  <2> QED
    BY <1>0, <1>3, <2>1, NothingPends
<1>4. ASSUME NEW th \in Threads, TakeToken(th) PROVE TableInv'
  <2>1. rrl' = rrl
    BY <1>4 DEF TakeToken
  <2>2. CASE pc' = [pc EXCEPT ![th] = "table"] /\ UNCHANGED query
    <3>1. Pending' \subseteq Pending
      BY <2>1, <2>2 DEF Pending, TypeOK
    <3> QED
      BY <1>0, <2>1, <3>1, NothingPends
  <2> QED
    BY <1>3, <1>4, <2>1, <2>2 DEF TakeToken
<1>5. ASSUME NEW th \in Threads, CheckTable(th) PROVE TableInv'
  <2>1. rrl' = rrl
    BY <1>5 DEF CheckTable
  <2>2. CASE pc' = [pc EXCEPT ![th] = "count"] /\ UNCHANGED query
             /\ ~ (rrl[Key(th)] = None /\ Cardinality(Entries) >= MaxEntries)
    <3>1. CASE rrl[Key(th)] # None
      <4>1. Pending' \subseteq Pending
        BY <2>1, <2>2, <3>1 DEF Pending, TypeOK
      <4> QED
        BY <1>0, <2>1, <4>1, NothingPends
    <3>2. CASE ~ (Cardinality(Entries) >= MaxEntries)
      <4>1. Entries' = Entries
        BY <2>1 DEF Entries
      <4>2. Entries \in SUBSET Tracked /\ Pending' \in SUBSET Threads
        BY DEF Entries, Pending
      <4>3. Cardinality(Pending') \in Nat /\ Cardinality(Pending') <= Cardinality(Threads)
            /\ Cardinality(Entries) \in Nat /\ Cardinality(Threads) \in Nat
        BY <4>2, TableFinite
      <4>4. MaxEntries \in Nat
        BY RateAssumption
      <4> QED
        BY <1>0, <3>2, <4>1, <4>3, <4>4 DEF TableInv
    <3> QED
      BY <2>2, <3>1, <3>2
  <2> QED
    BY <1>3, <1>5, <2>1, <2>2 DEF CheckTable
<1>6. ASSUME NEW th \in Threads, Count(th) PROVE TableInv'
  <2> DEFINE k == Key(th)
  <2>1. k \in Tracked
    BY <1>6 DEF TypeOK, Count, Query, Tracked
  <2>2. PICK c \in Counter : rrl' = [rrl EXCEPT ![k] = c]
    <3> DEFINE t == Sec(at[th])
               found == IF rrl[k] # None THEN rrl[k]
                        ELSE [epoch |-> t, count |-> 0, penalized |-> 0]
               next == Counted(found, t)
    <3>1. t \in Nat
      BY SecType DEF TypeOK
    <3>2. found \in Counter
      BY <2>1, <3>1 DEF TypeOK, Counter
    <3>3. next \in Counter
      BY <3>1, <3>2, CountedType
    <3>4. \E d \in {next, [found EXCEPT !.penalized = t + Penalty],
                    [next EXCEPT !.penalized = t + Penalty]} :
             rrl' = [rrl EXCEPT ![k] = d]
      BY <1>6 DEF Count
    <3> HIDE DEF k, t, found, next
    <3>5. \A d \in Counter : [d EXCEPT !.penalized = t + Penalty] \in Counter
      BY <3>1 DEF Counter, Penalty
    <3> QED
      BY <3>2, <3>3, <3>4, <3>5
  <2>3. pc[th] = "count" /\ UNCHANGED now /\ \E v \in Verdicts : Return(th, v)
    BY <1>6 DEF Count, Verdicts
  <2>4. c # None
    BY NoneAssumption
  <2>5. Pending' \subseteq Pending \ {th}
    BY <2>1, <2>2, <2>3, <2>4 DEF Return, Pending, TypeOK
  <2>6. Entries \in SUBSET Tracked /\ Pending \in SUBSET Threads
        /\ Pending' \in SUBSET Threads
    BY DEF Entries, Pending
  <2>7. /\ Cardinality(Entries) \in Nat /\ Cardinality(Pending) \in Nat
        /\ Cardinality(Pending') \in Nat /\ Cardinality(Threads) \in Nat
        /\ MaxEntries \in Nat /\ IsFiniteSet(Pending) /\ IsFiniteSet(Entries)
    BY <2>6, TableFinite, RateAssumption
  <2>8. CASE rrl[k] # None
    <3>1. Entries' = Entries
      BY <2>1, <2>2, <2>4, <2>8 DEF Entries, TypeOK
    <3>2. Cardinality(Pending') <= Cardinality(Pending)
      BY <2>5, <2>7, FS_Subset
    <3> QED
      BY <1>0, <2>7, <3>1, <3>2 DEF TableInv
  <2>9. CASE rrl[k] = None
    <3>1. Entries' = Entries \cup {k} /\ k \notin Entries
      BY <2>1, <2>2, <2>4, <2>9 DEF Entries, TypeOK
    <3>2. Cardinality(Entries') = Cardinality(Entries) + 1
      BY <2>7, <3>1, FS_AddElement
    <3>3. th \in Pending
      BY <2>3, <2>9 DEF Pending
    <3>4. IsFiniteSet(Pending \ {th}) /\ Cardinality(Pending \ {th}) = Cardinality(Pending) - 1
      BY <2>7, <3>3, FS_RemoveElement
    <3>5. Cardinality(Pending') <= Cardinality(Pending) - 1
      BY <2>5, <3>4, FS_Subset
    <3> QED
      BY <1>0, <2>7, <3>2, <3>5 DEF TableInv
  <2> QED
    BY <2>8, <2>9
<1>7. CASE CleanCounter
  <2>1. PICK k \in todo : \/ rrl' = rrl
                          \/ rrl[k] # None /\ rrl' = [rrl EXCEPT ![k] = None]
    <3>1. PICK k \in todo :
            rrl' = [rrl EXCEPT ![k] =
                      IF rrl[k] # None /\ rrl[k].epoch < Sec(cutoff) THEN None ELSE @]
      BY <1>7 DEF CleanCounter
    <3> QED
      BY <3>1 DEF TypeOK
  <2>2. k \in Tracked /\ UNCHANGED <<pc, query>>
    BY <1>7 DEF CleanCounter, TypeOK, callVars
  <2>3. CASE rrl' = rrl
    BY <1>1, <2>2, <2>3
  <2>4. CASE rrl[k] # None /\ rrl' = [rrl EXCEPT ![k] = None]
    <3>1. Entries' = Entries \ {k} /\ k \in Entries
      BY <2>2, <2>4 DEF Entries, TypeOK
    <3>2. Entries \in SUBSET Tracked /\ Pending \in SUBSET Threads
          /\ Pending' \in SUBSET Threads
      BY DEF Entries, Pending
    <3>3. /\ Cardinality(Entries) \in Nat /\ Cardinality(Pending) \in Nat
          /\ Cardinality(Pending') \in Nat /\ Cardinality(Threads) \in Nat
          /\ MaxEntries \in Nat /\ IsFiniteSet(Pending) /\ IsFiniteSet(Entries)
      BY <3>2, TableFinite, RateAssumption
    <3>4. Cardinality(Entries') = Cardinality(Entries) - 1
      BY <3>1, <3>3, FS_RemoveElement
    <3>5. Cardinality(Pending') <= Cardinality(Pending) + 1
      <4>1. CASE \E th \in Threads : pc[th] = "count" /\ Key(th) = k
        <5>1. PICK th \in Threads : pc[th] = "count" /\ Key(th) = k
          BY <4>1
        <5>2. \A x \in Threads : pc[x] = "count" /\ Key(x) = k => x = th
          BY <5>1 DEF TableInv, SubnetSerialized
        <5>3. Pending' \subseteq Pending \cup {th}
          BY <2>2, <2>4, <5>2 DEF Pending, TypeOK
        <5>4. IsFiniteSet(Pending \cup {th})
              /\ Cardinality(Pending \cup {th}) <= Cardinality(Pending) + 1
          <6>1. IsFiniteSet(Pending \cup {th})
                /\ \/ Cardinality(Pending \cup {th}) = Cardinality(Pending)
                   \/ Cardinality(Pending \cup {th}) = Cardinality(Pending) + 1
            BY <3>3, FS_AddElement
          <6> QED
            BY <3>3, <6>1
        <5>5. Cardinality(Pending') <= Cardinality(Pending \cup {th})
              /\ Cardinality(Pending \cup {th}) \in Nat
          BY <5>3, <5>4, FS_Subset, FS_CardinalityType
        <5> QED
          BY <3>3, <5>4, <5>5
      <4>2. CASE ~ \E th \in Threads : pc[th] = "count" /\ Key(th) = k
        <5>1. Pending' \subseteq Pending
          BY <2>2, <2>4, <4>2 DEF Pending, TypeOK
        <5>2. Cardinality(Pending') <= Cardinality(Pending)
          BY <3>3, <5>1, FS_Subset
        <5> QED
          BY <3>3, <5>2
      <4> QED
        BY <4>1, <4>2
    <3> QED
      BY <1>0, <3>3, <3>4, <3>5 DEF TableInv
  <2> QED
    BY <2>1, <2>3, <2>4
<1> QED
  BY <1>1, <1>2, <1>4, <1>5, <1>6, <1>7
  DEF Next, vars, callVars, Tick, Bypass, CleanStart, CleanSubnet, CleanTurn, CleanEnd

LEMMA InitTable == Init => TableInv
<1> SUFFICES ASSUME Init
             PROVE  TableInv
  OBVIOUS
<1>1. SubnetSerialized
  BY DEF Init, SubnetSerialized
<1>2. Entries = {} /\ Pending = {}
  BY DEF Init, Entries, Pending
<1>3. Cardinality({}) = 0
  BY FS_EmptySet
<1>4. Cardinality(Threads) \in Nat /\ MaxEntries \in Nat /\ MaxEntries >= 1
  BY RateAssumption, FS_CardinalityType
<1> QED
  BY <1>1, <1>2, <1>3, <1>4 DEF TableInv

\* The table of duplicates exceeds its cap by less than the number of calls in
\* flight, whatever the interleaving of checks, insertions and cleanup.
THEOREM TableNearlyBoundedHolds == Spec => []TableNearlyBounded
<1>1. TypeOK /\ TableInv => TableNearlyBounded
  <2> SUFFICES ASSUME TypeOK, TableInv
               PROVE  TableNearlyBounded
    OBVIOUS
  <2>1. Entries \in SUBSET Tracked /\ Pending \in SUBSET Threads
    BY DEF Entries, Pending
  <2>2. /\ Cardinality(Entries) \in Nat /\ Cardinality(Pending) \in Nat
        /\ Cardinality(Threads) \in Nat /\ MaxEntries \in Nat
    BY <2>1, TableFinite, RateAssumption
  <2> QED
    BY <2>2 DEF TableInv, TableNearlyBounded
<1> QED
  BY <1>1, InitTable, NextTable, RateTypeCorrect, PTL DEF Spec

-----------------------------------------------------------------------------
(* Duplicates *)

\* A counter has counted, and the seconds in which it allowed a query are not
\* after its epoch; a counter that is not there has no such seconds.
GrantedInv ==
  \A k \in Tracked :
    IF rrl[k] = None THEN granted[k] = {}
    ELSE rrl[k].count >= 1 /\ \A g \in granted[k] : g <= rrl[k].epoch

\* What counting a query of second t does to a counter.
LEMMA CountedGrows ==
  ASSUME NEW c \in Counter, NEW t \in Nat
  PROVE  LET d == Counted(c, t)
         IN  /\ d \in Counter /\ d.count >= 1
             /\ d.epoch >= c.epoch /\ d.epoch >= t
             /\ d.count = 1 => t > c.epoch \/ c.count = 0
<1> DEFINE d == Counted(c, t)
<1> SUFFICES /\ d \in Counter /\ d.count >= 1
             /\ d.epoch >= c.epoch /\ d.epoch >= t
             /\ d.count = 1 => t > c.epoch \/ c.count = 0
  OBVIOUS
<1>1. d \in Counter
  BY CountedType
<1>2. CASE t > c.epoch
  <2>0. c.epoch \in Int
    BY DEF Counter
  <2>1. d = [c EXCEPT !.epoch = t, !.count = 1]
    BY <1>2 DEF Counted
  <2>2. d.epoch = t /\ d.count = 1
    <3> DEFINE e == [c EXCEPT !.epoch = t]
    <3>1. e \in Counter /\ e.epoch = t
      BY DEF Counter
    <3>2. d = [e EXCEPT !.count = 1]
      BY <2>1, <3>1 DEF Counter
    <3> HIDE DEF d, e
    <3> QED
      BY <3>1, <3>2 DEF Counter
  <2> HIDE DEF d
  <2> QED
    BY <1>1, <1>2, <2>0, <2>2
<1>3. CASE ~ (t > c.epoch)
  <2>1. d = [c EXCEPT !.count = @ + 1]
    BY <1>3 DEF Counted
  <2>2. d.epoch = c.epoch /\ d.count = c.count + 1
    BY <2>1 DEF Counter
  <2>3. c.epoch \in Int /\ c.count \in Nat
    BY DEF Counter
  <2> HIDE DEF d
  <2> QED
    BY <1>1, <1>3, <2>2, <2>3
<1> HIDE DEF d
<1> QED
  BY <1>2, <1>3

\* A query that Count judges at second t: the counter afterwards has counted,
\* its epoch has not gone back, and the query is allowed only if no query of
\* that second was.
LEMMA CountGrants ==
  ASSUME TypeOK, GrantedInv, NEW th \in Threads, Count(th)
  PROVE  /\ GrantedInv'
         /\ verdict' = "Allow" => Sec(at[th]) \notin granted[Key(th)]
<1> DEFINE k == Key(th)
           t == Sec(at[th])
           found == IF rrl[k] # None THEN rrl[k]
                    ELSE [epoch |-> t, count |-> 0, penalized |-> 0]
           next == Counted(found, t)
<1>1. k \in Tracked /\ t \in Nat
  BY SecType DEF TypeOK, Count, Key, Query, Tracked
<1>2. found \in Counter
  BY <1>1 DEF TypeOK, Counter
<1>3. \A g \in granted[k] : g \in Nat /\ g <= found.epoch
  BY <1>1 DEF GrantedInv, TypeOK
<1>4. rrl[k] = None => found.penalized = 0 /\ granted[k] = {}
  BY <1>1 DEF GrantedInv
<1>5. rrl[k] # None => found.count >= 1
  BY <1>1 DEF GrantedInv
<1>6. /\ next \in Counter /\ next.count >= 1
      /\ next.epoch >= found.epoch /\ next.epoch >= t
      /\ next.count = 1 => t > found.epoch \/ found.count = 0
  BY <1>1, <1>2, CountedGrows
<1>7. \A c \in Counter : /\ [c EXCEPT !.penalized = t + Penalty] \in Counter
                         /\ [c EXCEPT !.penalized = t + Penalty].epoch = c.epoch
                         /\ [c EXCEPT !.penalized = t + Penalty].count = c.count
  BY <1>1 DEF Counter, Penalty
<1>8. \/ /\ t < found.penalized
         /\ rrl' = [rrl EXCEPT ![k] = [found EXCEPT !.penalized = t + Penalty]]
         /\ verdict' = "Drop" /\ granted' = granted
      \/ /\ next.count = 1 /\ rrl' = [rrl EXCEPT ![k] = next]
         /\ verdict' = "Allow" /\ granted' = [granted EXCEPT ![k] = @ \cup {t}]
      \/ /\ rrl' = [rrl EXCEPT ![k] = next]
         /\ verdict' = "Truncate" /\ granted' = granted
      \/ /\ rrl' = [rrl EXCEPT ![k] = [next EXCEPT !.penalized = t + Penalty]]
         /\ verdict' = "Drop" /\ granted' = granted
  BY DEF Count, Return
<1> HIDE DEF k, t, found, next
<1>9. found.epoch \in Int /\ next.epoch \in Int /\ found.count \in Nat
  BY <1>2, <1>6 DEF Counter
<1>10. verdict' = "Allow" => t \notin granted[k]
  <2>1. SUFFICES ASSUME next.count = 1
                 PROVE  t \notin granted[k]
    BY <1>8
  <2>2. CASE rrl[k] = None
    BY <1>4, <2>2
  <2>3. CASE rrl[k] # None
    BY <1>1, <1>3, <1>5, <1>6, <1>9, <2>1, <2>3
  <2> QED
    BY <2>2, <2>3
<1>11. PICK c \in Counter :
         /\ rrl' = [rrl EXCEPT ![k] = c]
         /\ c.count >= 1 /\ c.epoch >= found.epoch
         /\ granted' # granted => c.epoch >= t
  <2>1. CASE t < found.penalized
             /\ rrl' = [rrl EXCEPT ![k] = [found EXCEPT !.penalized = t + Penalty]]
             /\ granted' = granted
    <3>1. rrl[k] # None
      BY <1>1, <1>4, <2>1
    <3> DEFINE c == [found EXCEPT !.penalized = t + Penalty]
    <3>2. c \in Counter /\ c.epoch = found.epoch /\ c.count = found.count
      BY <1>2, <1>7
    <3>3. rrl' = [rrl EXCEPT ![k] = c]
      BY <2>1
    <3> HIDE DEF c
    <3>4. c.count >= 1 /\ c.epoch >= found.epoch
      BY <1>5, <1>9, <3>1, <3>2
    <3> QED
      BY <2>1, <3>2, <3>3, <3>4
  <2>2. CASE rrl' = [rrl EXCEPT ![k] = next]
    BY <1>6, <2>2
  <2>3. CASE rrl' = [rrl EXCEPT ![k] = [next EXCEPT !.penalized = t + Penalty]]
    BY <1>6, <1>7, <2>3
  <2> QED
    BY <1>8, <2>1, <2>2, <2>3
<1>12. c # None /\ c.epoch \in Int
  BY NoneAssumption DEF Counter
<1>13. granted' = granted \/ granted' = [granted EXCEPT ![k] = @ \cup {t}]
  BY <1>8
<1>14. rrl \in [Tracked -> Counter \cup {None}] /\ granted \in [Tracked -> SUBSET Nat]
  BY DEF TypeOK
<1>15. ASSUME NEW j \in Tracked
       PROVE  IF rrl'[j] = None THEN granted'[j] = {}
              ELSE rrl'[j].count >= 1 /\ \A g \in granted'[j] : g <= rrl'[j].epoch
  <2>1. CASE j = k
    <3>1. rrl'[j] = c
      BY <1>1, <1>11, <1>14, <2>1
    <3>2. granted'[j] = granted[k] \/ (granted' # granted /\ granted'[j] = granted[k] \cup {t})
      BY <1>1, <1>13, <1>14, <2>1
    <3> QED
      BY <1>1, <1>3, <1>9, <1>11, <1>12, <3>1, <3>2
  <2>2. CASE j # k
    <3>1. rrl'[j] = rrl[j] /\ granted'[j] = granted[j]
      BY <1>11, <1>13, <1>14, <2>2
    <3> QED
      BY <3>1 DEF GrantedInv
  <2> QED
    BY <2>1, <2>2
<1> QED
  BY <1>10, <1>15 DEF GrantedInv, k, t

LEMMA NextGranted == TypeOK /\ GrantedInv /\ [Next]_vars => GrantedInv'
<1> SUFFICES ASSUME TypeOK, GrantedInv, [Next]_vars
             PROVE  GrantedInv'
  OBVIOUS
<1>1. CASE UNCHANGED <<rrl, granted>>
  BY <1>1 DEF GrantedInv
<1>2. ASSUME NEW th \in Threads, Count(th) PROVE GrantedInv'
  BY <1>2, CountGrants
<1>3. CASE CleanCounter
  <2>1. PICK k \in todo :
          \/ UNCHANGED <<rrl, granted>>
          \/ rrl' = [rrl EXCEPT ![k] = None] /\ granted' = [granted EXCEPT ![k] = {}]
    <3>1. PICK k \in todo :
            /\ rrl' = [rrl EXCEPT ![k] =
                         IF rrl[k] # None /\ rrl[k].epoch < Sec(cutoff) THEN None ELSE @]
            /\ granted' = [granted EXCEPT ![k] =
                             IF rrl[k] # None /\ rrl[k].epoch < Sec(cutoff) THEN {} ELSE @]
      BY <1>3 DEF CleanCounter
    <3> QED
      BY <3>1 DEF TypeOK
  <2> QED
    BY <2>1 DEF GrantedInv, TypeOK
<1> QED
  BY <1>1, <1>2, <1>3
  DEF Next, vars, ghosts, Tick, Bypass, Arrive, TakeToken, CheckTable, CleanStart,
      CleanSubnet, CleanTurn, CleanEnd

\* A counter allows at most one of the queries that read the same second,
\* whatever the order in which the threads get to it.
THEOREM OneAllowPerSecondHolds == Spec => OneAllowPerSecond
<1> DEFINE A == \A th \in Threads :
                  pc[th] = "count" /\ pc'[th] = "idle" /\ verdict' = "Allow" =>
                    Sec(at[th]) \notin granted[Key(th)]
<1>1. Init => GrantedInv
  BY DEF Init, GrantedInv
<1>2. TypeOK /\ GrantedInv /\ [Next]_vars => [A]_vars
  <2> SUFFICES ASSUME TypeOK, GrantedInv, [Next]_vars,
                      NEW th \in Threads, pc[th] = "count", pc'[th] = "idle",
                      verdict' = "Allow", ~ UNCHANGED vars
               PROVE  Sec(at[th]) \notin granted[Key(th)]
    OBVIOUS
  <2>1. Count(th)
    <3>1. ASSUME NEW x \in Threads, TakeToken(x) \/ CheckTable(x) \/ Arrive(x), x = th
          PROVE  FALSE
      BY <3>1 DEF TakeToken, CheckTable, Arrive
    <3>2. ASSUME NEW x \in Threads, x # th,
                 TakeToken(x) \/ CheckTable(x) \/ Count(x) \/ Arrive(x)
          PROVE  pc'[th] = pc[th]
      BY <3>2 DEF TakeToken, CheckTable, Count, Arrive, Return, TypeOK
    <3> QED
      BY <3>1, <3>2 DEF Next, Tick, Bypass, CleanStart, CleanSubnet, CleanTurn,
                        CleanCounter, CleanEnd, callVars
  <2> QED
    BY <2>1, CountGrants
<1>3. Spec => [][A]_vars
  BY <1>1, <1>2, RateTypeCorrect, NextGranted, PTL DEF Spec
<1> QED
  BY <1>3 DEF OneAllowPerSecond
=============================================================================
