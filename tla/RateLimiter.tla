----------------------------- MODULE RateLimiter ----------------------------
(***************************************************************************)
(* src/ratelimit.rs: the subnet token buckets and the table of duplicate   *)
(* UDP queries, used by every listener thread at once and pruned by a      *)
(* background pass.                                                        *)
(*                                                                         *)
(* check_query reads the clock before it takes any lock.  From then on it  *)
(* holds the bucket of its subnet until it returns, so calls of one subnet *)
(* are served one at a time, in any order; calls of different subnets meet *)
(* in the table of duplicates.  Time is counted in units of which a second *)
(* has Second.                                                             *)
(***************************************************************************)
EXTENDS Integers, FiniteSets

CONSTANTS
  Threads,      \* concurrent calls of check_query
  Subnets,      \* /24 and /64 prefixes
  Domains,      \* "{qname}:{qtype}"
  Capacity,     \* RATE_LIMIT_BURST
  Refill,       \* RATE_LIMIT_PER_SEC
  MaxEntries,   \* MAX_TRACKED_RRL_ENTRIES
  MaxAge,       \* the max_age of cleanup, in time units
  Second,       \* time units in a second: 1000 in the code
  MaxTime,      \* bound of the model: the clock stops here
  None          \* no bucket, no entry, no query

Penalty == 3    \* seconds

ASSUME RateAssumption ==
  /\ Capacity \in Nat /\ Refill \in Nat /\ MaxAge \in Nat /\ MaxTime \in Nat
  /\ MaxEntries \in Nat \ {0}
  /\ Second \in Nat \ {0}
  /\ IsFiniteSet(Threads) /\ IsFiniteSet(Subnets) /\ IsFiniteSet(Domains)

Tracked  == Subnets \X Domains
Bucket   == [tokens : Nat, lastRefill : Int, lastSeen : Int]
Counter  == [epoch : Int, count : Nat, penalized : Int]
Query    == [subnet : Subnets, domain : Domains, udp : BOOLEAN]
Verdicts == {"Allow", "Truncate", "Drop"}

ASSUME NoneAssumption ==
  None \notin Bucket /\ None \notin Counter /\ None \notin Query /\ None \notin Verdicts

VARIABLES
  now,        \* now_millis()
  bucket,     \* subnet_buckets: subnet -> bucket or None
  rrl,        \* rrl_buckets: <<subnet, domain>> -> counter or None
  pc,         \* per thread: "idle", "bucket", "table", "count"
  query,      \*   the call's arguments
  at,         \*   now_ms, read before the bucket is locked
  verdict,    \* what the call that has just returned said, None after other steps
  cleaner,    \* the cleanup pass: "idle", "subnets", "rrl"
  cutoff,     \*   cutoff_ms of the pass
  todo,       \*   buckets or counters it has still to visit
  born,       \* history: per subnet, the clock its bucket was made with
  passed,     \* history: tokens taken from that bucket
  granted     \* history: per counter, the seconds in which it allowed a query

callVars  == <<pc, query, at>>
cleanVars == <<cleaner, cutoff, todo>>
ghosts    == <<born, passed, granted>>
vars      == <<now, bucket, rrl, callVars, verdict, cleanVars, ghosts>>

Quiet == verdict' = None

Sec(t) == t \div Second
Lesser(a, b) == IF a <= b THEN a ELSE b

\* The guard of the subnet's bucket is held from the bucket to the return.
Held(s) == \E th \in Threads : pc[th] \in {"table", "count"} /\ query[th].subnet = s

Entries == {k \in Tracked : rrl[k] # None}

-----------------------------------------------------------------------------
Init ==
  /\ now = 0
  /\ bucket = [s \in Subnets |-> None]
  /\ rrl = [k \in Tracked |-> None]
  /\ pc = [th \in Threads |-> "idle"]
  /\ query = [th \in Threads |-> None]
  /\ at = [th \in Threads |-> 0]
  /\ verdict = None
  /\ cleaner = "idle"
  /\ cutoff = 0
  /\ todo = {}
  /\ born = [s \in Subnets |-> 0]
  /\ passed = [s \in Subnets |-> 0]
  /\ granted = [k \in Tracked |-> {}]

Tick ==
  /\ now < MaxTime
  /\ now' = now + 1
  /\ Quiet
  /\ UNCHANGED <<bucket, rrl, callVars, cleanVars, ghosts>>

-----------------------------------------------------------------------------
(* check_query *)

\* A loopback client is allowed and a UDP ANY query dropped without a trace.
Bypass(th) ==
  /\ pc[th] = "idle"
  /\ verdict' \in {"Allow", "Drop"}
  /\ UNCHANGED <<now, bucket, rrl, pc, query, at, cleanVars, ghosts>>

Arrive(th) ==
  /\ pc[th] = "idle"
  /\ \E q \in Query : query' = [query EXCEPT ![th] = q]
  /\ at' = [at EXCEPT ![th] = now]
  /\ Quiet
  /\ pc' = [pc EXCEPT ![th] = "bucket"]
  /\ UNCHANGED <<now, bucket, rrl, cleanVars, ghosts>>

Return(th, v) ==
  /\ verdict' = v
  /\ pc' = [pc EXCEPT ![th] = "idle"]
  /\ query' = [query EXCEPT ![th] = None]
  /\ at' = [at EXCEPT ![th] = 0]

\* With a mistake: the refill is not capped.
RefilledUncapped(b, t) ==
  LET new == ((t - b.lastRefill) * Refill) \div Second
  IN  IF t > b.lastRefill /\ new > 0
      THEN [b EXCEPT !.lastRefill = t, !.tokens = @ + new] ELSE b

\* With a mistake: a stale clock reading moves lastRefill back.
RefilledBackwards(b, t) ==
  LET new == ((t - b.lastRefill) * Refill) \div Second
  IN  [b EXCEPT !.lastRefill = t,
                !.tokens = Lesser(@ + (IF new > 0 THEN new ELSE 0), Capacity)]

\* A bucket after the refill due at t: whole tokens only, the clock of the
\* refill moves only with them, and a clock read too early adds nothing.
Refilled(b, t) ==
  LET new == ((t - b.lastRefill) * Refill) \div Second
  IN  IF t > b.lastRefill /\ new > 0
      THEN [b EXCEPT !.lastRefill = t, !.tokens = Lesser(@ + new, Capacity)] ELSE b

\* Finds or makes the bucket, refills it and takes a token; without one the
\* query is dropped, with one a TCP, DoT or DoH query is allowed.
TakeToken(th) ==
  LET q == query[th]
      s == q.subnet
      found == IF bucket[s] # None THEN bucket[s]
               ELSE [tokens |-> Capacity, lastRefill |-> at[th], lastSeen |-> at[th]]
      full == Refilled([found EXCEPT !.lastSeen = at[th]], at[th])
      taken == full.tokens > 0
  IN  /\ pc[th] = "bucket"
      /\ ~ Held(s)
      /\ bucket' = [bucket EXCEPT ![s] =
                      IF taken THEN [full EXCEPT !.tokens = @ - 1] ELSE full]
      /\ born' = [born EXCEPT ![s] = IF bucket[s] # None THEN @ ELSE at[th]]
      /\ passed' = [passed EXCEPT ![s] =
                      (IF bucket[s] # None THEN @ ELSE 0) + (IF taken THEN 1 ELSE 0)]
      /\ IF ~ taken THEN Return(th, "Drop")
         ELSE IF ~ q.udp THEN Return(th, "Allow")
         ELSE /\ pc' = [pc EXCEPT ![th] = "table"]
              /\ Quiet /\ UNCHANGED <<query, at>>
      /\ UNCHANGED <<now, rrl, cleanVars, granted>>

Key(th) == <<query[th].subnet, query[th].domain>>

\* With a mistake: only an empty place, not the cap, is looked for.
CheckTableUncapped(th) ==
  /\ pc[th] = "table"
  /\ pc' = [pc EXCEPT ![th] = "count"] /\ Quiet
  /\ UNCHANGED <<query, at, now, bucket, rrl, cleanVars, ghosts>>

\* A full table lets queries it does not track through.
CheckTable(th) ==
  /\ pc[th] = "table"
  /\ IF rrl[Key(th)] = None /\ Cardinality(Entries) >= MaxEntries
     THEN Return(th, "Allow")
     ELSE pc' = [pc EXCEPT ![th] = "count"] /\ Quiet /\ UNCHANGED <<query, at>>
  /\ UNCHANGED <<now, bucket, rrl, cleanVars, ghosts>>

\* With a mistake: any other second starts a new epoch.
CountedAnySecond(c, t) ==
  IF t # c.epoch THEN [c EXCEPT !.epoch = t, !.count = 1]
  ELSE [c EXCEPT !.count = @ + 1]

\* The counter after a query counted at second t: a later second starts a new
\* epoch, an earlier one counts into the epoch there is.
Counted(c, t) ==
  IF t > c.epoch THEN [c EXCEPT !.epoch = t, !.count = 1]
  ELSE [c EXCEPT !.count = @ + 1]

\* Finds or makes the counter and judges the query by it, all under the
\* counter's own guard.  A query inside the penalty prolongs it and is not
\* counted.
Count(th) ==
  LET k == Key(th)
      t == Sec(at[th])
      found == IF rrl[k] # None THEN rrl[k]
               ELSE [epoch |-> t, count |-> 0, penalized |-> 0]
      next == Counted(found, t)
  IN  /\ pc[th] = "count"
      /\ IF t < found.penalized
         THEN /\ rrl' = [rrl EXCEPT ![k] = [found EXCEPT !.penalized = t + Penalty]]
              /\ Return(th, "Drop")
              /\ UNCHANGED granted
         ELSE IF next.count = 1
         THEN /\ rrl' = [rrl EXCEPT ![k] = next]
              /\ Return(th, "Allow")
              /\ granted' = [granted EXCEPT ![k] = @ \cup {t}]
         ELSE IF next.count = 2
         THEN /\ rrl' = [rrl EXCEPT ![k] = next]
              /\ Return(th, "Truncate")
              /\ UNCHANGED granted
         ELSE /\ rrl' = [rrl EXCEPT ![k] = [next EXCEPT !.penalized = t + Penalty]]
              /\ Return(th, "Drop")
              /\ UNCHANGED granted
      /\ UNCHANGED <<now, bucket, cleanVars, born, passed>>

-----------------------------------------------------------------------------
(* cleanup *)

CleanStart ==
  /\ cleaner = "idle"
  /\ cleaner' = "subnets"
  /\ cutoff' = now - MaxAge
  /\ todo' = {s \in Subnets : bucket[s] # None}
  /\ Quiet
  /\ UNCHANGED <<now, bucket, rrl, callVars, ghosts>>

\* retain waits for the guard of a bucket in use.
CleanSubnet ==
  /\ cleaner = "subnets"
  /\ \E s \in todo :
       /\ ~ Held(s)
       /\ bucket' = [bucket EXCEPT ![s] =
                       IF @ # None /\ @.lastSeen < cutoff THEN None ELSE @]
       /\ todo' = todo \ {s}
  /\ Quiet
  /\ UNCHANGED <<now, rrl, callVars, cleaner, cutoff, ghosts>>

CleanTurn ==
  /\ cleaner = "subnets"
  /\ todo = {}
  /\ cleaner' = "rrl"
  /\ todo' = Entries
  /\ Quiet
  /\ UNCHANGED <<now, bucket, rrl, callVars, cutoff, ghosts>>

\* A counter is judged by its epoch, which a penalty does not advance.
CleanCounter ==
  /\ cleaner = "rrl"
  /\ \E k \in todo :
       /\ LET stale == rrl[k] # None /\ rrl[k].epoch < Sec(cutoff)
          IN  /\ rrl' = [rrl EXCEPT ![k] = IF stale THEN None ELSE @]
              /\ granted' = [granted EXCEPT ![k] = IF stale THEN {} ELSE @]
       /\ todo' = todo \ {k}
  /\ Quiet
  /\ UNCHANGED <<now, bucket, callVars, cleaner, cutoff, born, passed>>

CleanEnd ==
  /\ cleaner = "rrl"
  /\ todo = {}
  /\ cleaner' = "idle"
  /\ cutoff' = 0
  /\ Quiet
  /\ UNCHANGED <<now, bucket, rrl, callVars, todo, ghosts>>

-----------------------------------------------------------------------------
Next ==
  \/ Tick
  \/ \E th \in Threads :
       Bypass(th) \/ Arrive(th) \/ TakeToken(th) \/ CheckTable(th) \/ Count(th)
  \/ CleanStart \/ CleanSubnet \/ CleanTurn \/ CleanCounter \/ CleanEnd

Spec == Init /\ [][Next]_vars

-----------------------------------------------------------------------------
(* Properties *)

\* Types; a token balance is between zero and the capacity.
TypeOK ==
  /\ now \in Nat
  /\ bucket \in [Subnets -> Bucket \cup {None}]
  /\ \A s \in Subnets : bucket[s] # None => bucket[s].tokens <= Capacity
  /\ rrl \in [Tracked -> Counter \cup {None}]
  /\ pc \in [Threads -> {"idle", "bucket", "table", "count"}]
  /\ query \in [Threads -> Query \cup {None}]
  /\ \A th \in Threads : pc[th] # "idle" <=> query[th] # None
  /\ at \in [Threads -> Nat]
  /\ verdict \in Verdicts \cup {None}
  /\ cleaner \in {"idle", "subnets", "rrl"}
  /\ cutoff \in Int
  /\ todo \in SUBSET (IF cleaner = "rrl" THEN Tracked ELSE Subnets)
  /\ born \in [Subnets -> Nat]
  /\ passed \in [Subnets -> Nat]
  /\ granted \in [Tracked -> SUBSET Nat]

\* However many threads race, and however late each one acts on the clock it
\* read, a bucket never grants more than its burst and the refill for the time
\* since it was made: the tokens left and the tokens taken together stay
\* within that allowance.
AdmissionBound ==
  \A s \in Subnets : bucket[s] # None =>
    (bucket[s].tokens + passed[s]) * Second
      <= Capacity * Second + Refill * (bucket[s].lastRefill - born[s])

\* README: "1st duplicate -> allowed, 2nd duplicate -> TC=1": a counter allows
\* at most one of the queries that read the same second, however they overtake
\* one another.
OneAllowPerSecond ==
  [][\A th \in Threads :
       pc[th] = "count" /\ pc'[th] = "idle" /\ verdict' = "Allow" =>
         Sec(at[th]) \notin granted[Key(th)]]_vars

\* README: "The duplicate-domain tracking table is capped at: 65,536 entries".
\* The size check and the insertion are apart, so calls of different subnets
\* that passed the check together overrun the cap, but by fewer entries than
\* there are threads.
TableNearlyBounded == Cardinality(Entries) < MaxEntries + Cardinality(Threads)
=============================================================================
