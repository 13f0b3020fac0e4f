------------------------------- MODULE Engine -------------------------------
(***************************************************************************)
(* The resolution pipeline of src/engine.rs around the shared answer cache *)
(* of src/cache.rs: client requests, the background revalidations they     *)
(* spawn for stale entries, and the start-up prewarmer of src/main.rs.     *)
(*                                                                         *)
(* Three kinds of actors run concurrently and share `cache` and            *)
(* `in_flight`:                                                            *)
(*   requests   process_dns_query, one slot per concurrent client query    *)
(*   tasks      the spawned stale-while-revalidate futures                 *)
(*   warmers    the tasks of preload_domains, one per domain               *)
(*                                                                         *)
(* The iterative resolver and the DNSSEC validator are the environment:    *)
(* resolving a name yields an error or some message, together with any     *)
(* verdict the validator may reach for it at that moment.  The clock       *)
(* advances between any two steps.                                         *)
(***************************************************************************)
EXTENDS DnsTtl, Sequences

CONSTANTS
  Keys,         \* cache keys "{qname}:{qtype}:IN"
  Requests,     \* slots for concurrent client queries
  Tasks,        \* slots for spawned revalidations
  Warmers,      \* prewarm tasks
  WarmPlan,     \* WarmPlan[w]: the keys warmer w visits, in order (A, AAAA)
  Messages,     \* messages a resolution can return
  Queries,      \* client queries: [key, do, ad, cd, udp]
  Enforce,      \* DNSSEC_ENFORCE
  Encodings,    \* outcomes of an encode or decode: {TRUE} or {TRUE, FALSE}
  StartTime,    \* the clock when the process starts
  MaxTime,      \* bound of the model: the clock stops here
  None          \* no entry, no result, no reply, no query

Verdicts   == {"Secure", "InsecureUnsigned", "InsecureUnknown", "Bogus"}
Conclusive == {"Secure", "InsecureUnsigned"}
Cacheable  == {"NoError", "NXDomain"}
Freshnesses == {"Fresh", "Stale", "Expired"}

Query  == [key : Keys, do : BOOLEAN, ad : BOOLEAN, cd : BOOLEAN, udp : BOOLEAN]
Result == [msg : Messages, status : Verdicts]
Entry  == [msg : Messages, status : Verdicts, minTtl : Nat,
           cachedAt : Nat, revalidatedAt : Nat]
Reply  == [outcome : {"Success", "ServFail", "Truncated", "Dropped", "Malformed"},
           from : {"cache", "upstream", "none"},
           entry : Entry \cup {None}, freshness : Freshnesses \cup {None},
           ad : BOOLEAN, ttls : SUBSET Nat]

ASSUME MessageAssumption ==
  /\ Messages # {}
  /\ \A m \in Messages :
       /\ m = [rcode |-> m.rcode, ttls |-> m.ttls, sigs |-> m.sigs]
       /\ m.ttls \subseteq Word
       /\ m.sigs \subseteq Word

ASSUME EngineAssumption ==
  /\ Queries \subseteq Query
  /\ Encodings \in {{TRUE}, {TRUE, FALSE}}
  /\ Enforce \in BOOLEAN
  /\ StartTime \in Nat /\ MaxTime \in Nat /\ StartTime <= MaxTime
  /\ WarmPlan \in [Warmers -> Seq(Keys)]

ASSUME NoneAssumption ==
  /\ None \notin Entry
  /\ None \notin Result
  /\ None \notin Reply
  /\ None \notin Query
  /\ None \notin Keys
  /\ None \notin Freshnesses

VARIABLES
  now,        \* now_secs()
  cache,      \* AppState.cache: key -> entry or None
  inFlight,   \* AppState.in_flight
  pc,         \* per request: where process_dns_query stands
  query,      \*   the query, kept until the slot takes another one
  at,         \*   `now`, captured once after rate limiting
  got,        \*   the resolved and validated message
  reply,      \*   what was sent for `query`, None until then
  tpc, tkey, tgot,    \* per revalidation task
  wpc, wtodo, wgot    \* per prewarm task

reqVars  == <<pc, query, at, got, reply>>
taskVars == <<tpc, tkey, tgot>>
warmVars == <<wpc, wtodo, wgot>>
vars     == <<now, cache, inFlight, reqVars, taskVars, warmVars>>

-----------------------------------------------------------------------------
(* Data *)

\* The verdicts validate_message may reach at time t: anything but NoError
\* and NXDomain is InsecureUnknown, and Secure needs a signature that has
\* not expired.
VerdictsFor(msg, t) ==
  IF msg.rcode \notin Cacheable THEN {"InsecureUnknown"}
  ELSE (Verdicts \ {"Secure"})
       \cup {v \in {"Secure"} : \E exp \in msg.sigs : SigUnexpired(exp, t)}

\* What resolve followed by validate_message may hand back at time t.
Results(t) ==
  UNION {{[msg |-> m, status |-> v] : v \in VerdictsFor(m, t)} : m \in Messages}

\* With a mistake: the verdict is not consulted.
StorableByRcode(res) == res.msg.rcode \in Cacheable

\* is_cacheable && is_cacheable_dnssec
Storable(res) == res.msg.rcode \in Cacheable /\ res.status \in Conclusive

\* The CacheEntry built from a result when the clock read t.
NewEntry(res, t) ==
  [msg |-> res.msg, status |-> res.status,
   minTtl |-> CacheTtl(res.msg, res.status, t),
   cachedAt |-> t, revalidatedAt |-> t]

\* With a mistake: AD survives into stale answers.
AdBitWhenStale(q, entry, freshness) ==
  entry.status = "Secure" /\ (q.do \/ q.ad) /\ ~ q.cd

\* The AD bit of construct_client_response.
AdBit(q, entry, freshness) ==
  /\ entry.status = "Secure"
  /\ freshness = "Fresh"
  /\ q.do \/ q.ad
  /\ ~ q.cd

\* A constructed response: the records of the entry with their TTLs at t.
Answer(q, entry, from, freshness, t) ==
  [outcome |-> "Success", from |-> from, entry |-> entry,
   freshness |-> freshness, ad |-> AdBit(q, entry, freshness),
   ttls |-> {ServedTtl(x, entry, freshness, t) : x \in entry.msg.ttls}]

\* A response without data.
Bare(outcome) ==
  [outcome |-> outcome, from |-> "none", entry |-> None, freshness |-> None,
   ad |-> FALSE, ttls |-> {}]

\* A constructed response too large for a UDP client becomes a TC=1 challenge.
Sized(q, r) == {r} \cup {x \in {Bare("Truncated")} : q.udp}

-----------------------------------------------------------------------------
Init ==
  /\ now = StartTime
  /\ cache = [k \in Keys |-> None]
  /\ inFlight = {}
  /\ pc = [r \in Requests |-> "idle"]
  /\ query = [r \in Requests |-> None]
  /\ at = [r \in Requests |-> 0]
  /\ got = [r \in Requests |-> None]
  /\ reply = [r \in Requests |-> None]
  /\ tpc = [t \in Tasks |-> "idle"]
  /\ tkey = [t \in Tasks |-> None]
  /\ tgot = [t \in Tasks |-> None]
  /\ wpc = [w \in Warmers |-> "check"]
  /\ wtodo = WarmPlan
  /\ wgot = [w \in Warmers |-> None]

Tick ==
  /\ now < MaxTime
  /\ now' = now + 1
  /\ UNCHANGED <<cache, inFlight, reqVars, taskVars, warmVars>>

-----------------------------------------------------------------------------
(* Client requests *)

\* Unparsable, not exactly one question, or refused by the rate limiter.
Reject(r) ==
  /\ pc[r] = "idle"
  /\ \E outcome \in {"Malformed", "Truncated", "Dropped"} :
       reply' = [reply EXCEPT ![r] = Bare(outcome)]
  /\ query' = [query EXCEPT ![r] = None]
  /\ at' = [at EXCEPT ![r] = 0]
  /\ UNCHANGED <<now, cache, inFlight, pc, got, taskVars, warmVars>>

\* A query passes the rate limiter and reads the clock, once.
Admit(r) ==
  /\ pc[r] = "idle"
  /\ \E q \in Queries : query' = [query EXCEPT ![r] = q]
  /\ at' = [at EXCEPT ![r] = now]
  /\ reply' = [reply EXCEPT ![r] = None]
  /\ pc' = [pc EXCEPT ![r] = "lookup"]
  /\ UNCHANGED <<now, cache, inFlight, got, taskVars, warmVars>>

\* The query ends with reply rep.
Finish(r, rep) ==
  /\ pc' = [pc EXCEPT ![r] = "idle"]
  /\ got' = [got EXCEPT ![r] = None]
  /\ reply' = [reply EXCEPT ![r] = rep]
  /\ UNCHANGED <<query, at>>

\* With a mistake: in_flight is written but not consulted.
SpawnAlways(k, freshness) ==
  IF freshness = "Stale"
  THEN \E t \in Tasks :
         /\ tpc[t] = "idle"
         /\ tpc' = [tpc EXCEPT ![t] = "resolve"]
         /\ tkey' = [tkey EXCEPT ![t] = k]
         /\ inFlight' = inFlight \cup {k}
         /\ UNCHANGED tgot
  ELSE UNCHANGED <<inFlight, taskVars>>

\* With a mistake: in_flight is consulted but not written before the spawn.
SpawnUntracked(k, freshness) ==
  IF freshness = "Stale" /\ k \notin inFlight
  THEN \E t \in Tasks :
         /\ tpc[t] = "idle"
         /\ tpc' = [tpc EXCEPT ![t] = "resolve"]
         /\ tkey' = [tkey EXCEPT ![t] = k]
         /\ UNCHANGED <<inFlight, tgot>>
  ELSE UNCHANGED <<inFlight, taskVars>>

\* A stale entry is revalidated unless its key is already in flight.
SpawnIfStale(k, freshness) ==
  IF freshness = "Stale" /\ k \notin inFlight
  THEN \E t \in Tasks :
         /\ tpc[t] = "idle"
         /\ tpc' = [tpc EXCEPT ![t] = "resolve"]
         /\ tkey' = [tkey EXCEPT ![t] = k]
         /\ inFlight' = inFlight \cup {k}
         /\ UNCHANGED tgot
  ELSE UNCHANGED <<inFlight, taskVars>>

\* The entry can be served.  The shard read lock is held from the lookup to
\* the response, so no writer of the cache comes in between.  A response that
\* cannot be decoded or encoded falls through to the miss path.
CacheHit(r) ==
  LET q == query[r]
      entry == cache[q.key]
      freshness == Freshness(entry, at[r])
  IN  /\ pc[r] = "lookup"
      /\ entry # None
      /\ freshness # "Expired"
      /\ SpawnIfStale(q.key, freshness)
      /\ \E ok \in Encodings :
           IF ok
           THEN \E rep \in Sized(q, Answer(q, entry, "cache", freshness, at[r])) :
                  Finish(r, rep)
           ELSE /\ pc' = [pc EXCEPT ![r] = "resolve"]
                /\ UNCHANGED <<query, at, got, reply>>
      /\ UNCHANGED <<now, cache, warmVars>>

\* With a mistake: an entry past its stale window is not a miss either.
CacheMissOnlyAbsent(r) ==
  /\ pc[r] = "lookup"
  /\ cache[query[r].key] = None
  /\ pc' = [pc EXCEPT ![r] = "resolve"]
  /\ UNCHANGED <<now, cache, inFlight, query, at, got, reply, taskVars, warmVars>>

\* No entry, or one past its stale window.
CacheMiss(r) ==
  LET entry == cache[query[r].key]
  IN  /\ pc[r] = "lookup"
      /\ entry # None => Freshness(entry, at[r]) = "Expired"
      /\ pc' = [pc EXCEPT ![r] = "resolve"]
      /\ UNCHANGED <<now, cache, inFlight, query, at, got, reply, taskVars, warmVars>>

Resolve(r) ==
  /\ pc[r] = "resolve"
  /\ \E res \in Results(now) : got' = [got EXCEPT ![r] = res]
  /\ pc' = [pc EXCEPT ![r] = "finish"]
  /\ UNCHANGED <<now, cache, inFlight, query, at, reply, taskVars, warmVars>>

ResolveFail(r) ==
  /\ pc[r] = "resolve"
  /\ Finish(r, Bare("ServFail"))
  /\ UNCHANGED <<now, cache, inFlight, taskVars, warmVars>>

\* Bogus data is refused while enforcement is on, unless the client set CD.
RefuseBogus(r) ==
  /\ pc[r] = "finish"
  /\ got[r].status = "Bogus" /\ Enforce /\ ~ query[r].cd
  /\ Finish(r, Bare("ServFail"))
  /\ UNCHANGED <<now, cache, inFlight, taskVars, warmVars>>

\* A storable result is cached under the clock read at admission, then the
\* response is built from the same message.
Respond(r) ==
  LET q == query[r]
      res == got[r]
      entry == NewEntry(res, at[r])
  IN  /\ pc[r] = "finish"
      /\ ~ (res.status = "Bogus" /\ Enforce /\ ~ q.cd)
      /\ \E ok \in Encodings :
           cache' = IF ok /\ Storable(res) THEN [cache EXCEPT ![q.key] = entry]
                    ELSE cache
      /\ \E ok \in Encodings :
           IF ok
           THEN \E rep \in Sized(q, Answer(q, entry, "upstream", "Fresh", at[r])) :
                  Finish(r, rep)
           ELSE Finish(r, Bare("ServFail"))
      /\ UNCHANGED <<now, inFlight, taskVars, warmVars>>

-----------------------------------------------------------------------------
(* Background revalidation *)

RevalResolve(t) ==
  /\ tpc[t] = "resolve"
  /\ \E res \in Results(now) : tgot' = [tgot EXCEPT ![t] = res]
  /\ tpc' = [tpc EXCEPT ![t] = "store"]
  /\ UNCHANGED <<now, cache, inFlight, reqVars, tkey, warmVars>>

RevalResolveFail(t) ==
  /\ tpc[t] = "resolve"
  /\ tpc' = [tpc EXCEPT ![t] = "release"]
  /\ UNCHANGED <<now, cache, inFlight, reqVars, tkey, tgot, warmVars>>

\* The key leaves in_flight and the future ends.
EndReval(t) ==
  /\ inFlight' = inFlight \ {tkey[t]}
  /\ tpc' = [tpc EXCEPT ![t] = "idle"]
  /\ tkey' = [tkey EXCEPT ![t] = None]
  /\ tgot' = [tgot EXCEPT ![t] = None]

\* A Bogus answer keeps the entry and ends at once.
RevalBogus(t) ==
  /\ tpc[t] = "store"
  /\ tgot[t].status = "Bogus"
  /\ EndReval(t)
  /\ UNCHANGED <<now, cache, reqVars, warmVars>>

\* With a mistake: an inconclusive answer evicts the entry.
RevalStoreEvicts(t) ==
  /\ tpc[t] = "store"
  /\ tgot[t].status # "Bogus"
  /\ cache' = [cache EXCEPT ![tkey[t]] =
                 IF Storable(tgot[t]) THEN NewEntry(tgot[t], now) ELSE None]
  /\ tpc' = [tpc EXCEPT ![t] = "release"]
  /\ UNCHANGED <<now, inFlight, reqVars, tkey, tgot, warmVars>>

\* A conclusive answer replaces the entry, stamped with the clock after
\* validation; an inconclusive one only touches the entry if it still exists.
RevalStore(t) ==
  LET k == tkey[t]
      res == tgot[t]
  IN  /\ tpc[t] = "store"
      /\ res.status # "Bogus"
      /\ IF Storable(res)
         THEN \E ok \in Encodings :
                cache' = IF ok THEN [cache EXCEPT ![k] = NewEntry(res, now)]
                         ELSE cache
         ELSE cache' = IF cache[k] = None THEN cache
                       ELSE [cache EXCEPT ![k].revalidatedAt = now]
      /\ tpc' = [tpc EXCEPT ![t] = "release"]
      /\ UNCHANGED <<now, inFlight, reqVars, tkey, tgot, warmVars>>

RevalRelease(t) ==
  /\ tpc[t] = "release"
  /\ EndReval(t)
  /\ UNCHANGED <<now, cache, reqVars, warmVars>>

-----------------------------------------------------------------------------
(* Prewarming *)

\* Go on to the next record type of this domain.
NextWarm(w) ==
  /\ wtodo' = [wtodo EXCEPT ![w] = Tail(@)]
  /\ wgot' = [wgot EXCEPT ![w] = None]
  /\ wpc' = [wpc EXCEPT ![w] = "check"]

\* contains_key: any entry counts, even one past its stale window.
WarmSkip(w) ==
  /\ wpc[w] = "check" /\ wtodo[w] # <<>>
  /\ cache[Head(wtodo[w])] # None
  /\ NextWarm(w)
  /\ UNCHANGED <<now, cache, inFlight, reqVars, taskVars>>

WarmCheck(w) ==
  /\ wpc[w] = "check" /\ wtodo[w] # <<>>
  /\ cache[Head(wtodo[w])] = None
  /\ wpc' = [wpc EXCEPT ![w] = "resolve"]
  /\ UNCHANGED <<now, cache, inFlight, reqVars, taskVars, wtodo, wgot>>

WarmResolve(w) ==
  /\ wpc[w] = "resolve"
  /\ \E res \in Results(now) : wgot' = [wgot EXCEPT ![w] = res]
  /\ wpc' = [wpc EXCEPT ![w] = "store"]
  /\ UNCHANGED <<now, cache, inFlight, reqVars, taskVars, wtodo>>

WarmResolveFail(w) ==
  /\ wpc[w] = "resolve"
  /\ NextWarm(w)
  /\ UNCHANGED <<now, cache, inFlight, reqVars, taskVars>>

\* With a mistake: the entry is given its record TTL, whatever its signatures.
WarmStoreUnbounded(w) ==
  /\ wpc[w] = "store"
  /\ cache' = IF Storable(wgot[w])
              THEN [cache EXCEPT ![Head(wtodo[w])] =
                      [NewEntry(wgot[w], now) EXCEPT !.minTtl = MinTtl(wgot[w].msg)]]
              ELSE cache
  /\ NextWarm(w)
  /\ UNCHANGED <<now, inFlight, reqVars, taskVars>>

\* The check for an existing entry is not repeated before the insert.
WarmStore(w) ==
  /\ wpc[w] = "store"
  /\ \E ok \in Encodings :
       cache' = IF ok /\ Storable(wgot[w])
                THEN [cache EXCEPT ![Head(wtodo[w])] = NewEntry(wgot[w], now)]
                ELSE cache
  /\ NextWarm(w)
  /\ UNCHANGED <<now, inFlight, reqVars, taskVars>>

-----------------------------------------------------------------------------
RequestStep(r) ==
  CacheHit(r) \/ CacheMiss(r) \/ Resolve(r) \/ ResolveFail(r)
    \/ RefuseBogus(r) \/ Respond(r)

TaskStep(t) ==
  RevalResolve(t) \/ RevalResolveFail(t) \/ RevalBogus(t)
    \/ RevalStore(t) \/ RevalRelease(t)

WarmStep(w) ==
  WarmSkip(w) \/ WarmCheck(w) \/ WarmResolve(w) \/ WarmResolveFail(w) \/ WarmStore(w)

Next ==
  \/ Tick
  \/ \E r \in Requests : Reject(r) \/ Admit(r) \/ RequestStep(r)
  \/ \E t \in Tasks : TaskStep(t)
  \/ \E w \in Warmers : WarmStep(w)

Spec == Init /\ [][Next]_vars

\* The async runtime keeps polling every future that can make progress, and a
\* resolution is taken to end, with an answer or an error.  Clients and the
\* clock owe nothing.
Fairness ==
  /\ \A r \in Requests : WF_vars(RequestStep(r))
  /\ \A t \in Tasks : WF_vars(TaskStep(t))
  /\ \A w \in Warmers : WF_vars(WarmStep(w))

FairSpec == Spec /\ Fairness
-----------------------------------------------------------------------------
(* Properties *)

\* Every variable has its type; a slot past a step has what the step gave it.
TypeOK ==
  /\ now \in Nat
  /\ cache \in [Keys -> Entry \cup {None}]
  /\ inFlight \in SUBSET Keys
  /\ pc \in [Requests -> {"idle", "lookup", "resolve", "finish"}]
  /\ query \in [Requests -> Queries \cup {None}]
  /\ at \in [Requests -> Nat]
  /\ got \in [Requests -> Result \cup {None}]
  /\ reply \in [Requests -> Reply \cup {None}]
  /\ tpc \in [Tasks -> {"idle", "resolve", "store", "release"}]
  /\ tkey \in [Tasks -> Keys \cup {None}]
  /\ tgot \in [Tasks -> Result \cup {None}]
  /\ wpc \in [Warmers -> {"check", "resolve", "store"}]
  /\ wtodo \in [Warmers -> Seq(Keys)]
  /\ wgot \in [Warmers -> Result \cup {None}]
  /\ \A r \in Requests :
       /\ pc[r] # "idle" => query[r] # None
       /\ pc[r] = "finish" <=> got[r] # None
  /\ \A t \in Tasks :
       /\ tpc[t] = "idle" <=> tkey[t] = None
       /\ tpc[t] = "store" => tgot[t] # None
  /\ \A w \in Warmers :
       /\ wpc[w] # "check" => wtodo[w] # <<>>
       /\ wpc[w] = "store" <=> wgot[w] # None

\* Stale-while-revalidate coalesces: however many clients hit a stale entry,
\* and however the revalidations before ended, a key is in in_flight exactly
\* while one spawned future works on it, and never two.  A key left behind
\* would never be refreshed again.
SingleFlight ==
  /\ \A k \in Keys : k \in inFlight <=> \E t \in Tasks : tkey[t] = k
  /\ \A s, t \in Tasks : tkey[s] # None /\ tkey[s] = tkey[t] => s = t

\* No Secure entry is fresh past the expiration of any RRSIG stored with it,
\* whichever writer stored it and whenever it had read the clock; the
\* comparison is the serial one, so it holds across the u32 rollover.
SecureWithinSignature ==
  \A k \in Keys :
    LET e == cache[k]
    IN  e # None /\ e.status = "Secure" =>
          \A d \in 0 .. e.minTtl - 1 : \A exp \in e.msg.sigs :
            SerialDiff(exp, e.cachedAt + d) > 0

\* A client is told AD=1 out of the cache only while every RRSIG of the answer
\* is unexpired, taking the later of the clock the query captured and the one
\* the entry was stamped with, although the query may have read the clock
\* before the entry it finds was written.
AdWithinSignature ==
  \A r \in Requests :
    LET rep == reply[r]
        t == IF at[r] >= rep.entry.cachedAt THEN at[r] ELSE rep.entry.cachedAt
    IN  rep # None /\ rep.from = "cache" /\ rep.ad =>
          \A exp \in rep.entry.msg.sigs : SerialDiff(exp, t) > 0

\* What a client may still hold after honouring the TTLs it was given: a fresh
\* answer never outlives the TTL its record came with, a stale one never
\* outlives the stale window by more than StaleServeTtl, and no answer out of
\* the cache carries TTL 0.
ClientHorizon ==
  \A r \in Requests :
    LET rep == reply[r]
        e == rep.entry
    IN  rep # None /\ rep.from = "cache" =>
          \A x \in rep.ttls :
            /\ x > 0
            /\ IF rep.freshness = "Fresh"
               THEN \E ttl \in e.msg.ttls : at[r] + x <= e.cachedAt + ttl
               ELSE at[r] + x < e.cachedAt + e.minTtl + MaxStale + StaleServeTtl

\* Bogus data reaches only clients that set CD, or everyone when enforcement
\* is off, always without AD; it and inconclusive data never enter the cache.
BogusContained ==
  /\ \A k \in Keys : cache[k] # None => cache[k].status \in Conclusive
  /\ \A r \in Requests :
       LET rep == reply[r]
       IN  rep # None /\ rep.outcome = "Success" /\ rep.entry.status = "Bogus" =>
             ~ rep.ad /\ (query[r].cd \/ ~ Enforce)

\* What is served of an entry; the revalidation stamp is not.
Content(e) ==
  IF e = None THEN None
  ELSE [msg |-> e.msg, status |-> e.status, minTtl |-> e.minTtl, cachedAt |-> e.cachedAt]

\* A revalidation that fails, or ends Bogus, inconclusive or with an error
\* code, leaves everything served from the cache as it was.
FailedRefreshKeepsEntry ==
  [][\A t \in Tasks :
       tpc[t] # "idle" /\ tpc'[t] # tpc[t]
         /\ ~ (tpc[t] = "store" /\ Storable(tgot[t])) =>
           \A k \in Keys : Content(cache'[k]) = Content(cache[k])]_vars

\* Whenever a stale answer goes out, a revalidation of its key is under way.
StaleTriggersRefresh ==
  [][\A r \in Requests :
       reply'[r] # reply[r] /\ reply'[r] # None /\ reply'[r].freshness = "Stale" =>
         query[r].key \in inFlight']_vars

\* Everything started comes to its end, whatever the resolutions return: every
\* admitted query is answered, every key leaves in_flight, so that a stale entry
\* can be refreshed again, and the prewarmer gets through its plan.
AllEnd ==
  /\ \A r \in Requests : pc[r] # "idle" ~> pc[r] = "idle"
  /\ \A k \in Keys : k \in inFlight ~> k \notin inFlight
  /\ \A w \in Warmers : <>(wtodo[w] = <<>>)
=============================================================================
