# A verification project for the encrypted DNS resolver

TLA+ models of the recursive resolver in `src/` (a Rust server for plain DNS,
DNS over TLS and DNS over HTTPS), the TLC configurations that check them on small
instances, and TLAPS proofs of the properties that matter most for every instance.

All paths below are relative to the repository; `engine.rs` means
`src/src/engine.rs`, and so on.

## 1. The system

| Component | Code | State it keeps | Operations |
|---|---|---|---|
| resolution pipeline | `engine.rs` | `AppState.in_flight`, per-query locals | `process_dns_query`, the revalidation future |
| answer cache | `cache.rs` | `DnsCache`: key -> `CacheEntry` | lookup, insert, touch, freshness |
| cache persistence | `cache.rs`, `main.rs` | `cache.json`, `cache.tmp` | periodic save, shutdown save, load |
| prewarmer | `main.rs` `preload_domains` | a task per domain | check, resolve, insert |
| rate limiter | `ratelimit.rs` | token bucket per subnet, table of duplicate UDP queries | `check_query`, `cleanup` |
| iterative resolver | `recursor.rs` | delegation cache | `resolve`, purge and restart, glue, CNAME and DNAME chains |
| upstream transport | `recursor.rs` | a socket per attempt | UDP query, TCP fallback, races of servers |
| DNSSEC validator | `dnssec.rs` | trusted keys, signedness of names, validation budget per message | chain of trust, signatures, denial of existence |
| listeners | `dns.rs`, `dot.rs`, `doh.rs` | semaphores, connections | accept, frame, answer |
| start-up and shutdown | `main.rs` | - | load, spawn, final save |
| certificates, domain list | `tls.rs`, `tranco.rs` | files | load or generate, download |
| access list, self-check | `acl.rs`, `dnscheck.rs` | - | not declared as modules of the binary: dead code |

How they interact. A listener hands each query to `process_dns_query`, which asks
the rate limiter, looks in the cache and, on a miss, awaits the resolver and the
validator. A stale hit is answered at once and spawns one revalidation future
per key, guarded by `in_flight`. Revalidations and the prewarmer write to the same
cache as queries do. A background task and the shutdown path write the cache to
disk; start-up reads it back. A second background task prunes the limiter.

What is hard:

* three kinds of writers of one cache, which read the clock at different points
  of their work, and a query that decides with a clock reading taken before its awaits;
* a claim in `in_flight` that every way out of the future has to give back;
* 32-bit signature times compared by serial arithmetic across a rollover;
* two savers of one temporary file, a write whose error nobody sees, a crash anywhere;
* a limiter in which a call acts on a clock reading that is already old, and a
  size check separate from the insertion it guards;
* a resolver that calls itself for aliases and name servers while one `visited` set, a depth and a
  step limit have to end all of it, over a delegation cache that changes under it;
* upstream answers on three ways back, under timeouts that must cover every wait;
* validations that walk chains of their own over shared caches whose entries expire between two looks;
* proofs of denial, read by a sequence of checks over ranges that wrap around;
* connections on which every read and write has a timer of its own, each restarted by progress.

What makes each component correct:

* pipeline: one revalidation per stale key; no Secure data fresh, and no AD=1, past a
  signature; Bogus data contained; TTLs handed out never outlive the data; every query answered;
* persistence: one readable document on disk at all times, complete, and nothing
  expired or unvalidated after a restart;
* rate limiter: a subnet never exceeds burst plus rate; one duplicate per second; bounded tables;
* resolver: every resolution ends within few steps, asks and caches safe addresses only, returns
  whole alias chains, and gets rid of a cached delegation that fails;
* upstream transport: only a matching answer is accepted, none is missed, every attempt ends;
* validator: `Secure` only along an unbroken chain within the budget, insecure only below a
  delegation whose DS is denied by what its parent signed, whatever other validations leave in the caches; whole proofs of denial accepted, parts not;
* listeners: no peer holds a permit without bound, every permit comes back.

## 2. Modules

### `DnsTtl` - time arithmetic (pure)

`WrappingSub`, `AsSigned` and `SerialDiff` are the `u32`/`i32` arithmetic of
`calculate_cache_ttl`, modulo the constant `WordMod` (2^32 in the code).
`MinTtl`, `CacheTtl`, `Freshness`, `ServedTtl` and `SigUnexpired` are
`calculate_min_ttl`, `calculate_cache_ttl`, `CacheEntry::freshness_at`,
`compute_ttl` inside `construct_client_response`, and the expiration half of
`rrsig_time_valid`. A message is its response code, the set of its TTLs and the
set of the expirations of its RRSIGs.

### `Engine` - pipeline, cache, revalidation, prewarming

| Action | Code |
|---|---|
| `Reject`, `Admit` | parse, one question, rate limit; `now` is captured once (`engine.rs` 201-268) |
| `CacheHit`, `SpawnIfStale` | the hit path under the shard's read guard, with the spawn (273-374) |
| `CacheMiss`, `Resolve`, `ResolveFail` | the awaits of the miss path (379-384, 486-497) |
| `RefuseBogus`, `Respond` | enforcement; insertion and response, without an await in between (386-485) |
| `RevalResolve` ... `RevalRelease`, `RevalBogus` | the spawned future (288-340); each await ends an action |
| `WarmSkip` ... `WarmStore` | one record type of one domain in `preload_domains` (`main.rs` 323-383) |
| `Tick` | the wall clock in seconds |

Atomicity follows the awaits and the map guards: code between two of them that
touches shared state once is one action. The hit path is one action because the
DashMap guard returned by `get` lives to the end of the block, so no writer
of that shard can come in between. `contains_key` of the prewarmer and its
later insert are separate.

The resolver and the validator are the environment: `Results(t)` is any message with
any verdict that `validate_message` can give it at time `t`
(response codes other than NOERROR and NXDOMAIN are `InsecureUnknown`; `Secure`
needs some signature that has not expired). Encoding and decoding may fail
(`Encodings`); a response may be too large for a UDP client (`Sized`).

Left out: the wire format, DO=0 filtering and OPT (they do not touch the cached
data), signature inception, the clock stepping backwards, and the prewarmer's semaphore
(it only removes interleavings).

### `Persist` - the cache on disk

Names are bound to inodes and a save writes through the descriptor it opened, so
two savers of `cache.tmp` interact as they do on a file system. One save is
`Create` (truncates whatever `cache.tmp` names), `Collect` once per key (the live map,
in any order), `Write` once per chunk, `Rename`. Each can fail: `CreateFail` starts no save, `WriteFail` abandons it,
`RenameFail` leaves `cache.tmp` behind and `cache.json` as it was (it is the only outcome when another
saver has taken `cache.tmp` away), and `FlushLost`
is the error of the last write, dropped together with the `BufWriter`, which nobody sees. The history variable
`published` is what the last save that got as far as a rename had collected. `Restart`
may come at any moment and loads what `Loaded` accepts, or nothing when the file does not
open (`Starts`). A document counts as
readable when all its chunks come from one save: documents of overlapping saves
are taken to have the same number of chunks and never to fit together. The engine
is the environment (`Insert`).

### `RateLimiter` - token buckets and duplicates

`check_query` reads the clock (`Arrive`) and then locks the bucket of its
subnet. The DashMap entry guard lives until the function returns, which `Held`
expresses; under it `TakeToken` refills and takes a token, `CheckTable` compares
the table's size, `Count` finds or makes the counter and judges the query.
Because of the guard the atomics inside one bucket are never contended, so the
refill's compare-exchange always succeeds and the bucket's part is one action.
A counter's key contains the subnet, so the same guard protects it from other calls,
though not from `cleanup`, which visits buckets and then counters one at a time.
Time is counted in `1/Second` seconds. `verdict` is what the call that has just
returned said; `born`, `passed` and `granted` are history.
The model treats a lock on one subnet as blocking only that subnet (a shard
holds several), which allows more interleavings than the program has.

### `UpstreamQuery` - one question to the servers of a zone

| Action | Code (`recursor.rs`) |
|---|---|
| `Spawn`, `Join`, `GiveUp` | `query_servers_with_fallback`: batches of three, first usable answer wins (771-811) |
| `Send` | safety filter, bind, connect, send (813-864) |
| `Datagram` | the one datagram read; FORMERR or garbled leads to the retry (866-914) |
| `Connected`, `StreamReply` | the retry: a TCP exchange of which only the connect is timed (882-905, 915-938) |
| `TcpReply` | the fallback after TC=1, timed as a whole (945-989) |
| `Broken`, `Timeout`, `Tick` | I/O errors, timeouts and time |

Each attempt has a phase and, while it waits, `left`, the ticks its timeout still has; a timeout
fires before time passes on. `Judge` is the check of ID and question and of the TC flag
(941-992). Dropping the JoinSet aborts the attempts still in it. A reply is whether it matches, its TC
flag and its response code; `Garbled` are bytes that even the salvage of `decode_response`
(81-105) cannot read. Sends are taken to take no time.

### `Recursor` - the iterative resolver

`resolve_internal` is recursive; `stack` holds the frames of its running calls and `ret` what the
last one returned. A step of a frame ends at an await: at the answer of the servers, or
none (`Respond`, `Silence`), or at the return of a call (`Resume`).

| Action or operator | Code (`recursor.rs`) |
|---|---|
| `Resolve`, `NewFrame`, `Call` | `resolve`, the start from the closest cached cut, the depth limit (305-357) |
| `Silence`, `Restart`, `Purged` | no server answered: purge and one restart from the root (358-387, 310-326) |
| `Respond` | the analysis of an answer in the code's order (389-741): |
| `FollowCname`, `FollowDname`, `Redirect` | aliases within the message and beyond, `visited` (402-547) |
| `Terminal` | SOA and authoritative NXDOMAIN (549-571) |
| `Coherent`, `Glue`, `Refer`, `Descend` | a referral: owner, progress, bailiwick, safe glue, cache insertion (573-741) |
| `LookUpNext`, `ResumeHost`, `Found` | addresses of name servers without glue (675-723) |
| `ResumeAlias`, `Merge` | the way back of an aliased answer (212-296, 464-471, 520-529) |
| `Expire`, `Others` | the end of a cache entry; any change another resolution can make |

`Others` may put any safe addresses under any zone, which is what
`SafeUpstreams` establishes of the resolver itself: it guarantees what it relies on. A name is a sequence
of labels, and the limit of 255 octets a limit on labels. DNAME records at the root are left out, an owner
has one CNAME in a message, and the order of records matters only where the code takes the
first (DNAME: any). A delegation TTL of zero is an `Expire` that follows at once.

### `TrustChain`, `Denial` - the DNSSEC validator

| Action or operator | Code (`dnssec.rs`) |
|---|---|
| `Ask`, `Dispatch`, `AtOnce` | `validate_message`, what is judged without a chain (123-190) |
| `NextRRset`, `Candidates`, `Try`, `TryNext`, `TryKeys` | `validate_rrset`: the RRSIGs of one RRset after the other (328-444) |
| `Unproven`, `Known`, `FindApex`, `Missing`, `Unsigned` | an RRset without signature: `is_zone_signed` and its cache (340-349, 1490-1560) |
| `Walk`, `Lookup`, `DsAnswer`, `KeyAnswer`, `Reached` | `build_trust_chain`: cached keys, DS, DNSKEY, zone by zone (770-1081) |
| `CheckNegative`, `Denies`, `Verifies` | `validate_negative` and the denial of a DS (446-618, 848-862) |
| `Afford`, `Spend` | the budget of signature checks (60-75) |
| `Expire` | the end of an entry of `key_trust_cache` or `signed_zone_cache` |

A step ends at an await (a resolution of DS, DNSKEY or SOA records) or at a look into a
cache. What a resolution returns is the environment: any member of `DsReplies` and
`KeyReplies`, under the one assumption `GenuineSignatures`, that the keys of a zone sign only its own keys
and the digests of its children's. Nothing is assumed of denials: genuine records may come in answer to a question that they
do not belong to, and what the code takes them for is its own affair. A signature is the key it verifies with. Key tags, wire forms and lifetimes are left out: a cache
entry may expire at any time, which covers each way the code computes its end. The owners an answer leads through are the sequence of its
RRsets.

`Denial` has the pure part: `NsecVerdict` and `Nsec3Verdict` are the sequences of checks of
`check_nsec_*` and `check_nsec3_*` over sets of records. Names are sequences of labels in canonical
order, hashes are numbers (`Hash`, without collisions). `DenialReference` says what the servers of a zone put into a
negative answer by RFC 4035 and RFC 5155, from the contents of the zone: the reference the
verdicts are checked against. It models no code. `ContentsAssumption` says what a zone is (finitely many names, none above its apex,
a SOA at the apex alone), `SearchAssumption` that hashes do not collide and that no name asked for is so far below the apex that
`MAX_CLOSEST_ENCLOSER_STEPS` ends the search. `TrustDenials` puts the two together: whenever a validation reads a proof, `AcceptsDenials`
and `OnlyWholeDenials` hold (`DenialAccepted`, `DenialSound`).

`Validation` is the abstract promise to the caller: one verdict per message, `Secure` only if the keys
of its zones signed all of it, `InsecureUnsigned` only below a zone that is read to be without a usable DS: its DS is of no use, or a denial of it is to be had that keys of the zone above
signed and that the code takes for one (`MissingDs`; src README 499-505). `TrustChain`
implements it (`Validates`) by the mapping that keeps `asked` and `verdict` and forgets the chains, the caches and the budget. `RecordsTrue` says that only
true records can be had of the zone above a child with a DS, whichever question they were made for; under it, `NoDowngrade` says the same of zones that
have no usable DS in truth (section 5).

### `Listeners` - from the socket to the pipeline

| Action | Code |
|---|---|
| `Datagram`, `Sent` | `run_udp_listener`: sizes, a permit or silence, the task (`dns.rs` 38-92) |
| `Accept` | `run_tcp_listener`, `run_dot_listener`: a permit or the connection is dropped (`dns.rs` 95-127, `dot.rs` 19-80) |
| `Secured` | the TLS handshake (`dot.rs` 38) |
| `Prefix`, `Payload`, `Answered`, `Written` | the loop of `handle_length_prefixed_stream` (`dns.rs` 132-211) |
| `Request`, `Served` | GET and POST, `handle_dns_outcome` (`doh.rs` 52-184) |
| `HangUp`, `TimeOut`, `Tick` | a peer that breaks off, the timeouts, time |
| `Exit` | the end of `main`, which ends every task (`main.rs` 226-236) |

A client is one peer with one connection or request at a time; its stage is the await its task
stands at, and a permit is a task that has not ended (the code moves it into the task). `quiet`, the time
since the last query in or message out, is history. The pipeline is the free choice of an outcome.
Headers, base64 and lengths are proper or not. A peer that sends several queries ahead
(pipelining) is one whose next read succeeds at once. HTTP requests need no permit.

### Composition

`Engine` and `Persist` both use `DnsTtl`. The limiter is seen by `Engine` as the free
choice between `Reject` and `Admit`. The engine is seen by `Persist` as `Insert`. The
resolver is seen by `Engine` as `Results` and as the assumption that resolutions end, which is
`Ends` of `Recursor`; that one assumes that a question to servers ends, which is `Ends` of
`UpstreamQuery` and holds only if TCP streams end (`StreamsEnd`, finding 1). The validator is seen by
`Engine` as the verdicts `VerdictsFor`, and sees the resolver as `DsReplies` and `KeyReplies`; `Listeners` sees
`Engine` as an outcome that comes, which is `AllEnd`.

## 3. Runs

| Run | Question | States |
|---|---|---|
| `engine_data` | types, signatures, AD, TTLs, Bogus data, failed refreshes, over every kind of upstream data | 1.2M |
| `engine_live` | is there exactly one revalidation per claimed key and one behind every stale answer; do queries, claims and the prewarmer come to an end | 92k |
| `persist_saves` | what reaches the disk and what a restart brings back, whatever fails | 1.3M |
| `upstream_race` | what the race accepts and when it gives up, in any order of replies, errors and timeouts | 204k |
| `upstream_stall` | violation: README's whole-transaction timeout | - |
| `recursor_paths` | addresses asked, steps taken, alias chains and termination | 195k |
| `recursor_purge` | violation: the comment on purging the bad delegation | - |
| `recursor_glueless` | violation: README's independent resolution of name server addresses | - |
| `rate_limits` | admission over time, one allow per second, how far the table overruns its cap | 627k |
| `trust_chain` | keys, verdicts and budget of two validations at once; the reading of proofs of denial | 604k |
| `trust_denial` | violation: README's support of wildcard NODATA | - |
| `listeners` | does any peer hold a permit beyond its time, and does every permit come back | 141k |

Bounds, and why they suffice:

* `WordMod = 16` with the clock from 12 to 16 crosses the rollover of the
  serial word; signatures expire before, at and after it, and one message carries a signature
  already expired. TTLs of 2 and 3 and a stale window of 2 let an entry pass through all
  three freshness classes within the run.
* `engine_live` has three task slots on two keys, so that a double claim finds a free slot; the client
  comes again and again while earlier revalidations run; its stale window of 1 and clock up to 15 still take an entry from
  fresh over stale to expired. Its clock stays on one side of the serial rollover: `SecureWithinSignature` across it is left
  to `SecureWithinSignatureHolds`. More clients at once are left
  to the proofs (single flight and the refresh behind a stale answer hold for any number).
  `engine_data` has one client and two tasks; writers interfere through the cache entry
  only, and the prewarmer is a third writer in `engine_live`.
* `upstream_race`: four candidates make a full batch and a second one of one; one is unsafe, one
  IPv6. Timeouts of 1 and 2 ticks differ, as 2000 and 2500 ms do. `elapsed` stops at 4, above
  their sum. `StreamsEnd` is TRUE for `Ends` and FALSE in `upstream_stall`, where it is not used.
* `recursor_paths`: a zone in a zone, a name in it, a name server outside it, one safe and one
  unsafe address. The messages include answers, CNAME and DNAME aliases that loop, grow
  or stay in the message, SOA, NXDOMAIN, referrals with usable, unsafe and no glue and an
  incoherent one. Depth 2 and 6 steps instead of 16: one alias or name server inside
  another exceeds the depth, and `StepsFollowLabels` shows that the steps cannot be reached with
  three labels. A question for DS starts above the name it is about, so that a cached cut at the name itself has to be
  skipped. `NsTaken` is 2 instead of 4 and `EnoughIps` 1 instead of 4.
* `persist_saves`: two keys (one visited, one not), two chunks (one before and one in the final
  flush), three inodes (cache.json, cache.tmp, an unlinked one still open), one restart, TTL 0 and a stale
  window of one second, so that entries expire during a save. Initial states are an
  empty disk or a file of an older version with an entry lacking its status. `OverlapsOnce`: saves overlap before the restart, not
  after it too.
* `rate_limits`: two threads, two subnets, two domains and one counter in the table, so that both threads
  can pass the size check together; burst 2 and three tokens per tick, so that a refill overshoots the burst;
  counters are pruned after any time (`MaxAge` 0); the clock makes one step, and calls act on either reading. The
  penalty does not run out within the bound, and with `Second = 1` a refill hardly rounds and the cleanup hardly meets
  a running call (`AdmissionHolds` covers all three, for any resolution of the clock). `FewTokens`: the buckets give out three tokens together, enough for
  a third query in a second to be dropped and for three entries in a table of one.
* `trust_chain`: the root, a signed zone `Shop` with a key-signing and a zone key, an insecure
  delegation `Open` below it and a host. DS answers are whole, lost, without proof, of a digest nobody
  signed, or genuine records of the root that do not answer the question (`BesideShop`: all of its NSEC records, that of its other child alone, and
  an NSEC3 record of an opt-out zone that spans nothing here); DNSKEY answers are whole, lost, signed by the zone key alone or by a stray key that they contain. The messages hold a
  good RRset, one whose first signature is bad, forged, late, foreign and unsigned ones, loops, a whole NXDOMAIN and a
  denial of the insecure zone. Four checks are enough for one chain and too few for two with a bad
  signature, so that the budget runs out in the middle and at the end. Validators are interchangeable (symmetry).
  `OneLong`: of the three messages with the longest validations one is being validated at a time, beside any other message.
  The reading of proofs is checked on the sixteen zones that have or lack a wildcard, a host, a host two labels down
  (with or without the empty non-terminal above it) and a delegation, for eight names and three types, with NSEC, with NSEC3 and with NSEC3
  opt-out; every proper part of each proof is tried too. These two invariants are about the operators that the
  validator calls in the state they are evaluated in, and are evaluated in every state that reads a proof.
* `listeners`: two peers and one permit on each limited transport, so that each listener meets a peer without a
  permit. The handshake, idle and I/O timeouts are 2, 3 and 1: all different. `MaxQueries = 2` queries on
  one connection, so that the loop is closed once.
* `MaxTime`, `MaxBoots` and `MaxQueries` bound the clock, the restarts and the queries of a connection; with the three constraints named above nothing else is bounded.

Deadlock is checked in every run but those of `UpstreamQuery`, which models one question and
really stops, and `listeners`, where `Exit` ends the process; in the others clients may always come, so there is none.

### Fairness

`FairSpec` assumes weak fairness of the steps of each admitted query, each spawned
future and each prewarm task: the tokio runtime polls every future that can make
progress. In `Engine` it includes that a resolution ends, with an answer or an error. `Recursor`
shows it (`Ends`) from weak fairness of the running step, which in turn includes that the question
put to the servers ends. `UpstreamQuery` shows that from the fairness of the
runtime's timers and tasks and from `StreamsEnd`: that a peer answers or closes the stream of the
EDNS retry. That last assumption is about servers, the code does not enforce it, and `upstream_stall`
shows what happens without it. `Recursor` needs no fairness of `Expire` or `Others`.
Nothing is assumed of clients, of the clock or of which answer arrives.

`Listeners` assumes weak fairness of time, of expired timers and of the return of `process_dns_query`; the last is `AllEnd`
of `Engine` with all it rests on, so a query that is caught in the stall of finding 1 keeps its permit. Peers owe nothing:
they may fall silent at any stage. `PermitsReturn` counts on `MaxQueries` because a peer that goes on asking in time may keep its
connection for ever, by design. `TrustChain` states no fairness: every resolution it waits for ends by `Recursor`'s
`Ends`, and its chains are as long as the name.

## 4. Findings

1. `upstream_stall`. README 311: the TCP operations "are collectively bounded by a
   whole-transaction timeout to prevent stalled authoritative servers from consuming resources
   indefinitely". The TC fallback is; the retry over TCP after FORMERR or a garbled datagram times only
   its connect (`recursor.rs` 882-902, 915-935). A revalidation caught there keeps its key in
   `in_flight`.
2. `recursor_glueless`. README 284: "Out-of-bailiwick nameserver addresses are resolved
   independently". `visited` keeps a name server for the whole resolution, so that the second zone met
   in it (the target of an alias, say) that is served by the same name server without
   glue finds no address and fails, although the lookup had succeeded and nothing is cyclic. A
   repeated query succeeds, because the first zone is then cached.
3. `recursor_purge`. The comment at `recursor.rs` 367: "purge the bad delegation entry". The purge
   takes the closest entry, the lookup had taken the closest *live* one: with an expired entry
   in between, the failing delegation stays and serves the next resolution too.
4. `trust_denial`. README 453-459: "Negative responses are validated cryptographically", with wildcard NODATA
   among what is supported. `validate_nsec` looks for a record owned by an ancestor of the name before it reaches
   `check_nsec_wildcard_nodata`; the proof that servers send (the record at the wildcard and the one over the name)
   often holds none, and a whole, signed proof ends Bogus.

Divergences seen without a run of their own:

* README 620, `remaining_ttl = max(effective_ttl - age, 0)`: the code ages each record's own TTL (`engine.rs`
  145-150), so that a Secure answer near the end of its signature may show a TTL longer than its entry stays fresh.
  `ClientHorizon` and `AdWithinSignature` are what holds.
* README 696, "an atomic temporary-file write followed by rename": the shutdown save does not wait for a running
  periodic one and both use `cache.tmp`, so that the published file may mix the two. `TornOnlyByOverlap` shows that
  this, or a lost last write, is the only way, and that the next save repairs it.
* README 804, a table of duplicates "capped at 65,536 entries": the size check and the insertion are separate.
  `TableNearlyBounded` is the bound that does hold.
* NSEC proofs for names at or below an empty non-terminal, and a signed zone that is delegated below one
  (README 411-413), end Bogus; `AcceptsDenials` leaves NSEC zones with empty non-terminals out for that reason.
* README 491, opt-out "is not accepted as generic proof that arbitrary records do not exist": `check_nsec3_nxdomain` accepts an
  opt-out record over the next closer name of an NXDOMAIN also for types other than DS. `AcceptsDenials` asks for nothing of the
  kind: in an opt-out zone it speaks of names with a record of their own and of DS questions.
* README 478-485: the NSEC3 wildcard NODATA is accepted without a record over the next closer name, and
  `nsec3_covers` counts the owner itself as covered. `OnlyWholeDenials` therefore says less of NSEC3 zones with a wildcard.
* README 459 (NXDOMAIN) and 478-485: in a zone with a single NSEC3 record, whose next hash is its own, `nsec3_covers` takes the record to cover
  nothing (1602-1603), so that a whole proof that a name does not exist ends Bogus. `nsec_covers` takes the same case the other way. `AcceptsDenials`
  leaves zones with one hash out for that reason.
* README 468-475: with NSEC the closest encloser is looked for among the owners of the records shown, not derived from the record over the
  name, and a wildcard below the apex is not seen from records that leave its parent out. `OnlyWholeDenials` therefore speaks of names that exist or that
  the wildcard of the apex stands for (`BelowApex`).
* README 499-505, unsigned only on a proof that there is no DS: for a DS question the closest encloser falls back to the parent (`dnssec.rs` 731-757), the wildcard
  NODATA check with NSEC3 (1294-1319) asks for no record over the next closer name, and no NODATA check (1149-1172, 1266-1292) looks at the NS
  bit. So the NSEC3 record of a wildcard beside a delegation is taken for a denial of the DS of that delegation, whether it has one or not.
  `RecordsTrue` names this record as its exception, and `Validates` counts a zone for which it can be had among those that are read to be unsigned.
* README 424-428: the lifetime of cached keys counts from the insertion, not from the reception of the DNSKEY answer.
* README 1134: concurrent connections are bounded; requests over HTTPS are not, as no semaphore covers them.

Also: the EDNS retry sends the same EDNS query, not "plain RFC 1035
DNS" (README 305); a DS question may follow a referral to the child zone (README 338 says
parent); the keys of `visited` carry no record type, so an AAAA lookup of a name server behind a
CNAME always stops at the alias its A lookup followed.

## 5. Proofs

All theorems hold for every value of the constants that satisfies the named
assumptions (`WordAssumption`, `TtlAssumption`, `MessageAssumption`,
`EngineAssumption`, `NoneAssumption`, `PersistAssumption`, `RateAssumption`, `UpstreamAssumption`,
`RecursorAssumption`, `TrustAssumption`, `RootAssumption`, `GenuineSignatures`, `ContentsAssumption`, `SearchAssumption`,
`ListenersAssumption`).

`EngineProofs`:

* `CacheTtlSafe`: within the TTL that `CacheTtl` gives, the serial distance to every
  signature's expiration stays positive. The core is `SerialShift`: as the clock
  advances by less than the distance, the distance shrinks by exactly as
  much, through the rollover (uniqueness of the remainder modulo the word).
* `TypeCorrect`: `TypeOK` is inductive.
* `SingleFlightHolds`: inductive with `TypeOK`. A claim and a task are made
  together, and every end of a task removes both.
* `SecureWithinSignatureHolds`: `CacheGood` says that each entry's TTL is the `CacheTtl` of its own
  message, status and stamp. It is inductive because all three writers build
  their entry from one clock reading, and the touch of an inconclusive revalidation
  changes neither TTL nor stamp; `CacheTtlSafe` turns it into the property.

* `StaleTriggersRefreshHolds` and `FailedRefreshKeepsEntryHolds`: action properties over the reachable
  states, one case per action; the hit path is the only one that sends a stale answer and claims
  first, and the touch of an inconclusive revalidation keeps `Content`.
* `AdWithinSignatureHolds`, `ClientHorizonHolds` and `BogusContainedHolds`: the invariant `AllTold` says what the
  three ask of each reply, given the query it answers and the clock that query read. It is inductive with `CacheGood`, which here also
  says that no entry lives longer than any TTL of its records, so that the age subtracted from a TTL is the real age
  and does not wrap (`SmallAge`). One lemma for each way to a reply (`FreshTold`, `StaleTold`, `UpstreamTold`).

`UpstreamQueryProofs`: `AttemptShape` reduces the eight exchange steps to three shapes (an attempt
enters a wait, fails, or delivers), which the invariants are then checked against.

* `AcceptedIsAnswerHolds`: strengthened by what `held` may be in each phase.
* `AttemptBoundedHolds`: in each wait, the time elapsed and the time left add up to no more than the
  timeouts entered so far (`BoundInv`).
* `GivesUpLastHolds`: candidates partition into those of batches to come, running and joined
  (`RaceInv`, `RestInv`), for any number of batches.
* `UpstreamTypeCorrect`: types, and from `RestInv` that the candidates in line are untouched, in line once, IPv4 first.

`RecursorProofs`: the invariant `RecInv` says of every frame on the stack, not only the running one, that
it is a `GoodFrame`: its addresses are safe or roots, and its steps are paid for. `StepInv` is the
measure: a frame that has gone down to a cut has used at most two steps more than the cut has labels
(one for the root, one for a cached start that failed). `DescendGood` is the core, where a referral must be strictly closer.

* `RecursorTypeCorrect`: types, with depth and steps within their limits.
* `SafeUpstreamsHolds`, `StepsFollowLabelsHolds`: conjuncts of `RecInv`.
* `ChainWholeHolds`: a returned answer holds the whole chain of aliases. `ChainInv` strengthens it by what the frames in the
  middle of the stack owe one another: each call asks what the frame below waits for (`Asked`), that frame's part of the answer
  leads to that question (`Linked`), and an answer on its way back is whole for the call that returns it (`Returning`).
  A chain is whole when every set of names that is closed under the aliases and holds the question holds the end too, so that appending
  chains needs no induction over the records.

`PersistProofs`: the properties of the file speak of saves that have ended, so none is inductive. `IInv` adds
`Undisturbed`, what a save that nobody has overlapped has done so far: `cache.tmp` is its own file and
holds exactly the part of its document it has written, and every live key not changed since it began is
collected or still to be; `Lone`, that there is at most one such save; and `OnDisk`, that unless two saves have
overlapped or a last write was lost, the published file is whole, holds what was collected for it, and is
written to by no save under way.

* `PersistTypeCorrect`: types.
* `TornOnlyByOverlapHolds`: a conjunct of `OnDisk`. For any length of the document, any number of savers, and a
  crash at any step.
* `SavedCompletelyHolds`: an action property; the rename of an undisturbed save, if it succeeds, publishes all it
  collected. Nothing is claimed of a save that fails; that it disturbs nothing is the next theorem.
* `RestartRecoversHolds`: an action property of start-up. By `OnDisk`, whatever crashed or failed after the last
  rename, the file that start-up reads still is the document collected for it, and what of it may be served comes back.

`RateLimiterProofs`:

* `RateTypeCorrect`: types, and no bucket above its burst.
* `AdmissionHolds`: inductive as it stands. A token taken moves from balance to history; a
  refill adds no more than the time since the last one is worth (`RefilledIsBounded`), so
  rounding and late readings lose tokens and never make them.
* `TableNearlyBoundedHolds`: strengthened to `TableInv`, which counts a call past the size check whose
  counter is absent (`Pending`) like an entry, and needs `SubnetSerialized`: when
  the cleanup removes a counter, at most one call becomes pending again.
* `OneAllowPerSecondHolds`: an action property, from `GrantedInv` (the seconds
  granted by a counter are not after its epoch, and a counter that exists has counted).

`TrustChainProofs`: the invariant joins `TypeOK` and `KeysGenuine` with `MemoTrue` (what `signed_zone_cache` calls
unsigned is below a name that is read to have no DS) and, for each validation, `VInv`: `Called` (its message, RRset and signature exist),
`Chained` (its keys are genuine for the zone it is at, its digests are those of the zone it goes to, where it gave up as insecure such a name is above its target, and the signatures tried before are by zones below such names) and
`Spent` (a refused check has no way to end but Bogus or InsecureUnknown). The core is one lemma for each answer of the chain: digests and keys verified by genuine keys are genuine
(`GenuineSignatures`), and a denial taken for one puts its zone among `MissingDs`.

* `TrustTypeCorrect`, `KeysGenuineHolds`, `BudgetFinalHolds`: conjuncts of that invariant.
* `ValidatesHolds`: the refinement. Initial states map to initial states; `Ask` to `Ask`, a step that sets a
  verdict to `Judge`, all others to stuttering. It says nothing of the truth of denials.
* `NoDowngradeHolds`: under `RecordsTrue`, what is called insecure lies below a zone that has no usable DS, or is denied by an opt-out
  span. True records of a zone are never read as the denial of a DS that is there, with NSEC or NSEC3 and whatever part of them is
  shown (`TrueNsecDenial`, `TrueNsec3Denial`), so that `MissingDs` adds nothing to `NoDs` (`ReadsTrue`); the rest is the refinement.
  `ZoneRecordsTrue` of `DenialProofs` shows that the hypothesis is what zones meet: each NSEC record of a zone, and each NSEC3 record but that of
  the apex's wildcard, is true of a child with a DS.
* `ServedJudgedHolds`, `WholeAnswersJudgedHolds`: the other direction, that the validator is not merely cautious. Told only what is whole,
  within its budget, it returns exactly what the zones deserve that sign the message (`MessageDue`), whatever other
  validations leave in the caches and whichever entries expire. Two hypotheses: `Steady`, that keys and delegations do not
  change meanwhile (with `RecordsTrue` among its parts), and `DueJustified`, that `Due` of the instance is `MessageDue` of messages whose zones
  are `Served`; TLC evaluates both on the instance (`WorldAssumption`). The invariant `JInv` adds to the first one that the key cache has all the keys of
  secured zones and no other zone (`KeysWhole`, an unsecured zone has none to cache), that a chain has come down through secured zones (`Secured`) and, undisturbed,
  breaks only where the zones do not lead on (`Straight`), and that the RRsets passed are Secure and the signatures passed made by no key of a secured
  zone (`Passed`, `Looked`). Where a name is searched by its apex, the two have to lie under the same delegations (`RRsetServed`).

`DenialProofs`: no induction over steps, as the verdicts are functions; the work is in the orders. The canonical order is a strict total order on
names (`BeforeTransitive`, `BeforeTotal`), and a finite set of names or hashes has a first and a last. From that: no record of a zone covers a name or
hash of it (`NsecGap`, `Nsec3Gap`), exactly one covers each that is missing, whichever way the range wraps (`NsecOverIs`, `NsecUnique`, `Nsec3OverIs`), and no name sorts
between a name and the wildcard below it (`NoneBelowWildcard`), so that the record that denies the wildcard also shows the encloser.

* `DenialAcceptedHolds`: what the servers of a zone deny is accepted, for every zone and question (`NsecAccepts`, `Nsec3Accepts`).
* `DenialSoundHolds`: a proof with a record missing is not (`NsecWholeOnly`, `Nsec3WholeOnly`), nor is a type denied that is there, whichever
  records of the zone are shown (`PresentNeverDenied`, `PresentNeverDenied3`, `WildcardNeverDenied`). For NSEC3 the zone has no wildcard, and
  where it has opt-out spans no name from the apex to the one asked for is left out by them.

`ListenersProofs`: the invariant joins types, `Timed` and `WithinPermits`. `Timed` bounds, at each await, the quiet time by
what was waited here and what may have been waited on the way from the last query or message (`Before`): the bound of
`SlowClientsBounded` itself says nothing of the stage and is not inductive.

* `WithinPermitsHolds`: no more tasks than permits, whichever way tasks end.
* `SlowClientsBoundedHolds`: for any timeouts.

Only model-checked: liveness, which is out of the prover's reach together with `ENABLED`.

## 6. Plan

Done so far: the pipeline, persistence, limiter, resolver, transport, validator and listeners. Left, most important first:

1. `StaleCache`: the abstract promise of the pipeline (what a client may be told about a key at a
   time) with `Engine` shown to implement it; `Resolution` (ends with an answer to the question or an
   error) with `Recursor` shown to implement it.
2. `Server`: the engine with restarts, `Persist`'s loads and saves as its steps.

Where a new module needs a run of its own, runs on one module that differ only in their bounds are
merged first.

## 7. Not modelled

Cryptography, the wire format, TLS, HTTP, the download of the domain list and the
environment variables are pure I/O or library code. `acl.rs` and `dnscheck.rs` are not part
of the binary. Memory orderings of the limiter's atomics do not matter under the
guard; the counters of `preload_domains` are only logged. Certificates are read or made once before
the listeners start, and ports are chosen once; neither has a state that changes.
