------------------------------ MODULE Recursor ------------------------------
(***************************************************************************)
(* RecursiveResolver of src/recursor.rs: the iterative resolution of one   *)
(* question after another over a delegation cache that other resolutions   *)
(* use at the same time.                                                   *)
(*                                                                         *)
(* resolve_internal calls itself for the target of an alias and for the    *)
(* addresses of name servers; `stack` holds the frames of these calls and  *)
(* `ret` what a call has just returned.  A step ends at the answer of the  *)
(* servers (Respond) or at the return of a call (Resume).                  *)
(*                                                                         *)
(* A name is the sequence of its labels.  The servers are the environment: *)
(* whatever is asked, any message of Messages may come, or none.  What     *)
(* `others` may do to the cache is what this resolver does to it.          *)
(***************************************************************************)
EXTENDS Integers, FiniteSets, Sequences

CONSTANTS
  Labels, MaxLabels,   \* names: at most MaxLabels labels (255 octets)
  Zones,               \* owners a delegation may have
  Addresses, Safe,     \* addresses, and those is_safe_upstream_ip accepts
  Roots,               \* ROOT_SERVERS
  Questions,           \* what resolve may be called with: [name, type]
  Messages,            \* answers of the servers
  None,
  MaxDepth, MaxSteps,  \* MAX_DEPTH, MAX_STEPS
  NsTaken, EnoughIps   \* name servers looked up, addresses that suffice

Root    == <<>>
Name    == {n \in Seq(Labels) : Len(n) <= MaxLabels}
QTypes  == {"A", "AAAA", "DS"}
RTypes  == QTypes \cup {"CNAME", "DNAME"}
RR      == [owner : Name, type : RTypes, target : Name \cup Addresses]
Message == [rcode : {"NoError", "NXDomain", "YXDomain"}, aa : BOOLEAN,
            answers : {a \in SUBSET RR : IsFiniteSet(a)},
            soa : Name \cup {None},
            ns : Seq([owner : Zones, host : Name]),
            proofs : SUBSET {"nsec"},       \* DNSSEC records in the authority
            glue : SUBSET [owner : Name, ip : Addresses]]
Errors  == {"DepthExceeded", "StepLimitExceeded", "AllNameserversFailed",
            "GlueResolutionFailed", "NoProgress"}

\* Name::zone_of: z is n or an ancestor of n.
ZoneOf(z, n) ==
  Len(z) <= Len(n) /\ z = SubSeq(n, Len(n) - Len(z) + 1, Len(n))
Base(n) == IF n = Root THEN n ELSE Tail(n)

Delegation == [servers : (SUBSET Addresses) \ {{}}, live : BOOLEAN]
Visit      == [kind : {"cname", "dname", "ns"}, name : Name]
Return     == [error : Errors \cup {None}, msg : Message \cup {None}]

ASSUME RecursorAssumption ==
  /\ MaxLabels \in Nat /\ MaxDepth \in Nat /\ NsTaken \in Nat
  /\ MaxSteps \in Nat \ {0} /\ EnoughIps \in Nat \ {0}
  /\ Zones \subseteq Name /\ Safe \subseteq Addresses /\ Roots \subseteq Addresses
  /\ Questions \subseteq [name : Name, type : QTypes]
  /\ None \notin Name \cup Delegation \cup Message \cup Return \cup Questions \cup Errors

\* An owner has one CNAME in a message, and no DNAME stands at the root.
ASSUME MessageAssumption ==
  /\ Messages \subseteq Message
  /\ \A m \in Messages : \A r, q \in m.answers :
       /\ r.type \in {"CNAME", "DNAME"} => r.target \in Name
       /\ r.type = "CNAME" /\ q.type = "CNAME" /\ r.owner = q.owner => r = q
       /\ r.type = "DNAME" => r.owner # Root

VARIABLES
  cache,      \* delegation_cache; an entry is live until it expires
  stack,      \* frames of resolve_internal, the running one last
  visited,    \* keys of the aliases and name servers followed
  ret,        \* what the last call returned, None while one runs
  question,   \* history: the call of resolve being served, or the last one
  reached     \* history: the name whose answer ended it

vars == <<cache, stack, visited, ret, question, reached>>

Depth     == Len(stack)
Top       == stack[Len(stack)]
Below     == SubSeq(stack, 1, Len(stack) - 1)
Resolving == stack # <<>>

-----------------------------------------------------------------------------
(* Delegation cache *)

StartName(n, t) == IF t = "DS" THEN Base(n) ELSE n
Cached(n, t)    == {z \in Zones : ZoneOf(z, StartName(n, t)) /\ cache[z] # None}
LiveCuts(n, t)  == {z \in Cached(n, t) : cache[z].live}
Closest(S)      == CHOOSE z \in S : \A y \in S : Len(y) <= Len(z)

\* find_cached_start: the closest live delegation.
Start(n, t) == IF LiveCuts(n, t) = {} THEN None ELSE Closest(LiveCuts(n, t))

\* purge_delegation_for: the closest entry goes, expired or not.
Purged(n, t) ==
  IF Cached(n, t) = {} THEN cache ELSE [cache EXCEPT ![Closest(Cached(n, t))] = None]

-----------------------------------------------------------------------------
(* Calls and returns *)

\* pc says what the frame waits for: the servers, the target of an alias
\* (msg holds the answer with the alias), an address of `host`.  `from` is
\* the cached delegation whose servers are asked (using_cached), or None.
Frame == [name : Name, type : QTypes, pc : {"query", "alias", "host"},
          step : 0..(MaxSteps - 1), from : Zones \cup {None}, servers : SUBSET Addresses,
          lastZone : Name \cup {None}, bailiwick : Name,
          msg : Message \cup {None},
          cut : Name \cup {None}, host : Name, hostType : QTypes,
          hosts : Seq(Name), ips : SUBSET Addresses, found : Nat]

NewFrame(n, t) ==
  [name |-> n, type |-> t, pc |-> "query", step |-> 0,
   from |-> Start(n, t),
   servers |-> IF Start(n, t) = None THEN Roots ELSE cache[Start(n, t)].servers,
   lastZone |-> None, bailiwick |-> Root, msg |-> None,
   cut |-> None, host |-> Root, hostType |-> "A", hosts |-> <<>>,
   ips |-> {}, found |-> 0]

Ok(m)  == [error |-> None, msg |-> m]
Err(e) == [error |-> e, msg |-> None]

\* With a mistake: no limit on the depth.
CallUnlimited(f, n, t) ==
  stack' = Append(Below, f) \o <<NewFrame(n, t)>> /\ ret' = None

\* The running frame becomes f and calls resolve_internal(n, t).
Call(f, n, t) ==
  /\ stack' = Append(Below, f) \o
                (IF Depth > MaxDepth THEN <<>> ELSE <<NewFrame(n, t)>>)
  /\ ret' = IF Depth > MaxDepth THEN Err("DepthExceeded") ELSE None

\* The running frame returns.  An answer of its own servers on the chain of
\* aliases from the question is the one that ends it.
Leave(r) == stack' = Below /\ ret' = r

OnChain == \A i \in 1..(Depth - 1) : stack[i].pc = "alias"

Answer(m) ==
  /\ Leave(Ok(m))
  /\ reached' = IF OnChain THEN Top.name ELSE reached
  /\ UNCHANGED <<cache, visited, question>>

Fail(e) == Leave(Err(e)) /\ UNCHANGED <<cache, visited, question, reached>>

\* The next iteration of the loop over steps, as frame f.
NextStep(f) ==
  IF f.step + 1 = MaxSteps
    THEN Leave(Err("StepLimitExceeded"))
    ELSE /\ stack' = Append(Below, [f EXCEPT !.step = f.step + 1])
         /\ ret' = None

-----------------------------------------------------------------------------
(* The answer of the servers *)

HasData(m, n, t) == \E r \in m.answers : r.owner = n /\ r.type = t
Cname(n, x)      == [owner |-> n, type |-> "CNAME", target |-> x]

\* The names reached from n through CNAME records of the answer section: those
\* in every set that holds n and the target of each alias it holds.
Chain(answers, n) ==
  LET aliases == {r \in answers : r.type = "CNAME"}
      names   == {n} \cup {r.target : r \in aliases}
  IN  {x \in names : \A S \in SUBSET names :
         n \in S /\ (\A r \in aliases : r.owner \in S => r.target \in S) => x \in S}

DnamesFor(m, n) ==
  {r \in m.answers : r.type = "DNAME" /\ ZoneOf(r.owner, n) /\ r.owner # n}

\* dname_substitute; a target of "." cannot be spelled and fails like a
\* name that is too long.
Substitute(n, d) ==
  LET s == SubSeq(n, 1, Len(n) - Len(d.owner)) \o d.target
  IN  IF d.target = Root \/ Len(s) > MaxLabels THEN None ELSE s

\* The frame waits for the target of an alias, unless it was followed before.
Redirect(kind, x, m) ==
  LET key == [kind |-> kind, name |-> x] IN
  IF key \in visited THEN Fail("NoProgress")
  ELSE /\ visited' = visited \cup {key}
       /\ Call([Top EXCEPT !.pc = "alias", !.msg = m], x, Top.type)
       /\ UNCHANGED <<cache, question, reached>>

\* The chain of CNAMEs inside the message ends in the data asked for, in a
\* name to resolve next, or nowhere.
FollowCname(m) ==
  LET chain == Chain(m.answers, Top.name)
      ends  == {r.target : r \in {r \in m.answers :
                  /\ r.type = "CNAME" /\ r.owner \in chain
                  /\ ~HasData(m, r.target, "CNAME")}}
  IN  IF \E x \in chain : HasData(m, x, Top.type) THEN Answer(m)
      ELSE IF ends = {} THEN Fail("NoProgress")
      ELSE \E x \in ends : Redirect("cname", x, m)

FollowDname(m) ==
  \E d \in DnamesFor(m, Top.name) :
    LET x == Substitute(Top.name, d)
        w == [m EXCEPT !.answers = @ \cup {Cname(Top.name, x)}]
    IN  IF x = None THEN Answer([m EXCEPT !.rcode = "YXDomain"])
        ELSE IF HasData(m, x, Top.type) THEN Answer(w)
        ELSE Redirect("dname", x, w)

\* An SOA above the name (or, for DS, below it) ends the search, and so does
\* NXDOMAIN with the AA flag.
Terminal(m) ==
  \/ /\ m.soa # None
     /\ ZoneOf(m.soa, Top.name) \/ (Top.type = "DS" /\ ZoneOf(Top.name, m.soa))
  \/ m.rcode = "NXDomain" /\ m.aa

Servers(m) == {m.ns[i].host : i \in DOMAIN m.ns}

\* With a mistake: the delegation just followed may be followed again.
CoherentAgain(m) ==
  LET owner == m.ns[1].owner IN
  /\ \A i \in DOMAIN m.ns : m.ns[i].owner = owner
  /\ ZoneOf(owner, Top.name)
  /\ ZoneOf(Top.bailiwick, owner)

\* A referral is followed if it has one owner, leads towards the name, stays
\* below the zone of the servers asked and is not the one just followed.
Coherent(m) ==
  LET owner == m.ns[1].owner IN
  /\ \A i \in DOMAIN m.ns : m.ns[i].owner = owner
  /\ owner # Top.lastZone
  /\ ZoneOf(owner, Top.name)
  /\ ZoneOf(Top.bailiwick, owner)

\* With a mistake: unsafe addresses are not dropped.
GlueAsSent(m) ==
  {g.ip : g \in {g \in m.glue :
     /\ g.owner \in Servers(m)
     /\ ZoneOf(Top.bailiwick, g.owner) \/ ZoneOf(m.ns[1].owner, g.owner)}}

Glue(m) ==
  {g.ip : g \in {g \in m.glue :
     /\ g.owner \in Servers(m)
     /\ ZoneOf(Top.bailiwick, g.owner) \/ ZoneOf(m.ns[1].owner, g.owner)
     /\ g.ip \in Safe}}

\* The delegation is cached and its servers are asked next.  A TTL of zero
\* is an Expire that follows at once.
Descend(f, zone, ips) ==
  /\ cache' = [cache EXCEPT ![zone] = [servers |-> ips, live |-> TRUE]]
  /\ NextStep([f EXCEPT !.pc = "query", !.servers = ips, !.lastZone = zone,
                        !.bailiwick = zone, !.cut = None, !.host = Root,
                        !.hostType = "A", !.hosts = <<>>, !.ips = {}, !.found = 0])
  /\ UNCHANGED <<visited, question, reached>>

\* The next name server not looked up in this resolution; with enough
\* addresses, or none left to look up, the delegation is used as it is.
LookUpNext(f) ==
  LET fresh == {i \in DOMAIN f.hosts : [kind |-> "ns", name |-> f.hosts[i]] \notin visited}
  IN  IF fresh = {} \/ f.found >= EnoughIps
        THEN IF f.ips = {} THEN Fail("GlueResolutionFailed")
                           ELSE Descend(f, f.cut, f.ips)
        ELSE LET i == CHOOSE i \in fresh : \A j \in fresh : i <= j
                 h == f.hosts[i]
             IN  /\ visited' = visited \cup {[kind |-> "ns", name |-> h]}
                 /\ Call([f EXCEPT !.pc = "host", !.host = h, !.hostType = "A",
                                   !.hosts = SubSeq(f.hosts, i + 1, Len(f.hosts))], h, "A")
                 /\ UNCHANGED <<cache, question, reached>>

Refer(m) ==
  LET zone == m.ns[1].owner
      f    == [Top EXCEPT !.from = None]
  IN  IF Glue(m) # {}
        THEN Descend(f, zone, Glue(m))
        ELSE LookUpNext([f EXCEPT !.cut = zone,
               !.hosts = [i \in 1..(IF Len(m.ns) < NsTaken THEN Len(m.ns) ELSE NsTaken)
                            |-> m.ns[i].host]])

Respond(m) ==
  /\ ret = None /\ Resolving /\ Top.pc = "query"
  /\ IF HasData(m, Top.name, Top.type) THEN Answer(m)
     ELSE IF HasData(m, Top.name, "CNAME") THEN FollowCname(m)
     ELSE IF DnamesFor(m, Top.name) # {} THEN FollowDname(m)
     ELSE IF Terminal(m) THEN Answer(m)
     ELSE IF m.ns # <<>> THEN IF Coherent(m) THEN Refer(m) ELSE Fail("NoProgress")
     ELSE IF m.soa = None /\ m.proofs = {} THEN Fail("NoProgress")
     ELSE Answer(m)

\* With a mistake: the servers still count as cached, and no step is counted.
RestartForever ==
  /\ cache' = Purged(Top.name, Top.type)
  /\ stack' = Append(Below, [Top EXCEPT !.servers = Roots, !.lastZone = None,
                                        !.bailiwick = Root])
  /\ UNCHANGED <<ret, visited, question, reached>>

\* None of the servers answered.  Once, if they came from the cache, the
\* closest cached delegation is purged and the search starts at the root.
Restart ==
  /\ cache' = Purged(Top.name, Top.type)
  /\ NextStep([Top EXCEPT !.from = None, !.servers = Roots,
                          !.lastZone = None, !.bailiwick = Root])
  /\ UNCHANGED <<visited, question, reached>>

Silence ==
  /\ ret = None /\ Resolving /\ Top.pc = "query"
  /\ IF Top.from # None THEN Restart ELSE Fail("AllNameserversFailed")

-----------------------------------------------------------------------------
(* The return of a call *)

\* With a mistake: the records of the first hop are left out.
MergeLast(first, last) == last

\* merge_redirection_response: the answers and DNSSEC records of the first
\* hop are kept, the rest is the final answer's.
Merge(first, last) == [last EXCEPT !.answers = first.answers \cup @,
                                   !.proofs = first.proofs \cup @]

\* An error ends the chain of aliases.
ResumeAlias ==
  /\ Top.pc = "alias"
  /\ Leave(IF ret.error = None THEN Ok(Merge(Top.msg, ret.msg)) ELSE ret)
  /\ UNCHANGED <<cache, visited, question, reached>>

\* Records of the type looked up, of whatever owner, if their address is safe.
Found(t) ==
  IF ret.error # None THEN {}
  ELSE {r \in ret.msg.answers : r.type = t /\ r.target \in Safe}

\* A failed lookup counts as one without addresses.  A is followed by AAAA,
\* AAAA by the next name server.  An address found twice counts twice.
ResumeHost ==
  LET recs == Found(Top.hostType)
      f    == [Top EXCEPT !.ips = @ \cup {r.target : r \in recs},
                          !.found = @ + Cardinality(recs)]
  IN  /\ Top.pc = "host"
      /\ IF Top.hostType = "A"
           THEN /\ Call([f EXCEPT !.hostType = "AAAA"], f.host, "AAAA")
                /\ UNCHANGED <<cache, visited, question, reached>>
           ELSE LookUpNext(f)

Resume == ret # None /\ Resolving /\ (ResumeAlias \/ ResumeHost)

-----------------------------------------------------------------------------
(* Behaviours *)

Init ==
  /\ cache = [z \in Zones |-> None]
  /\ stack = <<>>
  /\ visited = {}
  /\ ret = None
  /\ question = None
  /\ reached = Root

\* resolve
Resolve(q) ==
  /\ ~Resolving
  /\ stack' = <<NewFrame(q.name, q.type)>>
  /\ visited' = {}
  /\ ret' = None
  /\ question' = q
  /\ reached' = q.name
  /\ UNCHANGED cache

\* Time passes over the end of an entry.
Expire(z) ==
  /\ cache[z] # None /\ cache[z].live
  /\ cache' = [cache EXCEPT ![z].live = FALSE]
  /\ UNCHANGED <<stack, visited, ret, question, reached>>

\* Another resolution stores or purges a delegation.
Others(z) ==
  /\ \/ cache' = [cache EXCEPT ![z] = None]
     \/ \E ips \in (SUBSET Safe) \ {{}} :
          cache' = [cache EXCEPT ![z] = [servers |-> ips, live |-> TRUE]]
  /\ UNCHANGED <<stack, visited, ret, question, reached>>

Step == Silence \/ Resume \/ \E m \in Messages : Respond(m)

Next ==
  \/ Step
  \/ \E q \in Questions : Resolve(q)
  \/ \E z \in Zones : Expire(z) \/ Others(z)

Spec == Init /\ [][Next]_vars

\* A question to the servers comes to an end (UpstreamQuery), and the
\* runtime polls the resolution.
FairSpec == Spec /\ WF_vars(Step)

-----------------------------------------------------------------------------
(* Properties *)

TypeOK ==
  /\ cache \in [Zones -> Delegation \cup {None}]
  /\ stack \in Seq(Frame) /\ Depth <= MaxDepth + 1
  /\ visited \subseteq Visit
  /\ ret \in Return \cup {None}
  /\ question \in Questions \cup {None}
  /\ reached \in Name

\* Whatever mixture of glue, lookups and cached delegations a resolution goes
\* through, it puts questions to the root servers and to safe addresses only,
\* and leaves no other address in the cache for later ones.
SafeUpstreams ==
  /\ \A i \in 1..Depth : /\ stack[i].servers \subseteq Safe \cup Roots
                         /\ stack[i].ips \subseteq Safe
  /\ \A z \in Zones : cache[z] # None => cache[z].servers \subseteq Safe

\* The limit on steps is a second line of defence: after one restart every
\* referral leads strictly towards the name, so that a frame, whose steps count
\* from 0, asks no more than three questions beyond the number of labels, whatever
\* the servers say and other resolutions do to the cache.
StepsFollowLabels == \A i \in 1..Depth : stack[i].step <= Len(stack[i].name) + 2

\* An answer put together over several calls still holds, in its answer
\* section, the aliases that lead from the question to the name whose own
\* answer ended the search.
ChainWhole ==
  ~Resolving /\ ret # None /\ ret.error = None =>
    reached \in Chain(ret.msg.answers, question.name)

\* Every resolution ends, with an answer or an error.
Ends == Resolving ~> ~Resolving

\* What recursor.rs 367 says of the restart: it purges the delegation that
\* failed.  Meant here for the case that nobody has changed the cache meanwhile.
Restarting ==
  /\ Resolving /\ Depth = Len(stack') /\ Top.from # None /\ Top'.from = None
  /\ Top'.pc = "query" /\ Top'.lastZone = None
PurgesFailed ==
  [][Restarting /\ Top.from = Start(Top.name, Top.type) => cache'[Top.from] = None]_vars

\* README 284: "Out-of-bailiwick nameserver addresses are resolved independently";
\* only a cycle (README 334) may keep the resolver from it.  A referral is given
\* up without looking up one of its name servers only inside such a lookup.
GluelessLookedUp ==
  [][Resolving /\ ret = None /\ Top.pc = "query"
       /\ ret' # None /\ ret'.error = "GlueResolutionFailed" =>
         \E i \in 1..(Depth - 1) : stack[i].pc = "host"]_vars
=============================================================================
