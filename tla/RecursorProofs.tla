--------------------------- MODULE RecursorProofs ---------------------------
(***************************************************************************)
(* Theorems about Recursor, for any messages, limits and cache contents:   *)
(* type correctness, safe upstream addresses, the bound on the steps of a  *)
(* frame, and the chain of aliases in the answer.  RecInv is inductive and *)
(* carries the first three: it says of each frame what StepsFollowLabels   *)
(* needs to survive a referral.  ChainInv, inductive with it, carries the  *)
(* last: it links every frame to the call it made.                         *)
(***************************************************************************)
EXTENDS Recursor, FiniteSetTheorems, SequenceTheorems, TLAPS

-----------------------------------------------------------------------------
(* Names and zones *)

\* What the assumptions say of one answer of the servers.
LEMMA MessageFacts ==
  ASSUME NEW m \in Messages
  PROVE  /\ m \in Message
         /\ \A r \in m.answers : r \in RR /\ (r.type \in {"CNAME", "DNAME"} => r.target \in Name)
         /\ IsFiniteSet(m.answers)
         /\ m.ns \in Seq([owner : Zones, host : Name])
BY MessageAssumption DEF Message

LEMMA NameLen ==
  ASSUME NEW n \in Name
  PROVE  n \in Seq(Labels) /\ Len(n) \in Nat /\ Len(n) <= MaxLabels
BY DEF Name

LEMMA RootName == Root \in Name
BY RecursorAssumption DEF Root, Name

\* A zone above a different name has fewer labels.
LEMMA ZoneShorter ==
  ASSUME NEW z \in Name, NEW n \in Name, ZoneOf(z, n)
  PROVE  Len(z) <= Len(n) /\ (z # n => Len(z) < Len(n))
<1>1. /\ z \in Seq(Labels) /\ n \in Seq(Labels)
      /\ Len(z) \in Nat /\ Len(n) \in Nat
  BY NameLen
<1>2. Len(z) <= Len(n) /\ z = SubSeq(n, Len(n) - Len(z) + 1, Len(n))
  BY DEF ZoneOf
<1>3. ASSUME Len(z) = Len(n) PROVE z = n
  <2>1. z = SubSeq(n, 1, Len(n))
    BY <1>1, <1>2, <1>3
  <2>2. SubSeq(n, 1, Len(n)) = n
    BY <1>1
  <2>3. QED
    BY <2>1, <2>2
<1>4. QED
  BY <1>1, <1>2, <1>3

\* The name a DNAME leads to is a name.
LEMMA SubstituteName ==
  ASSUME NEW n \in Name, NEW d \in RR, d.target \in Name, ZoneOf(d.owner, n)
  PROVE  Substitute(n, d) \in Name \cup {None}
<1>1. d.owner \in Name
  BY DEF RR
<1>2. Len(n) - Len(d.owner) \in 0..Len(n) /\ n \in Seq(Labels)
  BY <1>1, NameLen DEF ZoneOf
<1>3. SubSeq(n, 1, Len(n) - Len(d.owner)) \in Seq(Labels)
  BY <1>2
<1>4. d.target \in Seq(Labels)
  BY NameLen
<1>5. SubSeq(n, 1, Len(n) - Len(d.owner)) \o d.target \in Seq(Labels)
  BY <1>3, <1>4
<1> DEFINE s == SubSeq(n, 1, Len(n) - Len(d.owner)) \o d.target
<1>6. s \in Seq(Labels)
  BY <1>5
<1>7. Substitute(n, d) = IF d.target = Root \/ Len(s) > MaxLabels THEN None ELSE s
  BY DEF Substitute
<1> HIDE DEF s
<1>8. Len(s) \in Nat /\ MaxLabels \in Nat
  BY <1>6, RecursorAssumption
<1>9. ~(Len(s) > MaxLabels) => s \in Name
  BY <1>6, <1>8 DEF Name
<1>10. QED
  BY <1>7, <1>9

\* Among names there is always a longest, which is what Closest picks.
LEMMA ClosestIn ==
  ASSUME NEW S \in SUBSET Name, S # {}
  PROVE  Closest(S) \in S
<1> DEFINE Less == {ss \in Nat \X Nat : ss[1] < ss[2]}
           short == {MaxLabels - Len(z) : z \in S}
<1>1. short \in SUBSET Nat /\ short # {}
  BY NameLen, RecursorAssumption
<1>2. IsWellFoundedOn(Less, Nat)
  BY NatLessThanWellFounded DEF OpToRel
<1>3. \E x \in short : \A y \in short : ~(<<y, x>> \in Less)
  <2> HIDE DEF Less, short
  <2> QED
    BY <1>1, <1>2, WFMin
<1>4. PICK x \in short : \A y \in short : ~(<<y, x>> \in Less)
  BY <1>3
<1>5. PICK z \in S : x = MaxLabels - Len(z)
  BY <1>4
<1>6. ASSUME NEW y \in S PROVE Len(y) <= Len(z)
  <2>1. MaxLabels - Len(y) \in short /\ MaxLabels - Len(y) \in Nat /\ x \in Nat
    BY <1>1, <1>4
  <2>2. ~(MaxLabels - Len(y) < x)
    BY <1>4, <2>1
  <2>3. Len(y) \in Nat /\ Len(z) \in Nat /\ MaxLabels \in Nat
    BY NameLen, RecursorAssumption
  <2>4. QED
    BY <1>5, <2>2, <2>3
<1>7. QED
  BY <1>6 DEF Closest

\* Every nonempty set of naturals has a least element.
LEMMA LeastNatural ==
  ASSUME NEW S \in SUBSET Nat, S # {}
  PROVE  \E x \in S : \A y \in S : x <= y
<1> DEFINE Less == {ss \in Nat \X Nat : ss[1] < ss[2]}
<1>1. IsWellFoundedOn(Less, Nat)
  BY NatLessThanWellFounded DEF OpToRel
<1>2. PICK x \in S : \A y \in S : ~(<<y, x>> \in Less)
  BY <1>1, WFMin
<1>3. ASSUME NEW y \in S PROVE x <= y
  <2>1. x \in Nat /\ y \in Nat /\ ~(<<y, x>> \in Less)
    BY <1>2
  <2>2. QED
    BY <2>1
<1>4. QED
  BY <1>3

-----------------------------------------------------------------------------
(* The inductive invariant *)

\* Before its first referral a frame has restarted at most once; after it,
\* the zone followed last bounds the steps, and lies above the name.
StepInv(f) ==
  /\ f.lastZone = None => f.step <= 1 /\ (f.from # None => f.step = 0)
  /\ f.lastZone # None => /\ f.from = None
                          /\ f.bailiwick = f.lastZone
                          /\ ZoneOf(f.lastZone, f.name)
                          /\ f.step <= Len(f.lastZone) + 2

\* A frame that looks up name servers is about to follow a coherent referral.
Pending(f, zone) ==
  /\ zone \in Zones
  /\ f.from = None
  /\ zone # f.lastZone
  /\ ZoneOf(zone, f.name)
  /\ ZoneOf(f.bailiwick, zone)

GoodFrame ==
  {f \in Frame :
     /\ f.servers \subseteq Safe \cup Roots
     /\ f.ips \subseteq Safe
     /\ f.pc = "alias" => f.msg \in Message
     /\ f.pc = "host" => Pending(f, f.cut)
     /\ StepInv(f)}

SafeDelegation == [servers : (SUBSET Safe) \ {{}}, live : BOOLEAN]

GoodReturn == {r \in Return : r.error = None => r.msg \in Message}

RecInv ==
  /\ cache \in [Zones -> SafeDelegation \cup {None}]
  /\ stack \in Seq(GoodFrame) /\ Depth <= MaxDepth + 1
  /\ visited \subseteq Visit
  /\ ret \in GoodReturn \cup {None}
  /\ question \in Questions \cup {None}
  /\ reached \in Name

LEMMA RecInvImplies == RecInv => TypeOK /\ SafeUpstreams /\ StepsFollowLabels
<1> SUFFICES ASSUME RecInv PROVE TypeOK /\ SafeUpstreams /\ StepsFollowLabels
  OBVIOUS
<1>1. GoodFrame \subseteq Frame
  BY DEF GoodFrame
<1>2. stack \in Seq(Frame) /\ \A i \in 1..Depth : stack[i] \in GoodFrame
  BY <1>1 DEF RecInv, Depth
<1>3. TypeOK
  BY <1>2, RecursorAssumption DEF RecInv, TypeOK, Delegation, SafeDelegation, GoodReturn
<1>4. SafeUpstreams
  BY <1>2, RecursorAssumption DEF RecInv, SafeUpstreams, GoodFrame, SafeDelegation
<1>5. StepsFollowLabels
  <2>1. ASSUME NEW f \in GoodFrame PROVE f.step <= Len(f.name) + 2
    <3>1. f.name \in Name /\ f.step \in Int /\ Len(f.name) \in Nat /\ f.lastZone \in Name \cup {None}
      BY NameLen, RecursorAssumption DEF GoodFrame, Frame
    <3>2. CASE f.lastZone = None
      BY <3>1, <3>2 DEF GoodFrame, StepInv
    <3>3. CASE f.lastZone # None
      <4>1. Len(f.lastZone) <= Len(f.name) /\ Len(f.lastZone) \in Nat
        BY <3>1, <3>3, ZoneShorter, NameLen DEF GoodFrame, StepInv
      <4>2. QED
        BY <3>1, <3>3, <4>1 DEF GoodFrame, StepInv
    <3>4. QED
      BY <3>2, <3>3
  <2>2. QED
    BY <1>2, <2>1 DEF StepsFollowLabels
<1>6. QED
  BY <1>3, <1>4, <1>5

-----------------------------------------------------------------------------
(* Calls and returns *)

\* A frame just made is good: its servers are the roots or a cached delegation.
LEMMA NewFrameGood ==
  ASSUME RecInv, NEW n \in Name, NEW t \in QTypes
  PROVE  NewFrame(n, t) \in GoodFrame
<1>1. LiveCuts(n, t) \subseteq Zones /\ Zones \subseteq Name
      /\ \A z \in LiveCuts(n, t) : cache[z] # None
  BY RecursorAssumption DEF LiveCuts, Cached
<1>2. Start(n, t) \in Zones \cup {None}
      /\ (Start(n, t) # None => cache[Start(n, t)] # None)
  BY <1>1, ClosestIn DEF Start
<1>3. Start(n, t) # None => cache[Start(n, t)].servers \subseteq Safe
  BY <1>2 DEF RecInv, SafeDelegation
<1> DEFINE f == NewFrame(n, t)
<1>4. /\ f.name = n /\ f.type = t /\ f.pc = "query" /\ f.step = 0
      /\ f.from = Start(n, t) /\ f.lastZone = None /\ f.ips = {}
      /\ f.servers = IF Start(n, t) = None THEN Roots ELSE cache[Start(n, t)].servers
  BY DEF NewFrame
<1>5. f.servers \subseteq Safe \cup Roots /\ f.servers \subseteq Addresses
  BY <1>3, <1>4, RecursorAssumption
<1>6. f \in Frame
  <2>1. 0 \in 0..(MaxSteps - 1) /\ Root \in Name /\ "A" \in QTypes /\ <<>> \in Seq(Name)
    BY RecursorAssumption, RootName DEF QTypes
  <2>2. QED
    BY <1>2, <1>4, <1>5, <2>1 DEF NewFrame, Frame
<1>7. StepInv(f)
  BY <1>4 DEF StepInv
<1> HIDE DEF f
<1>8. f \in GoodFrame
  BY <1>4, <1>5, <1>6, <1>7 DEF GoodFrame
<1>9. QED
  BY <1>8 DEF f

LEMMA TopGood ==
  ASSUME RecInv, Resolving
  PROVE  /\ Top \in GoodFrame /\ Below \in Seq(GoodFrame)
         /\ Depth \in Nat \ {0} /\ Len(Below) = Depth - 1
<1>1. stack \in Seq(GoodFrame) /\ stack # <<>>
  BY DEF RecInv, Resolving
<1>2. Len(stack) \in Nat \ {0} /\ \A i \in 1..Len(stack) : stack[i] \in GoodFrame
  BY <1>1
<1> DEFINE k == Len(stack) - 1
<1>3. k \in Nat /\ \A i \in 1..k : stack[i] \in GoodFrame
  BY <1>2
<1> HIDE DEF k
<1>4. SubSeq(stack, 1, k) \in Seq(GoodFrame) /\ Len(SubSeq(stack, 1, k)) = k
  <2>1. 1 \in Int /\ k \in Int
    BY <1>3
  <2>2. /\ SubSeq(stack, 1, k) \in Seq(GoodFrame)
        /\ Len(SubSeq(stack, 1, k)) = IF 1 <= k THEN k - 1 + 1 ELSE 0
    BY <1>3, <2>1, SubSeqProperties
  <2>3. QED
    BY <1>3, <2>2
<1>5. QED
  BY <1>2, <1>4 DEF Top, Below, Depth, k

LEMMA CallGood ==
  ASSUME RecInv, Resolving, NEW f \in GoodFrame, NEW n \in Name, NEW t \in QTypes,
         Call(f, n, t)
  PROVE  /\ stack' \in Seq(GoodFrame) /\ Depth' <= MaxDepth + 1
         /\ ret' \in GoodReturn \cup {None}
<1>1. /\ Below \in Seq(GoodFrame) /\ Len(Below) = Depth - 1 /\ Depth \in Nat
      /\ Depth <= MaxDepth + 1 /\ MaxDepth \in Nat
  BY TopGood, RecursorAssumption DEF RecInv
<1>2. Append(Below, f) \in Seq(GoodFrame) /\ Len(Append(Below, f)) = Depth
  BY <1>1
<1>3. CASE Depth > MaxDepth
  <2>1. stack' = Append(Below, f) /\ ret' = Err("DepthExceeded")
    BY <1>2, <1>3 DEF Call
  <2>2. ret' \in GoodReturn
    BY <2>1, RecursorAssumption DEF Err, GoodReturn, Return, Errors
  <2>3. QED
    BY <1>1, <1>2, <2>1, <2>2 DEF Depth
<1>4. CASE ~(Depth > MaxDepth)
  <2> DEFINE g == NewFrame(n, t)
  <2>1. g \in GoodFrame
    BY NewFrameGood
  <2>2. stack' = Append(Below, f) \o <<g>> /\ ret' = None
    BY <1>4 DEF Call
  <2> HIDE DEF g
  <2>3. <<g>> \in Seq(GoodFrame) /\ Len(<<g>>) = 1
    BY <2>1
  <2>4. stack' \in Seq(GoodFrame) /\ Len(stack') = Depth + 1
    BY <1>2, <2>2, <2>3
  <2>5. QED
    BY <1>1, <1>4, <2>2, <2>4 DEF Depth
<1>5. QED
  BY <1>3, <1>4

LEMMA LeaveGood ==
  ASSUME RecInv, Resolving, NEW r \in GoodReturn, Leave(r)
  PROVE  /\ stack' \in Seq(GoodFrame) /\ Depth' <= MaxDepth + 1
         /\ ret' \in GoodReturn \cup {None}
<1>1. /\ Below \in Seq(GoodFrame) /\ Len(Below) = Depth - 1 /\ Depth \in Nat
      /\ Depth <= MaxDepth + 1 /\ MaxDepth \in Nat
  BY TopGood, RecursorAssumption DEF RecInv
<1>2. QED
  BY <1>1 DEF Leave, Depth

LEMMA ErrGood == \A e \in Errors : Err(e) \in GoodReturn
BY RecursorAssumption DEF Err, GoodReturn, Return

LEMMA FailGood ==
  ASSUME RecInv, Resolving, NEW e \in Errors, Fail(e)
  PROVE  RecInv'
BY ErrGood, LeaveGood DEF Fail, RecInv

LEMMA OkGood == \A m \in Message : Ok(m) \in GoodReturn
BY DEF Ok, GoodReturn, Return

LEMMA AnswerGood ==
  ASSUME RecInv, Resolving, NEW m \in Message, Answer(m)
  PROVE  RecInv'
<1>1. reached' \in Name
  BY TopGood DEF Answer, GoodFrame, Frame, RecInv
<1>2. QED
  BY <1>1, OkGood, LeaveGood DEF Answer, RecInv

\* The next step keeps the good frames good if the frame is so with it.
LEMMA NextStepGood ==
  ASSUME RecInv, Resolving, NEW f,
         f.step \in 0..(MaxSteps - 1),
         f.step + 1 # MaxSteps => [f EXCEPT !.step = f.step + 1] \in GoodFrame,
         NextStep(f)
  PROVE  /\ stack' \in Seq(GoodFrame) /\ Depth' <= MaxDepth + 1
         /\ ret' \in GoodReturn \cup {None}
<1>1. CASE f.step + 1 = MaxSteps
  <2>1. Leave(Err("StepLimitExceeded")) /\ "StepLimitExceeded" \in Errors
    BY <1>1 DEF NextStep, Errors
  <2>2. QED
    BY <2>1, ErrGood, LeaveGood
<1>2. CASE f.step + 1 # MaxSteps
  <2> DEFINE g == [f EXCEPT !.step = f.step + 1]
  <2>1. stack' = Append(Below, g) /\ ret' = None /\ g \in GoodFrame
    BY <1>2 DEF NextStep
  <2> HIDE DEF g
  <2>2. Below \in Seq(GoodFrame) /\ Len(Below) = Depth - 1 /\ Depth \in Nat \ {0}
    BY TopGood
  <2>3. stack' \in Seq(GoodFrame) /\ Len(stack') = Depth
    BY <2>1, <2>2
  <2>4. QED
    BY <2>1, <2>3 DEF RecInv, Depth
<1>3. QED
  BY <1>1, <1>2

-----------------------------------------------------------------------------
(* Aliases *)

LEMMA RedirectGood ==
  ASSUME RecInv, Resolving, NEW kind \in {"cname", "dname"}, NEW x \in Name,
         NEW m \in Message, Redirect(kind, x, m)
  PROVE  RecInv'
<1> DEFINE key == [kind |-> kind, name |-> x]
           f == [Top EXCEPT !.pc = "alias", !.msg = m]
<1>1. key \in Visit
  BY DEF Visit
<1>2. f \in GoodFrame
  BY TopGood DEF GoodFrame, Frame, StepInv
<1>3. CASE key \in visited
  <2>1. Fail("NoProgress")
    BY <1>3 DEF Redirect
  <2>2. QED
    BY <2>1, FailGood DEF Errors
<1>4. CASE key \notin visited
  <2>1. /\ visited' = visited \cup {key} /\ Call(f, x, Top.type)
        /\ UNCHANGED <<cache, question, reached>>
    BY <1>4 DEF Redirect
  <2>2. Top.type \in QTypes
    BY TopGood DEF GoodFrame, Frame
  <2> HIDE DEF f, key
  <2>3. /\ stack' \in Seq(GoodFrame) /\ Depth' <= MaxDepth + 1
        /\ ret' \in GoodReturn \cup {None}
    BY <1>2, <2>1, <2>2, CallGood
  <2>4. QED
    BY <1>1, <2>1, <2>3 DEF RecInv
<1>5. QED
  BY <1>3, <1>4

LEMMA CnameGood ==
  ASSUME RecInv, Resolving, NEW m \in Messages, FollowCname(m)
  PROVE  RecInv'
<1> DEFINE chain == Chain(m.answers, Top.name)
           ends  == {r.target : r \in {r \in m.answers :
                      /\ r.type = "CNAME" /\ r.owner \in chain
                      /\ ~HasData(m, r.target, "CNAME")}}
<1>1. m \in Message /\ ends \subseteq Name
  BY MessageFacts
<1>2. CASE Answer(m)
  BY <1>1, <1>2, AnswerGood
<1>3. CASE Fail("NoProgress")
  BY <1>3, FailGood DEF Errors
<1>4. CASE \E x \in ends : Redirect("cname", x, m)
  BY <1>1, <1>4, RedirectGood
<1>5. QED
  BY <1>2, <1>3, <1>4 DEF FollowCname

LEMMA DnameGood ==
  ASSUME RecInv, Resolving, NEW m \in Messages, FollowDname(m)
  PROVE  RecInv'
<1>1. PICK d \in DnamesFor(m, Top.name) :
        LET x == Substitute(Top.name, d)
            w == [m EXCEPT !.answers = @ \cup {Cname(Top.name, x)}]
        IN  IF x = None THEN Answer([m EXCEPT !.rcode = "YXDomain"])
            ELSE IF HasData(m, x, Top.type) THEN Answer(w)
            ELSE Redirect("dname", x, w)
  BY DEF FollowDname
<1> DEFINE x == Substitute(Top.name, d)
           w == [m EXCEPT !.answers = @ \cup {Cname(Top.name, x)}]
<1>2. m \in Message /\ Top.name \in Name
  BY MessageFacts, TopGood DEF GoodFrame, Frame
<1>3. d \in m.answers /\ d \in RR /\ d.target \in Name /\ ZoneOf(d.owner, Top.name)
  BY MessageFacts DEF DnamesFor
<1>4. x \in Name \cup {None}
  BY <1>2, <1>3, SubstituteName
<1>5. CASE x = None
  <2>1. [m EXCEPT !.rcode = "YXDomain"] \in Message
    BY <1>2 DEF Message
  <2>2. QED
    BY <1>1, <1>5, <2>1, AnswerGood
<1>6. CASE x # None
  <2>1. Cname(Top.name, x) \in RR
    BY <1>2, <1>4, <1>6 DEF Cname, RR, RTypes
  <2>2. IsFiniteSet(m.answers \cup {Cname(Top.name, x)})
    BY MessageFacts, FS_AddElement
  <2>3. w \in Message
    BY <1>2, <2>1, <2>2 DEF Message
  <2>4. Answer(w) \/ Redirect("dname", x, w)
    BY <1>1, <1>6
  <2> HIDE DEF w, x
  <2>5. QED
    BY <1>4, <1>6, <2>3, <2>4, AnswerGood, RedirectGood
<1>7. QED
  BY <1>5, <1>6

-----------------------------------------------------------------------------
(* Referrals *)

\* The heart of StepsFollowLabels: a coherent referral lies strictly below
\* the one before it, so one more step is paid for by one more label.
LEMMA DescendGood ==
  ASSUME RecInv, Resolving, NEW f \in Frame, NEW zone, NEW ips \in (SUBSET Safe) \ {{}},
         StepInv(f), Pending(f, zone), Descend(f, zone, ips)
  PROVE  RecInv'
<1> DEFINE g == [f EXCEPT !.pc = "query", !.servers = ips, !.lastZone = zone,
                          !.bailiwick = zone, !.cut = None, !.host = Root,
                          !.hostType = "A", !.hosts = <<>>, !.ips = {}, !.found = 0]
           h == [g EXCEPT !.step = g.step + 1]
<1>1. /\ zone \in Zones /\ zone \in Name /\ zone # None
      /\ ips \subseteq Addresses
  BY RecursorAssumption DEF Pending
<1>2. cache' \in [Zones -> SafeDelegation \cup {None}]
  <2>1. [servers |-> ips, live |-> TRUE] \in SafeDelegation
    BY DEF SafeDelegation
  <2>2. QED
    BY <2>1 DEF Descend, RecInv
<1>3. g.step = f.step /\ g.step \in 0..(MaxSteps - 1) /\ g.step \in Nat
  BY DEF Frame
<1>4. f.step + 1 <= Len(zone) + 2
  <2>1. /\ f.step \in Nat /\ Len(zone) \in Nat
        /\ f.lastZone \in Name \cup {None} /\ f.bailiwick \in Name
    BY <1>1, <1>3, NameLen DEF Frame
  <2>2. CASE f.lastZone = None
    BY <2>1, <2>2 DEF StepInv
  <2>3. CASE f.lastZone # None
    <3>1. ZoneOf(f.lastZone, zone) /\ zone # f.lastZone /\ f.step <= Len(f.lastZone) + 2
      BY <2>3 DEF StepInv, Pending
    <3>2. Len(f.lastZone) < Len(zone) /\ Len(f.lastZone) \in Nat
      BY <1>1, <2>1, <2>3, <3>1, ZoneShorter, NameLen
    <3>3. QED
      BY <2>1, <3>1, <3>2
  <2>4. QED
    BY <2>2, <2>3
<1>5. ASSUME g.step + 1 # MaxSteps PROVE h \in GoodFrame
  <2>1. f.step + 1 \in 0..(MaxSteps - 1)
    BY <1>3, <1>5, RecursorAssumption
  <2>2. h \in Frame
    <3>1. Root \in Name /\ "A" \in QTypes /\ <<>> \in Seq(Name)
      BY RootName DEF QTypes
    <3>2. QED
      BY <1>1, <2>1, <3>1 DEF Frame
  <2>3. /\ h.lastZone = zone /\ h.bailiwick = zone /\ h.from = None /\ h.pc = "query"
        /\ h.name = f.name /\ h.step = f.step + 1 /\ h.servers = ips /\ h.ips = {}
    BY DEF Pending, Frame
  <2>4. StepInv(h)
    BY <1>1, <1>4, <2>3 DEF StepInv, Pending
  <2> HIDE DEF h
  <2>5. QED
    BY <2>2, <2>3, <2>4 DEF GoodFrame
<1>6. NextStep(g) /\ UNCHANGED <<visited, question, reached>>
  BY DEF Descend
<1> HIDE DEF g
<1>7. /\ stack' \in Seq(GoodFrame) /\ Depth' <= MaxDepth + 1
      /\ ret' \in GoodReturn \cup {None}
  BY <1>3, <1>5, <1>6, NextStepGood
<1>8. QED
  BY <1>2, <1>6, <1>7 DEF RecInv

LEMMA LookUpGood ==
  ASSUME RecInv, Resolving, NEW f \in Frame,
         f.servers \subseteq Safe \cup Roots, f.ips \subseteq Safe,
         StepInv(f), Pending(f, f.cut), LookUpNext(f)
  PROVE  RecInv'
<1> DEFINE fresh == {i \in DOMAIN f.hosts : [kind |-> "ns", name |-> f.hosts[i]] \notin visited}
<1>1. CASE fresh = {} \/ f.found >= EnoughIps
  <2>1. CASE f.ips = {}
    BY <1>1, <2>1, FailGood DEF LookUpNext, Errors
  <2>2. CASE f.ips # {}
    <3>1. Descend(f, f.cut, f.ips) /\ f.ips \in (SUBSET Safe) \ {{}}
      BY <1>1, <2>2 DEF LookUpNext
    <3>2. QED
      BY <3>1, DescendGood
  <2>3. QED
    BY <2>1, <2>2
<1>2. CASE ~(fresh = {} \/ f.found >= EnoughIps)
  <2> DEFINE i == CHOOSE i \in fresh : \A j \in fresh : i <= j
             h == f.hosts[i]
             g == [f EXCEPT !.pc = "host", !.host = h, !.hostType = "A",
                            !.hosts = SubSeq(f.hosts, i + 1, Len(f.hosts))]
  <2>1. f.hosts \in Seq(Name) /\ fresh \subseteq 1..Len(f.hosts) /\ fresh # {}
        /\ Len(f.hosts) \in Nat
    BY <1>2 DEF Frame
  <2>2. i \in fresh
    <3>1. fresh \in SUBSET Nat
      BY <2>1
    <3> HIDE DEF fresh
    <3>2. \E k \in fresh : \A j \in fresh : k <= j
      BY <2>1, <3>1, LeastNatural
    <3>3. QED
      BY <3>2
  <2>5. /\ visited' = visited \cup {[kind |-> "ns", name |-> h]}
        /\ Call(g, h, "A")
        /\ UNCHANGED <<cache, question, reached>>
    BY <1>2 DEF LookUpNext
  <2> HIDE DEF i
  <2>3. h \in Name /\ i \in 1..Len(f.hosts)
    BY <2>1, <2>2
  <2>4. SubSeq(f.hosts, i + 1, Len(f.hosts)) \in Seq(Name)
    <3> DEFINE a == i + 1
               b == Len(f.hosts)
    <3>1. a \in Int /\ b \in Int /\ \A j \in a..b : f.hosts[j] \in Name
      BY <2>1, <2>3
    <3> HIDE DEF a, b
    <3>2. SubSeq(f.hosts, a, b) \in Seq(Name)
      BY <3>1, SubSeqProperties
    <3>3. QED
      BY <3>2 DEF a, b
  <2> HIDE DEF h
  <2>6. g \in GoodFrame
    <3>1. g \in Frame
      BY <2>3, <2>4 DEF Frame, QTypes
    <3>2. /\ g.servers = f.servers /\ g.ips = f.ips /\ g.pc = "host" /\ g.cut = f.cut
          /\ g.from = f.from /\ g.lastZone = f.lastZone /\ g.bailiwick = f.bailiwick
          /\ g.name = f.name /\ g.step = f.step
      BY DEF Frame
    <3> HIDE DEF g
    <3>3. QED
      BY <3>1, <3>2 DEF GoodFrame, StepInv, Pending
  <2> HIDE DEF g
  <2>7. /\ stack' \in Seq(GoodFrame) /\ Depth' <= MaxDepth + 1
        /\ ret' \in GoodReturn \cup {None}
    BY <2>3, <2>5, <2>6, CallGood DEF QTypes
  <2>8. visited' \subseteq Visit
    BY <2>3, <2>5 DEF RecInv, Visit
  <2>9. QED
    BY <2>5, <2>7, <2>8 DEF RecInv
<1>3. QED
  BY <1>1, <1>2

LEMMA ReferGood ==
  ASSUME RecInv, Resolving, NEW m \in Messages, m.ns # <<>>, Coherent(m), Refer(m)
  PROVE  RecInv'
<1> DEFINE zone == m.ns[1].owner
           f    == [Top EXCEPT !.from = None]
           some == [i \in 1..(IF Len(m.ns) < NsTaken THEN Len(m.ns) ELSE NsTaken)
                      |-> m.ns[i].host]
           g    == [f EXCEPT !.cut = zone, !.hosts = some]
<1>1. /\ m.ns \in Seq([owner : Zones, host : Name]) /\ Len(m.ns) \in Nat
      /\ NsTaken \in Nat /\ Zones \subseteq Name
      /\ \A i \in 1..Len(m.ns) : m.ns[i].owner \in Zones /\ m.ns[i].host \in Name
  <2> DEFINE NS == [owner : Zones, host : Name]
  <2>1. m.ns \in Seq(NS)
    BY MessageFacts
  <2>2. \A r \in NS : r.owner \in Zones /\ r.host \in Name
    OBVIOUS
  <2> HIDE DEF NS
  <2>3. Len(m.ns) \in Nat /\ \A i \in 1..Len(m.ns) : m.ns[i] \in NS
    BY <2>1
  <2>4. NsTaken \in Nat /\ Zones \subseteq Name
    BY RecursorAssumption
  <2>5. QED
    BY <2>1, <2>2, <2>3, <2>4 DEF NS
<1>2. zone \in Zones
  <2>1. Len(m.ns) # 0
    BY MessageFacts
  <2>2. QED
    BY <1>1, <2>1
<1>3. /\ Top \in Frame /\ Top \in GoodFrame
  BY TopGood DEF GoodFrame
<1>4. /\ f \in Frame /\ f.from = None /\ f.name = Top.name /\ f.lastZone = Top.lastZone
      /\ f.bailiwick = Top.bailiwick /\ f.step = Top.step
      /\ f.servers = Top.servers /\ f.ips = Top.ips
  BY <1>3 DEF Frame
<1>5. StepInv(f)
  BY <1>3, <1>4 DEF GoodFrame, StepInv
<1>6. Pending(f, zone)
  BY <1>2, <1>4 DEF Pending, Coherent
<1>7. CASE Glue(m) # {}
  <2>1. Glue(m) \in (SUBSET Safe) \ {{}}
    BY <1>7 DEF Glue
  <2>2. Descend(f, zone, Glue(m))
    BY <1>7 DEF Refer
  <2> HIDE DEF f, zone
  <2>3. QED
    BY <1>4, <1>5, <1>6, <2>1, <2>2, DescendGood
<1>8. CASE Glue(m) = {}
  <2>1. some \in Seq(Name)
    <3> DEFINE k == IF Len(m.ns) < NsTaken THEN Len(m.ns) ELSE NsTaken
    <3>1. k \in Nat /\ k <= Len(m.ns)
      BY <1>1
    <3>2. \A i \in 1..k : m.ns[i].host \in Name
      BY <1>1, <3>1
    <3> HIDE DEF k
    <3>3. [i \in 1..k |-> m.ns[i].host] \in Seq(Name)
      BY <3>1, <3>2
    <3>4. QED
      BY <3>3 DEF k
  <2>2. LookUpNext(g)
    BY <1>8 DEF Refer
  <2> HIDE DEF some, zone
  <2>3. /\ g \in Frame /\ g.cut = zone /\ g.from = None /\ g.name = f.name
        /\ g.lastZone = f.lastZone /\ g.bailiwick = f.bailiwick /\ g.step = f.step
        /\ g.servers = f.servers /\ g.ips = f.ips
    BY <1>1, <1>2, <1>4, <2>1 DEF Frame
  <2> HIDE DEF g, f
  <2>4. StepInv(g) /\ Pending(g, g.cut)
    BY <1>4, <1>5, <1>6, <2>3 DEF StepInv, Pending
  <2>5. g.servers \subseteq Safe \cup Roots /\ g.ips \subseteq Safe
    BY <1>3, <1>4, <2>3 DEF GoodFrame
  <2>6. QED
    BY <2>2, <2>3, <2>4, <2>5, LookUpGood
<1>9. QED
  BY <1>7, <1>8

LEMMA RespondGood ==
  ASSUME RecInv, NEW m \in Messages, Respond(m)
  PROVE  RecInv'
<1>1. Resolving /\ m \in Message
  BY MessageFacts DEF Respond
<1>2. \/ Answer(m)
      \/ FollowCname(m)
      \/ FollowDname(m)
      \/ m.ns # <<>> /\ Coherent(m) /\ Refer(m)
      \/ Fail("NoProgress")
  BY DEF Respond
<1>3. QED
  BY <1>1, <1>2, AnswerGood, CnameGood, DnameGood, ReferGood, FailGood DEF Errors

LEMMA SilenceGood ==
  ASSUME RecInv, Silence
  PROVE  RecInv'
<1>1. Resolving /\ Top \in GoodFrame /\ Top \in Frame
  BY TopGood DEF Silence, GoodFrame
<1>2. CASE Top.from = None
  BY <1>1, <1>2, FailGood DEF Silence, Errors
<1>3. CASE Top.from # None
  <2> DEFINE f == [Top EXCEPT !.from = None, !.servers = Roots,
                              !.lastZone = None, !.bailiwick = Root]
             h == [f EXCEPT !.step = f.step + 1]
  <2>1. cache' = Purged(Top.name, Top.type) /\ NextStep(f)
        /\ UNCHANGED <<visited, question, reached>>
    BY <1>3 DEF Silence, Restart
  <2>2. cache' \in [Zones -> SafeDelegation \cup {None}]
    BY <2>1 DEF Purged, RecInv
  <2>3. f.step = 0 /\ f.step \in 0..(MaxSteps - 1)
    BY <1>1, <1>3, RecursorAssumption DEF GoodFrame, StepInv, Frame
  <2>4. ASSUME f.step + 1 # MaxSteps PROVE h \in GoodFrame
    <3>1. /\ h.from = None /\ h.lastZone = None /\ h.step = 1 /\ h.servers = Roots
          /\ h.pc = "query" /\ h.ips = Top.ips
      BY <1>1, <2>3 DEF Frame, Silence
    <3>2. 1 \in 0..(MaxSteps - 1) /\ Root \in Name /\ Roots \subseteq Addresses
      BY <2>3, <2>4, RootName, RecursorAssumption
    <3>3. h \in Frame
      <4>1. f \in Frame
        BY <1>1, <3>2 DEF Frame
      <4>2. f.step + 1 = 1
        BY <2>3
      <4> HIDE DEF f
      <4>3. QED
        BY <3>2, <4>1, <4>2 DEF Frame
    <3> HIDE DEF h
    <3>4. QED
      BY <1>1, <3>1, <3>3 DEF GoodFrame, StepInv
  <2> HIDE DEF f
  <2>5. /\ stack' \in Seq(GoodFrame) /\ Depth' <= MaxDepth + 1
        /\ ret' \in GoodReturn \cup {None}
    BY <1>1, <2>1, <2>3, <2>4, NextStepGood
  <2>6. QED
    BY <2>1, <2>2, <2>5 DEF RecInv
<1>4. QED
  BY <1>2, <1>3

-----------------------------------------------------------------------------
(* Returns and the environment *)

LEMMA MergeMessage ==
  ASSUME NEW a \in Message, NEW b \in Message
  PROVE  Merge(a, b) \in Message
<1>1. IsFiniteSet(a.answers \cup b.answers)
  BY FS_Union DEF Message
<1>2. QED
  BY <1>1 DEF Merge, Message

LEMMA ResumeGood ==
  ASSUME RecInv, Resume
  PROVE  RecInv'
<1>1. /\ Resolving /\ ret \in GoodReturn /\ Top \in GoodFrame /\ Top \in Frame
  BY TopGood DEF Resume, RecInv, GoodFrame
<1>2. CASE ResumeAlias
  <2> DEFINE r == IF ret.error = None THEN Ok(Merge(Top.msg, ret.msg)) ELSE ret
  <2>1. r \in GoodReturn
    BY <1>1, <1>2, MergeMessage, OkGood DEF ResumeAlias, GoodFrame, GoodReturn
  <2>2. Leave(r) /\ UNCHANGED <<cache, visited, question, reached>>
    BY <1>2 DEF ResumeAlias
  <2> HIDE DEF r
  <2>3. QED
    BY <1>1, <2>1, <2>2, LeaveGood DEF RecInv
<1>3. CASE ResumeHost
  <2> DEFINE recs == Found(Top.hostType)
             ips  == {r.target : r \in recs}
             f    == [Top EXCEPT !.ips = @ \cup ips, !.found = @ + Cardinality(recs)]
             g    == [f EXCEPT !.hostType = "AAAA"]
  <2>1. Top.pc = "host" /\ Pending(Top, Top.cut)
    BY <1>1, <1>3 DEF ResumeHost, GoodFrame
  <2>2. ips \subseteq Safe /\ Cardinality(recs) \in Nat
    <3>1. CASE ret.error # None
      BY <3>1, FS_EmptySet DEF Found
    <3>2. CASE ret.error = None
      <4>1. IsFiniteSet(ret.msg.answers)
        BY <1>1, <3>2 DEF GoodReturn, Message
      <4>2. recs \subseteq ret.msg.answers /\ ips \subseteq Safe
        BY <3>2 DEF Found
      <4> HIDE DEF recs
      <4>3. QED
        BY <4>1, <4>2, FS_Subset, FS_CardinalityType
    <3>3. QED
      BY <3>1, <3>2
  <2> HIDE DEF ips, recs
  <2>3. /\ f \in Frame /\ f.servers = Top.servers /\ f.ips = Top.ips \cup ips
        /\ f.pc = "host" /\ f.cut = Top.cut /\ f.from = Top.from
        /\ f.lastZone = Top.lastZone /\ f.bailiwick = Top.bailiwick
        /\ f.name = Top.name /\ f.step = Top.step /\ f.host \in Name
    <3>1. Top.ips \cup ips \subseteq Addresses /\ Top.found + Cardinality(recs) \in Nat
      BY <1>1, <2>2, RecursorAssumption DEF Frame
    <3>2. f \in Frame
      BY <1>1, <3>1 DEF Frame
    <3>3. QED
      BY <1>1, <2>1, <3>2 DEF Frame
  <2>4. f.servers \subseteq Safe \cup Roots /\ f.ips \subseteq Safe
    BY <1>1, <2>2, <2>3 DEF GoodFrame
  <2>5. StepInv(f) /\ Pending(f, f.cut)
    BY <1>1, <2>1, <2>3 DEF GoodFrame, StepInv, Pending
  <2>6. CASE Top.hostType = "A"
    <3>1. Call(g, f.host, "AAAA") /\ UNCHANGED <<cache, visited, question, reached>>
      BY <1>3, <2>6 DEF ResumeHost, ips, recs
    <3> HIDE DEF f
    <3>2. /\ g \in Frame /\ g.servers = f.servers /\ g.ips = f.ips /\ g.pc = "host"
          /\ g.cut = f.cut /\ g.from = f.from /\ g.lastZone = f.lastZone
          /\ g.bailiwick = f.bailiwick /\ g.name = f.name /\ g.step = f.step
      BY <2>3 DEF Frame, QTypes
    <3> HIDE DEF g
    <3>3. g \in GoodFrame
      BY <2>3, <2>4, <2>5, <3>2 DEF GoodFrame, StepInv, Pending
    <3>4. /\ stack' \in Seq(GoodFrame) /\ Depth' <= MaxDepth + 1
          /\ ret' \in GoodReturn \cup {None}
      BY <1>1, <2>3, <3>1, <3>3, CallGood DEF QTypes
    <3>5. QED
      BY <3>1, <3>4 DEF RecInv
  <2>7. CASE Top.hostType # "A"
    <3>1. LookUpNext(f)
      BY <1>3, <2>7 DEF ResumeHost, ips, recs
    <3> HIDE DEF f
    <3>2. QED
      BY <1>1, <2>3, <2>4, <2>5, <3>1, LookUpGood
  <2>8. QED
    BY <2>6, <2>7
<1>4. QED
  BY <1>2, <1>3 DEF Resume

LEMMA ResolveGood ==
  ASSUME RecInv, NEW q \in Questions, Resolve(q)
  PROVE  RecInv'
<1>1. q.name \in Name /\ q.type \in QTypes
  BY RecursorAssumption
<1> DEFINE g == NewFrame(q.name, q.type)
<1>2. g \in GoodFrame
  BY <1>1, NewFrameGood
<1>3. stack' = <<g>> /\ ret' = None /\ visited' = {} /\ cache' = cache
      /\ question' = q /\ reached' = q.name
  BY DEF Resolve
<1> HIDE DEF g
<1>4. stack' \in Seq(GoodFrame) /\ Len(stack') = 1
  BY <1>2, <1>3
<1>5. QED
  BY <1>1, <1>3, <1>4, RecursorAssumption DEF RecInv, Depth

LEMMA EnvironmentGood ==
  ASSUME RecInv, NEW z \in Zones, Expire(z) \/ Others(z)
  PROVE  RecInv'
<1>1. cache' \in [Zones -> SafeDelegation \cup {None}]
  <2>1. CASE Expire(z)
    <3>1. cache[z] \in SafeDelegation
      BY <2>1 DEF Expire, RecInv
    <3>2. [cache[z] EXCEPT !.live = FALSE] \in SafeDelegation
      BY <3>1 DEF SafeDelegation
    <3>3. QED
      BY <2>1, <3>2 DEF Expire, RecInv
  <2>2. CASE Others(z)
    <3>1. \A ips \in (SUBSET Safe) \ {{}} : [servers |-> ips, live |-> TRUE] \in SafeDelegation
      BY DEF SafeDelegation
    <3>2. QED
      BY <2>2, <3>1 DEF Others, RecInv
  <2>3. QED
    BY <2>1, <2>2
<1>2. UNCHANGED <<stack, visited, ret, question, reached>>
  BY DEF Expire, Others
<1>3. QED
  BY <1>1, <1>2 DEF RecInv, Depth

-----------------------------------------------------------------------------
(* Chains of aliases *)

\* A name reaches itself and the targets of the aliases it reaches.
LEMMA ChainStart ==
  ASSUME NEW A, NEW n
  PROVE  n \in Chain(A, n)
BY DEF Chain

LEMMA ChainTarget ==
  ASSUME NEW A, NEW n, NEW r \in A, r.type = "CNAME", r.owner \in Chain(A, n)
  PROVE  r.target \in Chain(A, n)
BY DEF Chain

\* What is reached from a name that is reached over some of the records is reached.
LEMMA ChainJoins ==
  ASSUME NEW A, NEW B, NEW C, A \subseteq C, B \subseteq C,
         NEW x, NEW y \in Chain(A, x), NEW z \in Chain(B, y)
  PROVE  z \in Chain(C, x)
<1> DEFINE aliases(Q) == {r \in Q : r.type = "CNAME"}
           names(Q, n) == {n} \cup {r.target : r \in aliases(Q)}
           Closed(Q, S) == \A r \in aliases(Q) : r.owner \in S => r.target \in S
<1>1. \A Q, n : Chain(Q, n) = {w \in names(Q, n) : \A S \in SUBSET names(Q, n) :
                                  n \in S /\ Closed(Q, S) => w \in S}
  BY DEF Chain
<1>2. y \in names(A, x) /\ z \in names(B, y)
  BY <1>1
<1>3. z \in names(C, x)
  BY <1>2
<1>4. ASSUME NEW S \in SUBSET names(C, x), x \in S, Closed(C, S)
      PROVE  z \in S
  <2>1. y \in S
    <3>1. S \cap names(A, x) \in SUBSET names(A, x) /\ x \in S \cap names(A, x)
      BY <1>4
    <3>2. Closed(A, S \cap names(A, x))
      BY <1>4
    <3>3. QED
      BY <1>1, <3>1, <3>2
  <2>2. S \cap names(B, y) \in SUBSET names(B, y) /\ y \in S \cap names(B, y)
    BY <2>1
  <2>3. Closed(B, S \cap names(B, y))
    BY <1>4
  <2>4. QED
    BY <1>1, <2>2, <2>3
<1>5. QED
  BY <1>1, <1>3, <1>4

-----------------------------------------------------------------------------
(* The chain from the question to the frame that answers *)

\* A call made for an alias is for a name its message leads to.
Linked ==
  \A i \in 1..(Depth - 1) : stack[i].pc = "alias" =>
    stack[i + 1].name \in Chain(stack[i].msg.answers, stack[i].name)

Asked == Resolving => stack[1].name = question.name

\* An answer on its way back through aliases alone leads to the name reached,
\* from the question or from a name that the frame waiting for it leads to.
Returning ==
  ret # None /\ ret.error = None /\ (\A i \in 1..Depth : stack[i].pc = "alias") =>
    IF Resolving
      THEN \E x \in Chain(Top.msg.answers, Top.name) : reached \in Chain(ret.msg.answers, x)
      ELSE reached \in Chain(ret.msg.answers, question.name)

ChainInv == Linked /\ Asked /\ Returning

LEMMA BelowFrames ==
  ASSUME RecInv, Resolving
  PROVE  /\ Depth \in Nat \ {0} /\ Len(Below) = Depth - 1
         /\ Below \in Seq(GoodFrame)
         /\ \A i \in 1..(Depth - 1) : Below[i] = stack[i]
<1>1. /\ Depth \in Nat \ {0} /\ Len(Below) = Depth - 1 /\ Below \in Seq(GoodFrame)
  BY TopGood
<1>2. stack \in Seq(GoodFrame)
  BY DEF RecInv
<1> DEFINE k == Depth - 1
<1>3. 1 \in Int /\ k \in Int /\ \A i \in 1..k : stack[i] \in GoodFrame
  BY <1>1, <1>2 DEF Depth
<1> HIDE DEF k
<1>4. ASSUME NEW i \in 1..k PROVE SubSeq(stack, 1, k)[i] = stack[i]
  <2>1. 1 <= k /\ i \in 1..(k - 1 + 1)
    BY <1>3, <1>4
  <2>2. SubSeq(stack, 1, k)[i] = stack[1 + i - 1]
    BY <1>3, <2>1, SubSeqProperties
  <2>3. QED
    BY <2>2, <1>3, <1>4
<1>5. QED
  BY <1>1, <1>4 DEF Below, Depth, k

\* The running frame returns r.
LEMMA LeaveChain ==
  ASSUME RecInv, ChainInv, Resolving, NEW r, Leave(r), question' = question,
         r # None /\ r.error = None /\ OnChain => reached' \in Chain(r.msg.answers, Top.name)
  PROVE  ChainInv'
<1>1. /\ Depth \in Nat \ {0} /\ Depth' = Depth - 1 /\ ret' = r
      /\ \A i \in 1..(Depth - 1) : stack'[i] = stack[i]
  BY BelowFrames DEF Leave, Depth
<1>2. Top = stack[Depth]
  BY DEF Top, Depth
<1>3. Linked'
  BY <1>1 DEF ChainInv, Linked
<1>4. Resolving' <=> Depth' # 0
  BY BelowFrames, <1>1 DEF Resolving, Leave, Depth
<1>5. Asked'
  BY <1>1, <1>4 DEF ChainInv, Asked
<1>6. Returning'
  <2> SUFFICES ASSUME r # None, r.error = None, \A i \in 1..(Depth - 1) : stack[i].pc = "alias"
               PROVE  IF Resolving'
                        THEN \E x \in Chain(Top'.msg.answers, Top'.name) :
                               reached' \in Chain(r.msg.answers, x)
                        ELSE reached' \in Chain(r.msg.answers, question.name)
    BY <1>1 DEF Returning
  <2>1. reached' \in Chain(r.msg.answers, Top.name)
    BY DEF OnChain
  <2>2. CASE Depth = 1
    BY <1>1, <1>2, <1>4, <2>1, <2>2 DEF ChainInv, Asked
  <2>3. CASE Depth # 1
    <3>1. Depth - 1 \in 1..(Depth - 1) /\ Depth - 1 + 1 = Depth
      BY <1>1, <2>3
    <3>2. Top' = stack[Depth - 1]
      BY <1>1, <3>1 DEF Top, Depth
    <3>3. Top.name \in Chain(Top'.msg.answers, Top'.name)
      BY <1>2, <3>1, <3>2 DEF ChainInv, Linked
    <3>4. QED
      BY <1>1, <1>4, <2>1, <2>3, <3>3
  <2>4. QED
    BY <2>2, <2>3
<1>7. QED
  BY <1>3, <1>5, <1>6 DEF ChainInv

\* The running frame becomes f, with the same name, and no answer has come.
LEMMA StayChain ==
  ASSUME RecInv, ChainInv, Resolving, NEW f, f.name = Top.name,
         stack' = Append(Below, f), ret' = None \/ ret'.error # None, question' = question
  PROVE  ChainInv'
<1>1. /\ Depth \in Nat \ {0} /\ Depth' = Depth /\ stack'[Depth] = f
      /\ \A i \in 1..(Depth - 1) : stack'[i] = stack[i]
  BY BelowFrames DEF Depth
<1>2. Top = stack[Depth]
  BY DEF Top, Depth
<1>3. ASSUME NEW i \in 1..Depth PROVE stack'[i].name = stack[i].name
  <2>1. i = Depth \/ i \in 1..(Depth - 1)
    BY <1>1
  <2>2. QED
    BY <1>1, <1>2, <2>1
<1>4. Linked'
  <2>1. ASSUME NEW i \in 1..(Depth - 1) PROVE i \in 1..Depth /\ i + 1 \in 1..Depth
    BY <1>1
  <2>2. QED
    BY <1>1, <1>3, <2>1 DEF ChainInv, Linked
<1>5. Asked'
  BY <1>1, <1>3 DEF ChainInv, Asked
<1>6. QED
  BY <1>4, <1>5 DEF ChainInv, Returning

\* The running frame becomes f and calls for n; for an alias, one that its
\* message leads to.
LEMMA CallChain ==
  ASSUME RecInv, ChainInv, Resolving, NEW f, f.name = Top.name, NEW n, NEW t, Call(f, n, t),
         f.pc = "alias" => n \in Chain(f.msg.answers, f.name), question' = question
  PROVE  ChainInv'
<1>1. CASE Depth > MaxDepth
  <2>1. stack' = Append(Below, f) /\ ret' = Err("DepthExceeded")
    BY <1>1, BelowFrames DEF Call
  <2>2. ret'.error # None
    BY <2>1, RecursorAssumption DEF Err, Errors
  <2>3. QED
    BY <2>1, <2>2, StayChain
<1>2. CASE ~(Depth > MaxDepth)
  <2> DEFINE g == NewFrame(n, t)
  <2>1. stack' = Append(Below, f) \o <<g>> /\ ret' = None /\ g.name = n
    BY <1>2 DEF Call, NewFrame
  <2> HIDE DEF g
  <2>2. /\ Depth \in Nat \ {0} /\ Depth' = Depth + 1
        /\ stack'[Depth] = f /\ stack'[Depth + 1] = g
        /\ \A i \in 1..(Depth - 1) : stack'[i] = stack[i]
    BY <2>1, BelowFrames DEF Depth
  <2>3. Top = stack[Depth]
    BY DEF Top, Depth
  <2>4. ASSUME NEW i \in 1..Depth PROVE stack'[i].name = stack[i].name
    <3>1. i = Depth \/ i \in 1..(Depth - 1)
      BY <2>2
    <3>2. QED
      BY <2>2, <2>3, <3>1
  <2>5. Linked'
    <3>1. ASSUME NEW i \in 1..Depth, stack'[i].pc = "alias"
          PROVE  stack'[i + 1].name \in Chain(stack'[i].msg.answers, stack'[i].name)
      <4>1. CASE i = Depth
        BY <2>1, <2>2, <3>1, <4>1
      <4>2. CASE i # Depth
        <5>1. i \in 1..(Depth - 1) /\ i + 1 \in 1..Depth
          BY <2>2, <4>2
        <5>2. QED
          BY <2>2, <2>4, <3>1, <5>1 DEF ChainInv, Linked
      <4>3. QED
        BY <4>1, <4>2
    <3>2. Depth' - 1 = Depth
      BY <2>2
    <3>3. QED
      BY <3>1, <3>2 DEF Linked
  <2>6. Asked'
    BY <2>2, <2>4 DEF ChainInv, Asked
  <2>7. QED
    BY <2>1, <2>5, <2>6 DEF ChainInv, Returning
<1>3. QED
  BY <1>1, <1>2

LEMMA FailChain ==
  ASSUME RecInv, ChainInv, Resolving, NEW e \in Errors, Fail(e)
  PROVE  ChainInv'
<1>1. Leave(Err(e)) /\ question' = question /\ Err(e).error # None
  BY RecursorAssumption DEF Fail, Err
<1>2. QED
  BY <1>1, LeaveChain

LEMMA AnswerChain ==
  ASSUME RecInv, ChainInv, Resolving, NEW m, Answer(m)
  PROVE  ChainInv'
<1>1. Leave(Ok(m)) /\ question' = question /\ (OnChain => reached' = Top.name)
      /\ Ok(m).msg = m
  BY DEF Answer, Ok
<1>2. OnChain => reached' \in Chain(Ok(m).msg.answers, Top.name)
  BY <1>1, ChainStart
<1>3. QED
  BY <1>1, <1>2, LeaveChain

LEMMA NextStepChain ==
  ASSUME RecInv, ChainInv, Resolving, NEW f, f.name = Top.name,
         [f EXCEPT !.step = f.step + 1].name = f.name, NextStep(f), question' = question
  PROVE  ChainInv'
<1>1. CASE f.step + 1 = MaxSteps
  <2>1. Leave(Err("StepLimitExceeded")) /\ Err("StepLimitExceeded").error # None
    BY <1>1, RecursorAssumption DEF NextStep, Err, Errors
  <2>2. QED
    BY <2>1, LeaveChain
<1>2. CASE f.step + 1 # MaxSteps
  <2> DEFINE g == [f EXCEPT !.step = f.step + 1]
  <2>1. stack' = Append(Below, g) /\ ret' = None /\ g.name = Top.name
    BY <1>2 DEF NextStep
  <2> HIDE DEF g
  <2>2. QED
    BY <2>1, StayChain
<1>3. QED
  BY <1>1, <1>2

LEMMA RedirectChain ==
  ASSUME RecInv, ChainInv, Resolving, NEW kind, NEW m \in Message,
         NEW x \in Chain(m.answers, Top.name), Redirect(kind, x, m)
  PROVE  ChainInv'
<1> DEFINE f == [Top EXCEPT !.pc = "alias", !.msg = m]
<1>1. Fail("NoProgress") \/ (Call(f, x, Top.type) /\ question' = question)
  BY DEF Redirect
<1>2. f.name = Top.name /\ f.msg = m
  BY TopGood DEF GoodFrame, Frame
<1> HIDE DEF f
<1>3. QED
  BY <1>1, <1>2, FailChain, CallChain DEF Errors

LEMMA CnameChain ==
  ASSUME RecInv, ChainInv, Resolving, NEW m \in Messages, FollowCname(m)
  PROVE  ChainInv'
<1> DEFINE chain == Chain(m.answers, Top.name)
           ends  == {r.target : r \in {r \in m.answers :
                      /\ r.type = "CNAME" /\ r.owner \in chain
                      /\ ~HasData(m, r.target, "CNAME")}}
<1>1. m \in Message /\ ends \subseteq chain
  BY MessageFacts, ChainTarget
<1>2. Answer(m) \/ Fail("NoProgress") \/ \E x \in ends : Redirect("cname", x, m)
  BY DEF FollowCname
<1>3. QED
  BY <1>1, <1>2, AnswerChain, FailChain, RedirectChain DEF Errors

LEMMA DnameChain ==
  ASSUME RecInv, ChainInv, Resolving, NEW m \in Messages, FollowDname(m)
  PROVE  ChainInv'
<1>1. PICK d \in DnamesFor(m, Top.name) :
        LET x == Substitute(Top.name, d)
            w == [m EXCEPT !.answers = @ \cup {Cname(Top.name, x)}]
        IN  IF x = None THEN Answer([m EXCEPT !.rcode = "YXDomain"])
            ELSE IF HasData(m, x, Top.type) THEN Answer(w)
            ELSE Redirect("dname", x, w)
  BY DEF FollowDname
<1> DEFINE x == Substitute(Top.name, d)
           c == Cname(Top.name, x)
           w == [m EXCEPT !.answers = @ \cup {c}]
<1>2. m \in Message /\ Top.name \in Name
  BY MessageFacts, TopGood DEF GoodFrame, Frame
<1>3. CASE Answer([m EXCEPT !.rcode = "YXDomain"]) \/ Answer(w)
  BY <1>3, AnswerChain
<1>4. CASE x # None /\ Redirect("dname", x, w)
  <2>1. d \in RR /\ d.target \in Name /\ ZoneOf(d.owner, Top.name)
    BY MessageFacts DEF DnamesFor
  <2>2. x \in Name
    BY <1>2, <1>4, <2>1, SubstituteName
  <2>3. c \in RR /\ c.type = "CNAME" /\ c.owner = Top.name /\ c.target = x
    BY <1>2, <2>2 DEF Cname, RR, RTypes
  <2>4. IsFiniteSet(m.answers \cup {c})
    BY MessageFacts, FS_AddElement
  <2> HIDE DEF x, c
  <2>5. w \in Message /\ c \in w.answers
    BY <1>2, <2>3, <2>4 DEF Message
  <2> HIDE DEF w
  <2>6. x \in Chain(w.answers, Top.name)
    BY <2>3, <2>5, ChainStart, ChainTarget
  <2>7. QED
    BY <1>4, <2>5, <2>6, RedirectChain
<1>5. QED
  BY <1>1, <1>3, <1>4

LEMMA DescendChain ==
  ASSUME RecInv, ChainInv, Resolving, NEW f \in Frame, f.name = Top.name,
         NEW zone, NEW ips, Descend(f, zone, ips)
  PROVE  ChainInv'
<1> DEFINE g == [f EXCEPT !.pc = "query", !.servers = ips, !.lastZone = zone,
                          !.bailiwick = zone, !.cut = None, !.host = Root,
                          !.hostType = "A", !.hosts = <<>>, !.ips = {}, !.found = 0]
<1>1. NextStep(g) /\ question' = question
  BY DEF Descend
<1>2. g.name = Top.name /\ [g EXCEPT !.step = g.step + 1].name = g.name
  BY DEF Frame
<1> HIDE DEF g
<1>3. QED
  BY <1>1, <1>2, NextStepChain

LEMMA LookUpChain ==
  ASSUME RecInv, ChainInv, Resolving, NEW f \in Frame, f.name = Top.name, LookUpNext(f)
  PROVE  ChainInv'
<1> DEFINE fresh == {i \in DOMAIN f.hosts : [kind |-> "ns", name |-> f.hosts[i]] \notin visited}
           i == CHOOSE i \in fresh : \A j \in fresh : i <= j
           h == f.hosts[i]
           g == [f EXCEPT !.pc = "host", !.host = h, !.hostType = "A",
                          !.hosts = SubSeq(f.hosts, i + 1, Len(f.hosts))]
<1>1. \/ Fail("GlueResolutionFailed")
      \/ Descend(f, f.cut, f.ips)
      \/ Call(g, h, "A") /\ question' = question
  BY DEF LookUpNext
<1> HIDE DEF h, i
<1>2. g.name = Top.name /\ g.pc = "host"
  BY DEF Frame
<1> HIDE DEF g
<1>3. QED
  BY <1>1, <1>2, FailChain, DescendChain, CallChain DEF Errors

LEMMA ReferChain ==
  ASSUME RecInv, ChainInv, Resolving, NEW m \in Messages, m.ns # <<>>, Coherent(m), Refer(m)
  PROVE  ChainInv'
<1> DEFINE zone == m.ns[1].owner
           f    == [Top EXCEPT !.from = None]
           some == [i \in 1..(IF Len(m.ns) < NsTaken THEN Len(m.ns) ELSE NsTaken)
                      |-> m.ns[i].host]
           g    == [f EXCEPT !.cut = zone, !.hosts = some]
<1>1. Descend(f, zone, Glue(m)) \/ LookUpNext(g)
  BY DEF Refer
<1>2. f \in Frame /\ f.name = Top.name
  BY TopGood DEF GoodFrame, Frame
<1>3. g \in Frame /\ g.name = Top.name
  <2> DEFINE k == IF Len(m.ns) < NsTaken THEN Len(m.ns) ELSE NsTaken
             NS == [owner : Zones, host : Name]
  <2>1. m.ns \in Seq(NS) /\ \A r \in NS : r.owner \in Name /\ r.host \in Name
    BY MessageFacts, RecursorAssumption
  <2> HIDE DEF NS
  <2>2. /\ Len(m.ns) \in Nat /\ Len(m.ns) # 0
        /\ \A i \in 1..Len(m.ns) : m.ns[i].owner \in Name /\ m.ns[i].host \in Name
    BY <2>1
  <2>3. k \in Nat /\ k <= Len(m.ns)
    BY <2>2, RecursorAssumption
  <2>4. zone \in Name /\ \A i \in 1..k : m.ns[i].host \in Name
    BY <2>2, <2>3
  <2> HIDE DEF k, zone
  <2>5. [i \in 1..k |-> m.ns[i].host] \in Seq(Name)
    BY <2>3, <2>4
  <2>6. some \in Seq(Name)
    BY <2>5 DEF k
  <2> HIDE DEF some
  <2>7. QED
    BY <1>2, <2>4, <2>6 DEF Frame
<1> HIDE DEF f, g
<1>4. QED
  BY <1>1, <1>2, <1>3, DescendChain, LookUpChain

LEMMA RespondChain ==
  ASSUME RecInv, ChainInv, NEW m \in Messages, Respond(m)
  PROVE  ChainInv'
<1>1. Resolving
  BY DEF Respond
<1>2. \/ Answer(m)
      \/ FollowCname(m)
      \/ FollowDname(m)
      \/ m.ns # <<>> /\ Coherent(m) /\ Refer(m)
      \/ Fail("NoProgress")
  BY DEF Respond
<1>3. QED
  BY <1>1, <1>2, AnswerChain, CnameChain, DnameChain, ReferChain, FailChain DEF Errors

LEMMA SilenceChain ==
  ASSUME RecInv, ChainInv, Silence
  PROVE  ChainInv'
<1>1. Resolving /\ Top \in Frame
  BY TopGood DEF Silence, GoodFrame
<1>2. CASE Fail("AllNameserversFailed")
  BY <1>1, <1>2, FailChain DEF Errors
<1>3. CASE Restart
  <2> DEFINE f == [Top EXCEPT !.from = None, !.servers = Roots,
                              !.lastZone = None, !.bailiwick = Root]
  <2>1. NextStep(f) /\ question' = question
    BY <1>3 DEF Restart
  <2>2. f.name = Top.name /\ [f EXCEPT !.step = f.step + 1].name = f.name
    BY <1>1 DEF Frame
  <2> HIDE DEF f
  <2>3. QED
    BY <1>1, <2>1, <2>2, NextStepChain
<1>4. QED
  BY <1>2, <1>3 DEF Silence

\* The heart of ChainWhole: the answers of both hops are in the merged message,
\* so the alias of this frame leads into the chain of the call it made.
LEMMA ResumeChain ==
  ASSUME RecInv, ChainInv, Resume
  PROVE  ChainInv'
<1>1. /\ Resolving /\ ret \in GoodReturn /\ ret # None /\ Top \in GoodFrame /\ Top \in Frame
  BY TopGood DEF Resume, RecInv, GoodFrame
<1>2. CASE ResumeAlias
  <2> DEFINE all == Merge(Top.msg, ret.msg)
             r   == IF ret.error = None THEN Ok(all) ELSE ret
  <2>1. Leave(r) /\ question' = question /\ reached' = reached /\ Top.pc = "alias"
    BY <1>2 DEF ResumeAlias
  <2>2. ASSUME ret.error = None, OnChain
        PROVE  reached \in Chain(all.answers, Top.name)
    <3>1. \A i \in 1..Depth : stack[i].pc = "alias"
      <4>1. Depth \in Nat \ {0} /\ Top = stack[Depth]
        BY <1>1, TopGood DEF Top, Depth
      <4>2. ASSUME NEW i \in 1..Depth PROVE stack[i].pc = "alias"
        <5>1. i = Depth \/ i \in 1..(Depth - 1)
          BY <4>1
        <5>2. QED
          BY <2>1, <2>2, <4>1, <5>1 DEF OnChain
      <4>3. QED
        BY <4>2
    <3>2. PICK x \in Chain(Top.msg.answers, Top.name) : reached \in Chain(ret.msg.answers, x)
      BY <1>1, <2>2, <3>1 DEF ChainInv, Returning
    <3>3. Top.msg.answers \subseteq all.answers /\ ret.msg.answers \subseteq all.answers
      <4>1. ret.msg \in Message
        BY <1>1, <2>2 DEF GoodReturn
      <4>2. all.answers = Top.msg.answers \cup ret.msg.answers
        BY <4>1 DEF Merge, Message
      <4>3. QED
        BY <4>2
    <3> HIDE DEF all
    <3>4. QED
      BY <3>2, <3>3, ChainJoins
  <2>3. r.error = None => ret.error = None /\ r.msg = all
    BY DEF Ok
  <2> HIDE DEF r, all
  <2>4. QED
    BY <1>1, <2>1, <2>2, <2>3, LeaveChain
<1>3. CASE ResumeHost
  <2> DEFINE recs == Found(Top.hostType)
             ips  == {r.target : r \in recs}
             f    == [Top EXCEPT !.ips = @ \cup ips, !.found = @ + Cardinality(recs)]
             g    == [f EXCEPT !.hostType = "AAAA"]
  <2>1. Top.pc = "host"
    BY <1>3 DEF ResumeHost
  <2>2. ips \subseteq Addresses /\ Cardinality(recs) \in Nat
    <3>1. CASE ret.error # None
      BY <3>1, FS_EmptySet DEF Found
    <3>2. CASE ret.error = None
      <4>1. IsFiniteSet(ret.msg.answers)
        BY <1>1, <3>2 DEF GoodReturn, Message
      <4>2. recs \subseteq ret.msg.answers /\ ips \subseteq Addresses
        BY <3>2, RecursorAssumption DEF Found
      <4> HIDE DEF recs
      <4>3. QED
        BY <4>1, <4>2, FS_Subset, FS_CardinalityType
    <3>3. QED
      BY <3>1, <3>2
  <2>3. (Call(g, f.host, "AAAA") /\ question' = question) \/ LookUpNext(f)
    BY <1>3 DEF ResumeHost
  <2> HIDE DEF ips, recs
  <2>4. f \in Frame /\ f.name = Top.name /\ f.pc = "host"
    <3>1. Top.ips \cup ips \subseteq Addresses /\ Top.found + Cardinality(recs) \in Nat
      BY <1>1, <2>2 DEF Frame
    <3>2. f \in Frame
      BY <1>1, <3>1 DEF Frame
    <3>3. QED
      BY <1>1, <2>1, <3>2 DEF Frame
  <2>5. g.name = Top.name /\ g.pc = "host"
    BY <2>4 DEF Frame
  <2> HIDE DEF f, g
  <2>6. QED
    BY <1>1, <2>3, <2>4, <2>5, CallChain, LookUpChain
<1>4. QED
  BY <1>2, <1>3 DEF Resume

LEMMA ResolveChain ==
  ASSUME NEW q \in Questions, Resolve(q)
  PROVE  ChainInv'
<1> DEFINE g == NewFrame(q.name, q.type)
<1>1. stack' = <<g>> /\ ret' = None /\ question' = q /\ g.name = q.name
  BY DEF Resolve, NewFrame
<1> HIDE DEF g
<1>2. Depth' = 1 /\ stack'[1] = g
  BY <1>1 DEF Depth
<1>3. QED
  BY <1>1, <1>2 DEF ChainInv, Linked, Asked, Returning

-----------------------------------------------------------------------------
(* Theorems *)

LEMMA InitGood == Init => RecInv
<1> SUFFICES ASSUME Init PROVE RecInv
  OBVIOUS
<1>1. stack = <<>> /\ stack \in Seq(GoodFrame) /\ Len(stack) = 0
  BY DEF Init
<1>2. QED
  BY <1>1, RootName, RecursorAssumption DEF Init, RecInv, Depth

LEMMA NextGood == RecInv /\ [Next]_vars => RecInv'
<1> SUFFICES ASSUME RecInv, [Next]_vars PROVE RecInv'
  OBVIOUS
<1>1. CASE UNCHANGED vars
  BY <1>1 DEF vars, RecInv, Depth
<1>2. CASE Step
  BY <1>2, SilenceGood, ResumeGood, RespondGood DEF Step
<1>3. CASE \E q \in Questions : Resolve(q)
  BY <1>3, ResolveGood
<1>4. CASE \E z \in Zones : Expire(z) \/ Others(z)
  BY <1>4, EnvironmentGood
<1>5. QED
  BY <1>1, <1>2, <1>3, <1>4 DEF Next

LEMMA AlwaysRecInv == Spec => []RecInv
BY InitGood, NextGood, PTL DEF Spec

\* Type correctness, and no call deeper than MAX_DEPTH allows.
THEOREM RecursorTypeCorrect == Spec => []TypeOK
BY AlwaysRecInv, RecInvImplies, PTL

\* Only root servers and safe addresses are ever asked or cached.
THEOREM SafeUpstreamsHolds == Spec => []SafeUpstreams
BY AlwaysRecInv, RecInvImplies, PTL

\* The steps of a frame, counted from 0, exceed the labels of its name by at most two, so that
\* MAX_STEPS is met only by names of at least MAX_STEPS - 3 labels.
THEOREM StepsFollowLabelsHolds == Spec => []StepsFollowLabels
BY AlwaysRecInv, RecInvImplies, PTL

LEMMA InitChain == Init => ChainInv
<1> SUFFICES ASSUME Init PROVE ChainInv
  OBVIOUS
<1>1. stack = <<>> /\ Depth = 0 /\ ret = None
  BY DEF Init, Depth
<1>2. QED
  BY <1>1 DEF ChainInv, Linked, Asked, Returning, Resolving

LEMMA NextChain == RecInv /\ ChainInv /\ [Next]_vars => ChainInv'
<1> SUFFICES ASSUME RecInv, ChainInv, [Next]_vars PROVE ChainInv'
  OBVIOUS
<1>1. CASE UNCHANGED <<stack, ret, question, reached>>
  BY <1>1 DEF ChainInv, Linked, Asked, Returning, Depth, Resolving, Top
<1>2. CASE Step
  BY <1>2, SilenceChain, ResumeChain, RespondChain DEF Step
<1>3. CASE \E q \in Questions : Resolve(q)
  BY <1>3, ResolveChain
<1>4. CASE \E z \in Zones : Expire(z) \/ Others(z)
  BY <1>1, <1>4 DEF Expire, Others
<1>5. QED
  BY <1>1, <1>2, <1>3, <1>4 DEF Next, vars

LEMMA ChainInvImplies == RecInv /\ ChainInv => ChainWhole
<1> SUFFICES ASSUME RecInv, ChainInv, ~Resolving, ret # None, ret.error = None
             PROVE  reached \in Chain(ret.msg.answers, question.name)
  BY DEF ChainWhole
<1>1. \A i \in 1..Depth : stack[i].pc = "alias"
  <2>1. Depth = 0
    BY DEF Resolving, Depth
  <2>2. QED
    BY <2>1
<1>2. QED
  BY <1>1 DEF ChainInv, Returning

\* An answer put together over several calls holds the aliases from the
\* question to the name whose own answer ended the search.
THEOREM ChainWholeHolds == Spec => []ChainWhole
<1>1. Spec => [](RecInv /\ ChainInv)
  BY InitGood, NextGood, InitChain, NextChain, PTL DEF Spec
<1>2. QED
  BY <1>1, ChainInvImplies, PTL
=============================================================================
