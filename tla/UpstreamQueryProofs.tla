------------------------ MODULE UpstreamQueryProofs ------------------------
(***************************************************************************)
(* Theorems about UpstreamQuery, for any set of candidates, replies and    *)
(* timeouts: type correctness, what an accepted answer is, when the race   *)
(* gives up, and the bound on an attempt.  The proofs rest on AttemptShape:*)
(* whatever an attempt does, it enters a wait, fails, or delivers.         *)
(***************************************************************************)
EXTENDS UpstreamQuery, FiniteSetTheorems, TLAPS

USE UpstreamAssumption

\* The attempt on c enters the wait p under a timeout of t ticks.
Enters(c, p, t) ==
  /\ Wait(c, p, t)
  /\ \/ p = "udp" /\ t = QueryTimeout /\ phase[c] = "spawned" /\ c \in Safe
        /\ retried' = retried
     \/ p = "connect" /\ t = TcpTimeout /\ phase[c] = "udp"
        /\ retried' = retried \cup {c}
     \/ p = "stream" /\ t = 0 /\ phase[c] = "connect" /\ retried' = retried
     \/ p = "tcp" /\ t = TcpTimeout /\ phase[c] \in {"udp", "stream"}
        /\ retried' = retried

\* The attempt on c ends with message r, received as `how` says.
Delivers(c, r, how) ==
  /\ Deliver(c, r, how)
  /\ phase[c] \in Waiting
  /\ r.matches
  /\ r.tc => how = "tcp"

Attempt(c) == Exchange(c) \/ StreamReply(c)

-----------------------------------------------------------------------------
(* The shape of a step *)

LEMMA JudgeShape ==
  ASSUME NEW c \in Candidates, NEW r \in Replies, NEW how \in {"udp", "retry"},
         phase[c] \in {"udp", "stream"}, Judge(c, r, how)
  PROVE  Fail(c) \/ Enters(c, "tcp", TcpTimeout) \/ Delivers(c, r, how)
BY DEF Judge, Enters, Delivers, Waiting

LEMMA AttemptShape ==
  ASSUME NEW c \in Candidates, Attempt(c)
  PROVE  \/ Fail(c)
         \/ \E p \in Waiting, t \in Nat : Enters(c, p, t)
         \/ \E r \in Replies, how \in {"udp", "retry", "tcp"} : Delivers(c, r, how)
<1>1. CASE Send(c)
  BY <1>1 DEF Send, Enters, Waiting
<1>2. CASE Datagram(c)
  <2>1. PICK r \in Replies \cup {Garbled} :
          IF r = Garbled \/ (r # Garbled /\ r.rcode = "FormErr")
            THEN Wait(c, "connect", TcpTimeout) /\ retried' = retried \cup {c}
            ELSE Judge(c, r, "udp")
    BY <1>2 DEF Datagram
  <2>2. CASE r = Garbled \/ (r # Garbled /\ r.rcode = "FormErr")
    BY <1>2, <2>1, <2>2 DEF Datagram, Enters, Waiting
  <2>3. CASE ~(r = Garbled \/ (r # Garbled /\ r.rcode = "FormErr"))
    <3>1. r \in Replies /\ Judge(c, r, "udp") /\ phase[c] = "udp"
      BY <1>2, <2>1, <2>3 DEF Datagram
    <3>2. Fail(c) \/ Enters(c, "tcp", TcpTimeout) \/ Delivers(c, r, "udp")
      BY <3>1, JudgeShape
    <3>3. QED
      BY <3>1, <3>2 DEF Waiting
  <2>4. QED
    BY <2>2, <2>3
<1>3. CASE Connected(c)
  <2>1. Enters(c, "stream", 0)
    BY <1>3 DEF Connected, Enters
  <2>2. QED
    BY <2>1 DEF Waiting
<1>4. CASE StreamReply(c)
  <2>1. CASE Fail(c)
    BY <2>1
  <2>2. ASSUME NEW r \in Replies, Judge(c, r, "retry")
        PROVE  Fail(c) \/ Enters(c, "tcp", TcpTimeout) \/ Delivers(c, r, "retry")
    BY <1>4, <2>2, JudgeShape DEF StreamReply
  <2>3. QED
    BY <1>4, <2>1, <2>2 DEF StreamReply, Waiting
<1>5. CASE TcpReply(c)
  BY <1>5 DEF TcpReply, Delivers, Waiting
<1>6. CASE Broken(c) \/ Timeout(c)
  BY <1>6 DEF Broken, Timeout
<1>7. QED
  BY <1>1, <1>2, <1>3, <1>4, <1>5, <1>6 DEF Attempt, Exchange

LEMMA NextShape ==
  ASSUME [Next]_vars
  PROVE  \/ \E c \in Candidates : Attempt(c)
         \/ Spawn
         \/ \E c \in Candidates : Join(c)
         \/ GiveUp
         \/ Tick
         \/ UNCHANGED vars
BY DEF Next, Race, Attempt

-----------------------------------------------------------------------------
(* Types.  Typed needs that an attempt that ended well holds a message.   *)

HeldInv == \A c \in Candidates : phase[c] = "ok" => held[c] \in Got

Types == Typed /\ HeldInv

LEMMA InitTypes == Init => Types
<1> SUFFICES ASSUME Init PROVE Types
  OBVIOUS
<1>1. rest \in [1..Cardinality(Candidates) -> Candidates]
  BY DEF Init, Orders, Bijection, Injection
<1>2. Cardinality(Candidates) \in Nat
  BY FS_CardinalityType
<1>3. rest \in Seq(Candidates)
  BY <1>1, <1>2
<1>4. Typed
  BY <1>3 DEF Init, Typed, Phases
<1>5. HeldInv
  BY DEF Init, HeldInv
<1>6. QED
  BY <1>4, <1>5 DEF Types

LEMMA AttemptTypes ==
  ASSUME Types, NEW c \in Candidates, Attempt(c)
  PROVE  Types'
<1> USE DEF Types
<1>1. CASE Fail(c)
  BY <1>1 DEF Typed, HeldInv, Fail, Phases, InSet, Returned
<1>2. ASSUME NEW p \in Waiting, NEW t \in Nat, Enters(c, p, t)
      PROVE  Types'
  <2>1. p \in Phases /\ p # "ok"
    BY DEF Phases, InSet, Waiting
  <2>2. retried' \subseteq Candidates
    BY <1>2 DEF Enters, Typed
  <2>3. Typed'
    BY <1>2, <2>1, <2>2 DEF Typed, Enters, Wait
  <2>4. HeldInv'
    BY <1>2, <2>1 DEF Typed, HeldInv, Enters, Wait
  <2>5. QED
    BY <2>3, <2>4
<1>3. ASSUME NEW r \in Replies, NEW how \in {"udp", "retry", "tcp"}, Delivers(c, r, how)
      PROVE  Types'
  <2>1. [msg |-> r, via |-> how] \in Got
    BY DEF Got
  <2>2. "ok" \in Phases
    BY DEF Phases, InSet, Returned
  <2>3. Typed'
    BY <1>3, <2>1, <2>2 DEF Typed, Delivers, Deliver
  <2>4. HeldInv'
    BY <1>3, <2>1 DEF Typed, HeldInv, Delivers, Deliver
  <2>5. QED
    BY <2>3, <2>4
<1>4. QED
  BY <1>1, <1>2, <1>3, AttemptShape

LEMMA JoinTypes ==
  ASSUME Types, NEW c \in Candidates, Join(c)
  PROVE  Types'
<1> USE DEF Types
<1>1. CASE phase[c] = "ok" /\ held[c].msg.rcode \in Usable
  <2>1. phase' \in [Candidates -> Phases]
    BY <1>1 DEF Join, Typed, Phases
  <2>2. held[c] \in Got
    BY <1>1 DEF HeldInv
  <2>3. Typed'
    BY <1>1, <2>1, <2>2 DEF Join, Typed, Answer
  <2>4. HeldInv'
    BY <1>1 DEF Join, HeldInv, Typed
  <2>5. QED
    BY <2>3, <2>4
<1>2. CASE ~(phase[c] = "ok" /\ held[c].msg.rcode \in Usable)
  BY <1>2 DEF Join, Typed, HeldInv, Phases
<1>3. QED
  BY <1>1, <1>2

LEMMA SpawnTypes ==
  ASSUME Types, Spawn
  PROVE  Types'
<1> USE DEF Types
<1>1. rest' \in Seq(Candidates)
  <2>1. rest \in Seq(Candidates) /\ rest # <<>>
    BY DEF Typed, Spawn
  <2>2. rest' = SubSeq(rest, 4, Len(rest))
    BY DEF Spawn, After, BatchSize
  <2>3. QED
    BY <2>1, <2>2
<1>2. phase' \in [Candidates -> Phases]
  BY DEF Spawn, Typed, Phases, InSet
<1>3. Typed'
  BY <1>1, <1>2 DEF Spawn, Typed
<1>4. HeldInv'
  BY DEF Spawn, HeldInv, Typed
<1>5. QED
  BY <1>3, <1>4

LEMMA TickTypes ==
  ASSUME Types, Tick
  PROVE  Types'
<1> USE DEF Types
<1>1. left' \in [Candidates -> Nat]
  <2>1. \A c \in Candidates : phase[c] \in Waiting \ {"stream"} => left[c] - 1 \in Nat
    BY DEF Tick, Typed
  <2>2. QED
    BY <2>1 DEF Tick, Typed
<1>2. elapsed' \in Nat
  BY DEF Tick, Typed
<1>3. QED
  BY <1>1, <1>2 DEF Tick, Typed, HeldInv

LEMMA StepTypes == Types /\ [Next]_vars => Types'
<1> SUFFICES ASSUME Types, [Next]_vars PROVE Types'
  OBVIOUS
<1>1. CASE GiveUp
  BY <1>1 DEF GiveUp, Types, Typed, HeldInv
<1>2. CASE UNCHANGED vars
  BY <1>2 DEF vars, Types, Typed, HeldInv
<1>3. QED
  BY <1>1, <1>2, AttemptTypes, SpawnTypes, JoinTypes, TickTypes, NextShape

LEMMA AlwaysTypes == Spec => []Types
BY InitTypes, StepTypes, PTL DEF Spec

-----------------------------------------------------------------------------
(* The accepted answer.  What is checked at the end of an exchange stays    *)
(* true of the message until it is joined.                                 *)

AcceptInv ==
  /\ \A c \in Candidates :
       /\ phase[c] \in Waiting \cup {"ok"} => c \in Safe
       /\ phase[c] = "ok" => /\ held[c].msg.matches
                             /\ held[c].msg.tc => held[c].via = "tcp"
  /\ AcceptedIsAnswer

LEMMA AttemptAccept ==
  ASSUME Types, AcceptInv, NEW c \in Candidates, Attempt(c)
  PROVE  AcceptInv'
<1> USE DEF Types
<1>1. CASE Fail(c)
  BY <1>1 DEF AcceptInv, AcceptedIsAnswer, Accepted, Fail, Typed, Waiting
<1>2. ASSUME NEW p \in Waiting, NEW t \in Nat, Enters(c, p, t)
      PROVE  AcceptInv'
  <2>1. c \in Safe
    BY <1>2 DEF Enters, AcceptInv, Waiting
  <2>2. QED
    BY <1>2, <2>1 DEF AcceptInv, AcceptedIsAnswer, Accepted, Enters, Wait, Typed, Waiting
<1>3. ASSUME NEW r \in Replies, NEW how \in {"udp", "retry", "tcp"}, Delivers(c, r, how)
      PROVE  AcceptInv'
  <2>1. c \in Safe
    BY <1>3 DEF Delivers, AcceptInv
  <2>2. held'[c].msg = r /\ held'[c].via = how
    BY <1>3 DEF Delivers, Deliver, Typed
  <2>3. \A d \in Candidates \ {c} : phase'[d] = phase[d] /\ held'[d] = held[d]
    BY <1>3 DEF Delivers, Deliver, Typed
  <2>4. QED
    BY <1>3, <2>1, <2>2, <2>3
       DEF AcceptInv, AcceptedIsAnswer, Accepted, Delivers, Deliver
<1>4. QED
  BY <1>1, <1>2, <1>3, AttemptShape

LEMMA JoinAccept ==
  ASSUME Types, AcceptInv, NEW c \in Candidates, Join(c)
  PROVE  AcceptInv'
<1> USE DEF Types
<1>1. CASE phase[c] = "ok" /\ held[c].msg.rcode \in Usable
  <2>1. result' = [server |-> c, got |-> held[c]] /\ held' = held
    BY <1>1 DEF Join
  <2>2. AcceptedIsAnswer'
    BY <1>1, <2>1 DEF AcceptInv, AcceptedIsAnswer, Accepted
  <2>3. \A d \in Candidates : phase'[d] \in {"joined", "aborted", phase[d]}
    BY <1>1 DEF Join
  <2>4. QED
    BY <2>1, <2>2, <2>3 DEF AcceptInv, Waiting
<1>2. CASE ~(phase[c] = "ok" /\ held[c].msg.rcode \in Usable)
  BY <1>2 DEF Join, Typed, AcceptInv, AcceptedIsAnswer, Accepted, Waiting
<1>3. QED
  BY <1>1, <1>2

LEMMA StepAccept == Types /\ AcceptInv /\ [Next]_vars => AcceptInv'
<1> SUFFICES ASSUME Types, AcceptInv, [Next]_vars PROVE AcceptInv'
  OBVIOUS
<1> USE DEF AcceptInv, AcceptedIsAnswer, Accepted
<1>1. CASE Spawn
  BY <1>1 DEF Spawn, Waiting
<1>2. CASE GiveUp
  BY <1>2 DEF GiveUp
<1>3. CASE Tick
  BY <1>3 DEF Tick
<1>4. CASE UNCHANGED vars
  BY <1>4 DEF vars
<1>5. QED
  BY <1>1, <1>2, <1>3, <1>4, AttemptAccept, JoinAccept, NextShape

\* Whatever servers send, the message the race returns came from an address
\* that passed the filter, matches the question and is usable, and a
\* truncated one is returned only after the TCP fallback.
THEOREM AcceptedIsAnswerHolds == Spec => []AcceptedIsAnswer
<1>1. Init => AcceptInv
  BY DEF Init, AcceptInv, AcceptedIsAnswer, Waiting
<1>2. Spec => []AcceptInv
  BY <1>1, StepAccept, AlwaysTypes, PTL DEF Spec
<1>3. AcceptInv => AcceptedIsAnswer
  BY DEF AcceptInv
<1>4. QED
  BY <1>2, <1>3, PTL

-----------------------------------------------------------------------------
(* The bound on an attempt: what has elapsed and what is left never exceed  *)
(* the timeouts the attempt has started, and a retry is remembered.        *)

BoundInv ==
  \A c \in Candidates :
    /\ phase[c] = "spawned" => elapsed = 0
    /\ phase[c] = "udp" => elapsed + left[c] <= QueryTimeout
    /\ phase[c] = "tcp" /\ c \notin retried => elapsed + left[c] <= QueryTimeout + TcpTimeout
    /\ phase[c] \in {"connect", "stream"} => c \in retried

LEMMA AttemptBound ==
  ASSUME Types, BoundInv, NEW c \in Candidates, Attempt(c)
  PROVE  BoundInv'
<1> USE DEF Types
<1>1. CASE Fail(c)
  BY <1>1 DEF BoundInv, Fail, Typed
<1>2. ASSUME NEW p \in Waiting, NEW t \in Nat, Enters(c, p, t)
      PROVE  BoundInv'
  <2>1. /\ phase'[c] = p /\ left'[c] = t /\ elapsed' = elapsed
        /\ retried \subseteq retried'
        /\ \A d \in Candidates \ {c} : phase'[d] = phase[d] /\ left'[d] = left[d]
    BY <1>2 DEF Enters, Wait, Typed
  <2>2. elapsed \in Nat /\ left[c] \in Nat
    BY DEF Typed
  <2>3. CASE p = "udp"
    BY <1>2, <2>1, <2>2, <2>3 DEF Enters, BoundInv
  <2>4. CASE p = "connect"
    BY <1>2, <2>1, <2>4 DEF Enters, BoundInv
  <2>5. CASE p = "stream"
    BY <1>2, <2>1, <2>5 DEF Enters, BoundInv
  <2>6. CASE p = "tcp"
    <3>1. c \notin retried' => elapsed + t <= QueryTimeout + TcpTimeout
      BY <1>2, <2>1, <2>2, <2>6 DEF Enters, BoundInv
    <3>2. QED
      BY <2>1, <2>6, <3>1 DEF BoundInv
  <2>7. QED
    BY <2>3, <2>4, <2>5, <2>6 DEF Waiting
<1>3. ASSUME NEW r \in Replies, NEW how \in {"udp", "retry", "tcp"}, Delivers(c, r, how)
      PROVE  BoundInv'
  BY <1>3 DEF BoundInv, Delivers, Deliver, Typed
<1>4. QED
  BY <1>1, <1>2, <1>3, AttemptShape

LEMMA StepBound == Types /\ BoundInv /\ [Next]_vars => BoundInv'
<1> SUFFICES ASSUME Types, BoundInv, [Next]_vars PROVE BoundInv'
  OBVIOUS
<1> USE DEF Types
<1>1. CASE Spawn
  <2>1. \A c \in Candidates : phase'[c] = "spawned" \/ phase'[c] = phase[c]
    BY <1>1 DEF Spawn
  <2>2. \A c \in Candidates : phase[c] \notin InSet
    BY <1>1 DEF Spawn, JoinSet
  <2>3. elapsed' = 0
    BY <1>1 DEF Spawn
  <2>4. QED
    BY <2>1, <2>2, <2>3 DEF BoundInv, InSet, Waiting
<1>2. ASSUME NEW c \in Candidates, Join(c)
      PROVE  BoundInv'
  <2>1. \A d \in Candidates : phase'[d] \in {"joined", "aborted", phase[d]}
    BY <1>2 DEF Join, Typed
  <2>2. left' = left /\ retried' = retried /\ elapsed' = elapsed
    BY <1>2 DEF Join
  <2>3. QED
    BY <2>1, <2>2 DEF BoundInv
<1>3. CASE GiveUp
  BY <1>3 DEF GiveUp, BoundInv
<1>4. CASE Tick
  <2>1. ASSUME NEW c \in Candidates, phase[c] \in {"udp", "tcp"}
        PROVE  elapsed' + left'[c] <= elapsed + left[c]
    BY <1>4, <2>1 DEF Tick, Typed, Waiting
  <2>2. \A c \in Candidates : phase[c] # "spawned"
    BY <1>4 DEF Tick
  <2>3. phase' = phase /\ retried' = retried
    BY <1>4 DEF Tick
  <2>4. elapsed \in Nat /\ elapsed' \in Nat /\ \A c \in Candidates : left[c] \in Nat /\ left'[c] \in Int
    BY <1>4 DEF Tick, Typed
  <2>5. QED
    BY <2>1, <2>2, <2>3, <2>4 DEF BoundInv
<1>5. CASE UNCHANGED vars
  BY <1>5 DEF vars, BoundInv
<1>6. QED
  BY <1>1, <1>2, <1>3, <1>4, <1>5, AttemptBound, NextShape

\* An attempt that does not go through the retry waits no longer than the
\* datagram's timeout and one TCP timeout together.
THEOREM AttemptBoundedHolds == Spec => []AttemptBounded
<1>1. Init => BoundInv
  BY DEF Init, BoundInv
<1>2. Spec => []BoundInv
  BY <1>1, StepBound, AlwaysTypes, PTL DEF Spec
<1>3. Types /\ BoundInv => AttemptBounded
  BY DEF BoundInv, AttemptBounded, Types, Typed, Waiting
<1>4. QED
  BY <1>2, <1>3, AlwaysTypes, PTL

-----------------------------------------------------------------------------
(* Giving up: while the race runs, a candidate waits its only turn in       *)
(* `rest`, is in the JoinSet, or was joined without a usable answer.       *)

Unusable(c) == held[c] # None => held[c].msg.rcode \notin Usable

\* `rest` lists the idle candidates, each once, IPv4 first.
RestInv ==
  /\ \A i \in 1..Len(rest) : phase[rest[i]] = "idle"
  /\ \A i, j \in 1..Len(rest) : rest[i] = rest[j] => i = j
  /\ \A i, j \in 1..Len(rest) : i < j /\ rest[j] \in V4 => rest[i] \in V4
  /\ \A c \in Candidates : phase[c] = "idle" => \E i \in 1..Len(rest) : rest[i] = c

RaceInv ==
  /\ RestInv
  /\ \A c \in Candidates :
       /\ ~over => phase[c] # "aborted" /\ (phase[c] = "joined" => Unusable(c))
       /\ held[c] # None => phase[c] \in {"ok", "joined", "aborted"}
  /\ GivesUpLast
  /\ ~over => result = None

LEMMA InitRace == Init => RaceInv
<1> SUFFICES ASSUME Init PROVE RaceInv
  OBVIOUS
<1>1. /\ rest \in [1..Cardinality(Candidates) -> Candidates]
      /\ IsInjective(rest)
      /\ \A c \in Candidates : \E i \in 1..Cardinality(Candidates) : rest[i] = c
      /\ \A i, j \in 1..Cardinality(Candidates) : i < j /\ rest[j] \in V4 => rest[i] \in V4
  BY DEF Init, Orders, Bijection, Injection, Surjection
<1>2. Cardinality(Candidates) \in Nat
  BY FS_CardinalityType
<1>3. Len(rest) = Cardinality(Candidates)
  BY <1>1, <1>2
<1>4. RestInv
  BY <1>1, <1>3 DEF Init, RestInv, IsInjective
<1>5. QED
  BY <1>4 DEF Init, RaceInv, GivesUpLast, Unusable

LEMMA SpawnRace ==
  ASSUME Types, RaceInv, Spawn
  PROVE  RaceInv'
<1>1. /\ rest \in Seq(Candidates) /\ Len(rest) \in Nat /\ DOMAIN rest = 1..Len(rest)
      /\ RestInv /\ ~over
  BY DEF Types, Typed, RaceInv, Spawn
<1>2. /\ rest' = SubSeq(rest, 4, Len(rest))
      /\ Batch(rest) = {rest[i] : i \in {i \in 1..Len(rest) : i <= 3}}
  BY <1>1 DEF Spawn, After, Batch, BatchSize
<1>3. \A i \in 1..Len(rest') : i + 3 \in 1..Len(rest) /\ rest'[i] = rest[i + 3]
  BY <1>1, <1>2
<1>4. \A i \in 1..Len(rest) : i > 3 => i - 3 \in 1..Len(rest') /\ rest'[i - 3] = rest[i]
  BY <1>1, <1>2
<1>5. \A c \in Candidates : phase'[c] = IF c \in Batch(rest) THEN "spawned" ELSE phase[c]
  BY DEF Spawn
<1>6. \A c \in Batch(rest) : c \in Candidates /\ phase[c] = "idle"
  BY <1>1, <1>2 DEF RestInv
<1>7. RestInv'
  <2>1. ASSUME NEW i \in 1..Len(rest') PROVE phase'[rest'[i]] = "idle"
    <3>1. i + 3 \in 1..Len(rest) /\ rest'[i] = rest[i + 3]
      BY <1>3
    <3>2. rest[i + 3] \notin Batch(rest)
      BY <1>1, <1>2, <3>1 DEF RestInv
    <3>3. QED
      BY <1>1, <1>5, <3>1, <3>2 DEF RestInv
  <2>2. ASSUME NEW i \in 1..Len(rest'), NEW j \in 1..Len(rest'), rest'[i] = rest'[j]
        PROVE  i = j
    <3>1. /\ i + 3 \in 1..Len(rest) /\ j + 3 \in 1..Len(rest)
          /\ rest[i + 3] = rest[j + 3]
      BY <1>3, <2>2
    <3>2. i + 3 = j + 3
      BY <1>1, <3>1 DEF RestInv
    <3>3. i \in Int /\ j \in Int
      BY <1>1, <1>2
    <3>4. QED
      BY <3>2, <3>3
  <2>3. ASSUME NEW c \in Candidates, phase'[c] = "idle"
        PROVE  \E i \in 1..Len(rest') : rest'[i] = c
    <3>1. phase[c] = "idle" /\ c \notin Batch(rest)
      BY <1>5, <2>3
    <3>2. PICK i \in 1..Len(rest) : rest[i] = c
      BY <1>1, <3>1 DEF RestInv
    <3>3. i > 3
      BY <1>1, <1>2, <3>1, <3>2
    <3>4. QED
      BY <1>4, <3>2, <3>3
  <2>4. ASSUME NEW i \in 1..Len(rest'), NEW j \in 1..Len(rest'), i < j, rest'[j] \in V4
        PROVE  rest'[i] \in V4
    <3>1. /\ i + 3 \in 1..Len(rest) /\ j + 3 \in 1..Len(rest) /\ i + 3 < j + 3
          /\ rest'[i] = rest[i + 3] /\ rest'[j] = rest[j + 3]
      BY <1>1, <1>2, <1>3, <2>4
    <3>2. QED
      BY <2>4, <3>1 DEF RaceInv, RestInv
  <2>5. QED
    BY <2>1, <2>2, <2>3, <2>4 DEF RestInv
<1>8. QED
  BY <1>1, <1>5, <1>6, <1>7 DEF RaceInv, GivesUpLast, Unusable, Spawn

LEMMA AttemptRace ==
  ASSUME Types, RaceInv, NEW c \in Candidates, Attempt(c)
  PROVE  RaceInv'
<1>1. phase[c] \in {"spawned"} \cup Waiting
  BY DEF Attempt, Exchange, Send, Datagram, Connected, StreamReply, TcpReply, Broken,
         Timeout, Waiting
<1>2. /\ rest' = rest /\ over' = over /\ result' = result
      /\ \A d \in Candidates \ {c} : phase'[d] = phase[d] /\ held'[d] = held[d]
      /\ phase'[c] \notin {"idle", "joined", "aborted"}
      /\ held'[c] = held[c] \/ phase'[c] = "ok"
  <2>1. CASE Fail(c)
    BY <2>1 DEF Fail, Types, Typed
  <2>2. ASSUME NEW p \in Waiting, NEW t \in Nat, Enters(c, p, t)
        PROVE  phase'[c] = p /\ held' = held /\ rest' = rest /\ over' = over
               /\ result' = result /\ \A d \in Candidates \ {c} : phase'[d] = phase[d]
    BY <2>2 DEF Enters, Wait, Types, Typed
  <2>3. ASSUME NEW r \in Replies, NEW how \in {"udp", "retry", "tcp"}, Delivers(c, r, how)
        PROVE  /\ phase'[c] = "ok" /\ rest' = rest /\ over' = over /\ result' = result
               /\ \A d \in Candidates \ {c} : phase'[d] = phase[d] /\ held'[d] = held[d]
    BY <2>3 DEF Delivers, Deliver, Types, Typed
  <2>4. QED
    BY <2>1, <2>2, <2>3, AttemptShape DEF Waiting
<1>3. held[c] = None
  BY <1>1 DEF RaceInv, Waiting
<1>4. \A i \in 1..Len(rest) : rest[i] \in Candidates
  BY DEF Types, Typed
<1>5. RestInv'
  BY <1>1, <1>2, <1>4 DEF RaceInv, RestInv, Waiting
<1>6. GivesUpLast'
  BY <1>1, <1>2 DEF RaceInv, GivesUpLast, Waiting
<1>7. QED
  BY <1>2, <1>3, <1>5, <1>6 DEF RaceInv, Unusable

LEMMA JoinRace ==
  ASSUME Types, RaceInv, NEW c \in Candidates, Join(c)
  PROVE  RaceInv'
<1>1. CASE phase[c] = "ok" /\ held[c].msg.rcode \in Usable
  <2>1. held[c] \in Got
    BY <1>1 DEF Types, HeldInv
  <2>2. over' /\ result' # None /\ held' = held
    BY <1>1, <2>1 DEF Join, Answer
  <2>3. \A d \in Candidates : phase'[d] \in {"joined", "aborted", phase[d]}
    BY <1>1 DEF Join
  <2>4. \A d \in Candidates : phase'[d] = "idle" <=> phase[d] = "idle"
    BY <1>1 DEF Join, JoinSet, InSet, Waiting, Returned
  <2>5. rest' = rest /\ \A i \in 1..Len(rest) : rest[i] \in Candidates
    BY DEF Join, Types, Typed
  <2>6. RestInv'
    BY <2>4, <2>5 DEF RaceInv, RestInv
  <2>7. QED
    BY <2>2, <2>3, <2>6 DEF RaceInv, GivesUpLast
<1>2. CASE ~(phase[c] = "ok" /\ held[c].msg.rcode \in Usable)
  <2>1. /\ ~over /\ over' = over /\ result' = result /\ held' = held /\ rest' = rest
        /\ phase[c] \in Returned /\ phase' = [phase EXCEPT ![c] = "joined"]
    BY <1>2 DEF Join
  <2>2. Unusable(c)
    BY <1>2, <2>1 DEF RaceInv, Unusable, Returned
  <2>3. \A i \in 1..Len(rest) : rest[i] \in Candidates
    BY DEF Types, Typed
  <2>4. RestInv'
    BY <2>1, <2>3 DEF RaceInv, RestInv, Returned, Types, Typed
  <2>5. QED
    BY <2>1, <2>2, <2>4 DEF RaceInv, GivesUpLast, Unusable, Types, Typed
<1>3. QED
  BY <1>1, <1>2

LEMMA GiveUpRace ==
  ASSUME Types, RaceInv, GiveUp
  PROVE  RaceInv'
<1>1. ~over /\ rest = <<>> /\ JoinSet = {} /\ UNCHANGED <<rest, phase, held, result>> /\ over'
  BY DEF GiveUp
<1>2. \A c \in Candidates : phase[c] = "joined"
  BY <1>1 DEF RaceInv, RestInv, JoinSet, Types, Typed, Phases
<1>3. QED
  BY <1>1, <1>2 DEF RaceInv, RestInv, GivesUpLast, Unusable

LEMMA StepRace == Types /\ RaceInv /\ [Next]_vars => RaceInv'
<1> SUFFICES ASSUME Types, RaceInv, [Next]_vars PROVE RaceInv'
  OBVIOUS
<1>1. CASE Tick
  BY <1>1 DEF Tick, RaceInv, RestInv, GivesUpLast, Unusable
<1>2. CASE UNCHANGED vars
  BY <1>2 DEF vars, RaceInv, RestInv, GivesUpLast, Unusable
<1>3. QED
  BY <1>1, <1>2, AttemptRace, SpawnRace, JoinRace, GiveUpRace, NextShape

\* The race returns without an answer only after it has heard from every
\* candidate, and nothing usable.
THEOREM GivesUpLastHolds == Spec => []GivesUpLast
<1>1. Spec => []RaceInv
  BY InitRace, StepRace, AlwaysTypes, PTL DEF Spec
<1>2. RaceInv => GivesUpLast
  BY DEF RaceInv
<1>3. QED
  BY <1>1, <1>2, PTL

\* Type correctness; and through any number of batches, aborts and failures, what is
\* left to try is untouched, without repetition, and IPv4 before IPv6.
THEOREM UpstreamTypeCorrect == Spec => []TypeOK
<1>1. Spec => []RaceInv
  BY InitRace, StepRace, AlwaysTypes, PTL DEF Spec
<1>2. ASSUME Types, RaceInv PROVE TypeOK
  <2>1. DOMAIN rest = 1..Len(rest) /\ Len(rest) \in Nat
    BY <1>2 DEF Types, Typed
  <2>2. \A i, j \in DOMAIN rest : i < j => rest[i] # rest[j]
    BY <1>2, <2>1 DEF RaceInv, RestInv
  <2>3. QED
    BY <1>2, <2>1, <2>2 DEF TypeOK, Types, RaceInv, RestInv
<1>3. QED
  BY <1>1, <1>2, AlwaysTypes, PTL
=============================================================================
