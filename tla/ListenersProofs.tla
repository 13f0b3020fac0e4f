-------------------------- MODULE ListenersProofs --------------------------
(***************************************************************************)
(* Theorems about Listeners, for any peers, permits and timeouts: no       *)
(* transport serves more peers than it has permits, and SlowClientsBounded.*)
(* The timers alone do not bound the silence of a peer: what has passed    *)
(* before an await began is added to it (Before).                          *)
(***************************************************************************)
EXTENDS Listeners, FiniteSetTheorems, TLAPS

Longest == Greater(HANDSHAKE, IO)

\* The longest silence with which an await can begin.
Before(s) ==
  CASE s = "length"  -> Longest
    [] s = "payload" -> Longest + IDLE
    [] OTHER         -> 0

Types ==
  /\ via \in [Clients -> Transports]
  /\ stage \in [Clients -> Stages]
  /\ waited \in [Clients -> Nat]
  /\ quiet \in [Clients -> Nat]

Timed(c) ==
  Waiting(c) => /\ waited[c] <= LimitOf(stage[c])
                /\ quiet[c] <= Before(stage[c]) + waited[c]

\* A limited transport has no more tasks than its semaphore has permits.
WithinPermits == \A k \in Limited : Cardinality(Holders(k)) <= Permits[k]

IInv == Types /\ (\A c \in Clients : Timed(c)) /\ WithinPermits

-----------------------------------------------------------------------------
(* Time *)

LEMMA Bounds ==
  /\ Longest \in Nat /\ Longest >= HANDSHAKE /\ Longest >= IO
  /\ \A s \in Awaits : LimitOf(s) \in Nat /\ Before(s) \in Nat
  /\ LimitOf("handshake") = HANDSHAKE /\ LimitOf("length") = IDLE
  /\ LimitOf("payload") = IO /\ LimitOf("write") = IO
  /\ Before("handshake") = 0 /\ Before("length") = Longest
  /\ Before("payload") = Longest + IDLE /\ Before("write") = 0
<1>1. HANDSHAKE \in Nat /\ IDLE \in Nat /\ IO \in Nat
  BY ListenersAssumption
<1>2. Longest \in Nat /\ Longest >= HANDSHAKE /\ Longest >= IO
  BY <1>1 DEF Longest, Greater
<1>. QED BY <1>1, <1>2 DEF LimitOf, Before, Awaits

\* A step of peer c alone leaves the others as they were.
LEMMA OthersTimed ==
  ASSUME Types, NEW c \in Clients, NEW d \in Clients \ {c}, Timed(d),
         NEW s, stage' = [stage EXCEPT ![c] = s], waited' = [waited EXCEPT ![c] = 0],
         quiet' = quiet \/ quiet' = [quiet EXCEPT ![c] = 0]
  PROVE  Timed(d)'
BY DEF Types, Timed, Waiting

\* Its new await begins within what Before allows.
LEMMA GoesOn ==
  ASSUME IInv, NEW c \in Clients, NEW s \in Stages, Go(c, s),
         \/ quiet' = [quiet EXCEPT ![c] = 0]
         \/ quiet' = quiet /\ (s \in Awaits => quiet[c] <= Before(s))
  PROVE  /\ \A d \in Clients : Timed(d)'
         /\ stage' \in [Clients -> Stages] /\ waited' \in [Clients -> Nat]
         /\ quiet' \in [Clients -> Nat]
<1>1. stage' = [stage EXCEPT ![c] = s] /\ waited' = [waited EXCEPT ![c] = 0]
  BY DEF Go
<1>2. Timed(c)'
  BY <1>1, Bounds DEF IInv, Types, Timed, Waiting
<1>3. \A d \in Clients \ {c} : Timed(d)'
  BY <1>1, OthersTimed DEF IInv
<1>. QED BY <1>1, <1>2, <1>3 DEF IInv, Types

LEMMA TickTimed ==
  ASSUME IInv, Tick
  PROVE  Types' /\ \A c \in Clients : Timed(c)'
<1>1. Types'
  BY DEF IInv, Types, Tick
<1>2. ASSUME NEW c \in Clients PROVE Timed(c)'
  <2>1. CASE Waiting(c)
    BY <2>1, Bounds DEF IInv, Types, Timed, Waiting, Tick
  <2>2. CASE ~Waiting(c)
    BY <2>2 DEF Timed, Waiting, Tick
  <2>. QED BY <2>1, <2>2
<1>. QED BY <1>1, <1>2

-----------------------------------------------------------------------------
(* Permits *)

LEMMA HoldersFinite == \A k : IsFiniteSet(Holders(k))
BY ListenersAssumption, FS_Subset DEF Holders

\* Who was there keeps its permit or gives it back.
LEMMA NoneAdded ==
  ASSUME WithinPermits, \A k \in Limited : Holders(k)' \subseteq Holders(k)
  PROVE  WithinPermits'
<1>1. ASSUME NEW k \in Limited PROVE Cardinality(Holders(k)') <= Permits[k]
  <2>1. Cardinality(Holders(k)') <= Cardinality(Holders(k))
    BY HoldersFinite, FS_Subset
  <2>2. Cardinality(Holders(k)') \in Nat /\ Cardinality(Holders(k)) \in Nat
    BY HoldersFinite, FS_Subset, FS_CardinalityType
  <2>. QED BY <2>1, <2>2, ListenersAssumption DEF WithinPermits
<1>. QED BY <1>1 DEF WithinPermits

\* A newcomer c takes a permit of transport t, if it is limited, only when one
\* is free.
LEMMA OneAdded ==
  ASSUME IInv, NEW c \in Clients, NEW t \in Transports, NEW s \in Stages,
         stage[c] = "away", t \in Limited /\ s # "away" => Free(t),
         via' = [via EXCEPT ![c] = t], stage' = [stage EXCEPT ![c] = s]
  PROVE  WithinPermits'
<1>1. ASSUME NEW k \in Limited PROVE Cardinality(Holders(k)') <= Permits[k]
  <2>1. CASE k = t /\ s # "away"
    <3>1. Holders(k)' = Holders(k) \cup {c} /\ c \notin Holders(k)
      BY <2>1 DEF Holders, IInv, Types
    <3>2. Cardinality(Holders(k)') = Cardinality(Holders(k)) + 1
      BY <3>1, HoldersFinite, FS_AddElement
    <3>3. Cardinality(Holders(k)) < Permits[k]
      BY <1>1, <2>1 DEF Free
    <3>. QED BY <1>1, <3>2, <3>3, HoldersFinite, FS_CardinalityType, ListenersAssumption
  <2>2. CASE ~(k = t /\ s # "away")
    <3>1. Holders(k)' = Holders(k)
      BY <2>2 DEF Holders, IInv, Types
    <3>. QED BY <3>1 DEF IInv, WithinPermits
  <2>. QED BY <2>1, <2>2
<1>. QED BY <1>1 DEF WithinPermits

\* A step of a task that is there.
LEMMA TaskGoesOn ==
  ASSUME IInv, NEW c \in Clients, NEW s \in Stages, Go(c, s), stage[c] # "away",
         via' = via,
         \/ quiet' = [quiet EXCEPT ![c] = 0]
         \/ quiet' = quiet /\ (s \in Awaits => quiet[c] <= Before(s))
  PROVE  IInv'
<1>1. \A k \in Limited : Holders(k)' \subseteq Holders(k)
  BY DEF Holders, Go, IInv, Types
<1>2. WithinPermits'
  BY <1>1, NoneAdded DEF IInv
<1>. QED BY <1>2, GoesOn DEF IInv, Types

LEMMA Arrives ==
  ASSUME IInv, NEW c \in Clients, NEW t \in Transports, NEW s \in Stages, Go(c, s),
         stage[c] = "away", t \in Limited /\ s # "away" => Free(t),
         via' = [via EXCEPT ![c] = t], quiet' = [quiet EXCEPT ![c] = 0]
  PROVE  IInv'
<1>1. WithinPermits'
  BY OneAdded DEF Go
<1>. QED BY <1>1, GoesOn DEF IInv, Types

-----------------------------------------------------------------------------
(* The steps *)

LEMMA ArriveStep ==
  ASSUME IInv, NEW c \in Clients, Arrive(c)
  PROVE  IInv'
<1>1. ASSUME NEW fits \in BOOLEAN, Datagram(c, fits) PROVE IInv'
  BY <1>1, Arrives DEF Datagram, End, Hear, Stages, Transports, Limited
<1>2. ASSUME NEW k \in {"TCP", "DoT"}, Accept(c, k) PROVE IInv'
  BY <1>2, Arrives DEF Accept, End, Hear, Stages, Awaits, Transports, Limited
<1>3. ASSUME NEW proper \in BOOLEAN, Request(c, proper) PROVE IInv'
  BY <1>3, Arrives DEF Request, End, Hear, Stages, Transports, Limited
<1>. QED BY <1>1, <1>2, <1>3 DEF Arrive

LEMMA TalkStep ==
  ASSUME IInv, NEW c \in Clients, Talk(c) \/ TimeOut(c)
  PROVE  IInv'
<1>. USE DEF Stages, Awaits
<1>1. Timed(c) /\ waited[c] \in Nat /\ quiet[c] \in Nat
  BY DEF IInv, Types
<1>2. CASE Secured(c)
  <2>1. quiet[c] <= Before("length")
    BY <1>1, <1>2, Bounds DEF Secured, Timed, Waiting
  <2>. QED BY <1>2, <2>1, TaskGoesOn DEF Secured
<1>3. ASSUME NEW fits \in BOOLEAN, Prefix(c, fits) PROVE IInv'
  <2>1. quiet[c] <= Before("payload")
    BY <1>1, <1>3, Bounds, ListenersAssumption DEF Prefix, Timed, Waiting
  <2>. QED BY <1>3, <2>1, TaskGoesOn DEF Prefix, End
<1>4. CASE Payload(c)
  BY <1>4, TaskGoesOn DEF Payload, Hear
<1>5. CASE Written(c)
  <2>1. quiet[c] <= Before("length")
    BY <1>1, <1>5, Bounds, ListenersAssumption DEF Written, Timed, Waiting
  <2>. QED BY <1>5, <2>1, TaskGoesOn DEF Written
<1>6. CASE HangUp(c) \/ TimeOut(c)
  BY <1>6, TaskGoesOn DEF HangUp, TimeOut, End, Waiting
<1>. QED BY <1>2, <1>3, <1>4, <1>5, <1>6 DEF Talk

LEMMA FinishStep ==
  ASSUME IInv, NEW c \in Clients, Finish(c)
  PROVE  IInv'
<1>. USE DEF Stages, Awaits
<1>1. PICK o \in Outcomes :
        (\E long \in BOOLEAN : Answered(c, o, long)) \/ Sent(c, o) \/ Served(c, o)
  BY DEF Finish
<1>2. ASSUME NEW long \in BOOLEAN, Answered(c, o, long) PROVE IInv'
  BY <1>2, TaskGoesOn DEF Answered, End, Hear
<1>3. CASE Sent(c, o)
  BY <1>3, TaskGoesOn DEF Sent, End
<1>4. CASE Served(c, o)
  BY <1>4, TaskGoesOn DEF Served, End
<1>. QED BY <1>1, <1>2, <1>3, <1>4

LEMMA WorldStep ==
  ASSUME IInv, Tick \/ Exit \/ UNCHANGED vars
  PROVE  IInv'
<1>1. CASE Tick
  <2>1. \A k \in Limited : Holders(k)' \subseteq Holders(k)
    BY <1>1 DEF Tick, Holders
  <2>. QED BY <1>1, <2>1, TickTimed, NoneAdded DEF IInv
<1>2. CASE Exit
  <2>1. \A k \in Limited : Holders(k)' \subseteq Holders(k)
    BY <1>2 DEF Exit, Holders
  <2>2. Types' /\ \A c \in Clients : Timed(c)'
    BY <1>2 DEF Exit, IInv, Types, Timed, Waiting, Stages, Awaits
  <2>. QED BY <2>1, <2>2, NoneAdded DEF IInv
<1>3. CASE UNCHANGED vars
  BY <1>3 DEF vars, IInv, Types, Timed, Waiting, WithinPermits, Holders
<1>. QED BY <1>1, <1>2, <1>3

LEMMA Invariance == Spec => []IInv
<1>1. Init => IInv
  <2>1. ASSUME Init PROVE Types /\ \A c \in Clients : Timed(c)
    BY <2>1 DEF Init, Types, Timed, Waiting, Stages, Awaits, Transports, Limited
  <2>2. ASSUME Init PROVE WithinPermits
    <3>1. \A k \in Limited : Holders(k) = {}
      BY <2>2 DEF Init, Holders
    <3>. QED BY <3>1, FS_EmptySet, ListenersAssumption DEF WithinPermits
  <2>. QED BY <2>1, <2>2 DEF IInv
<1>2. IInv /\ [Next]_vars => IInv'
  BY ArriveStep, TalkStep, FinishStep, WorldStep DEF Next
<1>. QED BY <1>1, <1>2, PTL DEF Spec

\* run_udp_listener, run_tcp_listener and run_dot_listener never serve more peers
\* at a time than their semaphores have permits.
THEOREM WithinPermitsHolds == Spec => []WithinPermits
<1>1. IInv => WithinPermits
  BY DEF IInv
<1>. QED BY <1>1, Invariance, PTL

\* Whatever the timeouts of handshake, reads and writes, a peer keeps a task of
\* handle_length_prefixed_stream no longer than their sum without a query or a
\* message going through.
THEOREM SlowClientsBoundedHolds == Spec => []SlowClientsBounded
<1>1. ASSUME IInv, NEW c \in Clients, Waiting(c)
      PROVE  quiet[c] <= Longest + IDLE + IO
  <2>1. Timed(c) /\ waited[c] \in Nat /\ quiet[c] \in Nat
    BY <1>1 DEF IInv, Types
  <2>2. stage[c] \in Awaits
    BY <1>1 DEF Waiting
  <2>. QED BY <1>1, <2>1, <2>2, Bounds, ListenersAssumption DEF Timed, Awaits
<1>2. IInv => SlowClientsBounded
  BY <1>1 DEF SlowClientsBounded, Longest
<1>. QED BY <1>2, Invariance, PTL
=============================================================================
