----------------------------- MODULE Listeners -----------------------------
(***************************************************************************)
(* The listeners of src/dns.rs, src/dot.rs and src/doh.rs: what happens to *)
(* a client between the socket and process_dns_query.  UDP datagrams, TCP  *)
(* and DoT connections each need a permit of their listener's semaphore;   *)
(* HTTP requests need none.  A connection is one task that handles one     *)
(* query after the other and awaits its client under a timeout.            *)
(*                                                                         *)
(* Time is counted in units; a timer that has run out fires before time    *)
(* goes on.  What process_dns_query does is the subject of Engine.         *)
(***************************************************************************)
EXTENDS Naturals, FiniteSets

CONSTANTS
  Clients,             \* peers that may talk to the server at the same time
  Permits,             \* of each limited transport
  HANDSHAKE, IDLE, IO, \* TLS_HANDSHAKE_TIMEOUT, IDLE_TIMEOUT, IO_TIMEOUT
  MaxQueries           \* bound of the model: queries sent on one connection

Limited    == {"UDP", "TCP", "DoT"}
Transports == Limited \cup {"DoH"}

ASSUME ListenersAssumption ==
  /\ IsFiniteSet(Clients)
  /\ Permits \in [Limited -> Nat \ {0}]
  /\ {HANDSHAKE, IDLE, IO, MaxQueries} \subseteq Nat \ {0}

\* ProcessOutcome; the first three carry a message.
Messages == {"Success", "ServFail", "Truncated"}
Outcomes == Messages \cup {"Dropped", "Malformed"}

\* What the client learnt last: a message, that it is cut off, nothing at all,
\* or a status other than 200.
Signs == {"message", "closed", "nothing", "400", "429", "4xx"}

VARIABLES
  up,       \* the process runs
  via,      \* the transport a client uses
  stage,    \* where its task stands, "away" if there is none
  waited,   \* time in the await at hand, when that is for the client
  told,     \* what it learnt last
  left,     \* queries it will still send on this connection
  quiet     \* history: time without a query in or a message out

vars == <<up, via, stage, waited, told, left, quiet>>

Awaits == {"handshake", "length", "payload", "write"}
Stages == {"away", "engine"} \cup Awaits

\* Mutant of LimitOf: one timeout for all that is read.
LimitOfReads(s) ==
  CASE s = "handshake" -> HANDSHAKE
    [] s = "write"     -> IO
    [] OTHER           -> IDLE

LimitOf(s) ==
  CASE s = "handshake" -> HANDSHAKE
    [] s = "length"    -> IDLE
    [] OTHER           -> IO

Waiting(c) == stage[c] \in Awaits
Holders(k) == {c \in Clients : via[c] = k /\ stage[c] # "away"}
Free(k)    == Cardinality(Holders(k)) < Permits[k]

\* The task goes on to await s.
Go(c, s) ==
  /\ stage' = [stage EXCEPT ![c] = s]
  /\ waited' = [waited EXCEPT ![c] = 0]

\* The task ends, its permit with it.
End(c, sign) ==
  /\ Go(c, "away")
  /\ told' = [told EXCEPT ![c] = sign]

Hear(c) == quiet' = [quiet EXCEPT ![c] = 0]

-----------------------------------------------------------------------------
(* New clients *)

\* recv_from; a datagram of a bad size, or without a permit, is passed over.
Datagram(c, fits) ==
  /\ up /\ stage[c] = "away"
  /\ via' = [via EXCEPT ![c] = "UDP"]
  /\ \/ /\ fits /\ Free("UDP")
        /\ Go(c, "engine")
        /\ UNCHANGED told
     \/ /\ ~fits \/ ~Free("UDP")
        /\ End(c, "nothing")
  /\ Hear(c)
  /\ UNCHANGED <<up, left>>

\* accept, over TCP or DoT; without a permit the connection is dropped.
Accept(c, k) ==
  /\ up /\ stage[c] = "away"
  /\ via' = [via EXCEPT ![c] = k]
  /\ left' = [left EXCEPT ![c] = MaxQueries]
  /\ \/ /\ Free(k)
        /\ Go(c, IF k = "DoT" THEN "handshake" ELSE "length")
        /\ UNCHANGED told
     \/ ~Free(k) /\ End(c, "closed")
  /\ Hear(c)
  /\ UNCHANGED up

\* handle_doh_get and handle_doh_post.
Request(c, proper) ==
  /\ up /\ stage[c] = "away"
  /\ via' = [via EXCEPT ![c] = "DoH"]
  /\ \/ proper /\ Go(c, "engine") /\ UNCHANGED told
     \/ ~proper /\ End(c, "4xx")
  /\ Hear(c)
  /\ UNCHANGED <<up, left>>

-----------------------------------------------------------------------------
(* handle_length_prefixed_stream *)

Secured(c) ==
  /\ stage[c] = "handshake"
  /\ Go(c, "length")
  /\ UNCHANGED <<up, via, told, left, quiet>>

\* The two octets of the length; less than a header closes the connection.
Prefix(c, fits) ==
  /\ stage[c] = "length" /\ left[c] > 0
  /\ left' = [left EXCEPT ![c] = left[c] - 1]
  /\ \/ fits /\ Go(c, "payload") /\ UNCHANGED told
     \/ ~fits /\ End(c, "closed")
  /\ UNCHANGED <<up, via, quiet>>

Payload(c) ==
  /\ stage[c] = "payload"
  /\ Go(c, "engine")
  /\ Hear(c)
  /\ UNCHANGED <<up, via, told, left>>

\* The response has left; the next query is awaited.
Written(c) ==
  /\ stage[c] = "write"
  /\ Go(c, "length")
  /\ told' = [told EXCEPT ![c] = "message"]
  /\ UNCHANGED <<up, via, left, quiet>>

\* The peer closes or breaks the connection, or the handshake fails.  A query
\* over a stream is not given up for it before the response is written; the
\* handler of an HTTP request is dropped where it awaits.
HangUp(c) ==
  /\ Waiting(c) \/ (via[c] = "DoH" /\ stage[c] = "engine")
  /\ End(c, "closed")
  /\ UNCHANGED <<up, via, left, quiet>>

\* Mutant of TimeOut: the TLS handshake is awaited without a timeout.
TimeOutSecured(c) ==
  /\ Waiting(c) /\ stage[c] # "handshake" /\ waited[c] = LimitOf(stage[c])
  /\ End(c, "closed")
  /\ UNCHANGED <<up, via, left, quiet>>

TimeOut(c) ==
  /\ Waiting(c) /\ waited[c] = LimitOf(stage[c])
  /\ End(c, "closed")
  /\ UNCHANGED <<up, via, left, quiet>>

-----------------------------------------------------------------------------
(* process_dns_query returns *)

\* A stream closes after what is not a query or too long a response, and goes
\* on after a query that the rate limiter dropped.
Answered(c, o, long) ==
  /\ stage[c] = "engine" /\ via[c] \in {"TCP", "DoT"}
  /\ \/ /\ o \in Messages /\ ~long
        /\ Go(c, "write")
        /\ UNCHANGED told
     \/ /\ o = "Malformed" \/ (o \in Messages /\ long)
        /\ End(c, "closed")
     \/ /\ o = "Dropped"
        /\ Go(c, "length")
        /\ told' = [told EXCEPT ![c] = "nothing"]
  /\ Hear(c)
  /\ UNCHANGED <<up, via, left>>

\* The task of a datagram: silence unless there is a message.
Sent(c, o) ==
  /\ stage[c] = "engine" /\ via[c] = "UDP"
  /\ End(c, IF o \in Messages THEN "message" ELSE "nothing")
  /\ UNCHANGED <<up, via, left, quiet>>

\* handle_dns_outcome: SERVFAIL and a truncated message are successes of HTTP.
Served(c, o) ==
  /\ stage[c] = "engine" /\ via[c] = "DoH"
  /\ End(c, CASE o \in Messages   -> "message"
              [] o = "Malformed" -> "400"
              [] o = "Dropped"   -> "429")
  /\ UNCHANGED <<up, via, left, quiet>>

Finish(c) ==
  \E o \in Outcomes :
    \/ \E long \in BOOLEAN : Answered(c, o, long)
    \/ Sent(c, o)
    \/ Served(c, o)

-----------------------------------------------------------------------------

Init ==
  /\ up = TRUE
  /\ via = [c \in Clients |-> "UDP"]
  /\ stage = [c \in Clients |-> "away"]
  /\ waited = [c \in Clients |-> 0]
  /\ told = [c \in Clients |-> "nothing"]
  /\ left = [c \in Clients |-> 0]
  /\ quiet = [c \in Clients |-> 0]

Tick ==
  /\ \E c \in Clients : Waiting(c)
  /\ \A c \in Clients : Waiting(c) => waited[c] < LimitOf(stage[c])
  /\ waited' = [c \in Clients |-> IF Waiting(c) THEN waited[c] + 1 ELSE waited[c]]
  /\ quiet' = [c \in Clients |-> IF Waiting(c) THEN quiet[c] + 1 ELSE quiet[c]]
  /\ UNCHANGED <<up, via, stage, told, left>>

\* After the shutdown save main returns, and the runtime drops every task.
Exit ==
  /\ up
  /\ up' = FALSE
  /\ stage' = [c \in Clients |-> "away"]
  /\ waited' = [c \in Clients |-> 0]
  /\ told' = [c \in Clients |-> IF stage[c] = "away" THEN told[c] ELSE "closed"]
  /\ UNCHANGED <<via, left, quiet>>

Arrive(c) ==
  \/ \E fits \in BOOLEAN : Datagram(c, fits)
  \/ \E k \in {"TCP", "DoT"} : Accept(c, k)
  \/ \E proper \in BOOLEAN : Request(c, proper)

Talk(c) ==
  \/ Secured(c)
  \/ \E fits \in BOOLEAN : Prefix(c, fits)
  \/ Payload(c) \/ Written(c) \/ HangUp(c)

Next ==
  \/ \E c \in Clients : Arrive(c) \/ Talk(c) \/ Finish(c) \/ TimeOut(c)
  \/ Tick
  \/ Exit

Spec == Init /\ [][Next]_vars

\* Time passes, timers fire, and process_dns_query returns: Engine's AllEnd, which
\* rests on resolutions that end and so leaves out the stalled retry that
\* TcpTransactionBounded of UpstreamQuery is about.  Clients owe nothing.
Fairness ==
  /\ WF_vars(Tick)
  /\ \A c \in Clients : WF_vars(TimeOut(c)) /\ WF_vars(Finish(c))

FairSpec == Spec /\ Fairness

-----------------------------------------------------------------------------
(* Properties *)

Greater(a, b) == IF a >= b THEN a ELSE b

\* README: "10-second idle timeout", "5-second active I/O timeout".  Each await
\* has a timer of its own, but a task that holds a permit is not kept from the
\* rest of the world by a silent or trickling peer for longer than the longest
\* way from one query to the next, at whatever pace the peer goes through it.
SlowClientsBounded ==
  \A c \in Clients : Waiting(c) => quiet[c] <= Greater(HANDSHAKE, IO) + IDLE + IO

\* README: "Tokio semaphores limit concurrent work".  Every permit comes back,
\* from a peer that goes silent at any point, fails its handshake, sends what
\* is no query or is rate limited, without any help of the peer.  A peer that
\* goes on asking in time may keep its connection; here it asks MaxQueries times.
PermitsReturn == \A c \in Clients : stage[c] # "away" ~> stage[c] = "away"
=============================================================================
