--------------------------- MODULE UpstreamQuery ---------------------------
(***************************************************************************)
(* One question put to the name servers of a zone: the race over the       *)
(* candidate servers (query_servers_with_fallback) and the exchange with   *)
(* each of them (query_socket) of src/recursor.rs.                         *)
(*                                                                         *)
(* Candidates are tried three at a time, IPv4 first.  The attempts of a    *)
(* batch run concurrently; the first one joined with a usable answer wins  *)
(* and the others are aborted with their JoinSet.  The network is the      *)
(* environment: any attempt may receive any reply, or none.                *)
(*                                                                         *)
(* Time passes in ticks.  `left` is what remains of the timeout a wait is  *)
(* wrapped in; a wait that ends in a timeout does so when nothing is left, *)
(* before time passes on.  The stream of a retry has no timeout.           *)
(***************************************************************************)
EXTENDS Integers, FiniteSets, Sequences, Functions

CONSTANTS
  Candidates,     \* entries of `servers`
  V4,             \* those with an IPv4 address
  Safe,           \* those is_safe_upstream_ip accepts
  Replies,        \* messages a server may send: [matches, tc, rcode]
  Garbled,        \* bytes that decode_response cannot salvage
  None,           \* no message, no result
  QueryTimeout,   \* QUERY_TIMEOUT in ticks
  TcpTimeout,     \* TCP_TIMEOUT in ticks
  MaxElapsed,     \* bound of the model: `elapsed` stops counting here
  StreamsEnd      \* fairness: a peer answers or closes its TCP stream

BatchSize == 3
Usable    == {"NoError", "NXDomain"}
Reply     == [matches : BOOLEAN, tc : BOOLEAN,
              rcode : Usable \cup {"FormErr", "ServFail"}]
Got       == [msg : Reply, via : {"udp", "retry", "tcp"}]
Answer    == [server : Candidates, got : Got]

ASSUME UpstreamAssumption ==
  /\ IsFiniteSet(Candidates)
  /\ V4 \subseteq Candidates /\ Safe \subseteq Candidates
  /\ Replies \subseteq Reply
  /\ Garbled \notin Reply /\ None \notin Got \cup Answer
  /\ QueryTimeout \in Nat /\ TcpTimeout \in Nat
  /\ MaxElapsed \in Nat /\ StreamsEnd \in BOOLEAN

VARIABLES
  rest,       \* prioritized servers of the batches to come
  phase,      \* where the attempt on each candidate stands
  left,       \* ticks left of the timeout it waits in
  held,       \* the message query_socket returned, and how it came
  retried,    \* history: attempts that took the EDNS retry over TCP
  elapsed,    \* history: ticks since the batch was spawned
  over,       \* query_servers_with_fallback has returned
  result      \*   what it returned: None, or an answer and who sent it

vars == <<rest, phase, left, held, retried, elapsed, over, result>>

Waiting  == {"udp", "connect", "stream", "tcp"}
Returned == {"failed", "ok"}            \* finished, not joined yet
InSet    == {"spawned"} \cup Waiting \cup Returned
Phases   == {"idle", "joined", "aborted"} \cup InSet

JoinSet == {c \in Candidates : phase[c] \in InSet}

-----------------------------------------------------------------------------
(* query_socket *)

\* The attempt on c goes on to phase p under a timeout of t ticks.
Wait(c, p, t) ==
  /\ phase' = [phase EXCEPT ![c] = p]
  /\ left' = [left EXCEPT ![c] = t]
  /\ UNCHANGED <<rest, held, elapsed, over, result>>

Fail(c) ==
  /\ phase' = [phase EXCEPT ![c] = "failed"]
  /\ UNCHANGED <<rest, left, held, retried, elapsed, over, result>>

Deliver(c, r, how) ==
  /\ phase' = [phase EXCEPT ![c] = "ok"]
  /\ held' = [held EXCEPT ![c] = [msg |-> r, via |-> how]]
  /\ UNCHANGED <<rest, left, retried, elapsed, over, result>>

\* With a mistake: a datagram that is not ours is skipped and the wait starts anew.
ListenAgain(c, r, how) ==
  \/ ~r.matches /\ IF how = "udp" THEN Wait(c, "udp", QueryTimeout) /\ UNCHANGED retried
                                  ELSE Fail(c)
  \/ r.matches /\ r.tc /\ Wait(c, "tcp", TcpTimeout) /\ UNCHANGED retried
  \/ r.matches /\ ~r.tc /\ Deliver(c, r, how)

\* The first decoded response: wrong ID or question fails, TC asks again
\* over TCP, anything else is returned whatever its response code.
Judge(c, r, how) ==
  \/ ~r.matches /\ Fail(c)
  \/ r.matches /\ r.tc /\ Wait(c, "tcp", TcpTimeout) /\ UNCHANGED retried
  \/ r.matches /\ ~r.tc /\ Deliver(c, r, how)

\* An unsafe address is refused; bind, connect or send may fail at once.
Send(c) ==
  /\ phase[c] = "spawned"
  /\ \/ c \in Safe /\ Wait(c, "udp", QueryTimeout) /\ UNCHANGED retried
     \/ Fail(c)

\* One datagram is read.  FORMERR and garbled bytes lead to the retry.
Datagram(c) ==
  /\ phase[c] = "udp"
  /\ \E r \in Replies \cup {Garbled} :
       IF r = Garbled \/ (r # Garbled /\ r.rcode = "FormErr")
         THEN Wait(c, "connect", TcpTimeout) /\ retried' = retried \cup {c}
         ELSE Judge(c, r, "udp")

\* The retry: only its connect is under the timeout.
Connected(c) == phase[c] = "connect" /\ Wait(c, "stream", 0) /\ UNCHANGED retried

StreamReply(c) ==
  /\ phase[c] = "stream"
  /\ \/ \E r \in Replies : Judge(c, r, "retry")
     \/ Fail(c)              \* closed, bad length, garbled

\* With a mistake: the second answer is not checked again.
UncheckedTcpReply(c) ==
  /\ phase[c] = "tcp"
  /\ \E r \in Replies : Deliver(c, r, "tcp")

\* The TC fallback: connect, write and both reads share one timeout.  What
\* comes is returned even if it is truncated again.
TcpReply(c) ==
  /\ phase[c] = "tcp"
  /\ \E r \in Replies : IF r.matches THEN Deliver(c, r, "tcp") ELSE Fail(c)

\* With a mistake: no timeout around the datagram.
TcpTimeoutOnly(c) == phase[c] \in {"connect", "tcp"} /\ left[c] = 0 /\ Fail(c)

\* An I/O error ends a wait early, the timeout at its end.
Broken(c)  == phase[c] \in Waiting \ {"stream"} /\ left[c] > 0 /\ Fail(c)
Timeout(c) == phase[c] \in Waiting \ {"stream"} /\ left[c] = 0 /\ Fail(c)

-----------------------------------------------------------------------------
(* query_servers_with_fallback *)

\* Each family is shuffled, and IPv4 goes first.
Orders ==
  {s \in Bijection(1..Cardinality(Candidates), Candidates) :
     \A i, j \in DOMAIN s : i < j /\ s[j] \in V4 => s[i] \in V4}

Init ==
  /\ rest \in Orders
  /\ phase = [c \in Candidates |-> "idle"]
  /\ left = [c \in Candidates |-> 0]
  /\ held = [c \in Candidates |-> None]
  /\ retried = {}
  /\ elapsed = 0
  /\ over = FALSE
  /\ result = None

Batch(s) == {s[i] : i \in {i \in DOMAIN s : i <= BatchSize}}
\* With a mistake: one candidate falls between two batches.
AfterSkipping(s) == SubSeq(s, BatchSize + 2, Len(s))
\* With a mistake: the last candidate of a batch is the first of the next.
AfterOverlapping(s) == SubSeq(s, BatchSize, Len(s))
After(s) == SubSeq(s, BatchSize + 1, Len(s))

Spawn ==
  /\ ~over /\ JoinSet = {} /\ rest # <<>>
  /\ phase' = [c \in Candidates |-> IF c \in Batch(rest) THEN "spawned" ELSE phase[c]]
  /\ rest' = After(rest)
  /\ elapsed' = 0
  /\ UNCHANGED <<left, held, retried, over, result>>

\* An answer of NOERROR or NXDOMAIN is returned, which drops the JoinSet
\* and aborts the attempts still in it; other outcomes are passed over.
Join(c) ==
  /\ ~over /\ phase[c] \in Returned
  /\ IF phase[c] = "ok" /\ held[c].msg.rcode \in Usable
       THEN /\ over' = TRUE
            /\ result' = [server |-> c, got |-> held[c]]
            /\ phase' = [d \in Candidates |->
                           IF d = c THEN "joined"
                           ELSE IF d \in JoinSet THEN "aborted" ELSE phase[d]]
       ELSE /\ phase' = [phase EXCEPT ![c] = "joined"]
            /\ UNCHANGED <<over, result>>
  /\ UNCHANGED <<rest, left, held, retried, elapsed>>

\* No server, or none left: None.
GiveUp ==
  /\ ~over /\ JoinSet = {} /\ rest = <<>>
  /\ over' = TRUE
  /\ UNCHANGED <<rest, phase, left, held, retried, elapsed, result>>

\* Sending takes no time; neither does the expiry of a timeout.
Tick ==
  /\ \E c \in Candidates : phase[c] \in Waiting
  /\ \A c \in Candidates :
       /\ phase[c] # "spawned"
       /\ phase[c] \in Waiting \ {"stream"} => left[c] > 0
  /\ left' = [c \in Candidates |->
                IF phase[c] \in Waiting \ {"stream"} THEN left[c] - 1 ELSE left[c]]
  /\ elapsed' = IF elapsed < MaxElapsed THEN elapsed + 1 ELSE elapsed
  /\ UNCHANGED <<rest, phase, held, retried, over, result>>

Exchange(c) == Send(c) \/ Datagram(c) \/ Connected(c) \/ TcpReply(c)
               \/ Broken(c) \/ Timeout(c)
Race        == Spawn \/ GiveUp \/ \E c \in Candidates : Join(c)

Next ==
  \/ Race
  \/ Tick
  \/ \E c \in Candidates : Exchange(c) \/ StreamReply(c)

Spec == Init /\ [][Next]_vars

\* The runtime polls every attempt and every timer.  That a TCP stream ends
\* is up to the peer, and assumed only where StreamsEnd says so.
FairSpec ==
  /\ Spec
  /\ WF_vars(Race) /\ WF_vars(Tick)
  /\ \A c \in Candidates : /\ WF_vars(Send(c)) /\ WF_vars(Timeout(c))
                           /\ StreamsEnd => WF_vars(StreamReply(c))

-----------------------------------------------------------------------------
(* Properties *)

Typed ==
  /\ rest \in Seq(Candidates)
  /\ phase \in [Candidates -> Phases]
  /\ left \in [Candidates -> Nat]
  /\ held \in [Candidates -> Got \cup {None}]
  /\ retried \subseteq Candidates
  /\ elapsed \in Nat
  /\ over \in BOOLEAN
  /\ result \in Answer \cup {None}

\* The types; and `rest` holds candidates that no batch has had yet, each once, the
\* IPv4 ones first, whichever batches have ended and however.
TypeOK ==
  /\ Typed
  /\ \A i, j \in DOMAIN rest :
       i < j => rest[i] # rest[j] /\ (rest[j] \in V4 => rest[i] \in V4)
  /\ \A i \in DOMAIN rest : phase[rest[i]] = "idle"

\* Along each of the three ways a message can reach the caller (the datagram,
\* the retry, the TC fallback, each with a decoding and a check of its own):
\* the accepted answer carries our ID and question, came from an address the
\* safety filter accepts, has a usable response code, and is truncated only
\* if the TCP fallback was tried.
Accepted(a) ==
  /\ a.server \in Safe
  /\ a.got.msg.matches
  /\ a.got.msg.rcode \in Usable
  /\ a.got.msg.tc => a.got.via = "tcp"

AcceptedIsAnswer == result # None => Accepted(result)

\* The race gives up only when every candidate has been tried and joined, and
\* none of the messages they returned was usable.
GivesUpLast ==
  over /\ result = None =>
    \A c \in Candidates : /\ phase[c] = "joined"
                          /\ held[c] # None => held[c].msg.rcode \notin Usable

\* However the exchange goes, an attempt that does not enter the retry is
\* over within the two timeouts: the waits follow one another and each has
\* a timeout of its own.
AttemptBounded ==
  \A c \in Candidates :
    phase[c] \in Waiting /\ c \notin retried => elapsed <= QueryTimeout + TcpTimeout

\* Every question to a zone's servers comes to an end.
Ends == <>over

\* What README 311 promises of the TCP fallback: a transaction is bounded
\* as a whole, so that a stalled server cannot hold it.
TcpTransactionBounded ==
  \A c \in Candidates :
    phase[c] \in {"connect", "stream"} => elapsed <= QueryTimeout + TcpTimeout
=============================================================================
