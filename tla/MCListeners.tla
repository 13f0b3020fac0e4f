---------------------------- MODULE MCListeners ----------------------------
(* A small instance of Listeners: two peers, and one permit on each limited *)
(* transport, so that each of them can meet a listener without a permit.    *)
EXTENDS Listeners

CONSTANTS c1, c2

MCPermits == [k \in Limited |-> 1]
=============================================================================
