------------------------------- MODULE Flood -------------------------------
(***************************************************************************)
(* What the routers promise to the applications above them: a packet that  *)
(* one of them broadcasts reaches another application at most once, never  *)
(* its own, and never after its time to live.                              *)
(***************************************************************************)
EXTENDS Naturals

CONSTANTS Nodes, Packets, Source

VARIABLES
    sent,       \* packets broadcast
    expired,    \* packets whose time to live has passed
    emitted     \* times each router emitted each packet to its application

Init ==
    /\ sent = {} /\ expired = {}
    /\ emitted = [n \in Nodes |-> [p \in Packets |-> 0]]

Send(p) ==
    /\ p \in Packets \ (sent \cup expired)
    /\ sent' = sent \cup {p}
    /\ UNCHANGED <<expired, emitted>>

Deliver(n, p) ==
    /\ p \in sent \ expired
    /\ n # Source[p] /\ emitted[n][p] = 0
    /\ emitted' = [emitted EXCEPT ![n][p] = 1]
    /\ UNCHANGED <<sent, expired>>

Expire(p) ==
    /\ expired' = expired \cup {p}
    /\ UNCHANGED <<sent, emitted>>

Next == \E p \in Packets :
    Send(p) \/ Expire(p) \/ \E n \in Nodes : Deliver(n, p)

Spec == Init /\ [][Next]_<<sent, expired, emitted>>
=============================================================================
