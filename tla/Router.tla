------------------------------- MODULE Router -------------------------------
(***************************************************************************)
(* The routers of a mesh (packages/transport/src/index.ts, class Router):  *)
(* each floods the packets it broadcasts and receives to its links, keeps  *)
(* a bounded set of them for links that come up later, and remembers a     *)
(* bounded number of identifiers to recognise duplicates.                  *)
(*                                                                         *)
(* A link is what module Link shows it to be: it delivers a queued packet  *)
(* any number of times until an acknowledgement arrives, in any order, and *)
(* forgets everything when it closes.  Its queue is assumed to have room.  *)
(***************************************************************************)
EXTENDS Integers, Sequences, FiniteSets, SequencesExt

CONSTANTS
    Nodes,
    Edges,          \* pairs {m, n} of nodes that can have a link
    Packets,
    Source,         \* [Packets -> Nodes]
    Priority,       \* [Packets -> 0..2], rank of sos, normal and bulk
    Created,        \* [Packets -> Nat]
    Bytes,          \* [Packets -> Nat]
    RelayOnly,      \* packets broadcast with relayOnly: inventory and seeding
    Cancellable,    \* packets the application may withdraw
    MaxHops,        \* maxHops, 12 in the code
    SeenCap,        \* identifiers remembered, 4096 in the code
    MaxRetained,    \* MAX_TRANSFERS, 64 in the code
    MaxBytes,       \* MAX_PENDING, 16 MiB in the code
    MaxLinks,       \* links of a router, 24 in the code
    Mortal,         \* packets whose time to live may run out
    Pausing,        \* routers whose owner pauses and resumes relaying
    MayDrop, MayStop  \* whether links drop and routers stop

ASSUME MeshAssumption ==
    /\ IsFiniteSet(Nodes) /\ IsFiniteSet(Packets)
    /\ \A e \in Edges : e \subseteq Nodes /\ Cardinality(e) = 2
    /\ Source \in [Packets -> Nodes]
    /\ Priority \in [Packets -> 0..2]
    /\ Created \in [Packets -> Nat]
    /\ Bytes \in [Packets -> Nat \ {0}]
    /\ RelayOnly \subseteq Packets /\ Cancellable \subseteq Packets
ASSUME CapsAssumption ==
    /\ MaxHops \in Nat \ {0} /\ SeenCap \in Nat \ {0}
    /\ MaxRetained \in Nat /\ MaxBytes \in Nat /\ MaxLinks \in Nat
    /\ Mortal \subseteq Packets /\ Pausing \subseteq Nodes
    /\ {MayDrop, MayStop} \subseteq BOOLEAN

VARIABLES
    relay,          \* router.relay
    links,          \* edges whose link is up
    pending,        \* pending[m][n]: what m's link to n has to send
    wire,           \* wire[m][n]: what is on its way from m to n
    retained,       \* what each router keeps for later links
    retainedBytes,  \* the running total it keeps of their bytes
    seen,           \* identifiers each router remembers, oldest first
    sent,           \* packets broadcast
    emitted,        \* times each router emitted each packet
    expired,        \* packets whose expires has passed
    stopped         \* routers that were stopped

vars == <<relay, links, pending, wire, retained, retainedBytes, seen, sent,
          emitted, expired, stopped>>

\* A packet with the routers it passed.
Value == [id : Packets, hops : Seq(Nodes), relayOnly : BOOLEAN]

\* Bound of the model: emissions are counted up to this.
Many == 2

\* The packets and where they are, which module RouterProofs proves correct.
CopiesTyped ==
    /\ relay \in [Nodes -> BOOLEAN]
    /\ links \subseteq Edges
    /\ pending \in [Nodes -> [Nodes -> SUBSET Value]]
    /\ wire \in [Nodes -> [Nodes -> SUBSET Value]]
    /\ retained \in [Nodes -> SUBSET Value]
    /\ sent \subseteq Packets
    /\ emitted \in [Nodes -> [Packets -> 0..Many]]
    /\ expired \subseteq Packets
    /\ stopped \subseteq Nodes
TypeOK ==
    /\ CopiesTyped
    /\ retainedBytes \in [Nodes -> Nat]
    /\ seen \in [Nodes -> Seq(Packets)]

None == [n \in Nodes |-> {}]
Init ==
    /\ relay = [n \in Nodes |-> TRUE]
    /\ links = {}
    /\ pending = [n \in Nodes |-> None]
    /\ wire = [n \in Nodes |-> None]
    /\ retained = None
    /\ retainedBytes = [n \in Nodes |-> 0]
    /\ seen = [n \in Nodes |-> <<>>]
    /\ sent = {}
    /\ emitted = [n \in Nodes |-> [p \in Packets |-> 0]]
    /\ expired = {} /\ stopped = {}

(***************************************************************************)
(* The store of retained packets                                           *)
(***************************************************************************)
Weight(S) == FoldSet(LAMBDA v, total : Bytes[v.id] + total, 0, S)
Live(S) == {v \in S : v.id \notin expired}
HasSeen(n, p) == p \in ToSet(seen[n]) \ expired

\* remember: the oldest identifier makes room.
Remember(n, p) ==
    Append(IF Len(seen[n]) >= SeenCap THEN Tail(seen[n]) ELSE seen[n], p)

\* retain: packets of the same or a lower priority make room, bulk first and
\* the oldest first among equals.
Candidates_Any(n, p) == Live(retained[n])
Candidates(n, p) == {v \in Live(retained[n]) : Priority[v.id] >= Priority[p]}
GoesBefore(v, w) ==
    \/ Priority[v.id] > Priority[w.id]
    \/ Priority[v.id] = Priority[w.id] /\ Created[v.id] < Created[w.id]
\* The running total once the expired packets and those of V are gone.
BytesWithout(n, V) == retainedBytes[n] - Weight((retained[n] \ Live(retained[n])) \cup V)
Fits(n, p, V) ==
    /\ Cardinality(Live(retained[n]) \ V) < MaxRetained
    /\ BytesWithout(n, V) + Bytes[p] <= MaxBytes
Evicts(n, p, V) ==
    /\ V \subseteq Candidates(n, p)
    /\ \A w \in V, v \in Candidates(n, p) : GoesBefore(v, w) => v \in V
    /\ Fits(n, p, V) \/ V = Candidates(n, p)
    /\ \A w \in V : (\A v \in V : ~GoesBefore(w, v)) => ~Fits(n, p, V \ {w})

\* retain(v) at n evicts V; an entry of the same identifier is overwritten.
retain(n, v, V) ==
    LET kept == Live(retained[n]) \ V
        fits == Fits(n, v.id, V)
    IN  /\ retained' = [retained EXCEPT ![n] =
                          IF fits THEN {w \in kept : w.id # v.id} \cup {v} ELSE kept]
        /\ retainedBytes' = [retainedBytes EXCEPT ![n] =
                          BytesWithout(n, V) + (IF fits THEN Bytes[v.id] ELSE 0)]

(***************************************************************************)
(* Links                                                                   *)
(***************************************************************************)
Up(m, n) == {m, n} \in links

\* Link.enqueue on the links of n to the routers To.
Enqueue(n, v, To) ==
    [m \in Nodes |-> IF /\ Up(n, m) /\ m \in To /\ v.id \notin expired
                        /\ \A w \in pending[n][m] : w.id # v.id
                     THEN pending[n][m] \cup {v} ELSE pending[n][m]]

\* The last fragment of packet p is written to the stream.
Write(m, n, p) ==
    \E v \in Live(pending[m][n]) \ wire[m][n] :
       /\ v.id = p
       /\ wire' = [wire EXCEPT ![m][n] = @ \cup {v}]
       /\ UNCHANGED <<relay, links, pending, retained, retainedBytes, seen,
                      sent, emitted, expired, stopped>>

attach_Nothing(m, n) ==
    /\ {m, n} \in Edges \ links /\ {m, n} \cap stopped = {}
    /\ links' = links \cup {{m, n}}
    /\ UNCHANGED <<relay, pending, wire, retained, retainedBytes, seen, sent,
                   emitted, expired, stopped>>

\* attach at both ends: what is retained is offered to the new link.
attach(m, n) ==
    LET Degree(k) == Cardinality({e \in links : k \in e})
        Offered(k) == {v \in Live(retained[k]) : ~v.relayOnly \/ relay[k]}
    IN  /\ {m, n} \in Edges \ links /\ {m, n} \cap stopped = {}
        /\ Degree(m) < MaxLinks /\ Degree(n) < MaxLinks
        /\ links' = links \cup {{m, n}}
        /\ pending' = [pending EXCEPT ![m][n] = Offered(m), ![n][m] = Offered(n)]
        /\ UNCHANGED <<relay, wire, retained, retainedBytes, seen, sent,
                       emitted, expired, stopped>>

\* The links of an edge set close: both ends forget what they queued.
Closed(f, E) == [m \in Nodes |-> [n \in Nodes |-> IF {m, n} \in E THEN {} ELSE f[m][n]]]
drop(m, n) ==
    /\ MayDrop /\ Up(m, n)
    /\ links' = links \ {{m, n}}
    /\ pending' = Closed(pending, {{m, n}})
    /\ wire' = Closed(wire, {{m, n}})
    /\ UNCHANGED <<relay, retained, retainedBytes, seen, sent, emitted,
                   expired, stopped>>

(***************************************************************************)
(* Packets                                                                 *)
(***************************************************************************)

\* broadcast: nothing is sent when the traffic is relayed and relaying pauses.
broadcast(p) ==
    LET n == Source[p]
        v == [id |-> p, hops |-> <<n>>, relayOnly |-> p \in RelayOnly]
    IN  /\ p \notin sent \cup expired /\ n \notin stopped
        /\ v.relayOnly => relay[n]
        /\ \E V \in SUBSET Candidates(n, p) :
              /\ Evicts(n, p, V)
              /\ retain(n, v, V)
              /\ pending' = IF Fits(n, p, V)
                            THEN [pending EXCEPT ![n] = Enqueue(n, v, Nodes)]
                            ELSE pending
        /\ seen' = [seen EXCEPT ![n] = Remember(n, p)]
        /\ sent' = sent \cup {p}
        /\ UNCHANGED <<relay, links, wire, emitted, expired, stopped>>

\* receive refuses a packet past its time to live; it is not acknowledged.
Refuse(m, n, p) ==
    \E v \in wire[m][n] :
       /\ v.id = p /\ p \in expired
       /\ wire' = [wire EXCEPT ![m][n] = @ \ {v}]
       /\ UNCHANGED <<relay, links, pending, retained, retainedBytes, seen,
                      sent, emitted, expired, stopped>>

\* Packet p arrives as v.  Its acknowledgement reaches m at once or is still
\* to come, in which case m sends the packet again.
Arrives(m, n, p, v) ==
    /\ v.id = p /\ p \notin expired
    /\ wire' = [wire EXCEPT ![m][n] = @ \ {v}]
Acked(m, n, p) == {{}, {v \in pending[m][n] : v.id = p}}
Known_HopsOnly(n, v) == n \in ToSet(v.hops)
Known(n, v) == HasSeen(n, v.id) \/ n \in ToSet(v.hops)

\* receive, a duplicate.
Duplicate(m, n, p) ==
    \E v \in wire[m][n], acked \in Acked(m, n, p) :
       /\ Known(n, v) /\ Arrives(m, n, p, v)
       /\ pending' = [pending EXCEPT ![m][n] = @ \ acked]
       /\ UNCHANGED <<relay, links, retained, retainedBytes, seen, sent,
                      emitted, expired, stopped>>

\* receive, a new packet: it is emitted, then retained and forwarded on every
\* other link unless relaying pauses or it has made all the hops it may.
receive(m, n, p) ==
    \E v \in wire[m][n], acked \in Acked(m, n, p) :
       /\ ~Known(n, v) /\ Arrives(m, n, p, v)
       /\ seen' = [seen EXCEPT ![n] = Remember(n, p)]
       /\ emitted' = [emitted EXCEPT ![n][p] = IF @ = Many THEN @ ELSE @ + 1]
       /\ LET forwarded == [id |-> p, hops |-> Append(v.hops, n), relayOnly |-> TRUE]
              rest == [pending EXCEPT ![m][n] = @ \ acked]
          IN  IF relay[n] /\ Len(v.hops) < MaxHops
              THEN \E V \in SUBSET Candidates(n, p) :
                      /\ Evicts(n, p, V)
                      /\ retain(n, forwarded, V)
                      /\ pending' = IF Fits(n, p, V)
                            THEN [rest EXCEPT ![n] = Enqueue(n, forwarded, Nodes \ {m})]
                            ELSE rest
              ELSE pending' = rest /\ UNCHANGED <<retained, retainedBytes>>
       /\ UNCHANGED <<relay, links, sent, expired, stopped>>

\* What n stores or queues.
Owns(n) == retained[n] \cup UNION {pending[n][m] : m \in Nodes}
\* The packets Gone leave the store and the links of n.
Withdraw(n, Gone) ==
    /\ retained' = [retained EXCEPT ![n] = @ \ Gone]
    /\ retainedBytes' = [retainedBytes EXCEPT ![n] = @ - Weight(retained[n] \cap Gone)]
    /\ pending' = [pending EXCEPT ![n] = [m \in Nodes |-> pending[n][m] \ Gone]]

\* The relay setter: pausing withdraws what is sent on behalf of others.
setRelay(n, enabled) ==
    /\ n \in Pausing \ stopped /\ relay[n] # enabled
    /\ relay' = [relay EXCEPT ![n] = enabled]
    /\ IF enabled THEN UNCHANGED <<retained, retainedBytes, pending>>
                  ELSE Withdraw(n, {v \in Owns(n) : v.relayOnly})
    /\ UNCHANGED <<links, wire, seen, sent, emitted, expired, stopped>>

\* cancelLocal: the application withdraws a packet of its own.
cancelLocal(p) ==
    /\ p \in sent \cap Cancellable
    /\ Withdraw(Source[p], {v \in Owns(Source[p]) : v.id = p})
    /\ UNCHANGED <<relay, links, wire, seen, sent, emitted, expired, stopped>>

\* What is left of a history without the expired, in its order (there is one
\* way to list positions in order).
Unexpired(history) ==
    LET left == {i \in DOMAIN history : history[i] \notin expired}
        InOrder == {f \in [1 .. Cardinality(left) -> left] :
                       \A i, j \in DOMAIN f : i < j => f[i] < f[j]}
    IN  {[i \in DOMAIN f |-> history[f[i]]] : f \in InOrder}

\* The 200 ms timer: what has expired is forgotten.
maintain(n) ==
    /\ ToSet(seen[n]) \cap expired # {} \/ Owns(n) # Live(Owns(n))
    /\ \E history \in Unexpired(seen[n]) : seen' = [seen EXCEPT ![n] = history]
    /\ Withdraw(n, Owns(n) \ Live(Owns(n)))
    /\ UNCHANGED <<relay, links, wire, sent, emitted, expired, stopped>>

Expire(p) ==
    /\ p \in (sent \cap Mortal) \ expired
    /\ expired' = expired \cup {p}
    /\ UNCHANGED <<relay, links, pending, wire, retained, retainedBytes, seen,
                   sent, emitted, stopped>>

stop(n) ==
    LET gone == {e \in links : n \in e}
    IN  /\ MayStop /\ n \notin stopped
        /\ stopped' = stopped \cup {n}
        /\ links' = links \ gone
        /\ pending' = Closed(pending, gone)
        /\ wire' = Closed(wire, gone)
        /\ retained' = [retained EXCEPT ![n] = {}]
        /\ retainedBytes' = [retainedBytes EXCEPT ![n] = 0]
        /\ seen' = [seen EXCEPT ![n] = <<>>]
        /\ UNCHANGED <<relay, sent, emitted, expired>>

Next ==
    \/ \E p \in Packets : broadcast(p) \/ cancelLocal(p) \/ Expire(p)
    \/ \E m, n \in Nodes : attach(m, n) \/ drop(m, n)
    \/ \E m, n \in Nodes, p \in Packets :
          Write(m, n, p) \/ receive(m, n, p) \/ Duplicate(m, n, p) \/ Refuse(m, n, p)
    \/ \E n \in Nodes : maintain(n) \/ stop(n)
    \/ \E n \in Nodes, enabled \in BOOLEAN : setRelay(n, enabled)

Spec == Init /\ [][Next]_vars

\* A link takes its transfers in turn and its reader takes every frame, so a
\* packet queued on a link that stays up is written, and one written is read;
\* connectTcp and connectSerial dial again a second after a link closes.
Fair ==
    /\ \A e \in Edges : WF_vars(\E m, n \in e : attach(m, n))
    /\ \A m \in Nodes : \A n \in {k \in Nodes : {m, k} \in Edges}, p \in Packets :
          /\ WF_vars(Write(m, n, p))
          /\ WF_vars(receive(m, n, p) \/ Duplicate(m, n, p) \/ Refuse(m, n, p))
FairSpec == Spec /\ Fair

(***************************************************************************)
(* Properties                                                              *)
(***************************************************************************)
Copies(n) == Owns(n) \cup UNION {wire[n][m] : m \in Nodes}

\* The trail of every copy a router keeps or sends is the path the packet took
\* to it: from its source, over links that exist, without passing any router
\* twice, and no longer than maxHops.  With the identifiers forgotten this is
\* all that stops a packet from circling (receive: hops.includes, maxHops).
Trail(n, v) ==
    /\ Len(v.hops) \in 1..MaxHops
    /\ v.hops[1] = Source[v.id] /\ v.hops[Len(v.hops)] = n
    /\ \A i, j \in 1..Len(v.hops) : v.hops[i] = v.hops[j] => i = j
    /\ \A i \in 1..(Len(v.hops) - 1) : {v.hops[i], v.hops[i + 1]} \in Edges
HopsSound == \A n \in Nodes : \A v \in Copies(n) : Trail(n, v)

\* A router that pauses relaying holds nothing it would send on behalf of
\* others, neither in its store nor on a link, however its links come and go
\* (the relay setter, attach, broadcast and receive).
PausedSendsNothingRelayed ==
    \A n \in Nodes : ~relay[n] =>
       \A v \in Owns(n) : ~v.relayOnly

\* retainedBytes, which decides what is admitted and evicted, is the size of
\* what is retained, through evictions, expiry, withdrawal and replacement.
RetainedBytesExact == \A n \in Nodes : retainedBytes[n] = Weight(retained[n])

\* Traffic never displaces what is more urgent: a live packet leaves the store
\* when one of its own rank or a more urgent one comes, or else because it is
\* withdrawn, relaying pauses or the router stops (retain).
UrgentIsKept ==
    [][\A n \in Nodes : \A v \in Live(retained[n]) :
          (\A w \in retained'[n] : w.id # v.id) =>
             \/ \E p \in Packets :
                   seen'[n] = Remember(n, p) /\ Priority[p] <= Priority[v.id]
             \/ v.id \in Cancellable /\ Source[v.id] = n
             \/ relay[n] /\ ~relay'[n] /\ v.relayOnly
             \/ n \in stopped']_vars

\* The routers implement the flood: no application is given a packet twice, or
\* its own packet, or one past its time to live (receive, hasSeen).  What the
\* applications see of the mesh is what was broadcast, emitted and expired.
Flooding == INSTANCE Flood WITH
    Nodes <- Nodes, Packets <- Packets, Source <- Source,
    sent <- sent, emitted <- emitted, expired <- expired
FloodSpec == Flooding!Spec

\* When the links come up for good and no router pauses, a packet reaches every
\* application or runs out of time, though the links were down when it was
\* broadcast or received (attach offers what is retained).
Delivery ==
    \A p \in Packets \ Cancellable, n \in Nodes :
       <>[](links = Edges) /\ [](\A m \in Nodes : relay[m]) =>
          (p \in sent ~> (p \in expired \/ emitted[n][p] > 0 \/ n = Source[p]))
=============================================================================
