---------------------------- MODULE RouterProofs ----------------------------
(***************************************************************************)
(* Proofs about Router, for every mesh, every set of packets and every     *)
(* value of the caps.                                                      *)
(***************************************************************************)
EXTENDS Router, FiniteSetTheorems, TLAPS

(***************************************************************************)
(* Facts about the operators                                               *)
(***************************************************************************)

\* The packet that broadcast makes and the one that receive forwards.
Made(p) == [id |-> p, hops |-> <<Source[p]>>, relayOnly |-> p \in RelayOnly]
Forwarded(v, n) == [id |-> v.id, hops |-> Append(v.hops, n), relayOnly |-> TRUE]

LEMMA MadeType == ASSUME NEW p \in Packets PROVE Made(p) \in Value
<1>1. Source[p] \in Nodes
  BY MeshAssumption
<1>2. <<Source[p]>> \in Seq(Nodes)
  BY <1>1
<1> QED
  BY <1>2 DEF Made, Value

LEMMA ForwardedType ==
    ASSUME NEW n \in Nodes, NEW v \in Value PROVE Forwarded(v, n) \in Value
<1>1. v.hops \in Seq(Nodes) /\ v.id \in Packets
  BY DEF Value
<1>2. Append(v.hops, n) \in Seq(Nodes)
  BY <1>1
<1> QED
  BY <1>1, <1>2 DEF Forwarded, Value

\* retain adds at most the packet it is given.
LEMMA RetainGrows ==
    ASSUME NEW n \in Nodes, NEW v, NEW V, CopiesTyped, v \in Value, retain(n, v, V)
    PROVE  /\ retained' \in [Nodes -> SUBSET Value]
           /\ \A k \in Nodes : retained'[k] \subseteq retained[k] \cup {v}
           /\ \A k \in Nodes \ {n} : retained'[k] = retained[k]
<1>1. Live(retained[n]) \subseteq retained[n]
  BY DEF Live
<1>2. retained \in [Nodes -> SUBSET Value]
  BY DEF CopiesTyped
<1> DEFINE S == IF Fits(n, v.id, V)
                THEN {w \in Live(retained[n]) \ V : w.id # v.id} \cup {v}
                ELSE Live(retained[n]) \ V
<1>3. S \subseteq retained[n] \cup {v}
  BY <1>1
<1>4. retained' = [retained EXCEPT ![n] = S]
  BY DEF retain
<1> HIDE DEF S
<1> QED
  BY <1>2, <1>3, <1>4

\* Enqueue adds at most the packet it is given, and only on links that are up.
LEMMA EnqueueGrows ==
    ASSUME NEW n \in Nodes, NEW v \in Value, NEW To, CopiesTyped
    PROVE  /\ Enqueue(n, v, To) \in [Nodes -> SUBSET Value]
           /\ \A m \in Nodes :
                 /\ Enqueue(n, v, To)[m] \subseteq pending[n][m] \cup {v}
                 /\ ~Up(n, m) => Enqueue(n, v, To)[m] = pending[n][m]
<1>1. \A m \in Nodes : pending[n][m] \in SUBSET Value
  BY DEF CopiesTyped
<1> QED
  BY <1>1 DEF Enqueue

(***************************************************************************)
(* The strengthening: every copy has a sound trail, is on a link that is   *)
(* up, and is not one that a paused router holds for others.               *)
(***************************************************************************)
Sound(n, v) == Trail(n, v) /\ (relay[n] \/ ~v.relayOnly)
IInv ==
    /\ CopiesTyped
    /\ \A n \in Nodes : \A v \in retained[n] : Sound(n, v)
    /\ \A n, m \in Nodes : \A v \in pending[n][m] : Sound(n, v) /\ Up(n, m)
    /\ \A n, m \in Nodes : \A v \in wire[n][m] : Trail(n, v) /\ Up(n, m)

\* A packet starts its trail at its source.
LEMMA MadeTrail == ASSUME NEW p \in Packets PROVE Trail(Source[p], Made(p))
<1>1. Source[p] \in Nodes
  BY MeshAssumption
<1> QED
  BY <1>1, CapsAssumption DEF Made, Trail

\* A router that has not passed the packet extends its trail by one hop.
LEMMA ForwardedTrail ==
    ASSUME NEW m \in Nodes, NEW n \in Nodes, NEW v \in Value, {m, n} \in Edges,
           Trail(m, v), n \notin ToSet(v.hops), Len(v.hops) < MaxHops
    PROVE  Trail(n, Forwarded(v, n))
<1> DEFINE h == v.hops
           g == Append(h, n)
<1>1. h \in Seq(Nodes) /\ Len(h) \in Nat /\ Len(h) >= 1
  BY DEF Value, Trail
<1>2. Len(g) = Len(h) + 1 /\ g[Len(h) + 1] = n
      /\ \A i \in 1..Len(h) : g[i] = h[i]
  BY <1>1
<1>3. \A i \in 1..Len(h) : h[i] # n
  BY <1>1 DEF ToSet
<1>4. h[1] = Source[v.id] /\ h[Len(h)] = m
      /\ (\A i, j \in 1..Len(h) : h[i] = h[j] => i = j)
      /\ \A i \in 1..(Len(h) - 1) : {h[i], h[i + 1]} \in Edges
  BY DEF Trail
<1>5. Len(g) \in 1..MaxHops
  BY <1>1, <1>2, CapsAssumption
<1>6. g[1] = Source[v.id] /\ g[Len(g)] = n
  BY <1>1, <1>2, <1>4
<1>7. \A i, j \in 1..Len(g) : g[i] = g[j] => i = j
  BY <1>1, <1>2, <1>3, <1>4
<1>8. \A i \in 1..(Len(g) - 1) : {g[i], g[i + 1]} \in Edges
  <2> SUFFICES ASSUME NEW i \in 1..Len(h) PROVE {g[i], g[i + 1]} \in Edges
    BY <1>1, <1>2
  <2>1. CASE i = Len(h)
    BY <2>1, <1>1, <1>2, <1>4
  <2>2. CASE i # Len(h)
    <3>1. i \in 1..(Len(h) - 1) /\ i + 1 \in 1..Len(h)
      BY <2>2, <1>1
    <3> QED
      BY <3>1, <1>2, <1>4
  <2> QED
    BY <2>1, <2>2
<1>9. Forwarded(v, n).hops = g /\ Forwarded(v, n).id = v.id
  BY DEF Forwarded
<1> HIDE DEF g
<1> QED
  BY <1>5, <1>6, <1>7, <1>8, <1>9 DEF Trail
(***************************************************************************)
(* Each action preserves it                                                *)
(***************************************************************************)

\* A step that only loses copies, on links that stay up if any copy does.
LEMMA ShrinkStep ==
    ASSUME IInv, CopiesTyped', relay' = relay,
           \A n \in Nodes : retained'[n] \subseteq retained[n],
           \A n, m \in Nodes :
              /\ pending'[n][m] \subseteq pending[n][m] /\ wire'[n][m] \subseteq wire[n][m]
              /\ pending'[n][m] # {} \/ wire'[n][m] # {} => ({n, m} \in links => {n, m} \in links')
    PROVE  IInv'
  BY DEF IInv, Sound, Up

\* Withdraw, and what it leaves.
LEMMA WithdrawShrinks ==
    ASSUME CopiesTyped, NEW k \in Nodes, NEW Gone, Withdraw(k, Gone)
    PROVE  /\ retained' \in [Nodes -> SUBSET Value]
           /\ pending' \in [Nodes -> [Nodes -> SUBSET Value]]
           /\ \A n \in Nodes : retained'[n] \subseteq retained[n]
           /\ \A n, m \in Nodes : pending'[n][m] \subseteq pending[n][m]
           /\ retained'[k] = retained[k] \ Gone
           /\ \A m \in Nodes : pending'[k][m] = pending[k][m] \ Gone
           /\ \A n \in Nodes \ {k} : retained'[n] = retained[n] /\ pending'[n] = pending[n]
<1> DEFINE f == [m \in Nodes |-> pending[k][m] \ Gone]
<1>1. f \in [Nodes -> SUBSET Value]
  BY DEF CopiesTyped
<1>2. retained' = [retained EXCEPT ![k] = retained[k] \ Gone] /\ pending' = [pending EXCEPT ![k] = f]
  BY DEF Withdraw
<1>3. retained \in [Nodes -> SUBSET Value] /\ pending \in [Nodes -> [Nodes -> SUBSET Value]]
  BY DEF CopiesTyped
<1>4. \A m \in Nodes : f[m] = pending[k][m] \ Gone
  OBVIOUS
<1> HIDE DEF f
<1> QED
  BY <1>1, <1>2, <1>3, <1>4

\* Closing links.
LEMMA ClosedShrinks ==
    ASSUME NEW f \in [Nodes -> [Nodes -> SUBSET Value]], NEW E
    PROVE  /\ Closed(f, E) \in [Nodes -> [Nodes -> SUBSET Value]]
           /\ \A n, m \in Nodes :
                 /\ Closed(f, E)[n][m] \subseteq f[n][m]
                 /\ {n, m} \in E => Closed(f, E)[n][m] = {}
  BY DEF Closed

LEMMA StepDrop == ASSUME IInv, NEW k \in Nodes, NEW l \in Nodes, drop(k, l) PROVE IInv'
<1>1. CopiesTyped
  BY DEF IInv
<1>2. pending' = Closed(pending, {{k, l}}) /\ wire' = Closed(wire, {{k, l}})
      /\ links' = links \ {{k, l}}
      /\ UNCHANGED <<relay, retained, sent, emitted, expired, stopped>>
  BY DEF drop
<1>3. CopiesTyped'
  BY <1>1, <1>2, ClosedShrinks DEF CopiesTyped
<1>4. \A n, m \in Nodes :
         /\ pending'[n][m] \subseteq pending[n][m] /\ wire'[n][m] \subseteq wire[n][m]
         /\ pending'[n][m] # {} \/ wire'[n][m] # {} => {n, m} # {k, l}
  <2>1. pending \in [Nodes -> [Nodes -> SUBSET Value]] /\ wire \in [Nodes -> [Nodes -> SUBSET Value]]
    BY <1>1 DEF CopiesTyped
  <2>2. \A n, m \in Nodes : /\ pending'[n][m] \subseteq pending[n][m]
                            /\ {n, m} \in {{k, l}} => pending'[n][m] = {}
    <3>1. pending' = Closed(pending, {{k, l}})
      BY <1>2
    <3> QED
      BY <2>1, <3>1, ClosedShrinks
  <2>3. \A n, m \in Nodes : /\ wire'[n][m] \subseteq wire[n][m]
                            /\ {n, m} \in {{k, l}} => wire'[n][m] = {}
    <3>1. wire' = Closed(wire, {{k, l}})
      BY <1>2
    <3> QED
      BY <2>1, <3>1, ClosedShrinks
  <2> TAKE n, m \in Nodes
  <2>4. pending'[n][m] \subseteq pending[n][m] /\ wire'[n][m] \subseteq wire[n][m]
    BY <2>2, <2>3
  <2>5. CASE {n, m} = {k, l}
    <3>1. {n, m} \in {{k, l}}
      BY <2>5
    <3> QED
      BY <2>2, <2>3, <2>4, <3>1
  <2>6. CASE {n, m} # {k, l}
    BY <2>4, <2>6
  <2> QED
    BY <2>5, <2>6
<1> QED
  BY <1>2, <1>3, <1>4, ShrinkStep

LEMMA StepStop == ASSUME IInv, NEW k \in Nodes, stop(k) PROVE IInv'
<1> DEFINE gone == {e \in links : k \in e}
<1>1. CopiesTyped
  BY DEF IInv
<1>2. pending' = Closed(pending, gone) /\ wire' = Closed(wire, gone)
      /\ links' = links \ gone /\ retained' = [retained EXCEPT ![k] = {}]
      /\ stopped' = stopped \cup {k}
      /\ UNCHANGED <<relay, sent, emitted, expired>>
  BY DEF stop
<1> HIDE DEF gone
<1>3. CopiesTyped'
  BY <1>1, <1>2, ClosedShrinks DEF CopiesTyped
<1>4. \A n, m \in Nodes :
         /\ pending'[n][m] \subseteq pending[n][m] /\ wire'[n][m] \subseteq wire[n][m]
         /\ pending'[n][m] # {} \/ wire'[n][m] # {} => {n, m} \notin gone
  <2>1. pending \in [Nodes -> [Nodes -> SUBSET Value]] /\ wire \in [Nodes -> [Nodes -> SUBSET Value]]
    BY <1>1 DEF CopiesTyped
  <2>2. \A n, m \in Nodes : /\ pending'[n][m] \subseteq pending[n][m]
                            /\ {n, m} \in gone => pending'[n][m] = {}
    <3>1. pending' = Closed(pending, gone)
      BY <1>2
    <3> QED
      BY <2>1, <3>1, ClosedShrinks
  <2>3. \A n, m \in Nodes : /\ wire'[n][m] \subseteq wire[n][m]
                            /\ {n, m} \in gone => wire'[n][m] = {}
    <3>1. wire' = Closed(wire, gone)
      BY <1>2
    <3> QED
      BY <2>1, <3>1, ClosedShrinks
  <2> TAKE n, m \in Nodes
  <2>4. pending'[n][m] \subseteq pending[n][m] /\ wire'[n][m] \subseteq wire[n][m]
    BY <2>2, <2>3
  <2>5. CASE {n, m} \in gone
    BY <2>2, <2>3, <2>4, <2>5
  <2>6. CASE {n, m} \notin gone
    BY <2>4, <2>6
  <2> QED
    BY <2>5, <2>6
<1>5. \A n \in Nodes : retained'[n] \subseteq retained[n]
  BY <1>1, <1>2 DEF CopiesTyped
<1> QED
  BY <1>2, <1>3, <1>4, <1>5, ShrinkStep

LEMMA StepWithdraw ==
    ASSUME IInv, NEW k \in Nodes, NEW Gone, Withdraw(k, Gone),
           UNCHANGED <<relay, links, wire, sent, emitted, expired, stopped>>
    PROVE  IInv'
<1>1. CopiesTyped
  BY DEF IInv
<1>2. CopiesTyped'
  BY <1>1, WithdrawShrinks DEF CopiesTyped
<1> QED
  BY <1>1, <1>2, WithdrawShrinks, ShrinkStep

\* Pausing leaves at the router only what it sends for itself.
LEMMA StepRelay ==
    ASSUME IInv, NEW k \in Nodes, NEW enabled \in BOOLEAN, setRelay(k, enabled)
    PROVE  IInv'
<1>1. CopiesTyped /\ relay \in [Nodes -> BOOLEAN]
  BY DEF IInv, CopiesTyped
<1>2. relay' = [relay EXCEPT ![k] = enabled]
      /\ UNCHANGED <<links, wire, sent, emitted, expired, stopped>>
  BY DEF setRelay
<1>3. CASE enabled
  <2>1. UNCHANGED <<retained, pending>>
    BY <1>3 DEF setRelay
  <2>2. \A n \in Nodes : relay[n] => relay'[n]
    BY <1>1, <1>2, <1>3
  <2> QED
    BY <1>1, <1>2, <2>1, <2>2 DEF IInv, CopiesTyped, Sound, Up
<1>4. CASE ~enabled
  <2> DEFINE Gone == {v \in Owns(k) : v.relayOnly}
  <2>1. Withdraw(k, Gone)
    BY <1>4 DEF setRelay
  <2>2. /\ \A v \in retained[k] \ Gone : ~v.relayOnly
        /\ \A m \in Nodes : \A v \in pending[k][m] \ Gone : ~v.relayOnly
    BY DEF Owns
  <2> HIDE DEF Gone
  <2>3. CopiesTyped'
    BY <1>1, <1>2, <2>1, WithdrawShrinks DEF CopiesTyped
  <2>4. \A n \in Nodes \ {k} : relay'[n] = relay[n]
    BY <1>1, <1>2
  <2>5. \A n \in Nodes : \A v \in retained'[n] : Sound(n, v)'
    BY <1>1, <2>1, <2>2, <2>4, WithdrawShrinks DEF IInv, Sound
  <2>6. \A n, m \in Nodes : \A v \in pending'[n][m] : Sound(n, v)' /\ Up(n, m)'
    BY <1>1, <1>2, <2>1, <2>2, <2>4, WithdrawShrinks DEF IInv, Sound, Up
  <2> QED
    BY <1>2, <2>3, <2>5, <2>6 DEF IInv, Up
<1> QED
  BY <1>3, <1>4
\* Writing one entry of a table of sets.
LEMMA Entry ==
    ASSUME NEW f \in [Nodes -> [Nodes -> SUBSET Value]],
           NEW k \in Nodes, NEW l \in Nodes, NEW x \in SUBSET Value
    PROVE  /\ [f EXCEPT ![k][l] = x] \in [Nodes -> [Nodes -> SUBSET Value]]
           /\ \A n, m \in Nodes :
                 [f EXCEPT ![k][l] = x][n][m] = IF n = k /\ m = l THEN x ELSE f[n][m]
  OBVIOUS

\* Writing one row of it.
LEMMA Row ==
    ASSUME NEW f \in [Nodes -> [Nodes -> SUBSET Value]],
           NEW k \in Nodes, NEW x \in [Nodes -> SUBSET Value]
    PROVE  /\ [f EXCEPT ![k] = x] \in [Nodes -> [Nodes -> SUBSET Value]]
           /\ \A n, m \in Nodes :
                 [f EXCEPT ![k] = x][n][m] = IF n = k THEN x[m] ELSE f[n][m]
  OBVIOUS

\* What is offered to a new link was kept for it, and a paused router offers
\* only what is its own.
LEMMA StepAttach ==
    ASSUME IInv, NEW k \in Nodes, NEW l \in Nodes, attach(k, l) PROVE IInv'
<1> DEFINE Offered(n) == {v \in Live(retained[n]) : ~v.relayOnly \/ relay[n]}
<1>1. CopiesTyped /\ pending \in [Nodes -> [Nodes -> SUBSET Value]]
  BY DEF IInv, CopiesTyped
<1>2. links' = links \cup {{k, l}} /\ {k, l} \in Edges
      /\ pending' = [pending EXCEPT ![k][l] = Offered(k), ![l][k] = Offered(l)]
      /\ UNCHANGED <<relay, wire, retained, sent, emitted, expired, stopped>>
  BY DEF attach
<1>3. \A n \in Nodes : Offered(n) \in SUBSET Value /\ \A v \in Offered(n) : Sound(n, v)
  BY <1>1 DEF IInv, CopiesTyped, Live
<1> HIDE DEF Offered
<1>4. pending' \in [Nodes -> [Nodes -> SUBSET Value]]
      /\ \A n, m \in Nodes :
            \/ pending'[n][m] = pending[n][m]
            \/ pending'[n][m] = Offered(n) /\ {n, m} = {k, l}
  <2> DEFINE g == [pending EXCEPT ![k][l] = Offered(k)]
  <2>1. g \in [Nodes -> [Nodes -> SUBSET Value]]
        /\ \A n, m \in Nodes : g[n][m] = IF n = k /\ m = l THEN Offered(k) ELSE pending[n][m]
    BY <1>1, <1>3, Entry
  <2>2. pending' = [g EXCEPT ![l][k] = Offered(l)]
    BY <1>2
  <2> HIDE DEF g
  <2>3. pending' \in [Nodes -> [Nodes -> SUBSET Value]]
        /\ \A n, m \in Nodes : pending'[n][m] = IF n = l /\ m = k THEN Offered(l) ELSE g[n][m]
    <3> DEFINE x == Offered(l)
    <3>1. x \in SUBSET Value /\ pending' = [g EXCEPT ![l][k] = x]
      BY <1>3, <2>2
    <3> HIDE DEF x
    <3>2. /\ [g EXCEPT ![l][k] = x] \in [Nodes -> [Nodes -> SUBSET Value]]
          /\ \A n, m \in Nodes :
                [g EXCEPT ![l][k] = x][n][m] = IF n = l /\ m = k THEN x ELSE g[n][m]
      BY <2>1, <3>1, Entry
    <3> QED
      BY <3>1, <3>2 DEF x
  <2> QED
    BY <2>1, <2>3
<1>5. CopiesTyped'
  BY <1>1, <1>2, <1>4 DEF CopiesTyped
<1>6. \A n, m \in Nodes : \A v \in pending'[n][m] : Sound(n, v)' /\ Up(n, m)'
  BY <1>2, <1>3, <1>4 DEF IInv, Sound, Up
<1> QED
  BY <1>2, <1>5, <1>6 DEF IInv, Sound, Up

LEMMA StepWrite ==
    ASSUME IInv, NEW k \in Nodes, NEW l \in Nodes, NEW p \in Packets, Write(k, l, p)
    PROVE  IInv'
<1>1. PICK v \in pending[k][l] : wire' = [wire EXCEPT ![k][l] = @ \cup {v}]
  BY DEF Write, Live
<1>2. UNCHANGED <<relay, links, pending, retained, sent, emitted, expired, stopped>>
  BY DEF Write
<1>3. /\ CopiesTyped /\ wire \in [Nodes -> [Nodes -> SUBSET Value]]
      /\ v \in Value /\ Trail(k, v) /\ Up(k, l)
  BY DEF IInv, CopiesTyped, Sound
<1>4. wire' \in [Nodes -> [Nodes -> SUBSET Value]]
      /\ \A n, m \in Nodes : \A w \in wire'[n][m] :
            w \in wire[n][m] \/ (w = v /\ n = k /\ m = l)
  BY <1>1, <1>3
<1>5. CopiesTyped'
  BY <1>2, <1>3, <1>4 DEF CopiesTyped
<1> QED
  BY <1>2, <1>3, <1>4, <1>5 DEF IInv, Sound, Up

\* A frame that is read and left at that: refused, or a duplicate.
LEMMA StepRead ==
    ASSUME IInv, NEW k \in Nodes, NEW l \in Nodes, NEW p \in Packets,
           Refuse(k, l, p) \/ Duplicate(k, l, p)
    PROVE  IInv'
<1>1. /\ \E v \in wire[k][l] : wire' = [wire EXCEPT ![k][l] = @ \ {v}]
      /\ \E acked : pending' = [pending EXCEPT ![k][l] = @ \ acked]
      /\ UNCHANGED <<relay, links, retained, sent, emitted, expired, stopped>>
  <2>1. CASE Refuse(k, l, p)
    <3>1. pending' = [pending EXCEPT ![k][l] = @ \ {}]
      BY <2>1 DEF Refuse, IInv, CopiesTyped
    <3> QED
      BY <2>1, <3>1 DEF Refuse
  <2>2. CASE Duplicate(k, l, p)
    BY <2>2 DEF Duplicate, Arrives
  <2> QED
    BY <2>1, <2>2
<1>2. CopiesTyped /\ pending \in [Nodes -> [Nodes -> SUBSET Value]]
      /\ wire \in [Nodes -> [Nodes -> SUBSET Value]]
  BY DEF IInv, CopiesTyped
<1>3. /\ pending' \in [Nodes -> [Nodes -> SUBSET Value]]
      /\ \A n, m \in Nodes : pending'[n][m] \subseteq pending[n][m]
  BY <1>1, <1>2
<1>4. /\ wire' \in [Nodes -> [Nodes -> SUBSET Value]]
      /\ \A n, m \in Nodes : wire'[n][m] \subseteq wire[n][m]
  BY <1>1, <1>2
<1>5. CopiesTyped'
  BY <1>1, <1>2, <1>3, <1>4 DEF CopiesTyped
<1> QED
  BY <1>1, <1>3, <1>4, <1>5, ShrinkStep

\* Storing and queueing one more packet with a sound trail.
LEMMA GrowStep ==
    ASSUME IInv, CopiesTyped', UNCHANGED <<relay, links>>, NEW k \in Nodes, NEW v,
           Sound(k, v),
           \A n \in Nodes : \A w \in retained'[n] : w \in retained[n] \/ (n = k /\ w = v),
           \A n, m \in Nodes : \A w \in pending'[n][m] :
              w \in pending[n][m] \/ (n = k /\ w = v /\ Up(n, m)),
           \A n, m \in Nodes : wire'[n][m] \subseteq wire[n][m]
    PROVE  IInv'
<1>1. relay' = relay /\ links' = links
  OBVIOUS
<1>2. \A n \in Nodes : \A w \in retained'[n] : Sound(n, w)
  BY DEF IInv
<1>3. \A n, m \in Nodes : \A w \in pending'[n][m] : Sound(n, w) /\ Up(n, m)
  BY DEF IInv
<1>4. \A n, m \in Nodes : \A w \in wire'[n][m] : Trail(n, w) /\ Up(n, m)
  BY DEF IInv
<1> QED
  BY <1>1, <1>2, <1>3, <1>4 DEF IInv, Sound, Up

LEMMA StepBroadcast ==
    ASSUME IInv, NEW p \in Packets, broadcast(p) PROVE IInv'
<1> DEFINE k == Source[p]
           v == Made(p)
<1>1. PICK V \in SUBSET Candidates(k, p) :
         /\ retain(k, v, V)
         /\ \/ pending' = [pending EXCEPT ![k] = Enqueue(k, v, Nodes)]
            \/ pending' = pending
  BY DEF broadcast, Made
<1>2. (v.relayOnly => relay[k]) /\ sent' = sent \cup {p}
      /\ UNCHANGED <<relay, links, wire, emitted, expired, stopped>>
  BY DEF broadcast, Made
<1>3. k \in Nodes /\ v \in Value /\ Trail(k, v)
  BY MeshAssumption, MadeType, MadeTrail
<1> HIDE DEF v, k
<1>4. CopiesTyped /\ pending \in [Nodes -> [Nodes -> SUBSET Value]]
  BY DEF IInv, CopiesTyped
<1>5. /\ retained' \in [Nodes -> SUBSET Value]
      /\ \A n \in Nodes : \A w \in retained'[n] : w \in retained[n] \/ (n = k /\ w = v)
  BY <1>1, <1>3, <1>4, RetainGrows
<1>6. /\ pending' \in [Nodes -> [Nodes -> SUBSET Value]]
      /\ \A n, m \in Nodes : \A w \in pending'[n][m] :
            w \in pending[n][m] \/ (n = k /\ w = v /\ Up(n, m))
  <2>1. /\ Enqueue(k, v, Nodes) \in [Nodes -> SUBSET Value]
        /\ \A m \in Nodes :
              /\ Enqueue(k, v, Nodes)[m] \subseteq pending[k][m] \cup {v}
              /\ ~Up(k, m) => Enqueue(k, v, Nodes)[m] = pending[k][m]
    BY <1>3, <1>4, EnqueueGrows
  <2> QED
    BY <1>1, <1>3, <1>4, <2>1
<1>7. CopiesTyped'
  BY <1>2, <1>4, <1>5, <1>6 DEF CopiesTyped
<1>8. Sound(k, v) /\ \A n, m \in Nodes : wire'[n][m] \subseteq wire[n][m]
  BY <1>2, <1>3 DEF Sound
<1> QED
  BY <1>2, <1>3, <1>5, <1>6, <1>7, <1>8, GrowStep
LEMMA StepReceive ==
    ASSUME IInv, NEW k \in Nodes, NEW l \in Nodes, NEW p \in Packets, receive(k, l, p)
    PROVE  IInv'
<1>1. CopiesTyped /\ pending \in [Nodes -> [Nodes -> SUBSET Value]]
      /\ wire \in [Nodes -> [Nodes -> SUBSET Value]]
      /\ emitted \in [Nodes -> [Packets -> 0..Many]]
  BY DEF IInv, CopiesTyped
<1>2. PICK v \in wire[k][l], acked \in Acked(k, l, p) :
         /\ ~Known(l, v) /\ v.id = p
         /\ wire' = [wire EXCEPT ![k][l] = @ \ {v}]
         /\ emitted' = [emitted EXCEPT ![l][p] = IF @ = Many THEN @ ELSE @ + 1]
         /\ LET rest == [pending EXCEPT ![k][l] = @ \ acked]
            IN  \/ /\ relay[l] /\ Len(v.hops) < MaxHops
                   /\ \E V : retain(l, Forwarded(v, l), V)
                   /\ \/ pending' = [rest EXCEPT ![l] = Enqueue(l, Forwarded(v, l), Nodes \ {k})]
                      \/ pending' = rest
                \/ pending' = rest /\ retained' = retained
         /\ UNCHANGED <<relay, links, sent, expired, stopped>>
  BY DEF receive, Arrives, Forwarded
<1> DEFINE rest == [pending EXCEPT ![k][l] = @ \ acked]
           f == Forwarded(v, l)
<1>3. v \in Value /\ Trail(k, v) /\ {k, l} \in Edges /\ l \notin ToSet(v.hops)
  <2>1. v \in Value
    BY <1>1, <1>2
  <2>2. Trail(k, v) /\ Up(k, l)
    BY <1>2 DEF IInv
  <2>3. l \notin ToSet(v.hops)
    BY <1>2 DEF Known
  <2> QED
    BY <1>1, <2>1, <2>2, <2>3 DEF Up, CopiesTyped
<1>4. f \in Value
  BY <1>3, ForwardedType
<1>5. /\ rest \in [Nodes -> [Nodes -> SUBSET Value]]
      /\ \A n, m \in Nodes : rest[n][m] \subseteq pending[n][m]
  BY <1>1
<1>6. /\ wire' \in [Nodes -> [Nodes -> SUBSET Value]]
      /\ \A n, m \in Nodes : wire'[n][m] \subseteq wire[n][m]
  BY <1>1, <1>2
<1>7. emitted' \in [Nodes -> [Packets -> 0..Many]]
  <2>1. emitted[l] \in [Packets -> 0..Many] /\ emitted[l][p] \in 0..Many
    BY <1>1
  <2>2. (IF emitted[l][p] = Many THEN emitted[l][p] ELSE emitted[l][p] + 1) \in 0..Many
    BY <2>1 DEF Many
  <2> QED
    BY <1>1, <1>2, <2>1, <2>2
<1>8. CASE pending' = rest /\ retained' = retained
  <2>1. CopiesTyped'
    BY <1>1, <1>2, <1>5, <1>6, <1>7, <1>8 DEF CopiesTyped
  <2> HIDE DEF rest
  <2> QED
    BY <1>2, <1>5, <1>6, <1>8, <2>1, ShrinkStep
<1>9. CASE /\ relay[l] /\ Len(v.hops) < MaxHops
           /\ \E V : retain(l, f, V)
           /\ \/ pending' = [rest EXCEPT ![l] = Enqueue(l, f, Nodes \ {k})]
              \/ pending' = rest
  <2> HIDE DEF f, rest
  <2>1. /\ retained' \in [Nodes -> SUBSET Value]
        /\ \A n \in Nodes : \A w \in retained'[n] : w \in retained[n] \/ (n = l /\ w = f)
    BY <1>1, <1>4, <1>9, RetainGrows
  <2>2. /\ Enqueue(l, f, Nodes \ {k}) \in [Nodes -> SUBSET Value]
        /\ \A m \in Nodes :
              /\ Enqueue(l, f, Nodes \ {k})[m] \subseteq pending[l][m] \cup {f}
              /\ ~Up(l, m) => Enqueue(l, f, Nodes \ {k})[m] = pending[l][m]
    BY <1>1, <1>4, EnqueueGrows
  <2>3. /\ pending' \in [Nodes -> [Nodes -> SUBSET Value]]
        /\ \A n, m \in Nodes : \A w \in pending'[n][m] :
              w \in pending[n][m] \/ (n = l /\ w = f /\ Up(n, m))
    <3>1. CASE pending' = rest
      BY <1>5, <3>1
    <3>2. CASE pending' = [rest EXCEPT ![l] = Enqueue(l, f, Nodes \ {k})]
      <4> DEFINE x == Enqueue(l, f, Nodes \ {k})
      <4>1. /\ x \in [Nodes -> SUBSET Value] /\ pending' = [rest EXCEPT ![l] = x]
            /\ \A m \in Nodes : \A w \in x[m] :
                  w \in pending[l][m] \/ (w = f /\ Up(l, m))
        BY <2>2, <3>2
      <4> HIDE DEF x
      <4>2. /\ [rest EXCEPT ![l] = x] \in [Nodes -> [Nodes -> SUBSET Value]]
            /\ \A n, m \in Nodes :
                  [rest EXCEPT ![l] = x][n][m] = IF n = l THEN x[m] ELSE rest[n][m]
        BY <1>5, <4>1, Row
      <4> QED
        BY <1>5, <4>1, <4>2
    <3> QED
      BY <1>9, <3>1, <3>2
  <2>4. Sound(l, f)
    BY <1>3, <1>9, ForwardedTrail DEF Sound, f
  <2>5. CopiesTyped'
    BY <1>1, <1>2, <1>6, <1>7, <2>1, <2>3 DEF CopiesTyped
  <2> QED
    BY <1>2, <1>6, <2>1, <2>3, <2>4, <2>5, GrowStep
<1> QED
  BY <1>2, <1>8, <1>9

(***************************************************************************)
(* The theorems                                                            *)
(***************************************************************************)

\* Every router has its history.
HistoryOfAll == DOMAIN seen = Nodes
LEMMA Histories == Spec => []HistoryOfAll
<1>1. Init => HistoryOfAll
  BY DEF Init, HistoryOfAll
<1>2. HistoryOfAll /\ [Next]_vars => HistoryOfAll'
  <2> SUFFICES ASSUME HistoryOfAll, [Next]_vars PROVE HistoryOfAll'
    OBVIOUS
  <2>1. \/ seen' = seen
        \/ \E n, x : seen' = [seen EXCEPT ![n] = x]
    <3>1. ASSUME NEW p \in Packets, broadcast(p) PROVE <2>1!2
      BY <3>1 DEF broadcast
    <3>2. ASSUME NEW m \in Nodes, NEW n \in Nodes, NEW p \in Packets, receive(m, n, p)
          PROVE  <2>1!2
      BY <3>2 DEF receive
    <3>3. ASSUME NEW n \in Nodes, maintain(n) \/ stop(n) PROVE <2>1!2
      BY <3>3 DEF maintain, stop
    <3>4. ASSUME NEW n \in Nodes, NEW b \in BOOLEAN, setRelay(n, b) PROVE seen' = seen
      BY <3>4 DEF setRelay
    <3>5. ASSUME NEW m \in Nodes, NEW n \in Nodes, attach(m, n) \/ drop(m, n)
          PROVE  seen' = seen
      BY <3>5 DEF attach, drop
    <3>6. ASSUME NEW m \in Nodes, NEW n \in Nodes, NEW p \in Packets,
                 Write(m, n, p) \/ Duplicate(m, n, p) \/ Refuse(m, n, p)
          PROVE  seen' = seen
      BY <3>6 DEF Write, Duplicate, Refuse
    <3>7. ASSUME NEW p \in Packets, cancelLocal(p) \/ Expire(p) PROVE seen' = seen
      BY <3>7 DEF cancelLocal, Expire
    <3> QED
      BY <3>1, <3>2, <3>3, <3>4, <3>5, <3>6, <3>7 DEF Next, vars
  <2> QED
    BY <2>1 DEF HistoryOfAll
<1> QED
  BY <1>1, <1>2, PTL DEF Spec

LEMMA Invariant == Spec => []IInv
<1>1. Init => IInv
  BY DEF Init, None, IInv, CopiesTyped, Many
<1>2. IInv /\ [Next]_vars => IInv'
  <2> SUFFICES ASSUME IInv, [Next]_vars PROVE IInv'
    OBVIOUS
  <2>1. ASSUME NEW p \in Packets, cancelLocal(p) PROVE IInv'
    BY <2>1, MeshAssumption, StepWithdraw DEF cancelLocal
  <2>2. ASSUME NEW p \in Packets, Expire(p) PROVE IInv'
    <3>1. CopiesTyped'
      BY <2>2 DEF Expire, IInv, CopiesTyped
    <3> QED
      BY <2>2, <3>1, ShrinkStep DEF Expire
  <2>3. ASSUME NEW n \in Nodes, maintain(n) PROVE IInv'
    BY <2>3, StepWithdraw DEF maintain
  <2>4. CASE UNCHANGED vars
    BY <2>4 DEF vars, IInv, CopiesTyped, Sound, Up
  <2> QED
    BY <2>1, <2>2, <2>3, <2>4, StepBroadcast, StepAttach, StepDrop, StepWrite,
       StepReceive, StepRead, StepStop, StepRelay DEF Next
<1> QED
  BY <1>1, <1>2, PTL DEF Spec

\* What the routers store, queue and send is always well formed.
THEOREM CopiesCorrect == Spec => []CopiesTyped
<1>1. IInv => CopiesTyped
  BY DEF IInv
<1> QED
  BY <1>1, Invariant, PTL

\* No packet ever passes a router twice, leaves the links of the mesh, or goes
\* further than maxHops, even once its identifier has been forgotten.
THEOREM HopsCorrect == Spec => []HopsSound
<1>1. IInv => HopsSound
  BY DEF IInv, HopsSound, Copies, Owns, Sound
<1> QED
  BY <1>1, Invariant, PTL

\* A router that pauses relaying never offers what it holds for others.
THEOREM PauseCorrect == Spec => []PausedSendsNothingRelayed
<1>1. IInv => PausedSendsNothingRelayed
  BY DEF IInv, PausedSendsNothingRelayed, Owns, Sound
<1> QED
  BY <1>1, Invariant, PTL

\* No packet ever makes room for a less urgent one.
THEOREM UrgentKept == Spec => UrgentIsKept
<1> DEFINE Gone(n, v) == \A w \in retained'[n] : w.id # v.id
           Excused(n, v) == \/ \E p \in Packets :
                                  seen'[n] = Remember(n, p) /\ Priority[p] <= Priority[v.id]
                            \/ v.id \in Cancellable /\ Source[v.id] = n
                            \/ relay[n] /\ ~relay'[n] /\ v.relayOnly
                            \/ n \in stopped'
           Kept == \A n \in Nodes : \A v \in Live(retained[n]) : Gone(n, v) => Excused(n, v)
<1>1. IInv /\ HistoryOfAll /\ [Next]_vars => [Kept]_vars
  <2> SUFFICES ASSUME IInv, HistoryOfAll, Next, NEW n \in Nodes, NEW v \in Live(retained[n]), Gone(n, v)
               PROVE  Excused(n, v)
    BY DEF Kept
  <2>1. retained \in [Nodes -> SUBSET Value] /\ v \in retained[n] /\ v.id \notin expired
    BY DEF IInv, CopiesTyped, Live
  <2>2. v \notin retained'[n] /\ retained' # retained
    BY <2>1
  <2> USE DEF HistoryOfAll
  <2>3. ASSUME NEW k \in Nodes, NEW p \in Packets, NEW w, NEW V \in SUBSET Candidates(k, p),
               retain(k, w, V), w.id = p, seen' = [seen EXCEPT ![k] = Remember(k, p)]
        PROVE  Excused(n, v)
    <3>1. n = k
      BY <2>1, <2>2, <2>3 DEF retain
    <3>2. CASE v \in V
      <4>1. Priority[v.id] >= Priority[p]
        BY <2>3, <3>1, <3>2 DEF Candidates
      <4>2. v.id \in Packets /\ Priority[v.id] \in 0..2 /\ Priority[p] \in 0..2
        BY <2>1, MeshAssumption DEF Value
      <4> QED
        BY <2>3, <3>1, <4>1, <4>2
    <3>3. CASE v \notin V
      <4> DEFINE kept == Live(retained[n]) \ V
      <4>1. retained'[n] = IF Fits(n, p, V) THEN {u \in kept : u.id # p} \cup {w} ELSE kept
        BY <2>1, <2>3, <3>1 DEF retain
      <4>2. v \in kept
        BY <3>3
      <4> QED
        BY <2>3, <4>1, <4>2
    <3> QED
      BY <3>2, <3>3
  <2>4. ASSUME NEW p \in Packets, broadcast(p) PROVE Excused(n, v)
    <3>1. /\ \E V \in SUBSET Candidates(Source[p], p) : retain(Source[p], Made(p), V)
          /\ seen' = [seen EXCEPT ![Source[p]] = Remember(Source[p], p)]
      BY <2>4 DEF broadcast, Made
    <3>2. Source[p] \in Nodes /\ Made(p).id = p
      BY MeshAssumption DEF Made
    <3> QED
      BY <2>3, <3>1, <3>2
  <2>5. ASSUME NEW k \in Nodes, NEW l \in Nodes, NEW p \in Packets, receive(k, l, p)
        PROVE  Excused(n, v)
    <3>1. PICK u \in wire[k][l] :
             /\ u.id = p /\ seen' = [seen EXCEPT ![l] = Remember(l, p)]
             /\ \/ \E V \in SUBSET Candidates(l, p) : retain(l, Forwarded(u, l), V)
                \/ retained' = retained
      BY <2>5 DEF receive, Arrives, Forwarded
    <3>2. Forwarded(u, l).id = p
      BY <3>1 DEF Forwarded
    <3> QED
      BY <2>2, <2>3, <3>1, <3>2
  <2>6. ASSUME NEW p \in Packets, cancelLocal(p) PROVE Excused(n, v)
    BY <2>1, <2>2, <2>6 DEF cancelLocal, Withdraw
  <2>7. ASSUME NEW k \in Nodes, maintain(k) PROVE Excused(n, v)
    BY <2>1, <2>2, <2>7 DEF maintain, Withdraw, Live, Owns
  <2>8. ASSUME NEW k \in Nodes, stop(k) PROVE Excused(n, v)
    BY <2>1, <2>2, <2>8 DEF stop
  <2>9. ASSUME NEW k \in Nodes, NEW enabled \in BOOLEAN, setRelay(k, enabled)
        PROVE  Excused(n, v)
    BY <2>1, <2>2, <2>9 DEF setRelay, Withdraw, IInv, CopiesTyped
  <2>10. ASSUME NEW k \in Nodes, NEW l \in Nodes, attach(k, l) \/ drop(k, l) PROVE FALSE
    BY <2>2, <2>10 DEF attach, drop
  <2>11. ASSUME NEW k \in Nodes, NEW l \in Nodes, NEW p \in Packets,
                Write(k, l, p) \/ Duplicate(k, l, p) \/ Refuse(k, l, p)
         PROVE  FALSE
    BY <2>2, <2>11 DEF Write, Duplicate, Refuse
  <2>12. ASSUME NEW p \in Packets, Expire(p) PROVE FALSE
    BY <2>2, <2>12 DEF Expire
  <2> QED
    BY <2>4, <2>5, <2>6, <2>7, <2>8, <2>9, <2>10, <2>11, <2>12 DEF Next
<1> QED
  BY <1>1, Invariant, Histories, PTL DEF Spec, UrgentIsKept

(***************************************************************************)
(* The flood                                                               *)
(***************************************************************************)

\* A history names packets that were sent, each once,
Recalls(history) ==
    /\ history \in Seq(Packets) /\ ToSet(history) \subseteq sent
    /\ \A i, j \in DOMAIN history : history[i] = history[j] => i = j

\* nothing is under way that was not sent, a router that stopped has no links,
\* and one that runs remembers what it emitted, until that expires.
Remembered ==
    /\ seen \in [Nodes -> Seq(Packets)]
    /\ \A n \in Nodes : Recalls(seen[n])
    /\ \A e \in links : e \cap stopped = {}
    /\ \A n \in Nodes : \A v \in retained[n] : v.id \in sent
    /\ \A n, m \in Nodes : \A v \in pending[n][m] \cup wire[n][m] : v.id \in sent
    /\ \A n \in Nodes \ stopped, p \in Packets \ expired :
          emitted[n][p] # 0 => p \in ToSet(seen[n])

LEMMA UpTo == ASSUME NEW k \in Nat PROVE IsFiniteSet(1 .. k) /\ Cardinality(1 .. k) = k
  BY FS_Interval

\* A history without repetitions is no longer than there are packets.
LEMMA HistoryBound ==
    ASSUME NEW history \in Seq(Packets), NEW p \in Packets, p \notin ToSet(history),
           \A i, j \in DOMAIN history : history[i] = history[j] => i = j
    PROVE  Len(history) < Cardinality(Packets)
<1> DEFINE S == 1 .. Len(history)
           T == Packets \ {p}
<1>1. IsFiniteSet(S) /\ Cardinality(S) = Len(history) /\ Len(history) \in Nat
  <2>1. Len(history) \in Nat
    OBVIOUS
  <2> QED
    BY <2>1, UpTo
<1>2. IsFiniteSet(T) /\ Cardinality(T) = Cardinality(Packets) - 1 /\ Cardinality(Packets) \in Nat
  BY MeshAssumption, FS_RemoveElement, FS_CardinalityType
<1>3. history \in [S -> T]
  BY DEF ToSet
<1>4. ~\E x, y \in S : x # y /\ history[x] = history[y]
  OBVIOUS
<1>5. ~(Cardinality(T) < Cardinality(S))
  <2> HIDE DEF S, T
  <2> QED
    BY <1>1, <1>2, <1>3, <1>4, FS_PigeonHole
<1> QED
  BY <1>1, <1>2, <1>5

\* With room for all packets a router forgets none for a new one.
LEMMA RememberAll ==
    ASSUME Cardinality(Packets) <= SeenCap, NEW n \in Nodes, Recalls(seen[n]),
           NEW p \in Packets, p \notin ToSet(seen[n])
    PROVE  LET h == Remember(n, p)
           IN  /\ h \in Seq(Packets) /\ ToSet(h) = ToSet(seen[n]) \cup {p}
               /\ \A i, j \in DOMAIN h : h[i] = h[j] => i = j
<1> DEFINE s == seen[n]
<1>1. s \in Seq(Packets) /\ \A i, j \in DOMAIN s : s[i] = s[j] => i = j
  BY DEF Recalls
<1>2. Len(s) < SeenCap
  <2>1. Len(s) < Cardinality(Packets) /\ Len(s) \in Nat
    BY <1>1, HistoryBound
  <2>2. Cardinality(Packets) \in Nat
    BY MeshAssumption, FS_CardinalityType
  <2> QED
    BY <2>1, <2>2, CapsAssumption
<1>3. Remember(n, p) = Append(s, p)
  BY <1>1, <1>2, CapsAssumption DEF Remember
<1> DEFINE h == Append(s, p)
<1>4. /\ h \in Seq(Packets) /\ Len(h) = Len(s) + 1 /\ h[Len(s) + 1] = p
      /\ \A i \in 1 .. Len(s) : h[i] = s[i]
  BY <1>1
<1>5. \A i \in 1 .. Len(s) : s[i] # p
  BY <1>1 DEF ToSet
<1> HIDE DEF h
<1>6. \A i, j \in DOMAIN h : h[i] = h[j] => i = j
  BY <1>1, <1>4, <1>5
<1>7. ToSet(h) = ToSet(s) \cup {p}
  <2> DEFINE k == Len(s)
  <2>1. k \in Nat /\ DOMAIN s = 1 .. k /\ DOMAIN h = 1 .. k + 1
    BY <1>1, <1>4
  <2>2. 1 .. k + 1 = 1 .. k \cup {k + 1}
    <3> HIDE DEF k
    <3> QED
      BY <2>1
  <2>3. ToSet(h) = {h[i] : i \in 1 .. k} \cup {h[k + 1]}
    BY <2>1, <2>2 DEF ToSet
  <2>4. {h[i] : i \in 1 .. k} = {s[i] : i \in 1 .. k}
    BY <1>4
  <2> QED
    BY <1>4, <2>1, <2>3, <2>4 DEF ToSet
<1> QED
  BY <1>3, <1>4, <1>6, <1>7 DEF h

\* The timer forgets exactly the expired.
LEMMA UnexpiredLeft ==
    ASSUME NEW s \in Seq(Packets), NEW h \in Unexpired(s),
           \A i, j \in DOMAIN s : s[i] = s[j] => i = j
    PROVE  /\ h \in Seq(Packets) /\ ToSet(h) = ToSet(s) \ expired
           /\ \A i, j \in DOMAIN h : h[i] = h[j] => i = j
<1> DEFINE left == {i \in DOMAIN s : s[i] \notin expired}
           c == Cardinality(left)
<1>1. /\ left \subseteq 1 .. Len(s) /\ IsFiniteSet(left) /\ c \in Nat
      /\ \A i \in left : s[i] \in Packets \ expired
  <2>1. left \subseteq 1 .. Len(s) /\ \A i \in left : s[i] \in Packets \ expired
    OBVIOUS
  <2>2. IsFiniteSet(1 .. Len(s))
    BY UpTo
  <2> HIDE DEF left
  <2> QED
    BY <2>1, <2>2, FS_Subset, FS_CardinalityType
<1>2. PICK f \in [1 .. c -> left] :
         /\ h = [i \in DOMAIN f |-> s[f[i]]]
         /\ \A i, j \in DOMAIN f : i < j => f[i] < f[j]
  BY DEF Unexpired
<1>3. \A i, j \in 1 .. c : f[i] = f[j] => i = j
  <2> SUFFICES ASSUME NEW i \in 1 .. c, NEW j \in 1 .. c, i # j PROVE f[i] # f[j]
    OBVIOUS
  <2>1. i < j \/ j < i
    BY <1>1
  <2>2. f[i] \in Int /\ f[j] \in Int
    BY <1>1, <1>2
  <2> HIDE DEF left, c
  <2> QED
    BY <1>2, <2>1, <2>2
<1>4. \A k \in left : \E i \in 1 .. c : f[i] = k
  <2>1. IsFiniteSet(1 .. c) /\ Cardinality(1 .. c) = c
    BY <1>1, FS_Interval
  <2>2. f \in Injection(1 .. c, left)
    BY <1>2, <1>3 DEF Injection, IsInjective
  <2>3. f \in Surjection(1 .. c, left)
    <3> HIDE DEF left
    <3> QED
      BY <1>1, <2>1, <2>2, FS_Injection
  <2> QED
    BY <2>3 DEF Surjection
<1>5. h \in [1 .. c -> Packets] /\ \A i \in 1 .. c : h[i] = s[f[i]] /\ f[i] \in left
  BY <1>1, <1>2
<1>6. h \in Seq(Packets) /\ DOMAIN h = 1 .. c
  BY <1>1, <1>5
<1>7. \A i, j \in DOMAIN h : h[i] = h[j] => i = j
  BY <1>1, <1>3, <1>5, <1>6
<1>8. ToSet(h) = ToSet(s) \ expired
  <2>1. ToSet(h) = {h[i] : i \in 1 .. c}
    BY <1>6 DEF ToSet
  <2>2. ToSet(s) \ expired = {s[k] : k \in left}
    BY DEF ToSet
  <2> HIDE DEF left, c
  <2> QED
    BY <1>4, <1>5, <2>1, <2>2
<1> QED
  BY <1>6, <1>7, <1>8

\* A step that moves no packet but those sent before, and changes no history.
LEMMA QuietStep ==
    ASSUME Remembered, seen' = seen, emitted' = emitted, sent' = sent, stopped' = stopped,
           expired \subseteq expired', \A e \in links' : e \cap stopped = {},
           \A n \in Nodes : \A v \in retained'[n] : v.id \in sent,
           \A n, m \in Nodes : \A v \in pending'[n][m] \cup wire'[n][m] : v.id \in sent
    PROVE  Remembered'
  BY DEF Remembered, Recalls

\* What a router holds after Withdraw it held before.
LEMMA WithdrawQuiet ==
    ASSUME IInv, Remembered, NEW k \in Nodes, NEW Gone, Withdraw(k, Gone), wire' = wire
    PROVE  /\ \A n \in Nodes : \A v \in retained'[n] : v.id \in sent
           /\ \A n, m \in Nodes : \A v \in pending'[n][m] \cup wire'[n][m] : v.id \in sent
<1>1. /\ \A n \in Nodes : retained'[n] \subseteq retained[n]
      /\ \A n, m \in Nodes : pending'[n][m] \subseteq pending[n][m]
  BY WithdrawShrinks DEF IInv
<1> QED
  BY <1>1 DEF Remembered

\* Storing and queueing a packet that was sent.
LEMMA GrownIds ==
    ASSUME IInv, Remembered, NEW k \in Nodes, NEW v \in Value, v.id \in sent', sent \subseteq sent',
           NEW V, NEW To, NEW rest \in [Nodes -> [Nodes -> SUBSET Value]],
           \A n, m \in Nodes : rest[n][m] \subseteq pending[n][m],
           \/ retain(k, v, V) /\ pending' \in {rest, [rest EXCEPT ![k] = Enqueue(k, v, To)]}
           \/ UNCHANGED retained /\ pending' = rest,
           \A n, m \in Nodes : wire'[n][m] \subseteq wire[n][m]
    PROVE  /\ \A n \in Nodes : \A w \in retained'[n] : w.id \in sent'
           /\ \A n, m \in Nodes : \A w \in pending'[n][m] \cup wire'[n][m] : w.id \in sent'
<1>1. CopiesTyped
  BY DEF IInv
<1>2. \A n \in Nodes : retained'[n] \subseteq retained[n] \cup {v}
  <2>1. CASE retain(k, v, V)
    BY <1>1, <2>1, RetainGrows
  <2>2. CASE UNCHANGED retained
    BY <2>2
  <2> QED
    BY <2>1, <2>2
<1>3. \A n, m \in Nodes : pending'[n][m] \subseteq pending[n][m] \cup {v}
  <2> DEFINE x == Enqueue(k, v, To)
  <2>1. x \in [Nodes -> SUBSET Value] /\ \A m \in Nodes : x[m] \subseteq pending[k][m] \cup {v}
    BY <1>1, EnqueueGrows
  <2> HIDE DEF x
  <2>2. \A n, m \in Nodes : [rest EXCEPT ![k] = x][n][m] = IF n = k THEN x[m] ELSE rest[n][m]
    BY <2>1, Row
  <2>3. pending' \in {rest, [rest EXCEPT ![k] = x]}
    BY DEF x
  <2> QED
    BY <2>1, <2>2, <2>3
<1> QED
  BY <1>2, <1>3 DEF Remembered

LEMMA BroadcastRemembered ==
    ASSUME Cardinality(Packets) <= SeenCap, IInv, Remembered, NEW p \in Packets, broadcast(p)
    PROVE  Remembered'
<1> DEFINE k == Source[p]
           v == Made(p)
<1>1. k \in Nodes /\ v \in Value /\ v.id = p
  BY MeshAssumption, MadeType DEF Made
<1>2. /\ p \notin sent /\ sent' = sent \cup {p} /\ seen' = [seen EXCEPT ![k] = Remember(k, p)]
      /\ UNCHANGED <<relay, links, wire, emitted, expired, stopped>>
  BY DEF broadcast
<1>3. /\ \A n \in Nodes : \A w \in retained'[n] : w.id \in sent'
      /\ \A n, m \in Nodes : \A w \in pending'[n][m] \cup wire'[n][m] : w.id \in sent'
  <2>1. PICK V : /\ retain(k, v, V)
                 /\ pending' \in {pending, [pending EXCEPT ![k] = Enqueue(k, v, Nodes)]}
    BY DEF broadcast, Made
  <2>2. pending \in [Nodes -> [Nodes -> SUBSET Value]]
    BY DEF IInv, CopiesTyped
  <2> HIDE DEF k, v
  <2> QED
    BY <1>1, <1>2, <2>1, <2>2, GrownIds
<1>4. /\ Remember(k, p) \in Seq(Packets) /\ ToSet(Remember(k, p)) = ToSet(seen[k]) \cup {p}
      /\ \A i, j \in DOMAIN Remember(k, p) : Remember(k, p)[i] = Remember(k, p)[j] => i = j
  BY <1>1, <1>2, RememberAll DEF Remembered, Recalls
<1> DEFINE h == Remember(k, p)
<1> HIDE DEF k, v, h
<1>5. seen' \in [Nodes -> Seq(Packets)]
      /\ \A n \in Nodes : seen'[n] = IF n = k THEN h ELSE seen[n]
  BY <1>1, <1>2, <1>4 DEF Remembered, h
<1>6. \A n \in Nodes : Recalls(seen[n])'
  BY <1>2, <1>4, <1>5 DEF Remembered, Recalls, h
<1>7. \A n \in Nodes : ToSet(seen[n]) \subseteq ToSet(seen'[n])
  BY <1>4, <1>5 DEF h
<1> QED
  BY <1>2, <1>3, <1>5, <1>6, <1>7 DEF Remembered

\* A packet that is taken for new was not emitted before.
LEMMA ReceivedIsNew ==
    ASSUME IInv, Remembered, NEW m \in Nodes, NEW n \in Nodes, NEW p \in Packets,
           receive(m, n, p)
    PROVE  /\ p \in sent \ expired /\ n # Source[p] /\ emitted[n][p] = 0
           /\ n \notin stopped /\ p \notin ToSet(seen[n])
<1>1. PICK v \in wire[m][n] : v.id = p /\ ~Known(n, v) /\ p \notin expired
  BY DEF receive, Arrives
<1>2. p \in sent /\ p \notin ToSet(seen[n]) /\ n \notin ToSet(v.hops)
  BY <1>1 DEF Remembered, Known, HasSeen
<1>3. Trail(m, v) /\ Up(m, n) /\ v.hops \in Seq(Nodes)
  BY <1>1 DEF IInv, CopiesTyped, Value
<1>4. n # Source[p]
  <2>1. v.hops[1] = Source[p] /\ 1 \in DOMAIN v.hops
    BY <1>1, <1>3 DEF Trail
  <2> QED
    BY <1>2, <2>1 DEF ToSet
<1>5. n \notin stopped
  BY <1>3 DEF Remembered, Up
<1> QED
  BY <1>1, <1>2, <1>4, <1>5 DEF Remembered

LEMMA ReceiveRemembered ==
    ASSUME Cardinality(Packets) <= SeenCap, IInv, Remembered,
           NEW m \in Nodes, NEW n \in Nodes, NEW p \in Packets, receive(m, n, p)
    PROVE  Remembered'
<1>1. /\ p \in sent \ expired /\ n \notin stopped /\ p \notin ToSet(seen[n])
  BY ReceivedIsNew
<1>2. PICK v \in wire[m][n], acked \in Acked(m, n, p) :
         /\ ~Known(n, v) /\ v.id = p
         /\ wire' = [wire EXCEPT ![m][n] = @ \ {v}]
         /\ emitted' = [emitted EXCEPT ![n][p] = IF @ = Many THEN @ ELSE @ + 1]
         /\ LET rest == [pending EXCEPT ![m][n] = @ \ acked]
            IN  \/ /\ relay[n] /\ Len(v.hops) < MaxHops
                   /\ \E V : retain(n, Forwarded(v, n), V)
                   /\ \/ pending' = [rest EXCEPT ![n] = Enqueue(n, Forwarded(v, n), Nodes \ {m})]
                      \/ pending' = rest
                \/ pending' = rest /\ retained' = retained
         /\ UNCHANGED <<relay, links, sent, expired, stopped>>
  BY DEF receive, Arrives, Forwarded
<1>3. /\ seen' = [seen EXCEPT ![n] = Remember(n, p)]
      /\ \E x : emitted' = [emitted EXCEPT ![n][p] = x]
      /\ UNCHANGED <<relay, links, sent, expired, stopped>>
  BY DEF receive
<1>4. /\ \A k \in Nodes : \A w \in retained'[k] : w.id \in sent'
      /\ \A k, l \in Nodes : \A w \in pending'[k][l] \cup wire'[k][l] : w.id \in sent'
  <2> DEFINE rest == [pending EXCEPT ![m][n] = @ \ acked]
             f == Forwarded(v, n)
  <2>1. v \in Value /\ f \in Value /\ f.id = p
    <3>1. v \in Value
      BY <1>2 DEF IInv, CopiesTyped
    <3> QED
      BY <1>2, <3>1, ForwardedType DEF Forwarded
  <2>2. /\ rest \in [Nodes -> [Nodes -> SUBSET Value]]
        /\ \A k, l \in Nodes : rest[k][l] \subseteq pending[k][l]
    BY DEF IInv, CopiesTyped
  <2>3. \A k, l \in Nodes : wire'[k][l] \subseteq wire[k][l]
    BY <1>2 DEF IInv, CopiesTyped
  <2>4. \E V : \/ /\ retain(n, f, V)
                  /\ pending' \in {rest, [rest EXCEPT ![n] = Enqueue(n, f, Nodes \ {m})]}
               \/ UNCHANGED retained /\ pending' = rest
    <3>1. \/ /\ \E V : retain(n, f, V)
             /\ \/ pending' = [rest EXCEPT ![n] = Enqueue(n, f, Nodes \ {m})]
                \/ pending' = rest
          \/ pending' = rest /\ retained' = retained
      BY <1>2
    <3> HIDE DEF rest, f
    <3> QED
      BY <3>1
  <2>5. p \in sent' /\ sent \subseteq sent'
    BY <1>1, <1>3
  <2> HIDE DEF rest, f
  <2> QED
    BY <2>1, <2>2, <2>3, <2>4, <2>5, GrownIds
<1> DEFINE h == Remember(n, p)
<1>5. /\ h \in Seq(Packets) /\ ToSet(h) = ToSet(seen[n]) \cup {p}
      /\ \A i, j \in DOMAIN h : h[i] = h[j] => i = j
  BY <1>1, RememberAll DEF Remembered
<1>6. seen' = [seen EXCEPT ![n] = h]
  BY <1>3
<1> HIDE DEF h
<1>7. /\ seen' \in [Nodes -> Seq(Packets)]
      /\ \A k \in Nodes : seen'[k] = IF k = n THEN h ELSE seen[k]
  BY <1>5, <1>6 DEF Remembered
<1>8. \A k \in Nodes : Recalls(seen[k])'
  BY <1>1, <1>3, <1>5, <1>7 DEF Remembered, Recalls
<1>9. \A k \in Nodes \ stopped, q \in Packets \ expired : emitted'[k][q] # 0 => q \in ToSet(seen'[k])
  <2> SUFFICES ASSUME NEW k \in Nodes \ stopped, NEW q \in Packets \ expired, emitted'[k][q] # 0
               PROVE  q \in ToSet(seen'[k])
    OBVIOUS
  <2>1. CASE k = n /\ q = p
    BY <1>5, <1>7, <2>1
  <2>2. CASE ~(k = n /\ q = p)
    <3>1. emitted'[k][q] = emitted[k][q]
      BY <1>3, <2>2 DEF IInv, CopiesTyped
    <3> QED
      BY <1>5, <1>7, <3>1 DEF Remembered
  <2> QED
    BY <2>1, <2>2
<1> QED
  BY <1>3, <1>4, <1>7, <1>8, <1>9 DEF Remembered

LEMMA maintainRemembered ==
    ASSUME IInv, Remembered, NEW k \in Nodes, maintain(k) PROVE Remembered'
<1>1. PICK h \in Unexpired(seen[k]) : seen' = [seen EXCEPT ![k] = h]
  BY DEF maintain
<1>2. /\ \E Gone : Withdraw(k, Gone)
      /\ UNCHANGED <<relay, links, wire, sent, emitted, expired, stopped>>
  BY DEF maintain
<1>3. /\ h \in Seq(Packets) /\ ToSet(h) = ToSet(seen[k]) \ expired
      /\ \A i, j \in DOMAIN h : h[i] = h[j] => i = j
  BY UnexpiredLeft DEF Remembered, Recalls
<1>4. /\ seen' \in [Nodes -> Seq(Packets)]
      /\ \A n \in Nodes : seen'[n] = IF n = k THEN h ELSE seen[n]
  BY <1>1, <1>3 DEF Remembered
<1>5. \A n \in Nodes : Recalls(seen[n])'
  BY <1>2, <1>3, <1>4 DEF Remembered, Recalls
<1>6. /\ \A n \in Nodes : \A v \in retained'[n] : v.id \in sent
      /\ \A n, m \in Nodes : \A v \in pending'[n][m] \cup wire'[n][m] : v.id \in sent
  BY <1>2, WithdrawQuiet
<1>7. \A n \in Nodes \ stopped, p \in Packets \ expired : emitted[n][p] # 0 => p \in ToSet(seen'[n])
  BY <1>3, <1>4 DEF Remembered
<1> QED
  BY <1>2, <1>4, <1>5, <1>6, <1>7 DEF Remembered

LEMMA stopRemembered ==
    ASSUME IInv, Remembered, NEW k \in Nodes, stop(k) PROVE Remembered'
<1> DEFINE gone == {e \in links : k \in e}
<1>1. /\ links' = links \ gone /\ stopped' = stopped \cup {k}
      /\ pending' = Closed(pending, gone) /\ wire' = Closed(wire, gone)
      /\ retained' = [retained EXCEPT ![k] = {}] /\ seen' = [seen EXCEPT ![k] = <<>>]
      /\ UNCHANGED <<sent, emitted, expired>>
  BY DEF stop
<1>2. \A e \in links' : e \cap stopped' = {}
  BY <1>1 DEF Remembered
<1> HIDE DEF gone
<1>3. /\ \A n, m \in Nodes : pending'[n][m] \subseteq pending[n][m]
      /\ \A n, m \in Nodes : wire'[n][m] \subseteq wire[n][m]
  <2>1. pending \in [Nodes -> [Nodes -> SUBSET Value]] /\ wire \in [Nodes -> [Nodes -> SUBSET Value]]
    BY DEF IInv, CopiesTyped
  <2>2. \A n, m \in Nodes : Closed(pending, gone)[n][m] \subseteq pending[n][m]
    BY <2>1, ClosedShrinks
  <2>3. \A n, m \in Nodes : Closed(wire, gone)[n][m] \subseteq wire[n][m]
    BY <2>1, ClosedShrinks
  <2> QED
    BY <1>1, <2>2, <2>3
<1>4. \A n \in Nodes : retained'[n] \subseteq retained[n]
  BY <1>1 DEF IInv, CopiesTyped
<1>5. /\ seen' \in [Nodes -> Seq(Packets)] /\ seen'[k] = <<>>
      /\ \A n \in Nodes \ {k} : seen'[n] = seen[n]
  BY <1>1 DEF Remembered
<1>6. \A n \in Nodes : Recalls(seen[n])'
  <2>1. Recalls(<<>>)
    BY DEF Recalls, ToSet
  <2>2. \A n \in Nodes : Recalls(seen'[n])
    BY <1>5, <2>1 DEF Remembered
  <2> QED
    BY <1>1, <2>2 DEF Recalls
<1> QED
  BY <1>1, <1>2, <1>3, <1>4, <1>5, <1>6 DEF Remembered

\* The actions that neither receive nor broadcast.
LEMMA QuietRemembered ==
    ASSUME IInv, Remembered,
           \/ \E p \in Packets : cancelLocal(p) \/ Expire(p)
           \/ \E m, n \in Nodes : attach(m, n) \/ drop(m, n)
           \/ \E m, n \in Nodes, p \in Packets : Write(m, n, p) \/ Duplicate(m, n, p) \/ Refuse(m, n, p)
           \/ \E n \in Nodes, enabled \in BOOLEAN : setRelay(n, enabled)
    PROVE  Remembered'
<1>1. CopiesTyped
  BY DEF IInv
<1>2. /\ \A e \in links : e \cap stopped = {}
      /\ \A n \in Nodes : \A v \in retained[n] : v.id \in sent
      /\ \A n, m \in Nodes : \A v \in pending[n][m] \cup wire[n][m] : v.id \in sent
  BY DEF Remembered
<1>3. ASSUME NEW p \in Packets, cancelLocal(p) PROVE Remembered'
  <2>1. /\ Withdraw(Source[p], {v \in Owns(Source[p]) : v.id = p})
        /\ UNCHANGED <<relay, links, wire, seen, sent, emitted, expired, stopped>>
    BY <1>3 DEF cancelLocal
  <2>2. Source[p] \in Nodes
    BY MeshAssumption
  <2>3. /\ \A n \in Nodes : \A v \in retained'[n] : v.id \in sent
        /\ \A n, m \in Nodes : \A v \in pending'[n][m] \cup wire'[n][m] : v.id \in sent
    BY <2>1, <2>2, WithdrawQuiet
  <2> QED
    BY <1>2, <2>1, <2>3, QuietStep
<1>4. ASSUME NEW p \in Packets, Expire(p) PROVE Remembered'
  BY <1>2, <1>4, QuietStep DEF Expire
<1>5. ASSUME NEW m \in Nodes, NEW n \in Nodes, attach(m, n) PROVE Remembered'
  <2> DEFINE Offered(k) == {v \in Live(retained[k]) : ~v.relayOnly \/ relay[k]}
  <2>1. /\ links' = links \cup {{m, n}} /\ {m, n} \cap stopped = {}
        /\ pending' = [pending EXCEPT ![m][n] = Offered(m), ![n][m] = Offered(n)]
        /\ UNCHANGED <<relay, wire, retained, seen, sent, emitted, expired, stopped>>
    BY <1>5 DEF attach
  <2>2. \A k, l \in Nodes : pending'[k][l] \subseteq pending[k][l] \cup Offered(k)
    <3> HIDE DEF Offered
    <3> QED
      BY <1>1, <2>1 DEF CopiesTyped
  <2>3. \A k, l \in Nodes : pending'[k][l] \subseteq pending[k][l] \cup retained[k]
    BY <2>2 DEF Live
  <2> QED
    BY <1>2, <2>1, <2>3, QuietStep
<1>6. ASSUME NEW m \in Nodes, NEW n \in Nodes, drop(m, n) PROVE Remembered'
  <2>1. /\ links' \subseteq links
        /\ pending' = Closed(pending, {{m, n}}) /\ wire' = Closed(wire, {{m, n}})
        /\ UNCHANGED <<retained, seen, sent, emitted, expired, stopped>>
    BY <1>6 DEF drop
  <2>2. /\ \A k, l \in Nodes : Closed(pending, {{m, n}})[k][l] \subseteq pending[k][l]
        /\ \A k, l \in Nodes : Closed(wire, {{m, n}})[k][l] \subseteq wire[k][l]
    BY <1>1, ClosedShrinks DEF CopiesTyped
  <2> QED
    BY <1>2, <2>1, <2>2, QuietStep
<1>7. ASSUME NEW m \in Nodes, NEW n \in Nodes, NEW p \in Packets, Write(m, n, p)
      PROVE  Remembered'
  <2>1. PICK v \in Live(pending[m][n]) : wire' = [wire EXCEPT ![m][n] = @ \cup {v}]
    BY <1>7 DEF Write
  <2>2. UNCHANGED <<links, pending, retained, seen, sent, emitted, expired, stopped>>
    BY <1>7 DEF Write
  <2>3. v.id \in sent
    BY <1>2, <2>1 DEF Live
  <2>4. \A k, l \in Nodes : wire'[k][l] \subseteq wire[k][l] \cup {v}
    BY <1>1, <2>1 DEF CopiesTyped
  <2> QED
    BY <1>2, <2>2, <2>3, <2>4, QuietStep
<1>8. ASSUME NEW m \in Nodes, NEW n \in Nodes, NEW p \in Packets,
             Duplicate(m, n, p) \/ Refuse(m, n, p)
      PROVE  Remembered'
  <2>1. PICK v : wire' = [wire EXCEPT ![m][n] = @ \ {v}]
    BY <1>8 DEF Duplicate, Refuse, Arrives
  <2>2. PICK acked : pending' = [pending EXCEPT ![m][n] = @ \ acked] \/ pending' = pending
    BY <1>8 DEF Duplicate, Refuse
  <2>3. UNCHANGED <<links, retained, seen, sent, emitted, expired, stopped>>
    BY <1>8 DEF Duplicate, Refuse
  <2>4. \A k, l \in Nodes : wire'[k][l] \subseteq wire[k][l]
    BY <1>1, <2>1 DEF CopiesTyped
  <2>5. \A k, l \in Nodes : pending'[k][l] \subseteq pending[k][l]
    <3>1. CASE pending' = [pending EXCEPT ![m][n] = @ \ acked]
      <4>1. pending \in [Nodes -> [Nodes -> SUBSET Value]]
        BY <1>1 DEF CopiesTyped
      <4> QED
        BY <3>1, <4>1
    <3>2. CASE pending' = pending
      BY <3>2
    <3> QED
      BY <2>2, <3>1, <3>2
  <2> QED
    BY <1>2, <2>3, <2>4, <2>5, QuietStep
<1>9. ASSUME NEW n \in Nodes, NEW enabled \in BOOLEAN, setRelay(n, enabled) PROVE Remembered'
  <2>1. /\ \/ UNCHANGED <<retained, pending>>
           \/ Withdraw(n, {v \in Owns(n) : v.relayOnly})
        /\ UNCHANGED <<links, wire, seen, sent, emitted, expired, stopped>>
    BY <1>9 DEF setRelay
  <2>2. CASE UNCHANGED <<retained, pending>>
    BY <1>2, <2>1, <2>2, QuietStep
  <2>3. CASE Withdraw(n, {v \in Owns(n) : v.relayOnly})
    <3>1. /\ \A k \in Nodes : \A v \in retained'[k] : v.id \in sent
          /\ \A k, l \in Nodes : \A v \in pending'[k][l] \cup wire'[k][l] : v.id \in sent
      BY <2>1, <2>3, WithdrawQuiet
    <3> QED
      BY <1>2, <2>1, <3>1, QuietStep
  <2> QED
    BY <2>1, <2>2, <2>3
<1> QED
  BY <1>3, <1>4, <1>5, <1>6, <1>7, <1>8, <1>9

\* Routers with room for every identifier never forget one they emitted.
LEMMA Remembering ==
    ASSUME Cardinality(Packets) <= SeenCap PROVE Spec => []Remembered
<1>1. Init => Remembered
  <2> SUFFICES ASSUME Init PROVE Remembered
    OBVIOUS
  <2>1. Recalls(<<>>)
    BY DEF Recalls, ToSet
  <2> QED
    BY <2>1 DEF Init, None, Remembered
<1>2. IInv /\ Remembered /\ [Next]_vars => Remembered'
  <2>1. ASSUME Remembered, UNCHANGED vars PROVE Remembered'
    BY <2>1 DEF vars, Remembered, Recalls
  <2> QED
    BY <2>1, BroadcastRemembered, ReceiveRemembered, maintainRemembered, stopRemembered,
       QuietRemembered DEF Next
<1> QED
  BY <1>1, <1>2, Invariant, PTL DEF Spec

\* A mesh whose routers have room for every identifier implements the flood: no
\* application is given a packet twice, its own packet, or one past its time to
\* live, whatever the links lose, repeat and reorder (receive, hasSeen).
THEOREM Floods == ASSUME Cardinality(Packets) <= SeenCap PROVE Spec => FloodSpec
<1>1. Init => Flooding!Init
  BY DEF Init, Flooding!Init
<1>2. IInv /\ Remembered /\ [Next]_vars => [Flooding!Next]_<<sent, expired, emitted>>
  <2> SUFFICES ASSUME IInv, Remembered, Next PROVE [Flooding!Next]_<<sent, expired, emitted>>
    BY DEF vars
  <2>1. ASSUME NEW p \in Packets, broadcast(p) PROVE Flooding!Next
    <3>1. Flooding!Send(p)
      BY <2>1 DEF broadcast, Flooding!Send
    <3> QED
      BY <3>1 DEF Flooding!Next
  <2>2. ASSUME NEW p \in Packets, Expire(p) PROVE Flooding!Next
    <3>1. Flooding!Expire(p)
      BY <2>2 DEF Expire, Flooding!Expire
    <3> QED
      BY <3>1 DEF Flooding!Next
  <2>3. ASSUME NEW m \in Nodes, NEW n \in Nodes, NEW p \in Packets, receive(m, n, p)
        PROVE  Flooding!Next
    <3>1. p \in sent \ expired /\ n # Source[p] /\ emitted[n][p] = 0
      BY <2>3, ReceivedIsNew
    <3>2. /\ emitted' = [emitted EXCEPT ![n][p] = IF @ = Many THEN @ ELSE @ + 1]
          /\ UNCHANGED <<sent, expired>>
      BY <2>3 DEF receive
    <3>3. emitted' = [emitted EXCEPT ![n][p] = 1]
      BY <3>1, <3>2 DEF Many
    <3>4. Flooding!Deliver(n, p)
      BY <3>1, <3>2, <3>3 DEF Flooding!Deliver
    <3> QED
      BY <3>4 DEF Flooding!Next
  <2> DEFINE Stays == UNCHANGED <<sent, expired, emitted>>
  <2>4. ASSUME NEW p \in Packets, cancelLocal(p) PROVE Stays
    BY <2>4 DEF cancelLocal
  <2>5. ASSUME NEW m \in Nodes, NEW n \in Nodes, attach(m, n) \/ drop(m, n) PROVE Stays
    BY <2>5 DEF attach, drop
  <2>6. ASSUME NEW m \in Nodes, NEW n \in Nodes, NEW p \in Packets,
               Write(m, n, p) \/ Duplicate(m, n, p) \/ Refuse(m, n, p)
        PROVE  Stays
    BY <2>6 DEF Write, Duplicate, Refuse
  <2>7. ASSUME NEW n \in Nodes, maintain(n) \/ stop(n) PROVE Stays
    BY <2>7 DEF maintain, stop
  <2>8. ASSUME NEW n \in Nodes, NEW enabled \in BOOLEAN, setRelay(n, enabled) PROVE Stays
    BY <2>8 DEF setRelay
  <2> HIDE DEF Stays
  <2>9. Flooding!Next \/ Stays
    BY <2>1, <2>2, <2>3, <2>4, <2>5, <2>6, <2>7, <2>8 DEF Next
  <2> QED
    BY <2>9 DEF Stays
<1> QED
  BY <1>1, <1>2, Invariant, Remembering, PTL DEF Spec, FloodSpec, Flooding!Spec

=============================================================================
