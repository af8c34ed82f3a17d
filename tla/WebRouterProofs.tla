-------------------------- MODULE WebRouterProofs ---------------------------
(***************************************************************************)
(* Proofs about the browser: module WebRouter, for all sets of packets and *)
(* links and every value of the limits, and from "App ==" on module WebApp.*)
(***************************************************************************)
EXTENDS WebRouter, WebOutbox, SequenceTheorems, TLAPS

Request == [on : BOOLEAN, seq : 1 .. MaxRequests]
Settings == [asked : BOOLEAN, made : 0 .. MaxRequests, revokedAt : 0 .. MaxRequests,
             tail : Seq(Request)]
Place == [at : Stages, next : 0 .. Parts]
Ends == [sender : {"new", "open", "closed"}, receiver : {"new", "open", "closed"}]
Frame == [t : {"part", "drop"}, p : Packets, i : 0 .. Parts - 1]
Waiter == [l : Links, p : Packets, taken : BOOLEAN, closed : BOOLEAN]

\* TypeOK, with what it leaves open: what is on the wire and in the chain, and
\* that the fragment a pump has chosen exists.
Typed ==
    /\ relaying \in BOOLEAN
    /\ consent \in Settings
    /\ created \in SUBSET Packets /\ retained \in SUBSET created
    /\ link \in [Links -> Ends]
    /\ out \in [Links -> [Packets -> Place]]
    /\ pump \in [Links -> Packets \cup {NoPacket}]
    /\ wire \in [Links -> Seq(Frame)]
    /\ acks \in [Links -> SUBSET Packets]
    /\ asm \in [Links -> [Packets -> 0 .. Parts]]
    /\ chain \in Seq(Waiter)
    /\ seen \in SUBSET Packets
    /\ got \in [Packets -> Nat]
    /\ sent \in SUBSET (Links \X Packets)
    /\ \A l \in Links : pump[l] \in Packets => out[l][pump[l]].next < Parts

\* What the receiver answered for is what its application took, once each; only
\* the first of the chain can be with the application, and it is new to it.
Settled ==
    /\ \A p \in Packets : got[p] = IF p \in seen THEN 1 ELSE 0
    /\ \A i \in DOMAIN chain : chain[i].taken => i = 1 /\ chain[i].p \notin seen
    /\ \A l \in Links : acks[l] \subseteq seen
    /\ \A lp \in sent : lp[2] \in seen

\* Requests are numbered in the order they are made, and the last one says what
\* was asked; a denial is the last revocation.
Ordered ==
    /\ \A i \in DOMAIN consent.tail :
          /\ consent.tail[i].seq <= consent.made
          /\ consent.tail[i].seq = consent.made => consent.tail[i].on = consent.asked
    /\ ~consent.asked => consent.revokedAt = consent.made
    /\ ConsentIsCurrent

(***************************************************************************)
(* Facts about the operators                                               *)
(***************************************************************************)

\* A stage is where a packet can be, with nothing of it sent.
LEMMA StageType ==
    ASSUME NEW s \in Stages
    PROVE  Stage(s) \in Place /\ Stage(s).next = 0
BY WebRouterAssumption DEF Stage, Place

\* Removing packets from the queues keeps the places of the others.
LEMMA RemovedType ==
    ASSUME Typed, NEW gone
    PROVE  /\ Removed(gone) \in [Links -> [Packets -> Place]]
           /\ \A l \in Links :
                 pump[l] \in Packets => Removed(gone)[l][pump[l]].next < Parts
<1>1. "none" \in Stages
  BY DEF Stages
<1>2. Removed(gone) \in [Links -> [Packets -> Place]]
  BY <1>1, StageType DEF Typed, Removed
<1>3. ASSUME NEW l \in Links, pump[l] \in Packets
      PROVE  Removed(gone)[l][pump[l]].next < Parts
  <2>1. out[l][pump[l]].next < Parts
    BY <1>3 DEF Typed
  <2>2. Removed(gone)[l][pump[l]] \in {Stage("none"), out[l][pump[l]]}
    BY <1>3 DEF Removed
  <2> QED
    BY <1>1, <2>1, <2>2, StageType, WebRouterAssumption
<1> QED
  BY <1>2, <1>3

\* The chain once its first packet was decided on, and once a link closed.
LEMMA WithoutFirst ==
    ASSUME NEW c \in Seq(Waiter), c # <<>>
    PROVE  /\ SubSeq(c, 1, 1 - 1) \o SubSeq(c, 1 + 1, Len(c)) \in Seq(Waiter)
           /\ Len(SubSeq(c, 1, 1 - 1) \o SubSeq(c, 1 + 1, Len(c))) = Len(c) - 1
           /\ \A i \in 1 .. Len(c) - 1 :
                 (SubSeq(c, 1, 1 - 1) \o SubSeq(c, 1 + 1, Len(c)))[i] = c[i + 1]
<1>1. SubSeq(c, 1, 1 - 1) = <<>>
  BY SubSeqEmpty
<1>2. /\ SubSeq(c, 2, Len(c)) \in Seq(Waiter)
      /\ Len(SubSeq(c, 2, Len(c))) = Len(c) - 1
      /\ \A i \in 1 .. Len(c) - 1 : SubSeq(c, 2, Len(c))[i] = c[i + 1]
  <2>1. Len(c) \in Int /\ Len(c) >= 1 /\ \A i \in 2 .. Len(c) : c[i] \in Waiter
    BY EmptySeq
  <2> DEFINE d == SubSeq(c, 2, Len(c))
  <2>2. /\ d \in Seq(Waiter) /\ Len(d) = IF 2 <= Len(c) THEN Len(c) - 2 + 1 ELSE 0
        /\ \A i \in 1 .. Len(c) - 2 + 1 : d[i] = c[2 + i - 1]
    BY <2>1, SubSeqProperties
  <2> HIDE DEF d
  <2> DEFINE n == Len(c)
  <2> HIDE DEF n
  <2>3. n \in Int /\ n >= 1 /\ Len(d) = (IF 2 <= n THEN n - 2 + 1 ELSE 0)
        /\ \A i \in 1 .. n - 2 + 1 : d[i] = c[2 + i - 1]
    BY <2>1, <2>2 DEF n
  <2>4. Len(d) = n - 1
    BY <2>3
  <2>5. ASSUME NEW i \in 1 .. n - 1
        PROVE  d[i] = c[i + 1]
    <3>1. i \in 1 .. n - 2 + 1 /\ 2 + i - 1 = i + 1
      BY <2>3
    <3> QED
      BY <2>3, <3>1
  <2> QED
    BY <2>2, <2>4, <2>5 DEF d, n
<1> QED
  BY <1>1, <1>2

LEMMA ClosedChain ==
    ASSUME NEW c \in Seq(Waiter), NEW l \in Links
    PROVE  LET d == [i \in DOMAIN c |-> IF c[i].l = l THEN [c[i] EXCEPT !.closed = TRUE] ELSE c[i]]
           IN  /\ d \in Seq(Waiter) /\ DOMAIN d = DOMAIN c
               /\ \A i \in DOMAIN c : d[i].p = c[i].p /\ d[i].taken = c[i].taken
<1>1. \A w \in Waiter : LET v == [w EXCEPT !.closed = TRUE]
                        IN  v \in Waiter /\ v.p = w.p /\ v.taken = w.taken
  BY DEF Waiter
<1>2. \A i \in DOMAIN c : c[i] \in Waiter
  OBVIOUS
<1> QED
  BY <1>1, <1>2

(***************************************************************************)
(* Types                                                                    *)
(***************************************************************************)

LEMMA InitTyped == Init => Typed
<1> SUFFICES ASSUME Init PROVE Typed
  OBVIOUS
<1>1. "none" \in Stages
  BY DEF Stages
<1>2. out \in [Links -> [Packets -> Place]]
  BY <1>1, StageType DEF Init
<1>3. consent \in Settings
  BY WebRouterAssumption DEF Init, Settings
<1>4. \A l \in Links : pump[l] \in Packets => out[l][pump[l]].next < Parts
  BY <1>1, StageType, WebRouterAssumption DEF Init
<1>5. link \in [Links -> Ends]
  BY DEF Init, Ends
<1>6. wire \in [Links -> Seq(Frame)] /\ chain \in Seq(Waiter)
  BY DEF Init
<1>7. asm \in [Links -> [Packets -> 0 .. Parts]]
  BY WebRouterAssumption DEF Init
<1> QED
  BY <1>2, <1>3, <1>4, <1>5, <1>6, <1>7 DEF Init, Typed

LEMMA setRelayTyped == ASSUME Typed, NEW on \in BOOLEAN, setRelay(on) PROVE Typed'
<1>1. consent' \in Settings
  <2>1. /\ consent.made \in 0 .. MaxRequests /\ consent.tail \in Seq(Request)
        /\ consent.made < MaxRequests /\ consent.revokedAt \in 0 .. MaxRequests
    BY DEF Typed, Settings, setRelay
  <2>2. consent.made + 1 \in 1 .. MaxRequests
    BY <2>1, WebRouterAssumption
  <2>3. [on |-> on, seq |-> consent.made + 1] \in Request
    BY <2>2 DEF Request
  <2>4. Append(consent.tail, [on |-> on, seq |-> consent.made + 1]) \in Seq(Request)
    BY <2>1, <2>3
  <2>5. consent' = [asked |-> on, made |-> consent.made + 1,
                    revokedAt |-> IF on THEN consent.revokedAt ELSE consent.made + 1,
                    tail |-> Append(consent.tail, [on |-> on, seq |-> consent.made + 1])]
    BY DEF Typed, Settings, setRelay
  <2> QED
    BY <2>1, <2>2, <2>4, <2>5, WebRouterAssumption DEF Settings
<1>2. CASE on
  BY <1>1, <1>2 DEF Typed, setRelay
<1>3. CASE ~on
  <2>1. /\ relaying' = FALSE /\ retained' \in SUBSET created
        /\ out' = Removed(Relayed \cap retained)
        /\ UNCHANGED <<created, pump, link, wire, acks, asm, chain, seen, got, sent>>
    BY <1>3 DEF setRelay, SetRouter, Typed
  <2> QED
    BY <1>1, <2>1, RemovedType DEF Typed
<1> QED
  BY <1>2, <1>3

LEMMA SavedTyped == ASSUME Typed, Saved PROVE Typed'
<1>1. consent' \in Settings
  <2>1. consent.tail \in Seq(Request) /\ consent.tail # <<>>
    BY DEF Typed, Settings, Saved
  <2>2. Tail(consent.tail) \in Seq(Request)
    BY <2>1
  <2> QED
    BY <2>2 DEF Typed, Settings, Saved
<1>2. relaying' \in BOOLEAN
  <2>1. Head(consent.tail) \in Request
    BY DEF Typed, Settings, Saved
  <2> QED
    BY <2>1 DEF Saved, SetRouter, Effective, Request
<1> QED
  <2>1. /\ retained' \in SUBSET created
        /\ \E gone : out' = Removed(gone)
        /\ UNCHANGED <<created, pump, link, wire, acks, asm, chain, seen, got, sent>>
    BY DEF Saved, SetRouter, Typed
  <2> QED
    BY <1>1, <1>2, <2>1, RemovedType DEF Typed

\* A packet that moves to another stage starts from its first fragment.
LEMMA PutType ==
    ASSUME Typed, NEW l \in Links, NEW p \in Packets, NEW s \in Stages, Put(l, p, Stage(s))
    PROVE  /\ out' \in [Links -> [Packets -> Place]]
           /\ \A k \in Links : pump[k] \in Packets => out'[k][pump[k]].next < Parts
<1>1. out' \in [Links -> [Packets -> Place]]
  BY StageType DEF Put, Typed
<1>2. ASSUME NEW k \in Links, pump[k] \in Packets
      PROVE  out'[k][pump[k]].next < Parts
  <2>1. out[k][pump[k]].next < Parts
    BY <1>2 DEF Typed
  <2>2. out'[k][pump[k]] \in {Stage(s), out[k][pump[k]]}
    BY <1>2 DEF Put, Typed
  <2> QED
    BY <2>1, <2>2, StageType, WebRouterAssumption
<1> QED
  BY <1>1, <1>2

LEMMA RetainTyped == ASSUME Typed, NEW p \in Packets, Retain(p) PROVE Typed'
<1>1. "queued" \in Stages
  BY DEF Stages
<1>2. out' \in [Links -> [Packets -> Place]]
  BY <1>1, StageType DEF Typed, Retain, Queued
<1>3. ASSUME NEW l \in Links, pump[l] \in Packets
      PROVE  out'[l][pump[l]].next < Parts
  <2>1. out[l][pump[l]].next < Parts
    BY <1>3 DEF Typed
  <2>2. out'[l][pump[l]] \in {Stage("queued"), out[l][pump[l]]}
    BY <1>3 DEF Retain, Queued, Typed
  <2> QED
    BY <1>1, <2>1, <2>2, StageType, WebRouterAssumption
<1> QED
  BY <1>2, <1>3 DEF Typed, Retain

LEMMA cancelTyped == ASSUME Typed, NEW p \in Packets, cancel(p) PROVE Typed'
  BY RemovedType DEF Typed, cancel

LEMMA newLinkTyped == ASSUME Typed, NEW l \in Links, newLink(l) PROVE Typed'
<1>1. "queued" \in Stages /\ "none" \in Stages
  BY DEF Stages
<1>2. /\ out' \in [Links -> [Packets -> Place]]
      /\ \A p \in Packets : out'[l][p].next = 0
      /\ \A k \in Links \ {l} : out'[k] = out[k]
  BY <1>1, StageType DEF Typed, newLink
<1>3. link' \in [Links -> Ends]
  BY DEF Typed, newLink, Ends
<1>4. ASSUME NEW k \in Links, pump[k] \in Packets
      PROVE  out'[k][pump[k]].next < Parts
  <2>1. out'[k][pump[k]].next = 0 \/ out'[k] = out[k]
    BY <1>2, <1>4
  <2>2. out[k][pump[k]].next < Parts
    BY <1>4 DEF Typed
  <2> QED
    BY <2>1, <2>2, WebRouterAssumption
<1> QED
  BY <1>2, <1>3, <1>4 DEF Typed, newLink

LEMMA transmitTyped ==
    ASSUME Typed, NEW l \in Links, NEW p \in Packets, transmit(l, p) PROVE Typed'
<1>1. \E s \in Stages : Put(l, p, Stage(s))
  BY DEF transmit, NoRoom, Stages
<1> QED
  BY <1>1, PutType DEF Typed, transmit

LEMMA preparedTyped ==
    ASSUME Typed, NEW l \in Links, NEW p \in Packets, prepared(l, p) PROVE Typed'
<1>1. \E s \in Stages : Put(l, p, Stage(s))
  BY DEF prepared, Stages
<1> QED
  BY <1>1, PutType DEF Typed, prepared

LEMMA chooseTyped ==
    ASSUME Typed, NEW l \in Links, NEW p \in Packets, choose(l, p) PROVE Typed'
<1>1. pump' \in [Links -> Packets \cup {NoPacket}]
  BY DEF Typed, choose
<1>2. \A k \in Links : pump'[k] \in Packets => out[k][pump'[k]].next < Parts
  BY DEF Typed, choose
<1> QED
  BY <1>1, <1>2 DEF Typed, choose

LEMMA writeTyped == ASSUME Typed, NEW l \in Links, write(l) PROVE Typed'
<1> DEFINE p == pump[l]
<1>1. p \in Packets /\ out[l][p] \in Place /\ out[l][p].next < Parts
  BY DEF Typed, write
<1>2. pump' \in [Links -> Packets \cup {NoPacket}] /\ pump'[l] = NoPacket
  BY DEF Typed, write
<1>3. CASE Permitted(p)
  <2>1. out' = [out EXCEPT ![l][p].next = @ + 1]
    BY <1>3 DEF write
  <2>2. [out[l][p] EXCEPT !.next = @ + 1] \in Place
    BY <1>1, WebRouterAssumption DEF Place
  <2>3. out' \in [Links -> [Packets -> Place]] /\ \A k \in Links \ {l} : out'[k] = out[k]
    BY <1>1, <2>1, <2>2 DEF Typed
  <2>4. \A k \in Links : pump'[k] \in Packets => out'[k][pump'[k]].next < Parts
    BY <1>2, <2>3, WebRouterAssumption DEF Typed, write, Packets
  <2>5. wire' \in [Links -> Seq(Frame)]
    <3>1. out[l][p].next \in 0 .. Parts - 1
      BY <1>1, WebRouterAssumption DEF Place
    <3>2. [t |-> "part", p |-> p, i |-> out[l][p].next] \in Frame
      BY <1>1, <3>1 DEF Frame
    <3>3. wire' = [wire EXCEPT ![l] = @ \o <<[t |-> "part", p |-> p, i |-> out[l][p].next]>>]
      BY <1>3 DEF write
    <3> QED
      BY <3>2, <3>3 DEF Typed
  <2> QED
    BY <1>2, <2>3, <2>4, <2>5 DEF Typed, write
<1>4. CASE ~Permitted(p)
  <2>1. Put(l, p, Stage("none")) /\ "none" \in Stages
    BY <1>4 DEF write, Stages
  <2>2. /\ out' \in [Links -> [Packets -> Place]]
        /\ \A k \in Links : pump[k] \in Packets => out'[k][pump[k]].next < Parts
    BY <1>1, <2>1, PutType
  <2>3. \A k \in Links : pump'[k] \in Packets => out'[k][pump'[k]].next < Parts
    BY <1>2, <2>2, WebRouterAssumption DEF Typed, write, Packets
  <2>4. wire' \in [Links -> Seq(Frame)]
    <3>1. [t |-> "drop", p |-> p, i |-> 0] \in Frame
      BY <1>1, WebRouterAssumption DEF Frame
    <3>2. wire' = [wire EXCEPT ![l] = @ \o <<[t |-> "drop", p |-> p, i |-> 0]>>]
      BY <1>4 DEF write, Abandon
    <3> QED
      BY <3>1, <3>2 DEF Typed
  <2> QED
    BY <1>2, <2>2, <2>3, <2>4 DEF Typed, write
<1> QED
  BY <1>3, <1>4

LEMMA acknowledgedTyped ==
    ASSUME Typed, NEW l \in Links, NEW p \in Packets, acknowledged(l, p) PROVE Typed'
<1>1. acks' \in [Links -> SUBSET Packets]
  BY DEF Typed, acknowledged
<1>2. CASE out[l][p].at = "pending"
  <2>1. Put(l, p, Stage("none")) /\ "none" \in Stages /\ sent' = sent \cup {<<l, p>>}
    BY <1>2 DEF acknowledged, Stages
  <2>2. /\ out' \in [Links -> [Packets -> Place]]
        /\ \A k \in Links : pump[k] \in Packets => out'[k][pump[k]].next < Parts
    BY <2>1, PutType
  <2>3. sent' \in SUBSET (Links \X Packets)
    BY <2>1 DEF Typed
  <2> QED
    BY <1>1, <2>2, <2>3 DEF Typed, acknowledged
<1>3. CASE out[l][p].at # "pending"
  BY <1>1, <1>3 DEF Typed, acknowledged
<1> QED
  BY <1>2, <1>3

\* The receiver's end of a link closed, after its router kept `rest`.
LEMMA ReceiverClosesTyped ==
    ASSUME Typed, NEW l \in Links, NEW rest \in Seq(Waiter), ReceiverCloses(l, rest),
           UNCHANGED <<relaying, consent, sender, acks, got, sent>>, seen' \in SUBSET Packets
    PROVE  Typed'
<1>1. link' \in [Links -> Ends]
  BY DEF Typed, ReceiverCloses, Ends
<1>2. asm' \in [Links -> [Packets -> 0 .. Parts]]
  BY WebRouterAssumption DEF Typed, ReceiverCloses
<1>3. wire' \in [Links -> Seq(Frame)]
  BY DEF Typed, ReceiverCloses
<1>4. chain' \in Seq(Waiter)
  BY ClosedChain DEF ReceiverCloses
<1> QED
  BY <1>1, <1>2, <1>3, <1>4 DEF Typed, sender

LEMMA receiveTyped == ASSUME Typed, NEW l \in Links, receive(l) PROVE Typed'
<1> DEFINE f == Head(wire[l])
<1>1. f \in Frame /\ Tail(wire[l]) \in Seq(Frame) /\ f.p \in Packets /\ f.i \in 0 .. Parts - 1
  <2>1. wire[l] \in Seq(Frame) /\ wire[l] # <<>>
    BY DEF Typed, receive
  <2>2. f \in Frame /\ Tail(wire[l]) \in Seq(Frame)
    BY <2>1
  <2> QED
    BY <2>2 DEF Frame
<1>2. CASE ReceiverCloses(l, chain)
  BY <1>2, ReceiverClosesTyped DEF Typed, receive
<1>3. CASE /\ \E n \in 0 .. Parts : asm' = [asm EXCEPT ![l][f.p] = n]
           /\ wire' = [wire EXCEPT ![l] = Tail(@)]
           /\ UNCHANGED link
           /\ \/ UNCHANGED chain
              \/ chain' = Append(chain, [l |-> l, p |-> f.p, taken |-> FALSE, closed |-> FALSE])
  <2>1. asm' \in [Links -> [Packets -> 0 .. Parts]]
    BY <1>1, <1>3 DEF Typed
  <2>2. wire' \in [Links -> Seq(Frame)]
    BY <1>1, <1>3 DEF Typed
  <2>3. [l |-> l, p |-> f.p, taken |-> FALSE, closed |-> FALSE] \in Waiter
    BY <1>1 DEF Waiter
  <2>4. chain' \in Seq(Waiter)
    <3>1. chain \in Seq(Waiter)
      BY DEF Typed
    <3> QED
      BY <1>3, <2>3, <3>1
  <2> QED
    BY <1>3, <2>1, <2>2, <2>4 DEF Typed, receive, sender
<1>4. CASE f.t = "drop"
  <2>1. asm' = [asm EXCEPT ![l][f.p] = 0] /\ 0 \in 0 .. Parts
    BY <1>4, WebRouterAssumption DEF receive
  <2> QED
    BY <1>3, <1>4, <2>1 DEF receive
<1>5. CASE f.t = "part" /\ ~Unacceptable(l, f)
  <2> DEFINE n == IF f.i + 1 = Parts THEN 0 ELSE f.i + 1
  <2>1. asm' = [asm EXCEPT ![l][f.p] = n]
    BY <1>5 DEF receive
  <2>2. n \in 0 .. Parts
    BY <1>1, WebRouterAssumption
  <2> HIDE DEF n
  <2> QED
    BY <1>3, <1>5, <2>1, <2>2 DEF receive
<1>6. CASE f.t # "drop" /\ ~(f.t = "part" /\ ~Unacceptable(l, f))
  BY <1>2, <1>6 DEF receive
<1> QED
  BY <1>4, <1>5, <1>6

LEMMA RestOfChain ==
    ASSUME Typed, NEW i, Turn(i)
    PROVE  /\ i = 1 /\ chain[1] \in Waiter
           /\ chain[i].l \in Links /\ chain[i].p \in Packets
           /\ Without(i) \in Seq(Waiter) /\ Len(Without(i)) = Len(chain) - 1
           /\ \A j \in 1 .. Len(chain) - 1 : Without(i)[j] = chain[j + 1]
<1>1. i = 1 /\ chain \in Seq(Waiter) /\ 1 \in DOMAIN chain /\ chain # <<>>
  BY DEF Turn, Typed
<1>2. chain[1] \in Waiter
  BY <1>1
<1>3. Without(1) = SubSeq(chain, 1, 1 - 1) \o SubSeq(chain, 1 + 1, Len(chain))
  BY DEF Without
<1> QED
  BY <1>1, <1>2, <1>3, WithoutFirst DEF Waiter

LEMMA duplicateTyped == ASSUME Typed, NEW i, duplicate(i) PROVE Typed'
<1>1. Turn(i)
  BY DEF duplicate
<1>2. acks' \in [Links -> SUBSET Packets]
  BY <1>1, RestOfChain DEF Typed, duplicate, Answered
<1>3. chain' \in Seq(Waiter)
  BY <1>1, RestOfChain DEF duplicate
<1> QED
  BY <1>2, <1>3 DEF Typed, duplicate, sender

LEMMA deliverTyped == ASSUME Typed, NEW i, deliver(i) PROVE Typed'
<1>1. chain' \in Seq(Waiter)
  <2>1. [chain[i] EXCEPT !.taken = TRUE] \in Waiter
    BY RestOfChain DEF deliver, Waiter
  <2>2. chain' = [chain EXCEPT ![i] = [chain[i] EXCEPT !.taken = TRUE]]
    BY DEF deliver
  <2> QED
    BY <2>1, <2>2 DEF Typed, deliver, Turn
<1> QED
  BY <1>1 DEF Typed, deliver, sender

LEMMA takenTyped == ASSUME Typed, NEW i, taken(i) PROVE Typed'
<1>1. Turn(i)
  BY DEF taken
<1>2. acks' \in [Links -> SUBSET Packets]
  BY <1>1, RestOfChain DEF Typed, taken, Answered
<1>3. chain' \in Seq(Waiter)
  BY <1>1, RestOfChain DEF taken
<1>4. got' \in [Packets -> Nat] /\ seen' \in SUBSET Packets
  BY <1>1, RestOfChain DEF Typed, taken
<1> QED
  BY <1>2, <1>3, <1>4 DEF Typed, taken, sender

LEMMA refusedTyped == ASSUME Typed, NEW i, refused(i) PROVE Typed'
<1>1. chain[i].l \in Links /\ Without(i) \in Seq(Waiter)
  BY RestOfChain DEF refused
<1> QED
  BY <1>1, ReceiverClosesTyped DEF Typed, refused

LEMMA SenderClosesTyped == ASSUME Typed, NEW l \in Links, SenderCloses(l) PROVE Typed'
<1>1. "none" \in Stages
  BY DEF Stages
<1>2. /\ out' \in [Links -> [Packets -> Place]]
      /\ \A k \in Links \ {l} : out'[k] = out[k]
  BY <1>1, StageType DEF Typed, SenderCloses
<1>3. link' \in [Links -> Ends]
  BY DEF Typed, SenderCloses, Ends
<1>4. /\ pump' \in [Links -> Packets \cup {NoPacket}] /\ pump'[l] \notin Packets
      /\ \A k \in Links \ {l} : pump'[k] = pump[k]
  BY WebRouterAssumption DEF Typed, SenderCloses, Packets
<1>5. acks' \in [Links -> SUBSET Packets]
  BY DEF Typed, SenderCloses
<1>6. \A k \in Links : pump'[k] \in Packets => out'[k][pump'[k]].next < Parts
  BY <1>2, <1>4 DEF Typed
<1> QED
  BY <1>2, <1>3, <1>4, <1>5, <1>6 DEF Typed, SenderCloses

LEMMA TypedNext == ASSUME Typed, [Next]_vars PROVE Typed'
<1>1. CASE \E on \in BOOLEAN : setRelay(on)
  BY <1>1, setRelayTyped
<1>2. CASE Saved
  BY <1>2, SavedTyped
<1>3. ASSUME NEW p \in Packets, broadcast(p) \/ forward(p) \/ cancel(p) PROVE Typed'
  BY <1>3, RetainTyped, cancelTyped DEF broadcast, forward
<1>4. ASSUME NEW l \in Links, newLink(l) \/ write(l) \/ receive(l) PROVE Typed'
  BY <1>4, newLinkTyped, writeTyped, receiveTyped
<1>5. ASSUME NEW l \in Links, NEW p \in Packets,
             transmit(l, p) \/ prepared(l, p) \/ choose(l, p) \/ acknowledged(l, p)
      PROVE  Typed'
  BY <1>5, transmitTyped, preparedTyped, chooseTyped, acknowledgedTyped
<1>6. ASSUME NEW l \in Links, closeSender(l) PROVE Typed'
  BY <1>6, SenderClosesTyped DEF closeSender
<1>7. ASSUME NEW l \in Links, closeReceiver(l) PROVE Typed'
  <2>1. chain \in Seq(Waiter) /\ seen' \in SUBSET Packets
    BY <1>7 DEF Typed, closeReceiver
  <2> QED
    BY <1>7, <2>1, ReceiverClosesTyped DEF closeReceiver
<1>8. CASE Chain
  BY <1>8, duplicateTyped, deliverTyped, takenTyped, refusedTyped DEF Chain
<1>9. CASE UNCHANGED vars
  BY <1>9 DEF Typed, vars, sender
<1> QED
  BY <1>1, <1>2, <1>3, <1>4, <1>5, <1>6, <1>7, <1>8, <1>9 DEF Next, Step

\* The types of all states, with the frames on the wire and the fragment a pump
\* has chosen, which write() takes from the packet without asking again.
THEOREM TypeCorrect == Spec => []TypeOK
<1>1. Init => Typed
  BY InitTyped
<1>2. Typed /\ [Next]_vars => Typed'
  BY TypedNext
<1>3. Typed => TypeOK
  BY DEF Typed, TypeOK, Settings, Request, Ends, Place
<1> QED
  BY <1>1, <1>2, <1>3, PTL DEF Spec

(***************************************************************************)
(* What the receiver answers for                                           *)
(***************************************************************************)

\* What is not the first of the chain is not with the application.
LEMMA RestIsWaiting ==
    ASSUME Typed, Settled, NEW i, Turn(i)
    PROVE  \A j \in DOMAIN Without(i) : ~Without(i)[j].taken
<1>1. DOMAIN Without(i) = 1 .. Len(chain) - 1 /\ chain \in Seq(Waiter)
  BY RestOfChain DEF Typed
<1>2. ASSUME NEW j \in 1 .. Len(chain) - 1
      PROVE  ~Without(i)[j].taken
  <2>1. Without(i)[j] = chain[j + 1] /\ j + 1 \in DOMAIN chain /\ j + 1 # 1
    BY <1>1, RestOfChain
  <2> QED
    BY <2>1 DEF Settled
<1> QED
  BY <1>1, <1>2

\* An acknowledgement is for a packet that was taken.
LEMMA AnsweredSettled ==
    ASSUME Typed, Settled, NEW i, Turn(i), Answered(i), seen \subseteq seen', chain[i].p \in seen'
    PROVE  \A l \in Links : acks'[l] \subseteq seen'
<1>1. \A l \in Links : acks'[l] \subseteq acks[l] \cup {chain[i].p}
  BY DEF Answered, Typed
<1> QED
  BY <1>1 DEF Settled

LEMMA acknowledgedSettled ==
    ASSUME Typed, Settled, NEW l \in Links, NEW p \in Packets, acknowledged(l, p)
    PROVE  Settled'
<1>1. p \in seen
  BY DEF Settled, acknowledged
<1>2. \A k \in Links : acks'[k] \subseteq acks[k]
  BY DEF Typed, acknowledged
<1>3. \A lp \in sent' : lp \in sent \/ lp[2] = p
  BY DEF acknowledged
<1> QED
  BY <1>1, <1>2, <1>3 DEF Settled, acknowledged

\* A link that closes leaves the packets of the chain where they were.
LEMMA ReceiverClosesSettled ==
    ASSUME Typed, Settled, NEW l \in Links, NEW rest \in Seq(Waiter), ReceiverCloses(l, rest),
           \A j \in DOMAIN rest : rest[j].taken => j = 1 /\ rest[j].p \notin seen,
           UNCHANGED <<seen, acks, got, sent>>
    PROVE  Settled'
<1>1. /\ DOMAIN chain' = DOMAIN rest
      /\ \A j \in DOMAIN rest : chain'[j].p = rest[j].p /\ chain'[j].taken = rest[j].taken
  BY ClosedChain DEF ReceiverCloses
<1>2. \A j \in DOMAIN chain' : chain'[j].taken => j = 1 /\ chain'[j].p \notin seen
  BY <1>1
<1> QED
  BY <1>2 DEF Settled

LEMMA receiveSettled == ASSUME Typed, Settled, NEW l \in Links, receive(l) PROVE Settled'
<1>1. CASE ReceiverCloses(l, chain)
  BY <1>1, ReceiverClosesSettled DEF Typed, Settled, receive
<1>2. CASE UNCHANGED chain
  BY <1>2 DEF Settled, receive
<1>3. CASE \E w \in Waiter : ~w.taken /\ chain' = Append(chain, w)
  <2> PICK w \in Waiter : ~w.taken /\ chain' = Append(chain, w)
    BY <1>3
  <2>1. chain \in Seq(Waiter)
    BY DEF Typed
  <2>2. \A j \in DOMAIN chain' : chain'[j].taken => j \in DOMAIN chain /\ chain'[j] = chain[j]
    BY <2>1
  <2> QED
    BY <2>2 DEF Settled, receive
<1>4. UNCHANGED chain \/ ReceiverCloses(l, chain) \/ \E w \in Waiter : ~w.taken /\ chain' = Append(chain, w)
  <2> DEFINE f == Head(wire[l])
             w == [l |-> l, p |-> f.p, taken |-> FALSE, closed |-> FALSE]
  <2>1. wire[l] \in Seq(Frame) /\ wire[l] # <<>>
    BY DEF Typed, receive
  <2>2. f \in Frame
    BY <2>1
  <2>3. w \in Waiter /\ ~w.taken
    BY <2>2 DEF Waiter, Frame
  <2>4. UNCHANGED chain \/ ReceiverCloses(l, chain) \/ chain' = Append(chain, w)
    BY DEF receive
  <2> QED
    BY <2>3, <2>4
<1> QED
  BY <1>1, <1>2, <1>3, <1>4

LEMMA duplicateSettled == ASSUME Typed, Settled, NEW i, duplicate(i) PROVE Settled'
<1>1. Turn(i) /\ Answered(i) /\ chain[i].p \in seen /\ chain' = Without(i)
  BY DEF duplicate
<1>2. \A j \in DOMAIN chain' : ~chain'[j].taken
  BY <1>1, RestIsWaiting
<1>3. \A l \in Links : acks'[l] \subseteq seen'
  BY <1>1, AnsweredSettled DEF duplicate
<1> QED
  BY <1>2, <1>3 DEF Settled, duplicate

LEMMA deliverSettled == ASSUME Typed, Settled, NEW i, deliver(i) PROVE Settled'
<1>1. i = 1 /\ chain \in Seq(Waiter) /\ 1 \in DOMAIN chain /\ chain[1] \in Waiter
  BY RestOfChain DEF deliver, Turn, Typed
<1>2. /\ DOMAIN chain' = DOMAIN chain /\ chain'[1].p = chain[1].p
      /\ \A j \in DOMAIN chain : j # 1 => chain'[j] = chain[j]
  BY <1>1 DEF deliver, Waiter
<1>3. \A j \in DOMAIN chain' : chain'[j].taken => j = 1 /\ chain'[j].p \notin seen
  BY <1>1, <1>2 DEF deliver, Settled
<1> QED
  BY <1>3 DEF Settled, deliver

LEMMA takenSettled == ASSUME Typed, Settled, NEW i, taken(i) PROVE Settled'
<1>1. Turn(i) /\ Answered(i) /\ chain[i].p \in Packets /\ chain' = Without(i)
  BY RestOfChain DEF taken
<1>2. \A j \in DOMAIN chain' : ~chain'[j].taken
  BY <1>1, RestIsWaiting
<1>3. seen' = seen \cup {chain[i].p}
  BY DEF taken
<1>4. \A l \in Links : acks'[l] \subseteq seen'
  BY <1>1, <1>3, AnsweredSettled
<1>5. chain[i].p \notin seen
  BY DEF taken, Settled, Turn
<1>6. \A p \in Packets : got'[p] = IF p \in seen' THEN 1 ELSE 0
  BY <1>1, <1>3, <1>5 DEF Typed, Settled, taken
<1> QED
  BY <1>2, <1>3, <1>4, <1>6 DEF Settled, taken

LEMMA refusedSettled == ASSUME Typed, Settled, NEW i, refused(i) PROVE Settled'
<1>1. Turn(i) /\ chain[i].l \in Links /\ Without(i) \in Seq(Waiter)
  BY RestOfChain DEF refused
<1>2. \A j \in DOMAIN Without(i) : ~Without(i)[j].taken
  BY <1>1, RestIsWaiting
<1> QED
  BY <1>1, <1>2, ReceiverClosesSettled DEF refused

LEMMA SettledNext == ASSUME Typed, Settled, [Next]_vars PROVE Settled'
<1>1. CASE UNCHANGED <<acks, chain, seen, got, sent>>
  BY <1>1 DEF Settled
<1>2. CASE \E on \in BOOLEAN : setRelay(on)
  BY <1>1, <1>2 DEF setRelay
<1>3. CASE Saved
  BY <1>1, <1>3 DEF Saved
<1>4. ASSUME NEW p \in Packets, broadcast(p) \/ forward(p) \/ cancel(p) PROVE Settled'
  BY <1>1, <1>4 DEF broadcast, forward, cancel, Retain
<1>5. ASSUME NEW l \in Links, newLink(l) \/ write(l) PROVE Settled'
  BY <1>1, <1>5 DEF newLink, write
<1>6. ASSUME NEW l \in Links, NEW p \in Packets, transmit(l, p) \/ prepared(l, p) \/ choose(l, p)
      PROVE  Settled'
  BY <1>1, <1>6 DEF transmit, prepared, choose
<1>7. ASSUME NEW l \in Links, closeSender(l) PROVE Settled'
  <2>1. \A k \in Links : acks'[k] \subseteq acks[k]
    BY <1>7 DEF Typed, closeSender, SenderCloses
  <2> QED
    BY <1>7, <2>1 DEF Settled, closeSender, SenderCloses
<1>8. ASSUME NEW l \in Links, closeReceiver(l) PROVE Settled'
  BY <1>8, ReceiverClosesSettled DEF Typed, Settled, closeReceiver
<1>9. CASE Chain
  BY <1>9, duplicateSettled, deliverSettled, takenSettled, refusedSettled DEF Chain
<1>10. CASE UNCHANGED vars
  BY <1>1, <1>10 DEF vars
<1> QED
  BY <1>2, <1>3, <1>4, <1>5, <1>6, <1>7, <1>8, <1>9, <1>10, acknowledgedSettled, receiveSettled
  DEF Next, Step

(***************************************************************************)
(* The consent to relay                                                     *)
(***************************************************************************)

LEMMA setRelayOrdered ==
    ASSUME Typed, Ordered, NEW on \in BOOLEAN, setRelay(on) PROVE Ordered'
<1> DEFINE u == [on |-> on, seq |-> consent.made + 1]
           old == consent.tail
<1>1. /\ consent.made \in Nat /\ old \in Seq(Request) /\ consent \in Settings
      /\ \A j \in DOMAIN old : old[j].seq \in Nat /\ old[j].seq <= consent.made
  <2>1. consent.made \in Nat /\ old \in Seq(Request) /\ consent \in Settings
    BY DEF Typed, Settings
  <2>2. ASSUME NEW j \in DOMAIN old
        PROVE  old[j].seq \in Nat /\ old[j].seq <= consent.made
    <3>1. old[j] \in Request
      BY <2>1, <2>2
    <3> QED
      BY <2>2, <3>1 DEF Request, Ordered
  <2> QED
    BY <2>1, <2>2
<1>2. consent' = [asked |-> on, made |-> consent.made + 1,
                  revokedAt |-> IF on THEN consent.revokedAt ELSE consent.made + 1,
                  tail |-> Append(old, u)]
  BY <1>1 DEF setRelay, Settings
<1>3. ASSUME NEW j \in DOMAIN consent'.tail
      PROVE  /\ consent'.tail[j].seq <= consent'.made
             /\ consent'.tail[j].seq = consent'.made => consent'.tail[j].on = consent'.asked
  <2>1. consent'.tail = Append(old, u)
    BY <1>2
  <2>2. CASE j \in DOMAIN old
    <3>1. consent'.tail[j] = old[j]
      BY <1>1, <2>1, <2>2
    <3>2. old[j].seq < consent.made + 1
      BY <1>1, <2>2
    <3> QED
      BY <1>1, <1>2, <2>2, <3>1, <3>2
  <2>3. CASE j \notin DOMAIN old
    <3>1. consent'.tail[j] = u
      BY <1>1, <2>1, <2>3
    <3> QED
      BY <1>1, <1>2, <3>1
  <2> QED
    BY <2>2, <2>3
<1>4. ~consent'.asked => consent'.revokedAt = consent'.made
  BY <1>2
<1>5. relaying' => consent'.asked
  BY <1>2 DEF setRelay, SetRouter
<1> QED
  BY <1>3, <1>4, <1>5 DEF Ordered, ConsentIsCurrent

LEMMA SavedOrdered == ASSUME Typed, Ordered, Saved PROVE Ordered'
<1>1. /\ consent \in Settings /\ consent.tail \in Seq(Request) /\ consent.tail # <<>>
      /\ consent.made \in Nat
  BY DEF Typed, Settings, Saved
<1>2. consent' = [consent EXCEPT !.tail = Tail(consent.tail)]
  BY DEF Saved
<1>3. /\ consent'.tail = Tail(consent.tail) /\ consent'.asked = consent.asked
      /\ consent'.made = consent.made /\ consent'.revokedAt = consent.revokedAt
  BY <1>1, <1>2 DEF Settings
<1>4. \A j \in DOMAIN consent'.tail :
         j + 1 \in DOMAIN consent.tail /\ consent'.tail[j] = consent.tail[j + 1]
  BY <1>1, <1>3
<1>5. ASSUME relaying'
      PROVE  consent.asked
  <2> DEFINE h == Head(consent.tail)
  <2>1. h \in Request /\ 1 \in DOMAIN consent.tail /\ h = consent.tail[1]
    BY <1>1
  <2>2. h.on /\ h.seq >= consent.revokedAt
    BY <1>5 DEF Saved, SetRouter, Effective
  <2>3. h.seq <= consent.made /\ (h.seq = consent.made => h.on = consent.asked)
    BY <2>1 DEF Ordered
  <2>4. h.seq \in Nat
    BY <2>1 DEF Request
  <2> HIDE DEF h
  <2>5. CASE ~consent.asked
    <3>1. consent.revokedAt = consent.made
      BY <2>5 DEF Ordered
    <3>2. h.seq = consent.made
      BY <1>1, <2>2, <2>3, <2>4, <3>1
    <3> QED
      BY <2>2, <2>3, <2>5, <3>2
  <2> QED
    BY <2>5
<1>6. \A j \in DOMAIN consent'.tail :
         /\ consent'.tail[j].seq <= consent'.made
         /\ consent'.tail[j].seq = consent'.made => consent'.tail[j].on = consent'.asked
  <2> SUFFICES ASSUME NEW j \in DOMAIN consent'.tail
               PROVE  /\ consent'.tail[j].seq <= consent'.made
                      /\ consent'.tail[j].seq = consent'.made => consent'.tail[j].on = consent'.asked
    OBVIOUS
  <2>1. j + 1 \in DOMAIN consent.tail /\ consent'.tail[j] = consent.tail[j + 1]
    BY <1>4
  <2>2. /\ consent.tail[j + 1].seq <= consent.made
        /\ consent.tail[j + 1].seq = consent.made => consent.tail[j + 1].on = consent.asked
    BY <2>1 DEF Ordered
  <2> QED
    BY <1>3, <2>1, <2>2
<1> QED
  BY <1>3, <1>5, <1>6 DEF Ordered, ConsentIsCurrent

LEMMA OrderedNext == ASSUME Typed, Ordered, [Next]_vars PROVE Ordered'
<1>1. CASE UNCHANGED <<relaying, consent>>
  BY <1>1 DEF Ordered, ConsentIsCurrent
<1>2. ASSUME NEW p \in Packets, broadcast(p) \/ forward(p) \/ cancel(p) PROVE Ordered'
  BY <1>1, <1>2 DEF broadcast, forward, cancel, Retain
<1>3. ASSUME NEW l \in Links,
             newLink(l) \/ write(l) \/ receive(l) \/ closeSender(l) \/ closeReceiver(l)
      PROVE  Ordered'
  BY <1>1, <1>3 DEF newLink, write, receive, closeSender, SenderCloses, closeReceiver
<1>4. ASSUME NEW l \in Links, NEW p \in Packets,
             transmit(l, p) \/ prepared(l, p) \/ choose(l, p) \/ acknowledged(l, p)
      PROVE  Ordered'
  BY <1>1, <1>4 DEF transmit, prepared, choose, acknowledged
<1>5. CASE Chain
  BY <1>1, <1>5 DEF Chain, duplicate, deliver, taken, refused
<1>6. CASE UNCHANGED vars
  BY <1>1, <1>6 DEF vars
<1> QED
  BY <1>2, <1>3, <1>4, <1>5, <1>6, setRelayOrdered, SavedOrdered DEF Next, Step

(***************************************************************************)
(* Safety                                                                   *)
(***************************************************************************)

\* The strengthening of TakenOnce, AnsweredIsTaken and ConsentIsCurrent.
IInv == Typed /\ Settled /\ Ordered

LEMMA Invariance == Spec => []IInv
<1>1. Init => IInv
  <2> SUFFICES ASSUME Init PROVE IInv
    OBVIOUS
  <2>1. consent.tail = <<>> /\ consent.revokedAt = consent.made /\ ~relaying
    BY DEF Init
  <2>2. Settled
    BY DEF Init, Settled
  <2> QED
    BY <2>1, <2>2, InitTyped DEF IInv, Ordered, ConsentIsCurrent
<1>2. IInv /\ [Next]_vars => IInv'
  BY TypedNext, SettledNext, OrderedNext DEF IInv
<1> QED
  BY <1>1, <1>2, PTL DEF Spec

\* The application is given one packet at a time, and what it took is remembered
\* before the next one is looked at (#receiveChain of browser/src/router.ts):
\* over any number of links, it never takes a packet twice.
THEOREM TakesOnce == Spec => []TakenOnce
<1>1. IInv => TakenOnce
  BY DEF IInv, Settled, TakenOnce
<1> QED
  BY <1>1, Invariance, PTL

\* A transmission resolves for an ACK only, and the receiver acknowledges what
\* its application took (accept of rtc.ts and of router.ts), now or before.
THEOREM AnswersAreTrue == Spec => []AnsweredIsTaken
<1>1. IInv => AnsweredIsTaken
  <2> SUFFICES ASSUME IInv, NEW lp \in sent PROVE got[lp[2]] >= 1
    BY DEF AnsweredIsTaken
  <2>1. lp[2] \in Packets /\ lp[2] \in seen
    BY DEF IInv, Typed, Settled
  <2> QED
    BY <2>1 DEF IInv, Settled
<1> QED
  BY <1>1, Invariance, PTL

\* The sequence of the last revocation, taken before its update is saved, makes
\* the authorisations asked before it void (setRelay of mesh.ts): however many
\* are waiting in #settingsTail, the router relays only if that was asked last.
THEOREM ConsentHolds == Spec => []ConsentIsCurrent
<1>1. IInv => ConsentIsCurrent
  BY DEF IInv, Ordered
<1> QED
  BY <1>1, Invariance, PTL

(***************************************************************************)
(* The application of a browser, module WebApp, for any operations, any    *)
(* quotas and limits: what the outbox has still to deliver is in the store *)
(* and reserved.  WebApp has an Init and a Next of its own, so that its    *)
(* names have the prefix App!; what it says of the committed state is in   *)
(* WebOutbox.                                                              *)
(***************************************************************************)
CONSTANTS Perishable, MaxLocks, MaxFaults
VARIABLES session, task, queue, net, locks, faults

App == INSTANCE WebApp

(***************************************************************************)
(* The line of activities that wait for the Web Lock                       *)
(***************************************************************************)
In(q, x) == \E i \in 1..Len(q) : q[i] = x
Before(q, x, y) == \E i, j \in 1..Len(q) : i < j /\ q[i] = x /\ q[j] = y
Distinct(q) == \A i, j \in 1..Len(q) : q[i] = q[j] => i = j

\* The places of all but "t" in the line are as they were.
Moves(q, r, t) ==
    /\ r \in Seq(App!Activities) /\ Distinct(r)
    /\ \A x \in App!Activities \ {t} : In(r, x) <=> In(q, x)
    /\ \A x, y \in App!Activities \ {t} : Before(q, x, y) => Before(r, x, y)

\* Who asks for the lock comes last ...
LEMMA Joins ==
    ASSUME NEW q \in Seq(App!Activities), Distinct(q), NEW t \in App!Activities, ~In(q, t)
    PROVE  /\ Moves(q, Append(q, t), t) /\ In(Append(q, t), t)
           /\ \A x \in App!Activities : In(q, x) => Before(Append(q, t), x, t)
<1> DEFINE r == Append(q, t)
           n == Len(q)
<1>1. /\ r \in Seq(App!Activities) /\ n \in Nat /\ Len(r) = n + 1 /\ r[n + 1] = t
      /\ \A i \in 1..n : r[i] = q[i]
  OBVIOUS
<1>2. \A i \in 1..n + 1 : i = n + 1 \/ i \in 1..n
  BY <1>1
<1>3. n + 1 \in 1..n + 1 /\ \A i \in 1..n : i \in 1..n + 1 /\ i < n + 1
  BY <1>1
<1>4. \A i \in 1..n : q[i] # t
  BY DEF In
<1> HIDE DEF r, n
<1>5. Distinct(r)
  BY <1>1, <1>2, <1>4 DEF Distinct, n
<1>6. \A x \in App!Activities : x # t => (In(r, x) <=> In(q, x))
  BY <1>1, <1>2, <1>3 DEF In, n
<1>7. In(r, t)
  BY <1>1, <1>3 DEF In
<1>8. ASSUME NEW x, NEW y, Before(q, x, y) PROVE Before(r, x, y)
  <2>1. PICK i, j \in 1..n : i < j /\ q[i] = x /\ q[j] = y
    BY <1>8 DEF Before, n
  <2> QED
    BY <1>1, <1>3, <2>1 DEF Before
<1>9. ASSUME NEW x \in App!Activities, In(q, x) PROVE Before(r, x, t)
  <2>1. PICK i \in 1..n : q[i] = x
    BY <1>9 DEF In, n
  <2>2. i \in 1..Len(r) /\ n + 1 \in 1..Len(r) /\ i < n + 1
    BY <1>1, <1>3, <2>1
  <2> QED
    BY <1>1, <2>1, <2>2 DEF Before
<1> QED
  BY <1>1, <1>5, <1>6, <1>7, <1>8, <1>9 DEF Moves, r

\* ... and who passes it on was first.
LEMMA Leaves ==
    ASSUME NEW q \in Seq(App!Activities), q # <<>>, Distinct(q)
    PROVE  /\ Head(q) \in App!Activities
           /\ Moves(q, Tail(q), Head(q)) /\ ~In(Tail(q), Head(q)) /\ In(q, Head(q))
           /\ \A x \in App!Activities : ~Before(q, x, Head(q))
<1> DEFINE r == Tail(q)
           n == Len(q)
<1>1. /\ r \in Seq(App!Activities) /\ n \in Nat /\ n >= 1 /\ Len(r) = n - 1
      /\ \A i \in 1..n - 1 : r[i] = q[i + 1]
      /\ Head(q) = q[1] /\ Head(q) \in App!Activities
  BY EmptySeq, HeadTailProperties
<1>2. \A i \in 1..n - 1 : i + 1 \in 1..n /\ i + 1 # 1
  BY <1>1
<1>3. \A i \in 1..n : i = 1 \/ (i - 1 \in 1..n - 1 /\ (i - 1) + 1 = i)
  BY <1>1
<1>4. 1 \in 1..n
  BY <1>1
<1> HIDE DEF r, n
<1>5. Distinct(r)
  <2> SUFFICES ASSUME NEW i \in 1..n - 1, NEW j \in 1..n - 1, r[i] = r[j] PROVE i = j
    BY <1>1 DEF Distinct
  <2>1. i + 1 = j + 1
    BY <1>1, <1>2 DEF Distinct, n
  <2> QED
    BY <1>1, <2>1
<1>6. ASSUME NEW x, x # Head(q) PROVE In(r, x) <=> In(q, x)
  <2>1. ASSUME In(r, x) PROVE In(q, x)
    BY <1>1, <1>2, <2>1 DEF In, n
  <2>2. ASSUME In(q, x) PROVE In(r, x)
    <3>1. PICK i \in 1..n : q[i] = x
      BY <2>2 DEF In, n
    <3>2. i - 1 \in 1..Len(r) /\ r[i - 1] = x
      BY <1>1, <1>3, <1>6, <3>1
    <3> QED
      BY <3>2 DEF In
  <2> QED
    BY <2>1, <2>2
<1>7. ~In(r, Head(q))
  <2> SUFFICES ASSUME NEW i \in 1..n - 1, r[i] = Head(q) PROVE FALSE
    BY <1>1 DEF In
  <2>1. q[i + 1] = q[1] /\ i + 1 \in 1..n /\ i + 1 # 1
    BY <1>1, <1>2
  <2> QED
    BY <1>4, <2>1 DEF Distinct, n
<1>8. In(q, Head(q))
  BY <1>1, <1>4 DEF In, n
<1>9. ASSUME NEW x, NEW y, x # Head(q), Before(q, x, y) PROVE Before(r, x, y)
  <2>1. PICK i, j \in 1..n : i < j /\ q[i] = x /\ q[j] = y
    BY <1>9 DEF Before, n
  <2>2. i # 1 /\ j # 1
    BY <1>1, <1>9, <2>1
  <2>3. /\ i - 1 \in 1..Len(r) /\ j - 1 \in 1..Len(r) /\ i - 1 < j - 1
        /\ r[i - 1] = x /\ r[j - 1] = y
    BY <1>1, <1>3, <2>1, <2>2
  <2> QED
    BY <2>3 DEF Before
<1>10. ASSUME NEW x, Before(q, x, Head(q)) PROVE FALSE
  <2>1. PICK i, j \in 1..n : i < j /\ q[i] = x /\ q[j] = q[1]
    BY <1>1, <1>10 DEF Before, n
  <2>2. j = 1
    BY <1>4, <2>1 DEF Distinct, n
  <2> QED
    BY <1>1, <2>1, <2>2
<1> QED
  BY <1>1, <1>5, <1>6, <1>7, <1>8, <1>9, <1>10 DEF Moves, r

(***************************************************************************)
(* The outbox                                                              *)
(***************************************************************************)
Outboxes == [Ops -> App!Entry \cup {None}]

\* The absence of a record is no record.
Apart == None \notin App!Entry

\* IsPending, with what it reads of the state as a parameter.
Pend(ex, outbox, o) ==
    /\ outbox[o] # None /\ outbox[o].phase # "unavailable"
    /\ o \notin ex /\ outbox[o].confirmed # Readers
Over(ex, outbox, S) == \A o \in S \cap Ops : ~Pend(ex, outbox, o)

\* What a write may do to the records, but those of S: they disappear, are given
\* up, and more is confirmed of them.
Follows(old, new, S) ==
    \A o \in Ops \ S :
        /\ old[o] = None => new[o] = None
        /\ new[o] # None => /\ old[o].confirmed \subseteq new[o].confirmed
                            /\ old[o].phase = "unavailable" => new[o].phase = "unavailable"

LEMMA PendingIs == \A outbox, o : App!IsPending(outbox, o) <=> Pend(expired, outbox, o)
BY DEF App!IsPending, Pend

LEMMA EntryFacts ==
    ASSUME NEW box \in Outboxes, NEW o \in Ops, box[o] # None
    PROVE  /\ box[o] \in App!Entry /\ box[o].confirmed \subseteq Readers
           /\ box[o].phase \in {"ready", "unavailable"}
           /\ box[o] = [phase |-> box[o].phase, confirmed |-> box[o].confirmed]
<1>1. box[o] \in App!Entry
  BY DEF Outboxes
<1> QED
  BY <1>1 DEF App!Entry

\* The reader a confirmation adds to a record.
Added(ack, o) == IF o = ack[1] THEN {ack[2]} ELSE {}

\* A confirmation adds its reader to the record it is about, and no record.
Confirms(old, new, ack) ==
    \A o \in Ops : /\ (old[o] = None) <=> (new[o] = None)
                   /\ old[o] # None => /\ new[o].phase = old[o].phase
                                       /\ new[o].confirmed = old[o].confirmed \cup Added(ack, o)

LEMMA ConfirmationFacts ==
    ASSUME Apart, NEW box \in Outboxes, NEW ack \in App!Acks
    PROVE  /\ App!ApplyConfirmation(box, ack) \in Outboxes
           /\ Confirms(box, App!ApplyConfirmation(box, ack), ack)
<1> DEFINE m == ack[1]
           new == App!ApplyConfirmation(box, ack)
<1>1. m \in Ops /\ ack[2] \in Readers
  BY DEF App!Acks
<1>2. CASE box[m] = None
  <2>1. new = box
    BY <1>2 DEF App!ApplyConfirmation
  <2> HIDE DEF new
  <2>2. \A o \in Ops : box[o] # None => Added(ack, o) = {}
    BY <1>2 DEF Added
  <2> HIDE DEF m
  <2>3. Confirms(box, box, ack)
    <3> SUFFICES ASSUME NEW o \in Ops, box[o] # None
                 PROVE  box[o].confirmed = box[o].confirmed \cup Added(ack, o)
      BY DEF Confirms
    <3> QED
      BY <2>2
  <2> QED
    BY <2>1, <2>3 DEF new
<1>3. CASE box[m] # None
  <2> DEFINE c == box[m].confirmed \cup {ack[2]}
             e == [phase |-> box[m].phase, confirmed |-> c]
  <2>0. new = [box EXCEPT ![m].confirmed = c]
    BY <1>3 DEF App!ApplyConfirmation
  <2>9. Added(ack, m) = {ack[2]} /\ \A o \in Ops : o # m => Added(ack, o) = {}
    BY DEF Added
  <2> HIDE DEF new, c, m
  <2>1. box[m] = [phase |-> box[m].phase, confirmed |-> box[m].confirmed]
    BY <1>1, <1>3, EntryFacts
  <2>2. /\ new \in [Ops -> App!Entry \cup {None, e}]
        /\ new[m] = e /\ \A o \in Ops : o # m => new[o] = box[o]
    BY <1>1, <2>0, <2>1 DEF Outboxes
  <2>3. c \subseteq Readers /\ box[m].confirmed \subseteq c /\ box[m].phase \in {"ready", "unavailable"}
    BY <1>1, <1>3, EntryFacts DEF c
  <2>4. e \in App!Entry
    BY <2>3 DEF App!Entry
  <2>5. new \in Outboxes
    BY <2>2, <2>4 DEF Outboxes
  <2>6. e # None /\ e.phase = box[m].phase /\ e.confirmed = c
    BY <2>4 DEF Apart
  <2> HIDE DEF e
  <2>7. Confirms(box, new, ack)
    <3> SUFFICES ASSUME NEW o \in Ops
                 PROVE  /\ (box[o] = None) <=> (new[o] = None)
                        /\ box[o] # None =>
                             /\ new[o].phase = box[o].phase
                             /\ new[o].confirmed = box[o].confirmed \cup Added(ack, o)
      BY DEF Confirms
    <3>1. CASE o = m
      BY <1>3, <2>2, <2>6, <2>9, <3>1 DEF c
    <3>2. CASE o # m
      BY <2>2, <2>9, <3>2
    <3> QED
      BY <3>1, <3>2
  <2> QED
    BY <2>5, <2>7 DEF new
<1> QED
  BY <1>2, <1>3

LEMMA ConfirmsFollows ==
    ASSUME Apart, NEW box \in Outboxes, NEW ack \in App!Acks
    PROVE  Follows(box, App!ApplyConfirmation(box, ack), {})
<1> DEFINE new == App!ApplyConfirmation(box, ack)
<1>1. Confirms(box, new, ack)
  BY ConfirmationFacts
<1> HIDE DEF new
<1>2. ASSUME NEW o \in Ops, new[o] # None
      PROVE  box[o].confirmed \subseteq new[o].confirmed /\ new[o].phase = box[o].phase
  BY <1>1, <1>2 DEF Confirms
<1>3. \A o \in Ops : box[o] = None => new[o] = None
  BY <1>1 DEF Confirms
<1>4. Follows(box, new, {})
  BY <1>2, <1>3 DEF Follows
<1> QED
  BY <1>4 DEF new

LEMMA OverFollows ==
    ASSUME NEW old \in Outboxes, NEW new \in Outboxes, NEW ex, NEW more, ex \subseteq more,
           NEW S, NEW R, Follows(old, new, S), R \cap S = {}, Over(ex, old, R)
    PROVE  Over(more, new, R)
<1> SUFFICES ASSUME NEW o \in R \cap Ops, Pend(more, new, o) PROVE FALSE
  BY DEF Over
<1>1. o \in Ops \ S /\ ~Pend(ex, old, o)
  BY DEF Over
<1>2. /\ new[o] # None /\ new[o].phase # "unavailable" /\ o \notin ex
      /\ new[o].confirmed # Readers
  BY DEF Pend
<1>3. old[o] # None /\ old[o].confirmed \subseteq new[o].confirmed /\ old[o].phase # "unavailable"
  BY <1>1, <1>2 DEF Follows
<1>4. new[o].confirmed \subseteq Readers
  BY <1>2, EntryFacts
<1>5. old[o].confirmed # Readers
  BY <1>2, <1>3, <1>4
<1> QED
  BY <1>1, <1>2, <1>3, <1>5 DEF Pend

LEMMA FollowsConfirmed ==
    ASSUME Apart, NEW old \in Outboxes, NEW new \in Outboxes, NEW S, NEW ack \in App!Acks,
           Follows(old, new, S)
    PROVE  Follows(App!ApplyConfirmation(old, ack), App!ApplyConfirmation(new, ack), S)
<1> DEFINE a == App!ApplyConfirmation(old, ack)
           b == App!ApplyConfirmation(new, ack)
<1>1. Confirms(old, a, ack) /\ Confirms(new, b, ack)
  BY ConfirmationFacts
<1> HIDE DEF a, b
<1>2. ASSUME NEW o \in Ops \ S, b[o] # None
      PROVE  /\ a[o] # None
             /\ a[o].confirmed \subseteq b[o].confirmed
             /\ a[o].phase = "unavailable" => b[o].phase = "unavailable"
  <2>1. /\ new[o] # None /\ b[o].phase = new[o].phase
        /\ b[o].confirmed = new[o].confirmed \cup Added(ack, o)
    BY <1>1, <1>2 DEF Confirms
  <2>2. /\ old[o] # None /\ old[o].confirmed \subseteq new[o].confirmed
        /\ old[o].phase = "unavailable" => new[o].phase = "unavailable"
    BY <2>1 DEF Follows
  <2>3. /\ a[o] # None /\ a[o].phase = old[o].phase
        /\ a[o].confirmed = old[o].confirmed \cup Added(ack, o)
    BY <1>1, <2>2 DEF Confirms
  <2> QED
    BY <2>1, <2>2, <2>3
<1>3. Follows(a, b, S)
  BY <1>2 DEF Follows
<1> QED
  BY <1>3 DEF a, b

LEMMA UnavailableFacts ==
    ASSUME NEW box \in Outboxes, NEW ops
    PROVE  /\ App!Unavailable(box, ops) \in Outboxes
           /\ Follows(box, App!Unavailable(box, ops), {})
           /\ \A o \in Ops : o \in ops /\ App!Unavailable(box, ops)[o] # None
                            => App!Unavailable(box, ops)[o].phase = "unavailable"
<1> DEFINE new == App!Unavailable(box, ops)
           e(o) == [phase |-> "unavailable", confirmed |-> box[o].confirmed]
<1>1. ASSUME NEW o \in Ops, box[o] # None
      PROVE  [box[o] EXCEPT !.phase = "unavailable"] = e(o) /\ e(o) \in App!Entry
  <2> DEFINE c == box[o].confirmed
             p == box[o].phase
  <2>1. c \subseteq Readers /\ box[o] = [phase |-> p, confirmed |-> c]
    BY <1>1, EntryFacts
  <2>2. [phase |-> "unavailable", confirmed |-> c] \in App!Entry
    BY <2>1 DEF App!Entry
  <2> HIDE DEF c, p
  <2>3. [box[o] EXCEPT !.phase = "unavailable"] = [phase |-> "unavailable", confirmed |-> c]
    BY <2>1
  <2> QED
    BY <2>2, <2>3 DEF c
<1>2. \A o \in Ops : new[o] = IF o \in ops /\ box[o] # None THEN e(o) ELSE box[o]
  BY <1>1 DEF App!Unavailable
<1>3. new = [o \in Ops |-> new[o]]
  BY DEF App!Unavailable
<1> HIDE DEF new
<1>4. \A o \in Ops : new[o] \in App!Entry \cup {None}
  BY <1>1, <1>2 DEF Outboxes
<1>5. new \in Outboxes
  BY <1>3, <1>4 DEF Outboxes
<1>6. \A o \in Ops : e(o).phase = "unavailable" /\ e(o).confirmed = box[o].confirmed
  OBVIOUS
<1> HIDE DEF e
<1>7. Follows(box, new, {})
  BY <1>2, <1>6 DEF Follows
<1>8. \A o \in Ops : o \in ops /\ new[o] # None => new[o].phase = "unavailable"
  BY <1>2, <1>6
<1> QED
  BY <1>5, <1>7, <1>8 DEF new

(***************************************************************************)
(* The invariant                                                           *)
(***************************************************************************)
\* What waits for the Web Lock, or has it.
InLine == {"setup", "creating", "fill", "unlock", "deriving", "quota", "quota-open", "send",
            "spoil", "store", "retry", "reconciling", "attempt", "apply", "reply"}

IsState(d) ==
    /\ d = [profile |-> d.profile, outbox |-> d.outbox, held |-> d.held,
            reserved |-> d.reserved, receipts |-> d.receipts, quota |-> d.quota]
    /\ d.outbox \in Outboxes
IsTask(r) ==
    r = [pc |-> r.pc, live |-> r.live, arg |-> r.arg, ops |-> r.ops, release |-> r.release]
AreTasks(tasks) ==
    /\ tasks = [t \in App!Activities |-> tasks[t]]
    /\ \A t \in App!Activities : IsTask(tasks[t])

Releases(r) == r.pc \in {"reconciling", "apply"}
Keeps(ex, d) == \A o \in Ops : Pend(ex, d.outbox, o) => o \in d.held /\ o \in d.reserved

\* An activity that waits is in the line, and what it is about to release is over.
Waits(q, x, r) == /\ In(q, x) => r.pc \in InLine
                  /\ Releases(r) => In(q, x)
Stale(ex, outbox, r) ==
    /\ r.pc = "reconciling" => Over(ex, outbox, r.release)
    /\ r.pc = "observe" => r.arg \in App!Acks
    /\ r.pc = "apply" => /\ r.arg \in App!Acks
                         /\ Over(ex, App!ApplyConfirmation(outbox, r.arg), r.release)
\* A message about to be admitted has no record, and what still means to release an
\* older one comes first.
Admits(outbox, r) == r.pc = "send" => r.arg \in Ops /\ outbox[r.arg] = None
First(q, x, r, command) ==
    Releases(r) /\ command.pc = "send" /\ command.arg \in r.release => Before(q, x, "command")

Inv(ex, d, tasks, q) ==
    /\ IsState(d) /\ AreTasks(tasks)
    /\ q \in Seq(App!Activities) /\ Distinct(q)
    /\ Keeps(ex, d)
    /\ \A x \in App!Activities : Waits(q, x, tasks[x]) /\ Stale(ex, d.outbox, tasks[x])
    /\ Admits(d.outbox, tasks["command"])
    /\ \A x \in App!Activities \ {"command"} :
          tasks[x].pc # "send" /\ First(q, x, tasks[x], tasks["command"])
AppIInv == Inv(expired, db, task, queue)

\* The same but for the session an activity was started in.
Same(r, s) == r.pc = s.pc /\ r.arg = s.arg /\ r.release = s.release

LEMMA StaleFollows ==
    ASSUME Apart, NEW old \in Outboxes, NEW new \in Outboxes, NEW ex, NEW more, ex \subseteq more,
           NEW S, NEW r, NEW s, Same(r, s), Follows(old, new, S),
           Releases(r) => r.release \cap S = {}, Stale(ex, old, r)
    PROVE  Stale(more, new, s)
<1>1. ASSUME s.pc = "reconciling" PROVE Over(more, new, s.release)
  BY <1>1, OverFollows DEF Same, Stale, Releases
<1>2. ASSUME s.pc = "apply"
      PROVE  s.arg \in App!Acks /\ Over(more, App!ApplyConfirmation(new, s.arg), s.release)
  <2>1. /\ s.arg \in App!Acks /\ Over(ex, App!ApplyConfirmation(old, s.arg), s.release)
        /\ s.release \cap S = {}
    BY <1>2 DEF Same, Stale, Releases
  <2>2. /\ App!ApplyConfirmation(old, s.arg) \in Outboxes
        /\ App!ApplyConfirmation(new, s.arg) \in Outboxes
    BY <2>1, ConfirmationFacts
  <2>3. Follows(App!ApplyConfirmation(old, s.arg), App!ApplyConfirmation(new, s.arg), S)
    BY <2>1, FollowsConfirmed
  <2> QED
    BY <2>1, <2>2, <2>3, OverFollows
<1> QED
  BY <1>1, <1>2 DEF Stale, Same

\* A step of one activity, t, from Inv(ex, d, f, q) to Inv(more, e, g, r), which
\* may begin records for S.
Passes(ex, more, d, e, f, g, q, r, t, S) ==
    /\ ex \subseteq more /\ IsState(e) /\ AreTasks(g) /\ Keeps(more, e)
    /\ Follows(d.outbox, e.outbox, S)
    /\ \A x \in App!Activities \ {t} : Releases(f[x]) => f[x].release \cap S = {}
    /\ S = {} \/ t = "command"
    /\ \A x \in App!Activities \ {t} : Same(f[x], g[x])
    /\ Moves(q, r, t)
    /\ Waits(r, t, g[t]) /\ Stale(more, e.outbox, g[t])
    /\ \A o \in Ops : Releases(g[t]) /\ o \in g[t].release => d.outbox[o] # None
    /\ g[t].pc = "send" =>
          /\ t = "command" /\ g[t].arg \in Ops /\ e.outbox[g[t].arg] = None
          /\ \A x \in App!Activities : In(q, x) /\ x # t => Before(r, x, t)

\* What the others wait for stays right.
LEMMA Change ==
    ASSUME Apart, NEW ex, NEW more, NEW d, NEW e, NEW f, NEW g, NEW q, NEW r,
           NEW t \in App!Activities, NEW S,
           Inv(ex, d, f, q), Passes(ex, more, d, e, f, g, q, r, t, S)
    PROVE  Inv(more, e, g, r)
<1> USE DEF Passes
<1>1. d.outbox \in Outboxes /\ e.outbox \in Outboxes
  BY DEF Inv, IsState
<1>2. r \in Seq(App!Activities) /\ Distinct(r)
  BY DEF Moves
<1>3. ASSUME NEW x \in App!Activities, x # t
      PROVE  Waits(r, x, g[x]) /\ Stale(more, e.outbox, g[x])
  <2>1. Same(f[x], g[x]) /\ Waits(q, x, f[x]) /\ Stale(ex, d.outbox, f[x])
    BY <1>3 DEF Inv
  <2>2. In(r, x) <=> In(q, x)
    BY <1>3 DEF Moves
  <2>3. Waits(r, x, g[x])
    BY <2>1, <2>2 DEF Waits, Same, Releases
  <2>4. Stale(more, e.outbox, g[x])
    BY <1>1, <1>3, <2>1, StaleFollows
  <2> QED
    BY <2>3, <2>4
<1>4. "command" \in App!Activities
  BY DEF App!Activities
<1>5. Admits(e.outbox, g["command"])
  <2>1. CASE t = "command"
    BY <2>1 DEF Admits
  <2>2. CASE t # "command"
    <3>1. Same(f["command"], g["command"]) /\ Admits(d.outbox, f["command"]) /\ S = {}
      BY <1>4, <2>2 DEF Inv
    <3> QED
      BY <3>1 DEF Admits, Same, Follows
  <2> QED
    BY <2>1, <2>2
<1>6. ASSUME NEW x \in App!Activities \ {"command"}
      PROVE  g[x].pc # "send"
  <2>1. CASE x = t
    BY <2>1
  <2>2. CASE x # t
    BY <2>2 DEF Inv, Same
  <2> QED
    BY <2>1, <2>2
<1>7. ASSUME NEW x \in App!Activities \ {"command"},
             Releases(g[x]), g["command"].pc = "send", g["command"].arg \in g[x].release
      PROVE  Before(r, x, "command")
  <2>1. CASE t = "command"
    <3>1. In(q, x)
      BY <1>7, <2>1 DEF Inv, Waits, Same, Releases
    <3> QED
      BY <1>7, <2>1, <3>1
  <2>2. CASE t # "command" /\ x = t
    <3>1. Same(f["command"], g["command"]) /\ Admits(d.outbox, f["command"])
      BY <1>4, <2>2 DEF Inv
    <3>2. g["command"].arg \in Ops /\ d.outbox[g["command"].arg] = None
      BY <1>7, <3>1 DEF Same, Admits
    <3> QED
      BY <1>7, <2>2, <3>2
  <2>3. CASE t # "command" /\ x # t
    <3>1. Same(f["command"], g["command"]) /\ Same(f[x], g[x])
      BY <1>4, <2>3
    <3>2. First(q, x, f[x], f["command"])
      BY DEF Inv
    <3>3. Before(q, x, "command")
      BY <1>7, <3>1, <3>2 DEF First, Same, Releases
    <3> QED
      BY <1>4, <2>3, <3>3 DEF Moves
  <2> QED
    BY <2>1, <2>2, <2>3
<1> QED
  BY <1>2, <1>3, <1>5, <1>6, <1>7 DEF Inv, First

(***************************************************************************)
(* Steps of one activity                                                   *)
(***************************************************************************)
LEMMA MovesRefl == ASSUME NEW q \in Seq(App!Activities), Distinct(q), NEW t PROVE Moves(q, q, t)
BY DEF Moves

LEMMA MovesTwice ==
    ASSUME NEW p, NEW q, NEW r, NEW t, Moves(p, q, t), Moves(q, r, t) PROVE Moves(p, r, t)
BY DEF Moves

LEMMA FollowsRefl == ASSUME NEW box, NEW S PROVE Follows(box, box, S)
BY DEF Follows

\* An activity is given something else to do.
LEMMA SetFacts ==
    ASSUME AreTasks(task), NEW t \in App!Activities, NEW next, IsTask(next),
           task' = [task EXCEPT ![t] = next]
    PROVE  /\ AreTasks(task') /\ task'[t] = next
           /\ \A x \in App!Activities \ {t} : Same(task[x], task'[x])
<1>1. task'[t] = next /\ \A x \in App!Activities \ {t} : task'[x] = task[x]
  BY DEF AreTasks
<1>2. task' = [x \in App!Activities |-> task'[x]]
  BY DEF AreTasks
<1> QED
  BY <1>1, <1>2 DEF AreTasks, Same

\* An exception, and what lock() does meanwhile, end it.
LEMMA EndedFacts ==
    ASSUME NEW tasks, AreTasks(tasks)
    PROVE  AreTasks(App!Ended(tasks)) /\ \A x \in App!Activities : Same(tasks[x], App!Ended(tasks)[x])
<1> DEFINE f == App!Ended(tasks)
<1>1. \A x \in App!Activities : tasks[x] = [pc |-> tasks[x].pc, live |-> tasks[x].live, arg |-> tasks[x].arg,
                                        ops |-> tasks[x].ops, release |-> tasks[x].release]
  BY DEF AreTasks, IsTask
<1>2. \A x \in App!Activities : f[x] = [tasks[x] EXCEPT !.live = FALSE]
  BY DEF App!Ended
<1>3. \A x \in App!Activities :
        f[x] = [pc |-> tasks[x].pc, live |-> FALSE, arg |-> tasks[x].arg,
                ops |-> tasks[x].ops, release |-> tasks[x].release]
  <2> SUFFICES ASSUME NEW x \in App!Activities
               PROVE  f[x] = [pc |-> tasks[x].pc, live |-> FALSE, arg |-> tasks[x].arg,
                              ops |-> tasks[x].ops, release |-> tasks[x].release]
    OBVIOUS
  <2> DEFINE u == tasks[x]
  <2>1. /\ u = [pc |-> u.pc, live |-> u.live, arg |-> u.arg, ops |-> u.ops, release |-> u.release]
        /\ f[x] = [u EXCEPT !.live = FALSE]
    BY <1>1, <1>2
  <2> HIDE DEF u, f
  <2>2. f[x] = [pc |-> u.pc, live |-> FALSE, arg |-> u.arg, ops |-> u.ops, release |-> u.release]
    BY <2>1
  <2> QED
    BY <2>2 DEF u
<1>4. f = [x \in App!Activities |-> f[x]]
  BY DEF App!Ended
<1> HIDE DEF f
<1>5. \A x \in App!Activities : IsTask(f[x]) /\ Same(tasks[x], f[x])
  <2> SUFFICES ASSUME NEW x \in App!Activities PROVE IsTask(f[x]) /\ Same(tasks[x], f[x])
    OBVIOUS
  <2> DEFINE u == tasks[x]
             v == f[x]
  <2>1. v = [pc |-> u.pc, live |-> FALSE, arg |-> u.arg, ops |-> u.ops, release |-> u.release]
    BY <1>3
  <2> HIDE DEF u, v
  <2>2. /\ v.pc = u.pc /\ v.live = FALSE /\ v.arg = u.arg /\ v.ops = u.ops
        /\ v.release = u.release
    BY <2>1
  <2>3. v = [pc |-> v.pc, live |-> v.live, arg |-> v.arg, ops |-> v.ops, release |-> v.release]
    BY <2>1, <2>2, Zenon
  <2> QED
    BY <2>2, <2>3 DEF IsTask, Same, u, v
<1> QED
  BY <1>4, <1>5 DEF AreTasks, f

LEMMA IdleFacts == IsTask(App!Idle) /\ App!Idle.pc = "idle" /\ App!Idle.release = {}
BY DEF App!Idle, IsTask

LEMMA ThrownFacts ==
    ASSUME AreTasks(task), NEW t \in App!Activities, App!Thrown(t)
    PROVE  /\ AreTasks(task') /\ task'[t].pc = "idle"
           /\ \A x \in App!Activities \ {t} : Same(task[x], task'[x])
<1> DEFINE next == [task EXCEPT ![t] = App!Idle]
<1>1. /\ AreTasks(next) /\ next[t] = App!Idle
      /\ \A x \in App!Activities \ {t} : Same(task[x], next[x])
  <2>1. next[t] = App!Idle /\ \A x \in App!Activities \ {t} : next[x] = task[x]
    BY DEF AreTasks
  <2>2. next = [x \in App!Activities |-> next[x]]
    BY DEF AreTasks
  <2> QED
    BY <2>1, <2>2, IdleFacts DEF AreTasks, Same
<1>2. task' = next \/ task' = App!Ended(next)
  BY DEF App!Thrown
<1> HIDE DEF next
<1>3. AreTasks(App!Ended(next)) /\ \A x \in App!Activities : Same(next[x], App!Ended(next)[x])
  BY <1>1, EndedFacts
<1> QED
  BY <1>1, <1>2, <1>3, IdleFacts DEF Same

\* An activity that is not in the line ends with an exception.
LEMMA EndIInv ==
    ASSUME Apart, AppIInv, NEW t \in App!Activities, task[t].pc \notin InLine, App!Thrown(t),
           UNCHANGED <<db, queue, expired>>
    PROVE  AppIInv'
<1>1. /\ IsState(db) /\ AreTasks(task) /\ Keeps(expired, db)
      /\ queue \in Seq(App!Activities) /\ Distinct(queue) /\ ~In(queue, t)
  BY DEF AppIInv, Inv, Waits
<1>2. /\ AreTasks(task') /\ task'[t].pc = "idle"
      /\ \A x \in App!Activities \ {t} : Same(task[x], task'[x])
  BY <1>1, ThrownFacts
<1>3. /\ Waits(queue, t, task'[t]) /\ Stale(expired, db.outbox, task'[t]) /\ ~Releases(task'[t])
  BY <1>1, <1>2 DEF Waits, Stale, Releases
<1>4. Moves(queue, queue, t) /\ Follows(db.outbox, db.outbox, {})
  BY <1>1, MovesRefl, FollowsRefl
<1>5. Passes(expired, expired', db, db', task, task', queue, queue', t, {})
  BY <1>1, <1>2, <1>3, <1>4 DEF Passes
<1> QED
  BY <1>5, Change DEF AppIInv

\* It goes on by itself.
LEMMA StayIInv ==
    ASSUME Apart, AppIInv, NEW t \in App!Activities, task[t].pc \notin InLine,
           NEW next, IsTask(next), next.pc \notin {"reconciling", "apply", "send"},
           next.pc = "observe" => next.arg \in App!Acks,
           App!Set(t, next), UNCHANGED <<db, queue, expired>>
    PROVE  AppIInv'
<1>1. /\ IsState(db) /\ AreTasks(task) /\ Keeps(expired, db)
      /\ queue \in Seq(App!Activities) /\ Distinct(queue) /\ ~In(queue, t)
  BY DEF AppIInv, Inv, Waits
<1>2. /\ AreTasks(task') /\ task'[t] = next
      /\ \A x \in App!Activities \ {t} : Same(task[x], task'[x])
  BY <1>1, SetFacts DEF App!Set
<1>3. /\ Waits(queue, t, task'[t]) /\ Stale(expired, db.outbox, task'[t]) /\ ~Releases(task'[t])
  BY <1>1, <1>2 DEF Waits, Stale, Releases
<1>4. Moves(queue, queue, t) /\ Follows(db.outbox, db.outbox, {})
  BY <1>1, MovesRefl, FollowsRefl
<1>5. Passes(expired, expired', db, db', task, task', queue, queue', t, {})
  BY <1>1, <1>2, <1>3, <1>4 DEF Passes
<1> QED
  BY <1>5, Change DEF AppIInv

\* It asks for the Web Lock.
LEMMA WaitIInv ==
    ASSUME Apart, AppIInv, NEW t \in App!Activities, task[t].pc \notin InLine,
           NEW next, IsTask(next), next.pc \in InLine,
           Stale(expired, db.outbox, next),
           \A o \in Ops : Releases(next) /\ o \in next.release => db.outbox[o] # None,
           next.pc = "send" => t = "command" /\ Admits(db.outbox, next),
           App!Wait(t, next), UNCHANGED <<db, expired>>
    PROVE  AppIInv'
<1>1. /\ IsState(db) /\ AreTasks(task) /\ Keeps(expired, db)
      /\ queue \in Seq(App!Activities) /\ Distinct(queue) /\ ~In(queue, t)
  BY DEF AppIInv, Inv, Waits
<1>2. /\ AreTasks(task') /\ task'[t] = next
      /\ \A x \in App!Activities \ {t} : Same(task[x], task'[x])
  BY <1>1, SetFacts DEF App!Wait, App!Set
<1>3. /\ queue' = Append(queue, t)
      /\ Moves(queue, queue', t) /\ In(queue', t)
      /\ \A x \in App!Activities : In(queue, x) => Before(queue', x, t)
  BY <1>1, Joins DEF App!Wait
<1>4. Waits(queue', t, task'[t])
  BY <1>2, <1>3 DEF Waits
<1>5. Follows(db.outbox, db.outbox, {})
  BY FollowsRefl
<1>6. Passes(expired, expired', db, db', task, task', queue, queue', t, {})
  BY <1>1, <1>2, <1>3, <1>4, <1>5 DEF Passes, Admits
<1> QED
  BY <1>6, Change DEF AppIInv

\* The holder of the lock goes on with it.
LEMMA HoldIInv ==
    ASSUME Apart, AppIInv, NEW t \in App!Activities, In(queue, t),
           NEW next, IsTask(next), next.pc \in InLine \ {"reconciling", "apply", "send"},
           App!Set(t, next), UNCHANGED <<db, queue, expired>>
    PROVE  AppIInv'
<1>1. /\ IsState(db) /\ AreTasks(task) /\ Keeps(expired, db)
      /\ queue \in Seq(App!Activities) /\ Distinct(queue)
  BY DEF AppIInv, Inv
<1>2. /\ AreTasks(task') /\ task'[t] = next
      /\ \A x \in App!Activities \ {t} : Same(task[x], task'[x])
  BY <1>1, SetFacts DEF App!Set
<1>3. /\ Waits(queue, t, task'[t]) /\ Stale(expired, db.outbox, task'[t]) /\ ~Releases(task'[t])
  BY <1>2 DEF Waits, Stale, Releases, InLine
<1>4. Moves(queue, queue, t) /\ Follows(db.outbox, db.outbox, {})
  BY <1>1, MovesRefl, FollowsRefl
<1>5. Passes(expired, expired', db, db', task, task', queue, queue', t, {})
  BY <1>1, <1>2, <1>3, <1>4 DEF Passes
<1> QED
  BY <1>5, Change DEF AppIInv

\* The holder fails, and passes the lock on.
LEMMA RefusedIInv ==
    ASSUME Apart, AppIInv, NEW t \in App!Activities, queue # <<>>, Head(queue) = t, App!Thrown(t),
           queue' = Tail(queue), UNCHANGED <<db, expired>>
    PROVE  AppIInv'
<1>1. /\ IsState(db) /\ AreTasks(task) /\ Keeps(expired, db)
      /\ queue \in Seq(App!Activities) /\ Distinct(queue)
  BY DEF AppIInv, Inv
<1>2. /\ AreTasks(task') /\ task'[t].pc = "idle"
      /\ \A x \in App!Activities \ {t} : Same(task[x], task'[x])
  BY <1>1, ThrownFacts
<1>3. Moves(queue, queue', t) /\ ~In(queue', t)
  BY <1>1, Leaves
<1>4. /\ Waits(queue', t, task'[t]) /\ Stale(expired, db.outbox, task'[t]) /\ ~Releases(task'[t])
  BY <1>2, <1>3 DEF Waits, Stale, Releases
<1>5. Follows(db.outbox, db.outbox, {})
  BY FollowsRefl
<1>6. Passes(expired, expired', db, db', task, task', queue, queue', t, {})
  BY <1>1, <1>2, <1>3, <1>4, <1>5 DEF Passes
<1> QED
  BY <1>6, Change DEF AppIInv

\* The holder commits, or the transaction aborts, or the session ends meanwhile.
Written(t, to, next) ==
    /\ queue # <<>> /\ Head(queue) = t /\ expired' = expired
    /\ \/ /\ db' = to /\ App!Set(t, next)
          /\ queue' = Tail(queue) \/ (queue' = Append(Tail(queue), t) /\ next.pc \in InLine)
       \/ /\ db' = to /\ task' = App!Ended([task EXCEPT ![t] = App!Idle]) /\ queue' = Tail(queue)
       \/ /\ db' = db /\ App!Thrown(t) /\ queue' = Tail(queue)

LEMMA MutateIs ==
    ASSUME NEW t, NEW pc, App!Turn(t, pc), NEW to, NEW msgs, NEW next
    PROVE  /\ App!Mutate(t, to, msgs, next, FALSE) => Written(t, to, next)
           /\ App!Commit(t, to, msgs, next, FALSE) => Written(t, to, next)
           /\ App!Mutate(t, to, msgs, next, TRUE) /\ next.pc \in InLine => Written(t, to, next)
           /\ App!Commit(t, to, msgs, next, TRUE) /\ next.pc \in InLine => Written(t, to, next)
           /\ App!Refused(t) => Written(t, to, next)
<1>1. App!Commit(t, to, msgs, next, FALSE) => Written(t, to, next)
  BY DEF App!Turn, App!Commit, Written
<1>2. App!Commit(t, to, msgs, next, TRUE) /\ next.pc \in InLine => Written(t, to, next)
  BY DEF App!Turn, App!Commit, Written
<1>3. App!Refused(t) => Written(t, to, next)
  BY DEF App!Turn, App!Refused, Written
<1> QED
  BY <1>1, <1>2, <1>3 DEF App!Mutate

LEMMA WrittenIInv ==
    ASSUME Apart, AppIInv, NEW t \in App!Activities, NEW to, NEW next, NEW S, Written(t, to, next),
           IsState(to), Keeps(expired, to), Follows(db.outbox, to.outbox, S),
           \A x \in App!Activities \ {t} : Releases(task[x]) => task[x].release \cap S = {},
           S = {} \/ t = "command",
           IsTask(next), next.pc \notin {"reconciling", "apply", "observe", "send"}
    PROVE  AppIInv'
<1>1. /\ IsState(db) /\ AreTasks(task) /\ Keeps(expired, db)
      /\ queue \in Seq(App!Activities) /\ Distinct(queue)
      /\ queue # <<>> /\ Head(queue) = t /\ expired' = expired
  BY DEF AppIInv, Inv, Written
<1>2. Moves(queue, Tail(queue), t) /\ ~In(Tail(queue), t)
  BY <1>1, Leaves
<1>3. /\ Moves(queue, Append(Tail(queue), t), t)
  <2>1. Tail(queue) \in Seq(App!Activities) /\ Distinct(Tail(queue))
    BY <1>2 DEF Moves
  <2>2. Moves(Tail(queue), Append(Tail(queue), t), t)
    BY <1>2, <2>1, Joins
  <2> QED
    BY <1>2, <2>2, MovesTwice
<1>4. CASE /\ db' = to /\ App!Set(t, next)
           /\ queue' = Tail(queue) \/ (queue' = Append(Tail(queue), t) /\ next.pc \in InLine)
  <2>1. /\ AreTasks(task') /\ task'[t] = next
        /\ \A x \in App!Activities \ {t} : Same(task[x], task'[x])
    BY <1>1, <1>4, SetFacts DEF App!Set
  <2>2. Moves(queue, queue', t)
    BY <1>2, <1>3, <1>4
  <2>3. /\ Waits(queue', t, task'[t]) /\ Stale(expired, to.outbox, task'[t]) /\ ~Releases(task'[t])
    BY <1>2, <1>4, <2>1 DEF Waits, Stale, Releases
  <2>4. Passes(expired, expired', db, db', task, task', queue, queue', t, S)
    BY <1>1, <1>4, <2>1, <2>2, <2>3 DEF Passes
  <2> QED
    BY <2>4, Change DEF AppIInv
<1>5. CASE db' = to /\ task' = App!Ended([task EXCEPT ![t] = App!Idle]) /\ queue' = Tail(queue)
  <2> DEFINE tasks == [task EXCEPT ![t] = App!Idle]
  <2>1. /\ AreTasks(tasks) /\ tasks[t] = App!Idle
        /\ \A x \in App!Activities \ {t} : Same(task[x], tasks[x])
    <3>1. tasks[t] = App!Idle /\ \A x \in App!Activities \ {t} : tasks[x] = task[x]
      BY <1>1 DEF AreTasks
    <3>2. tasks = [x \in App!Activities |-> tasks[x]]
      BY <1>1 DEF AreTasks
    <3> QED
      BY <1>1, <3>1, <3>2, IdleFacts DEF AreTasks, Same
  <2> HIDE DEF tasks
  <2>2. /\ AreTasks(task') /\ \A x \in App!Activities : Same(tasks[x], task'[x])
    BY <1>5, <2>1, EndedFacts DEF tasks
  <2>3. /\ task'[t].pc = "idle" /\ \A x \in App!Activities \ {t} : Same(task[x], task'[x])
    BY <2>1, <2>2, IdleFacts DEF Same
  <2>4. /\ Waits(queue', t, task'[t]) /\ Stale(expired, to.outbox, task'[t]) /\ ~Releases(task'[t])
    BY <1>2, <1>5, <2>3 DEF Waits, Stale, Releases
  <2>5. Passes(expired, expired', db, db', task, task', queue, queue', t, S)
    BY <1>1, <1>2, <1>5, <2>2, <2>3, <2>4 DEF Passes
  <2> QED
    BY <2>5, Change DEF AppIInv
<1>6. CASE db' = db /\ App!Thrown(t) /\ queue' = Tail(queue)
  BY <1>1, <1>6, RefusedIInv
<1> QED
  BY <1>4, <1>5, <1>6 DEF Written

(***************************************************************************)
(* What activities go on to do                                             *)
(***************************************************************************)
\* A record of an activity, field by field.
LEMMA TaskFacts ==
    ASSUME NEW pc, NEW live, NEW arg, NEW ops, NEW release, NEW r,
           r = [pc |-> pc, live |-> live, arg |-> arg, ops |-> ops, release |-> release]
    PROVE  /\ IsTask(r) /\ r.pc = pc /\ r.live = live /\ r.arg = arg /\ r.ops = ops
           /\ r.release = release
<1>1. /\ r.pc = pc /\ r.live = live /\ r.arg = arg /\ r.ops = ops
      /\ r.release = release
  OBVIOUS
<1>2. IsTask(r)
  BY <1>1, Zenon DEF IsTask
<1> QED
  BY <1>1, <1>2

LEMMA PcIs ==
    ASSUME NEW u, IsTask(u), NEW x
    PROVE  [u EXCEPT !.pc = x] = [pc |-> x, live |-> u.live, arg |-> u.arg, ops |-> u.ops, release |-> u.release]
<1>1. u = [pc |-> u.pc, live |-> u.live, arg |-> u.arg, ops |-> u.ops, release |-> u.release]
  BY DEF IsTask
<1> QED
  BY <1>1

LEMMA LiveIs ==
    ASSUME NEW u, IsTask(u), NEW x
    PROVE  [u EXCEPT !.live = x] = [pc |-> u.pc, live |-> x, arg |-> u.arg, ops |-> u.ops, release |-> u.release]
<1>1. u = [pc |-> u.pc, live |-> u.live, arg |-> u.arg, ops |-> u.ops, release |-> u.release]
  BY DEF IsTask
<1> QED
  BY <1>1

LEMMA ArgIs ==
    ASSUME NEW u, IsTask(u), NEW x
    PROVE  [u EXCEPT !.arg = x] = [pc |-> u.pc, live |-> u.live, arg |-> x, ops |-> u.ops, release |-> u.release]
<1>1. u = [pc |-> u.pc, live |-> u.live, arg |-> u.arg, ops |-> u.ops, release |-> u.release]
  BY DEF IsTask
<1> QED
  BY <1>1

LEMMA OpsIs ==
    ASSUME NEW u, IsTask(u), NEW x
    PROVE  [u EXCEPT !.ops = x] = [pc |-> u.pc, live |-> u.live, arg |-> u.arg, ops |-> x, release |-> u.release]
<1>1. u = [pc |-> u.pc, live |-> u.live, arg |-> u.arg, ops |-> u.ops, release |-> u.release]
  BY DEF IsTask
<1> QED
  BY <1>1

LEMMA ReleaseIs ==
    ASSUME NEW u, IsTask(u), NEW x
    PROVE  [u EXCEPT !.release = x] = [pc |-> u.pc, live |-> u.live, arg |-> u.arg, ops |-> u.ops, release |-> x]
<1>1. u = [pc |-> u.pc, live |-> u.live, arg |-> u.arg, ops |-> u.ops, release |-> u.release]
  BY DEF IsTask
<1> QED
  BY <1>1

LEMMA StartIs ==
    ASSUME NEW pc, NEW arg
    PROVE  App!Start(pc, arg) = [pc |-> pc, live |-> TRUE, arg |-> arg, ops |-> {}, release |-> {}]
<1> DEFINE a == [App!Idle EXCEPT !.pc = pc]
           b == [a EXCEPT !.arg = arg]
           c == [b EXCEPT !.live = TRUE]
<1>1. App!Start(pc, arg) = c
  BY Zenon DEF App!Start
<1>2. App!Idle.ops = {} /\ App!Idle.release = {}
  BY DEF App!Idle
<1>3. a = [pc |-> pc, live |-> App!Idle.live, arg |-> App!Idle.arg,
           ops |-> App!Idle.ops, release |-> App!Idle.release]
  BY IdleFacts, PcIs
<1> HIDE DEF a
<1>4. IsTask(a) /\ a.pc = pc /\ a.ops = {} /\ a.release = {}
  BY <1>2, <1>3, TaskFacts
<1>5. b = [pc |-> pc, live |-> a.live, arg |-> arg, ops |-> {}, release |-> {}]
  BY <1>4, ArgIs
<1> HIDE DEF b
<1>6. IsTask(b) /\ b.pc = pc /\ b.arg = arg /\ b.ops = {} /\ b.release = {}
  BY <1>5, TaskFacts
<1> QED
  BY <1>1, <1>6, LiveIs

LEMMA LoadIs ==
    ASSUME NEW o, NEW ops
    PROVE  [App!Idle EXCEPT !.pc = "load", !.arg = o, !.ops = ops, !.live = TRUE]
             = [pc |-> "load", live |-> TRUE, arg |-> o, ops |-> ops, release |-> {}]
<1> DEFINE a == [App!Idle EXCEPT !.pc = "load"]
           b == [a EXCEPT !.arg = o]
           c == [b EXCEPT !.ops = ops]
           d == [c EXCEPT !.live = TRUE]
<1>1. [App!Idle EXCEPT !.pc = "load", !.arg = o, !.ops = ops, !.live = TRUE] = d
  BY Zenon
<1>2. App!Idle.release = {}
  BY DEF App!Idle
<1>3. a = [pc |-> "load", live |-> App!Idle.live, arg |-> App!Idle.arg,
           ops |-> App!Idle.ops, release |-> App!Idle.release]
  BY IdleFacts, PcIs
<1> HIDE DEF a
<1>4. IsTask(a) /\ a.pc = "load" /\ a.release = {}
  BY <1>2, <1>3, TaskFacts
<1>5. b = [pc |-> "load", live |-> a.live, arg |-> o, ops |-> a.ops, release |-> {}]
  BY <1>4, ArgIs
<1> HIDE DEF b
<1>6. IsTask(b) /\ b.pc = "load" /\ b.arg = o /\ b.release = {}
  BY <1>5, TaskFacts
<1>7. c = [pc |-> "load", live |-> b.live, arg |-> o, ops |-> ops, release |-> {}]
  BY <1>6, OpsIs
<1> HIDE DEF c
<1>8. IsTask(c) /\ c.pc = "load" /\ c.arg = o /\ c.ops = ops /\ c.release = {}
  BY <1>7, TaskFacts
<1>9. d = [pc |-> c.pc, live |-> TRUE, arg |-> c.arg, ops |-> c.ops, release |-> c.release]
  BY <1>8, LiveIs
<1> HIDE DEF d
<1> QED
  BY <1>1, <1>8, <1>9

LEMMA StartFacts ==
    ASSUME NEW pc, NEW arg
    PROVE  /\ IsTask(App!Start(pc, arg)) /\ App!Start(pc, arg).pc = pc /\ App!Start(pc, arg).arg = arg
           /\ App!Start(pc, arg).release = {}
<1>1. App!Start(pc, arg) = [pc |-> pc, live |-> TRUE, arg |-> arg, ops |-> {}, release |-> {}]
  BY StartIs
<1> QED
  BY <1>1, TaskFacts

LEMMA GoFacts ==
    ASSUME NEW t \in App!Activities, IsTask(task[t]), NEW pc
    PROVE  /\ IsTask(App!Go(t, pc)) /\ App!Go(t, pc).pc = pc /\ App!Go(t, pc).arg = task[t].arg
           /\ App!Go(t, pc) = [pc |-> pc, live |-> task[t].live, arg |-> task[t].arg,
                           ops |-> task[t].ops, release |-> task[t].release]
<1> DEFINE u == task[t]
           v == App!Go(t, pc)
<1>1. u = [pc |-> u.pc, live |-> u.live, arg |-> u.arg, ops |-> u.ops, release |-> u.release]
  BY DEF IsTask
<1>2. v = [u EXCEPT !.pc = pc]
  BY DEF App!Go
<1> HIDE DEF u, v
<1>3. v = [pc |-> pc, live |-> u.live, arg |-> u.arg, ops |-> u.ops, release |-> u.release]
  BY <1>1, <1>2
<1>4. v.pc = pc /\ v.live = u.live /\ v.arg = u.arg /\ v.ops = u.ops /\ v.release = u.release
  BY <1>3
<1>5. IsTask(v)
  BY <1>3, <1>4, Zenon DEF IsTask
<1> QED
  BY <1>3, <1>4, <1>5 DEF u, v

LEMMA NextEntryFacts ==
    ASSUME NEW ops, NEW next \in App!NextEntry(ops)
    PROVE  IsTask(next) /\ next.pc \in {"idle", "load"}
<1>1. CASE ops = {}
  BY <1>1, IdleFacts DEF App!NextEntry
<1>2. CASE ops # {}
  <2>1. PICK o \in ops : next = [App!Idle EXCEPT !.pc = "load", !.arg = o, !.ops = ops \ {o}, !.live = TRUE]
    BY <1>2, Zenon DEF App!NextEntry
  <2>2. next = [pc |-> "load", live |-> TRUE, arg |-> o, ops |-> ops \ {o}, release |-> {}]
    BY <2>1, LoadIs
  <2> QED
    BY <2>2, TaskFacts
<1> QED
  BY <1>1, <1>2

LEMMA AfterFacts ==
    ASSUME NEW t PROVE IsTask(App!AfterReconcile(t)) /\ App!AfterReconcile(t).pc \in {"idle", "scan"}
<1> DEFINE r == [App!Idle EXCEPT !.pc = "scan"]
<1>1. r = [pc |-> "scan", live |-> App!Idle.live, arg |-> App!Idle.arg, ops |-> App!Idle.ops,
           release |-> App!Idle.release]
  BY IdleFacts, PcIs
<1> HIDE DEF r
<1>2. IsTask(r) /\ r.pc = "scan"
  BY <1>1, TaskFacts
<1> QED
  BY <1>2, IdleFacts DEF App!AfterReconcile, r

(***************************************************************************)
(* What is written                                                         *)
(***************************************************************************)
\* The outbox and the reservations change as updateValue makes them.
LEMMA UpdateFacts ==
    ASSUME NEW d, IsState(d), NEW box \in Outboxes, NEW release
    PROVE  /\ IsState(App!Update(d, box, release)) /\ App!Update(d, box, release).outbox = box
           /\ App!Update(d, box, release).held = d.held
           /\ App!Update(d, box, release).reserved = d.reserved \ release
<1> DEFINE e == App!Update(d, box, release)
           left == d.reserved \ release
<1>1. d = [profile |-> d.profile, outbox |-> d.outbox, held |-> d.held,
           reserved |-> d.reserved, receipts |-> d.receipts, quota |-> d.quota]
  BY DEF IsState
<1>2. e = [d EXCEPT !.outbox = box, !.reserved = left]
  BY DEF App!Update
<1> HIDE DEF e, left
<1>3. e = [profile |-> d.profile, outbox |-> box, held |-> d.held,
           reserved |-> left, receipts |-> d.receipts, quota |-> d.quota]
  BY <1>1, <1>2
<1>4. /\ e.profile = d.profile /\ e.outbox = box /\ e.held = d.held
      /\ e.reserved = left /\ e.receipts = d.receipts /\ e.quota = d.quota
  BY <1>3
<1>5. IsState(e)
  BY <1>3, <1>4, Zenon DEF IsState
<1> QED
  BY <1>4, <1>5 DEF e, left

\* A message that is still pending keeps its place when another bundle is stored.
LEMMA PutFacts ==
    ASSUME IsState(db), NEW id, NEW reserve \in BOOLEAN, NEW e \in App!PutBundle(db, id, reserve)
    PROVE  /\ IsState(e) /\ e.outbox = db.outbox /\ e.profile = db.profile
           /\ \A o \in Ops \ expired : o \in db.held /\ o \in db.reserved
                                          => o \in e.held /\ o \in e.reserved
           /\ reserve => id \in e.held /\ id \in e.reserved
<1> DEFINE others == (db.held \ expired) \ {id}
           excess == App!Max({0, App!Cardinality(others) + 1 - quota})
<1>1. PICK drop \in App!kSubset(excess, others \ db.reserved) :
         e = [db EXCEPT !.held = (others \ drop) \cup {id},
                        !.reserved = (@ \cap (others \ drop)) \cup App!Kept(db, id, reserve)]
  BY DEF App!PutBundle
<1>2. drop \subseteq others \ db.reserved
  BY DEF App!kSubset
<1> DEFINE h == (others \ drop) \cup {id}
           r == (db.reserved \cap (others \ drop)) \cup App!Kept(db, id, reserve)
<1>3. e = [db EXCEPT !.held = h, !.reserved = r]
  BY <1>1
<1>4. db = [profile |-> db.profile, outbox |-> db.outbox, held |-> db.held,
            reserved |-> db.reserved, receipts |-> db.receipts, quota |-> db.quota]
  BY DEF IsState
<1>5. \A o \in Ops \ expired : o \in db.held /\ o \in db.reserved => o \in h /\ o \in r
  BY <1>2 DEF App!Kept
<1>6. reserve => id \in h /\ id \in r
  BY DEF App!Kept
<1> HIDE DEF h, r
<1>7. e = [profile |-> db.profile, outbox |-> db.outbox, held |-> h,
           reserved |-> r, receipts |-> db.receipts, quota |-> db.quota]
  BY <1>3, <1>4
<1>8. /\ e.profile = db.profile /\ e.outbox = db.outbox /\ e.held = h
      /\ e.reserved = r /\ e.receipts = db.receipts /\ e.quota = db.quota
  BY <1>7
<1>9. IsState(e)
  BY <1>7, <1>8 DEF IsState
<1> QED
  BY <1>5, <1>6, <1>8, <1>9

\* ... and when the quota changes.
LEMMA ShrunkFacts ==
    ASSUME IsState(db), NEW q, NEW e \in App!Shrunk(db, q)
    PROVE  /\ IsState(e) /\ e.outbox = db.outbox
           /\ \A o \in Ops \ expired : o \in db.held /\ o \in db.reserved
                                          => o \in e.held /\ o \in e.reserved
<1> DEFINE excess == App!Max({0, App!Cardinality(db.held) - q})
           free == db.held \ (db.reserved \ expired)
<1>1. PICK drop \in App!kSubset(excess, free) :
         e = [db EXCEPT !.held = @ \ drop, !.reserved = @ \ drop]
  BY DEF App!Shrunk
<1>2. drop \subseteq free
  BY DEF App!kSubset
<1> DEFINE h == db.held \ drop
           r == db.reserved \ drop
<1>3. e = [db EXCEPT !.held = h, !.reserved = r]
  BY <1>1
<1>4. db = [profile |-> db.profile, outbox |-> db.outbox, held |-> db.held,
            reserved |-> db.reserved, receipts |-> db.receipts, quota |-> db.quota]
  BY DEF IsState
<1>5. \A o \in Ops \ expired : o \in db.held /\ o \in db.reserved => o \in h /\ o \in r
  BY <1>2
<1> HIDE DEF h, r
<1>7. e = [profile |-> db.profile, outbox |-> db.outbox, held |-> h,
           reserved |-> r, receipts |-> db.receipts, quota |-> db.quota]
  BY <1>3, <1>4
<1>8. /\ e.profile = db.profile /\ e.outbox = db.outbox /\ e.held = h
      /\ e.reserved = r /\ e.receipts = db.receipts /\ e.quota = db.quota
  BY <1>7
<1>9. IsState(e)
  BY <1>7, <1>8 DEF IsState
<1> QED
  BY <1>5, <1>8, <1>9

\* What is pending stays in the store when only the store changes.
LEMMA KeepsStored ==
    ASSUME NEW ex, NEW d, NEW e, Keeps(ex, d), e.outbox = d.outbox,
           \A o \in Ops \ ex : o \in d.held /\ o \in d.reserved => o \in e.held /\ o \in e.reserved
    PROVE  Keeps(ex, e)
BY DEF Keeps, Pend

\* ... and when what is released is over in the new outbox.
LEMMA KeepsReleased ==
    ASSUME NEW ex, NEW d, IsState(d), NEW box \in Outboxes, NEW release, Keeps(ex, d),
           Follows(d.outbox, box, {}), Over(ex, box, release)
    PROVE  Keeps(ex, App!Update(d, box, release))
<1> DEFINE e == App!Update(d, box, release)
<1>1. e.outbox = box /\ e.held = d.held /\ e.reserved = d.reserved \ release
  BY UpdateFacts
<1> HIDE DEF e
<1>2. ASSUME NEW o \in Ops, Pend(ex, box, o) PROVE o \in d.held /\ o \in d.reserved \ release
  <2>1. d.outbox \in Outboxes
    BY DEF IsState
  <2>2. Pend(ex, d.outbox, o)
    <3>1. \A x \in {} : FALSE
      OBVIOUS
    <3>2. ~Over(ex, box, {o})
      BY <1>2 DEF Over
    <3>3. ~Over(ex, d.outbox, {o})
      BY <2>1, <3>2, OverFollows
    <3> QED
      BY <3>3 DEF Over
  <2> QED
    BY <1>2, <2>2 DEF Keeps, Over
<1>3. Keeps(ex, e)
  BY <1>1, <1>2 DEF Keeps
<1> QED
  BY <1>3 DEF e

(***************************************************************************)
(* Each kind of step keeps the invariant                                   *)
(***************************************************************************)
\* What an activity waits for that carries nothing to release.
Plain == InLine \ {"reconciling", "apply", "send"}

LEMMA AskIInv ==
    ASSUME Apart, AppIInv, NEW t \in App!Activities, task[t].pc \notin InLine,
           NEW next, IsTask(next), next.pc \in Plain, App!Wait(t, next), App!Local
    PROVE  AppIInv'
<1>1. next.pc \in InLine /\ next.pc # "send" /\ Stale(expired, db.outbox, next) /\ ~Releases(next)
  BY DEF Plain, InLine, Stale, Releases
<1> QED
  BY <1>1, WaitIInv DEF App!Local

LEMMA CallIInv ==
    ASSUME Apart, AppIInv, NEW t \in App!Activities, task[t].pc \notin InLine,
           NEW pc \in Plain, NEW arg, App!Wait(t, App!Start(pc, arg)), App!Local
    PROVE  AppIInv'
<1>1. IsTask(App!Start(pc, arg)) /\ App!Start(pc, arg).pc \in Plain
  BY StartFacts
<1> QED
  BY <1>1, AskIInv

LEMMA RefuseIInv ==
    ASSUME Apart, AppIInv, NEW t \in App!Activities, NEW pc, App!Turn(t, pc), App!Refused(t) PROVE AppIInv'
BY RefusedIInv DEF App!Turn, App!Refused

LEMMA CommitIInv ==
    ASSUME Apart, AppIInv, NEW t \in App!Activities, NEW to, NEW next, Written(t, to, next),
           IsState(to), Keeps(expired, to), Follows(db.outbox, to.outbox, {}),
           IsTask(next), next.pc \notin {"reconciling", "apply", "observe", "send"}
    PROVE  AppIInv'
<1>1. \A x \in App!Activities \ {t} : Releases(task[x]) => task[x].release \cap {} = {}
  OBVIOUS
<1> QED
  BY <1>1, WrittenIInv

\* The store changes, or nothing, and what is pending stays.
LEMMA StoreIInv ==
    ASSUME Apart, AppIInv, NEW t \in App!Activities, NEW to, NEW next, Written(t, to, next),
           IsState(to), to.outbox = db.outbox,
           \A o \in Ops \ expired : o \in db.held /\ o \in db.reserved
                                       => o \in to.held /\ o \in to.reserved,
           IsTask(next), next.pc \notin {"reconciling", "apply", "observe", "send"}
    PROVE  AppIInv'
<1>1. Keeps(expired, db)
  BY DEF AppIInv, Inv
<1>2. Keeps(expired, to)
  BY <1>1, KeepsStored
<1>3. Follows(db.outbox, to.outbox, {})
  BY FollowsRefl
<1> QED
  BY <1>2, <1>3, CommitIInv

\* Fields that the invariant does not speak of.
LEMMA FieldFacts ==
    ASSUME NEW d, IsState(d), NEW x
    PROVE  /\ IsState([d EXCEPT !.profile = x]) /\ [d EXCEPT !.profile = x].outbox = d.outbox
           /\ [d EXCEPT !.profile = x].held = d.held
           /\ [d EXCEPT !.profile = x].reserved = d.reserved
           /\ IsState([d EXCEPT !.quota = x]) /\ [d EXCEPT !.quota = x].outbox = d.outbox
           /\ [d EXCEPT !.quota = x].held = d.held
           /\ [d EXCEPT !.quota = x].reserved = d.reserved
           /\ IsState([d EXCEPT !.receipts = x]) /\ [d EXCEPT !.receipts = x].outbox = d.outbox
           /\ [d EXCEPT !.receipts = x].held = d.held
           /\ [d EXCEPT !.receipts = x].reserved = d.reserved
<1> DEFINE p == [d EXCEPT !.profile = x]
           q == [d EXCEPT !.quota = x]
           r == [d EXCEPT !.receipts = x]
<1>1. d = [profile |-> d.profile, outbox |-> d.outbox, held |-> d.held,
           reserved |-> d.reserved, receipts |-> d.receipts, quota |-> d.quota]
      /\ d.outbox \in Outboxes
  BY DEF IsState
<1>2. p = [profile |-> x, outbox |-> d.outbox, held |-> d.held,
           reserved |-> d.reserved, receipts |-> d.receipts, quota |-> d.quota]
  BY <1>1
<1>3. q = [profile |-> d.profile, outbox |-> d.outbox, held |-> d.held,
           reserved |-> d.reserved, receipts |-> d.receipts, quota |-> x]
  BY <1>1
<1>4. r = [profile |-> d.profile, outbox |-> d.outbox, held |-> d.held,
           reserved |-> d.reserved, receipts |-> x, quota |-> d.quota]
  BY <1>1
<1> HIDE DEF p, q, r
<1>5. /\ p.profile = x /\ p.outbox = d.outbox /\ p.held = d.held
      /\ p.reserved = d.reserved /\ p.receipts = d.receipts /\ p.quota = d.quota
  BY <1>2
<1>6. /\ q.profile = d.profile /\ q.outbox = d.outbox /\ q.held = d.held
      /\ q.reserved = d.reserved /\ q.receipts = d.receipts /\ q.quota = x
  BY <1>3
<1>7. /\ r.profile = d.profile /\ r.outbox = d.outbox /\ r.held = d.held
      /\ r.reserved = d.reserved /\ r.receipts = x /\ r.quota = d.quota
  BY <1>4
<1>8. IsState(p)
  BY <1>1, <1>2, <1>5, Zenon DEF IsState
<1>9. IsState(q)
  BY <1>1, <1>3, <1>6, Zenon DEF IsState
<1>10. IsState(r)
  BY <1>1, <1>4, <1>7, Zenon DEF IsState
<1> QED
  BY <1>5, <1>6, <1>7, <1>8, <1>9, <1>10 DEF p, q, r

LEMMA HolderIs ==
    ASSUME AppIInv, NEW t, NEW pc, App!Turn(t, pc)
    PROVE  /\ t \in App!Activities /\ In(queue, t) /\ task[t].pc = pc /\ IsTask(task[t])
           /\ \A x \in App!Activities : ~Before(queue, x, t)
<1>1. queue \in Seq(App!Activities) /\ Distinct(queue) /\ queue # <<>> /\ Head(queue) = t
  BY DEF AppIInv, Inv, App!Turn
<1>2. t \in App!Activities /\ In(queue, t) /\ \A x \in App!Activities : ~Before(queue, x, t)
  BY <1>1, Leaves
<1> QED
  BY <1>2 DEF AppIInv, Inv, AreTasks, App!Turn

LEMMA CommandIs == "command" \in App!Activities /\ "ingest" \in App!Activities /\ "flush" \in App!Activities
BY DEF App!Activities

LEMMA TasksAre == ASSUME AppIInv, NEW t \in App!Activities PROVE IsTask(task[t])
BY DEF AppIInv, Inv, AreTasks

(***************************************************************************)
(* Setting up and unlocking                                                *)
(***************************************************************************)
LEMMA SetupIInv ==
    ASSUME Apart, AppIInv, App!CallSetup \/ App!MakeIdentity \/ App!install \/ App!Fill PROVE AppIInv'
<1>0. IsState(db) /\ "command" \in App!Activities /\ IsTask(task["command"])
  BY CommandIs, TasksAre DEF AppIInv, Inv
<1>1. CASE App!CallSetup
  <2>1. /\ task["command"].pc \notin InLine /\ "setup" \in Plain
        /\ App!Wait("command", App!Start("setup", None)) /\ App!Local
    BY <1>1 DEF App!CallSetup, App!Ready, InLine, Plain
  <2> QED
    BY <1>0, <2>1, CallIInv
<1>2. CASE App!MakeIdentity
  <2>1. App!Turn("command", "setup")
    BY <1>2 DEF App!MakeIdentity
  <2>2. CASE App!Refused("command")
    BY <1>0, <2>1, <2>2, RefuseIInv
  <2>3. CASE App!Set("command", App!Start("creating", None)) /\ UNCHANGED <<session, queue>> /\ App!Local
    <3>1. IsTask(App!Start("creating", None)) /\ App!Start("creating", None).pc = "creating"
      BY StartFacts
    <3>2. In(queue, "command")
      BY <2>1, HolderIs
    <3> QED
      BY <1>0, <2>3, <3>1, <3>2, HoldIInv DEF InLine, App!Local
  <2> QED
    BY <1>2, <2>2, <2>3 DEF App!MakeIdentity
<1>3. CASE App!install
  <2>1. App!Turn("command", "creating")
    BY <1>3 DEF App!install
  <2>2. CASE App!Refused("command")
    BY <1>0, <2>1, <2>2, RefuseIInv
  <2> DEFINE to == [db EXCEPT !.profile = "bare"]
             next == App!Go("command", "fill")
  <2>3. CASE App!Commit("command", to, {}, next, TRUE)
    <3>1. IsTask(next) /\ next.pc = "fill" /\ IsState(to) /\ to.outbox = db.outbox
          /\ to.held = db.held /\ to.reserved = db.reserved
      BY <1>0, GoFacts, FieldFacts
    <3> HIDE DEF to, next
    <3>2. Written("command", to, next)
      BY <2>1, <2>3, <3>1, MutateIs DEF InLine
    <3> QED
      BY <1>0, <3>1, <3>2, StoreIInv
  <2> QED
    BY <1>3, <2>2, <2>3 DEF App!install
<1>4. CASE App!Fill
  <2>1. App!Turn("command", "fill")
    BY <1>4 DEF App!Fill
  <2>2. CASE App!Refused("command")
    BY <1>0, <2>1, <2>2, RefuseIInv
  <2> DEFINE to == [db EXCEPT !.profile = "ready"]
             next == App!Go("command", "quota-open")
  <2>3. CASE App!Commit("command", to, {}, next, TRUE)
    <3>1. IsTask(next) /\ next.pc = "quota-open" /\ IsState(to) /\ to.outbox = db.outbox
          /\ to.held = db.held /\ to.reserved = db.reserved
      BY <1>0, GoFacts, FieldFacts
    <3> HIDE DEF to, next
    <3>2. Written("command", to, next)
      BY <2>1, <2>3, <3>1, MutateIs DEF InLine
    <3> QED
      BY <1>0, <3>1, <3>2, StoreIInv
  <2> QED
    BY <1>4, <2>2, <2>3 DEF App!Fill
<1> QED
  BY <1>1, <1>2, <1>3, <1>4

LEMMA UnlockIInv == ASSUME Apart, AppIInv, App!CallUnlock \/ App!Derive \/ App!unlock PROVE AppIInv'
<1>0. IsState(db) /\ "command" \in App!Activities /\ IsTask(task["command"])
  BY CommandIs, TasksAre DEF AppIInv, Inv
<1>1. CASE App!CallUnlock
  <2>1. /\ task["command"].pc \notin InLine /\ "unlock" \in Plain
        /\ App!Wait("command", App!Start("unlock", None)) /\ App!Local
    BY <1>1 DEF App!CallUnlock, App!Ready, InLine, Plain
  <2> QED
    BY <1>0, <2>1, CallIInv
<1>2. CASE App!Derive
  <2>1. /\ App!Turn("command", "unlock") /\ App!Set("command", App!Start("deriving", None))
        /\ UNCHANGED queue /\ App!Local
    BY <1>2 DEF App!Derive
  <2>2. IsTask(App!Start("deriving", None)) /\ App!Start("deriving", None).pc = "deriving"
    BY StartFacts
  <2>3. In(queue, "command")
    BY <2>1, HolderIs
  <2> QED
    BY <1>0, <2>1, <2>2, <2>3, HoldIInv DEF InLine, App!Local
<1>3. CASE App!unlock
  <2>1. App!Turn("command", "deriving") /\ App!Local
    BY <1>3 DEF App!unlock
  <2>2. CASE App!Thrown("command") /\ queue' = Tail(queue)
    BY <1>0, <2>1, <2>2, RefusedIInv DEF App!Turn, App!Local
  <2> DEFINE pc == IF db.profile = "bare" THEN "fill" ELSE "quota-open"
             next == App!Start(pc, None)
  <2>3. CASE App!Set("command", next) /\ queue' = Append(Tail(queue), "command")
    <3>1. IsTask(next) /\ next.pc = pc
      BY StartFacts
    <3>2. pc \in {"fill", "quota-open"}
      OBVIOUS
    <3> HIDE DEF next, pc
    <3>3. Written("command", db, next)
      BY <2>1, <2>3, <3>1, <3>2 DEF Written, App!Turn, App!Local, InLine
    <3> QED
      BY <1>0, <3>1, <3>2, <3>3, StoreIInv
  <2> QED
    BY <1>3, <2>2, <2>3 DEF App!unlock
<1> QED
  BY <1>1, <1>2, <1>3

LEMMA QuotaIInv == ASSUME Apart, AppIInv, App!changeQuota \/ \E q \in Quotas : App!CallQuota(q) PROVE AppIInv'
<1>0. IsState(db) /\ "command" \in App!Activities /\ IsTask(task["command"])
  BY CommandIs, TasksAre DEF AppIInv, Inv
<1>1. ASSUME NEW q \in Quotas, App!CallQuota(q) PROVE AppIInv'
  <2>1. /\ task["command"].pc \notin InLine /\ "quota" \in Plain
        /\ App!Wait("command", App!Start("quota", q)) /\ App!Local
    BY <1>1 DEF App!CallQuota, App!Ready, InLine, Plain
  <2> QED
    BY <1>0, <2>1, CallIInv
<1>2. ASSUME App!changeQuota PROVE AppIInv'
  <2>1. PICK pc \in {"quota", "quota-open"} :
          /\ App!Turn("command", pc)
          /\ LET q == IF pc = "quota" THEN task["command"].arg ELSE App!OpenQuota
                 saved == IF pc = "quota" THEN q ELSE db.quota
                 next == IF pc = "quota" THEN App!Idle ELSE App!Go("command", "reconcile")
             IN  IF session /\ App!Shrunk(db, q) # {}
                 THEN \E d \in App!Shrunk(db, q) :
                          App!Mutate("command", [d EXCEPT !.quota = saved], {}, next, FALSE)
                 ELSE App!Refused("command")
    BY <1>2, Zenon DEF App!changeQuota
  <2> DEFINE q == IF pc = "quota" THEN task["command"].arg ELSE App!OpenQuota
             saved == IF pc = "quota" THEN q ELSE db.quota
             next == IF pc = "quota" THEN App!Idle ELSE App!Go("command", "reconcile")
  <2>2. IsTask(next) /\ next.pc \in {"idle", "reconcile"}
    BY <1>0, GoFacts, IdleFacts
  <2>3. \/ App!Refused("command")
        \/ \E d \in App!Shrunk(db, q) : App!Mutate("command", [d EXCEPT !.quota = saved], {}, next, FALSE)
    BY <2>1
  <2> HIDE DEF q, saved, next
  <2>4. CASE App!Refused("command")
    BY <1>0, <2>1, <2>4, RefuseIInv
  <2>5. ASSUME NEW d \in App!Shrunk(db, q), App!Mutate("command", [d EXCEPT !.quota = saved], {}, next, FALSE)
        PROVE  AppIInv'
    <3> DEFINE to == [d EXCEPT !.quota = saved]
    <3>1. /\ IsState(d) /\ d.outbox = db.outbox
          /\ \A o \in Ops \ expired : o \in db.held /\ o \in db.reserved
                                         => o \in d.held /\ o \in d.reserved
      BY <1>0, ShrunkFacts
    <3>2. IsState(to) /\ to.outbox = d.outbox /\ to.held = d.held /\ to.reserved = d.reserved
      BY <3>1, FieldFacts
    <3>3. Written("command", to, next)
      BY <2>1, <2>5, MutateIs
    <3> HIDE DEF to
    <3> QED
      BY <1>0, <2>2, <3>1, <3>2, <3>3, StoreIInv
  <2> QED
    BY <2>3, <2>4, <2>5
<1> QED
  BY <1>1, <1>2

(***************************************************************************)
(* Sending                                                                 *)
(***************************************************************************)
\* What admitOutbox returns has a record for o, and else what it had or less.
LEMMA AdmitFacts ==
    ASSUME Apart, NEW box \in Outboxes, NEW o \in Ops, box[o] = None, NEW new \in App!AdmitOutbox(box, o)
    PROVE  /\ new \in Outboxes /\ Follows(box, new, {o})
           /\ \A x \in Ops : x # o /\ new[x] # None => new[x] = box[x]
<1> DEFINE over == App!PresentOf(box) \ App!PendingOf(box)
           excess == App!Max({0, App!Cardinality(App!PresentOf(box)) + 1 - MaxTotal})
           entry == [phase |-> "ready", confirmed |-> {}]
<1>1. PICK drop \in App!kSubset(excess, over) :
        new = [x \in Ops |-> CASE x = o -> entry [] x \in drop -> None [] OTHER -> box[x]]
  BY Zenon DEF App!AdmitOutbox
<1>2. drop \subseteq over
  BY DEF App!kSubset
<1>3. o \notin drop
  BY <1>2 DEF App!PresentOf
<1>4. entry \in App!Entry
  BY DEF App!Entry
<1> HIDE DEF entry, over, excess
<1>5. ASSUME NEW x \in Ops
      PROVE  /\ x = o => new[x] = entry
             /\ x # o /\ x \in drop => new[x] = None
             /\ x # o /\ x \notin drop => new[x] = box[x]
  <2>1. CASE x = o
    BY <1>1, <1>3, <2>1
  <2>2. CASE x # o /\ x \in drop
    BY <1>1, <2>2
  <2>3. CASE x # o /\ x \notin drop
    BY <1>1, <2>3
  <2> QED
    BY <2>1, <2>2, <2>3
<1>6. new = [x \in Ops |-> new[x]]
  BY <1>1
<1>7. \A x \in Ops : new[x] \in App!Entry \cup {None}
  BY <1>4, <1>5 DEF Outboxes
<1>8. new \in Outboxes
  BY <1>6, <1>7 DEF Outboxes
<1>9. \A x \in Ops : x # o /\ new[x] # None => new[x] = box[x]
  BY <1>5
<1>10. \A x \in Ops : x # o /\ box[x] = None => new[x] = None
  BY <1>5
<1>11. Follows(box, new, {o})
  BY <1>9, <1>10 DEF Follows
<1> QED
  BY <1>8, <1>9, <1>11

LEMMA OutboxField ==
    ASSUME NEW d, IsState(d), NEW box \in Outboxes
    PROVE  /\ IsState([d EXCEPT !.outbox = box]) /\ [d EXCEPT !.outbox = box].outbox = box
           /\ [d EXCEPT !.outbox = box].held = d.held
           /\ [d EXCEPT !.outbox = box].reserved = d.reserved
<1> DEFINE p == [d EXCEPT !.outbox = box]
<1>1. d = [profile |-> d.profile, outbox |-> d.outbox, held |-> d.held,
           reserved |-> d.reserved, receipts |-> d.receipts, quota |-> d.quota]
  BY DEF IsState
<1>2. p = [profile |-> d.profile, outbox |-> box, held |-> d.held,
           reserved |-> d.reserved, receipts |-> d.receipts, quota |-> d.quota]
  BY <1>1
<1> HIDE DEF p
<1>3. /\ p.profile = d.profile /\ p.outbox = box /\ p.held = d.held
      /\ p.reserved = d.reserved /\ p.receipts = d.receipts /\ p.quota = d.quota
  BY <1>2
<1>4. IsState(p)
  BY <1>2, <1>3, Zenon DEF IsState
<1> QED
  BY <1>3, <1>4 DEF p

LEMMA SendIInv == ASSUME Apart, AppIInv, App!send PROVE AppIInv'
<1>0. IsState(db) /\ "command" \in App!Activities /\ IsTask(task["command"]) /\ db.outbox \in Outboxes
      /\ Keeps(expired, db)
  BY CommandIs, TasksAre DEF AppIInv, Inv, IsState
<1> DEFINE o == task["command"].arg
           full == TRUE
<1>1. App!Turn("command", "send")
  BY DEF App!send
<1>2. o \in Ops /\ db.outbox[o] = None
  BY <1>1 DEF App!Turn, AppIInv, Inv, Admits
<1>3. \/ App!Refused("command")
      \/ \E d \in App!PutBundle(db, o, full), b \in App!AdmitOutbox(db.outbox, o) :
            App!Mutate("command", [d EXCEPT !.outbox = b], {}, App!Idle, FALSE)
  BY DEF App!send
<1>4. full \in BOOLEAN /\ full
  OBVIOUS
<1> HIDE DEF o, full
<1>5. CASE App!Refused("command")
  BY <1>0, <1>1, <1>5, RefuseIInv
<1>6. ASSUME NEW d \in App!PutBundle(db, o, full), NEW b \in App!AdmitOutbox(db.outbox, o),
             App!Mutate("command", [d EXCEPT !.outbox = b], {}, App!Idle, FALSE)
      PROVE  AppIInv'
  <2> DEFINE to == [d EXCEPT !.outbox = b]
  <2>1. /\ IsState(d) /\ d.outbox = db.outbox
        /\ \A x \in Ops \ expired : x \in db.held /\ x \in db.reserved
                                       => x \in d.held /\ x \in d.reserved
        /\ o \in d.held /\ o \in d.reserved
    BY <1>0, <1>4, PutFacts
  <2>2. /\ b \in Outboxes /\ Follows(db.outbox, b, {o})
        /\ \A x \in Ops : x # o /\ b[x] # None => b[x] = db.outbox[x]
    BY <1>0, <1>2, AdmitFacts
  <2>3. IsState(to) /\ to.outbox = b /\ to.held = d.held /\ to.reserved = d.reserved
    BY <2>1, <2>2, OutboxField
  <2>4. Written("command", to, App!Idle)
    BY <1>1, <1>6, MutateIs
  <2> HIDE DEF to
  <2>5. Keeps(expired, to)
    <3> SUFFICES ASSUME NEW x \in Ops, Pend(expired, b, x) PROVE x \in d.held /\ x \in d.reserved
      BY <2>3 DEF Keeps
    <3>1. CASE x = o
      BY <2>1, <3>1
    <3>2. CASE x # o
      <4>1. b[x] = db.outbox[x] /\ x \notin expired
        BY <2>2, <3>2 DEF Pend
      <4>2. Pend(expired, db.outbox, x)
        BY <4>1 DEF Pend
      <4> QED
        BY <1>0, <2>1, <4>1, <4>2 DEF Keeps
    <3> QED
      BY <3>1, <3>2
  <2>6. ASSUME NEW x \in App!Activities \ {"command"}, Releases(task[x]) PROVE task[x].release \cap {o} = {}
    <3>1. ~Before(queue, x, "command")
      BY <1>1, HolderIs
    <3>2. First(queue, x, task[x], task["command"])
      BY DEF AppIInv, Inv
    <3>3. o \notin task[x].release
      BY <1>1, <2>6, <3>1, <3>2 DEF First, App!Turn, o
    <3> QED
      BY <3>3
  <2>7. IsTask(App!Idle) /\ App!Idle.pc = "idle"
    BY IdleFacts
  <2> QED
    BY <1>0, <2>2, <2>3, <2>4, <2>5, <2>6, <2>7, WrittenIInv
<1> QED
  BY <1>3, <1>5, <1>6

LEMMA CallsIInv ==
    ASSUME Apart, AppIInv, NEW o \in Ops, App!CallSend(o) \/ App!CallView(o) \/ App!CallRetry(o) PROVE AppIInv'
<1>0. "command" \in App!Activities
  BY CommandIs
<1>1. task["command"].pc = "idle" /\ task["command"].pc \notin InLine /\ App!Local
  BY DEF App!CallSend, App!CallView, App!CallRetry, App!Ready, InLine
<1>2. CASE App!Wait("command", App!Start("store", o)) \/ App!Wait("command", App!Start("retry", o))
  <2>1. "store" \in Plain /\ "retry" \in Plain
    BY DEF Plain, InLine
  <2> QED
    BY <1>0, <1>1, <1>2, <2>1, CallIInv
<1>3. CASE db.outbox[o] = None /\ App!Wait("command", App!Start("send", o))
  <2> DEFINE next == App!Start("send", o)
  <2>1. IsTask(next) /\ next.pc = "send" /\ next.arg = o /\ next.release = {}
    BY StartFacts
  <2> HIDE DEF next
  <2>2. next.pc \in InLine /\ Stale(expired, db.outbox, next) /\ ~Releases(next)
        /\ Admits(db.outbox, next)
    BY <1>3, <2>1 DEF InLine, Stale, Releases, Admits
  <2> QED
    BY <1>0, <1>1, <1>3, <2>1, <2>2, WaitIInv DEF App!Local, next
<1>4. CASE App!Set("command", App!Start("resend", o)) /\ UNCHANGED queue
  <2>1. IsTask(App!Start("resend", o)) /\ App!Start("resend", o).pc = "resend"
    BY StartFacts
  <2> QED
    BY <1>0, <1>1, <1>4, <2>1, StayIInv DEF App!Local
<1> QED
  BY <1>2, <1>3, <1>4 DEF App!CallSend, App!CallView, App!CallRetry

LEMMA ResendIInv == ASSUME Apart, AppIInv, App!resend \/ App!retry PROVE AppIInv'
<1>0. IsState(db) /\ "command" \in App!Activities /\ IsTask(task["command"])
      /\ IsTask(App!Idle) /\ App!Idle.pc = "idle"
  BY CommandIs, TasksAre, IdleFacts DEF AppIInv, Inv
<1>1. CASE App!resend
  <2>1. task["command"].pc \notin InLine /\ App!Local
    BY <1>1 DEF App!resend, InLine
  <2>2. CASE App!Set("command", App!Idle) /\ UNCHANGED queue
    BY <1>0, <2>1, <2>2, StayIInv DEF App!Local
  <2>3. CASE App!Wait("command", App!Go("command", "spoil"))
    <3>1. IsTask(App!Go("command", "spoil")) /\ App!Go("command", "spoil").pc \in Plain
      BY <1>0, GoFacts DEF Plain, InLine
    <3> QED
      BY <1>0, <2>1, <2>3, <3>1, AskIInv
  <2> QED
    BY <1>1, <2>2, <2>3 DEF App!resend
<1>2. CASE App!retry
  <2>1. App!Turn("command", "retry")
    BY <1>2 DEF App!retry
  <2>2. CASE App!Refused("command")
    BY <1>0, <2>1, <2>2, RefuseIInv
  <2>3. CASE App!Mutate("command", db, {}, App!Idle, FALSE)
    <3>1. Written("command", db, App!Idle)
      BY <2>1, <2>3, MutateIs
    <3> QED
      BY <1>0, <3>1, StoreIInv
  <2> QED
    BY <1>2, <2>2, <2>3 DEF App!retry
<1> QED
  BY <1>1, <1>2

(***************************************************************************)
(* The outbox reconciled, and its flush                                    *)
(***************************************************************************)
LEMMA ReconcileReadIInv ==
    ASSUME Apart, AppIInv, NEW t \in App!Activities, App!ReconcileRead(t) PROVE AppIInv'
<1>0. IsState(db) /\ IsTask(task[t]) /\ task[t].pc \notin InLine /\ App!Local
  BY TasksAre DEF AppIInv, Inv, App!ReconcileRead, InLine
<1> DEFINE missing == {o \in App!PresentOf(db.outbox) : /\ o \notin db.held
                                                    /\ db.outbox[o].phase # "unavailable"}
           release == App!PresentOf(db.outbox) \ App!PendingOf(db.outbox)
           next == [App!Go(t, "reconciling") EXCEPT !.ops = missing, !.release = release]
<1>1. \/ App!Set(t, App!AfterReconcile(t)) /\ UNCHANGED queue
      \/ App!Wait(t, next)
  BY DEF App!ReconcileRead
<1>2. CASE App!Set(t, App!AfterReconcile(t)) /\ UNCHANGED queue
  <2>1. IsTask(App!AfterReconcile(t)) /\ App!AfterReconcile(t).pc \in {"idle", "scan"}
    BY AfterFacts
  <2> QED
    BY <1>0, <1>2, <2>1, StayIInv DEF App!Local
<1>3. CASE App!Wait(t, next)
  <2> DEFINE a == App!Go(t, "reconciling")
             b == [a EXCEPT !.ops = missing]
  <2>1. IsTask(a) /\ a.pc = "reconciling"
    BY <1>0, GoFacts
  <2>2. next = [b EXCEPT !.release = release]
    BY Zenon
  <2>3. \A o \in Ops : o \in release => db.outbox[o] # None /\ ~Pend(expired, db.outbox, o)
    BY PendingIs DEF App!PresentOf, App!PendingOf
  <2> HIDE DEF a, missing, release
  <2>4. b = [pc |-> "reconciling", live |-> a.live, arg |-> a.arg, ops |-> missing,
             release |-> a.release]
    BY <2>1, OpsIs
  <2> HIDE DEF b
  <2>5. IsTask(b) /\ b.pc = "reconciling"
    BY <2>4, TaskFacts
  <2> HIDE DEF next
  <2>6. next = [pc |-> "reconciling", live |-> b.live, arg |-> b.arg, ops |-> b.ops,
                release |-> release]
    BY <2>2, <2>5, ReleaseIs
  <2>7. IsTask(next) /\ next.pc = "reconciling" /\ next.release = release
    BY <2>6, TaskFacts
  <2>8. Stale(expired, db.outbox, next) /\ next.pc \in InLine
    BY <2>3, <2>7 DEF Stale, Over, InLine
  <2>9. \A o \in Ops : Releases(next) /\ o \in next.release => db.outbox[o] # None
    BY <2>3, <2>7
  <2>10. next.pc = "send" => t = "command" /\ Admits(db.outbox, next)
    BY <2>7
  <2> QED
    BY <1>0, <1>3, <2>7, <2>8, <2>9, <2>10, WaitIInv DEF App!Local
<1> QED
  BY <1>1, <1>2, <1>3

\* What updateValue writes when records are given up and what is over is released.
LEMMA GiveUpIInv ==
    ASSUME Apart, AppIInv, NEW t \in App!Activities, NEW pc, App!Turn(t, pc), NEW ops, NEW release,
           Over(expired, App!Unavailable(db.outbox, ops), release),
           NEW msgs, NEW next, IsTask(next), next.pc \notin {"reconciling", "apply", "observe", "send"},
           App!Mutate(t, App!Update(db, App!Unavailable(db.outbox, ops), release), msgs, next, FALSE)
    PROVE  AppIInv'
<1>0. IsState(db) /\ db.outbox \in Outboxes /\ Keeps(expired, db)
  BY DEF AppIInv, Inv, IsState
<1> DEFINE box == App!Unavailable(db.outbox, ops)
           to == App!Update(db, box, release)
<1>1. box \in Outboxes /\ Follows(db.outbox, box, {})
  BY <1>0, UnavailableFacts
<1>2. Written(t, to, next)
  BY MutateIs
<1>3. Over(expired, box, release)
  OBVIOUS
<1> HIDE DEF box
<1>4. IsState(to) /\ to.outbox = box
  BY <1>0, <1>1, UpdateFacts
<1>5. Keeps(expired, to)
  BY <1>0, <1>1, <1>3, KeepsReleased
<1> HIDE DEF to
<1> QED
  BY <1>1, <1>2, <1>4, <1>5, CommitIInv

LEMMA ReconcileIInv == ASSUME Apart, AppIInv, NEW t \in App!Activities, App!Reconcile(t) PROVE AppIInv'
<1>0. db.outbox \in Outboxes
  BY DEF AppIInv, Inv, IsState
<1>1. App!Turn(t, "reconciling")
  BY DEF App!Reconcile
<1>2. CASE App!Refused(t)
  BY <1>1, <1>2, RefuseIInv
<1>3. CASE App!Mutate(t, App!Update(db, App!Unavailable(db.outbox, task[t].ops), task[t].release),
                  {}, App!AfterReconcile(t), FALSE)
  <2> DEFINE ops == task[t].ops
             release == task[t].release
             box == App!Unavailable(db.outbox, ops)
             next == App!AfterReconcile(t)
  <2>1. box \in Outboxes /\ Follows(db.outbox, box, {})
    BY <1>0, UnavailableFacts
  <2>2. Over(expired, db.outbox, release)
    BY <1>1 DEF AppIInv, Inv, Stale, App!Turn
  <2>3. IsTask(next) /\ next.pc \in {"idle", "scan"}
    BY AfterFacts
  <2>4. App!Mutate(t, App!Update(db, App!Unavailable(db.outbox, ops), release), {}, next, FALSE)
    BY <1>3
  <2> HIDE DEF release, next, ops
  <2>5. Over(expired, box, release)
    <3> HIDE DEF box
    <3> QED
      BY <1>0, <2>1, <2>2, OverFollows
  <2> QED
    BY <1>1, <2>3, <2>4, <2>5, GiveUpIInv
<1> QED
  BY <1>2, <1>3 DEF App!Reconcile

LEMMA SpoilIInv == ASSUME Apart, AppIInv, NEW t \in App!Activities, App!Spoil(t) PROVE AppIInv'
<1>0. db.outbox \in Outboxes
  BY DEF AppIInv, Inv, IsState
<1>1. App!Turn(t, "spoil")
  BY DEF App!Spoil
<1>2. CASE App!Refused(t)
  BY <1>1, <1>2, RefuseIInv
<1> DEFINE o == task[t].arg
           ops == {o}
           box == App!Unavailable(db.outbox, ops)
<1>3. ASSUME NEW next \in App!NextEntry(task[t].ops), App!Mutate(t, App!Update(db, box, ops), {}, next, FALSE)
      PROVE  AppIInv'
  <2>1. \A x \in Ops : x \in ops /\ box[x] # None => box[x].phase = "unavailable"
    BY <1>0, UnavailableFacts
  <2>2. Over(expired, box, ops)
    BY <2>1 DEF Over, Pend
  <2>3. IsTask(next) /\ next.pc \in {"idle", "load"}
    BY NextEntryFacts
  <2> HIDE DEF ops
  <2> QED
    BY <1>1, <1>3, <2>2, <2>3, GiveUpIInv
<1> QED
  BY <1>2, <1>3 DEF App!Spoil

LEMMA FlushIInv ==
    ASSUME Apart, AppIInv,
           \/ App!StartFlush \/ App!NoPeers \/ App!Loaded \/ App!Attempt
           \/ \E due \in SUBSET Ops : App!Scan(due)
    PROVE  AppIInv'
<1>0. IsState(db) /\ "flush" \in App!Activities /\ IsTask(task["flush"])
      /\ IsTask(App!Idle) /\ App!Idle.pc = "idle"
  BY CommandIs, TasksAre, IdleFacts DEF AppIInv, Inv
<1>1. CASE App!StartFlush
  <2> DEFINE r == [App!Idle EXCEPT !.pc = "reconcile"]
  <2>1. r = [pc |-> "reconcile", live |-> App!Idle.live, arg |-> App!Idle.arg, ops |-> App!Idle.ops,
             release |-> App!Idle.release]
    BY IdleFacts, PcIs
  <2>2. task["flush"].pc \notin InLine /\ App!Set("flush", r) /\ App!Local /\ UNCHANGED queue
    BY <1>1 DEF App!StartFlush, App!Ready, InLine
  <2> HIDE DEF r
  <2>3. IsTask(r) /\ r.pc = "reconcile"
    BY <2>1, TaskFacts
  <2> QED
    BY <1>0, <2>2, <2>3, StayIInv DEF App!Local
<1>2. ASSUME NEW due, App!Scan(due) PROVE AppIInv'
  <2>1. PICK next \in App!NextEntry(App!PendingOf(db.outbox) \cap due) : App!Set("flush", next)
    BY <1>2 DEF App!Scan
  <2>2. task["flush"].pc \notin InLine /\ App!Local /\ UNCHANGED queue
    BY <1>2 DEF App!Scan, InLine
  <2>3. IsTask(next) /\ next.pc \in {"idle", "load"}
    BY NextEntryFacts
  <2> QED
    BY <1>0, <2>1, <2>2, <2>3, StayIInv DEF App!Local
<1>3. CASE App!NoPeers
  <2>1. task["flush"].pc \notin InLine /\ App!Set("flush", App!Idle) /\ App!Local /\ UNCHANGED queue
    BY <1>3 DEF App!NoPeers, InLine
  <2> QED
    BY <1>0, <2>1, StayIInv DEF App!Local
<1>4. CASE App!Loaded
  <2> DEFINE pc == IF App!Readable("flush", task["flush"].arg) THEN "attempt" ELSE "spoil"
             next == App!Go("flush", pc)
  <2>1. pc \in {"attempt", "spoil"}
    OBVIOUS
  <2>2. task["flush"].pc \notin InLine /\ App!Wait("flush", next) /\ App!Local
    BY <1>4 DEF App!Loaded, InLine
  <2> HIDE DEF pc
  <2>3. IsTask(next) /\ next.pc = pc
    BY <1>0, GoFacts
  <2> HIDE DEF next
  <2>4. next.pc \in Plain
    BY <2>1, <2>3 DEF Plain, InLine
  <2> QED
    BY <1>0, <2>2, <2>3, <2>4, AskIInv
<1>5. CASE App!Attempt
  <2>1. App!Turn("flush", "attempt")
    BY <1>5 DEF App!Attempt
  <2>2. CASE App!Refused("flush")
    BY <1>0, <2>1, <2>2, RefuseIInv
  <2>3. ASSUME NEW next \in App!NextEntry(task["flush"].ops),
               App!Mutate("flush", db, {task["flush"].arg}, next, FALSE)
        PROVE  AppIInv'
    <3>1. IsTask(next) /\ next.pc \in {"idle", "load"}
      BY NextEntryFacts
    <3>2. Written("flush", db, next)
      BY <2>1, <2>3, MutateIs
    <3> QED
      BY <1>0, <3>1, <3>2, StoreIInv
  <2> QED
    BY <1>5, <2>2, <2>3 DEF App!Attempt
<1> QED
  BY <1>1, <1>2, <1>3, <1>4, <1>5

(***************************************************************************)
(* Content from the network                                                *)
(***************************************************************************)
LEMMA CallIngestIInv == ASSUME Apart, AppIInv, NEW b, App!CallIngest(b) PROVE AppIInv'
<1>0. "ingest" \in App!Activities
  BY CommandIs
<1>1. task["ingest"].pc \notin InLine /\ App!Local
  BY DEF App!CallIngest, App!Ready, InLine
<1>2. CASE b \in App!Acks /\ App!Set("ingest", App!Start("observe", b)) /\ UNCHANGED queue
  <2> DEFINE next == App!Start("observe", b)
  <2>1. IsTask(next) /\ next.pc = "observe" /\ next.arg = b
    BY StartFacts
  <2> HIDE DEF next
  <2> QED
    BY <1>0, <1>1, <1>2, <2>1, StayIInv DEF App!Local, next
<1>3. CASE App!Wait("ingest", App!Start("store", b))
  <2>1. "store" \in Plain
    BY DEF Plain, InLine
  <2> QED
    BY <1>0, <1>1, <1>3, <2>1, CallIInv
<1> QED
  BY <1>2, <1>3 DEF App!CallIngest

LEMMA ObserveIInv == ASSUME Apart, AppIInv, App!Observe PROVE AppIInv'
<1>0. "ingest" \in App!Activities /\ IsTask(task["ingest"])
  BY CommandIs, TasksAre
<1> DEFINE ack == task["ingest"].arg
           target == ack[1] \in db.held \ expired
           pc == IF target THEN "apply" ELSE "store"
           release == IF target THEN App!ToRelease(ack) ELSE {}
           next == [App!Go("ingest", pc) EXCEPT !.release = release]
<1>1. task["ingest"].pc = "observe" /\ task["ingest"].pc \notin InLine /\ App!Local
  BY DEF App!Observe, InLine
<1>2. ack \in App!Acks
  BY <1>0, <1>1 DEF AppIInv, Inv, Stale
<1>3. \/ App!Thrown("ingest") /\ UNCHANGED queue
      \/ App!Wait("ingest", next)
  BY DEF App!Observe
<1>4. CASE App!Thrown("ingest") /\ UNCHANGED queue
  BY <1>0, <1>1, <1>4, EndIInv DEF App!Local
<1>5. CASE App!Wait("ingest", next)
  <2> DEFINE a == App!Go("ingest", pc)
  <2>1. pc \in {"apply", "store"} /\ (pc = "apply" => target)
    OBVIOUS
  <2>2. /\ \A o \in Ops : o \in release => db.outbox[o] # None
        /\ pc = "apply" => \A o \in Ops : o \in release
                              => ~Pend(expired, App!ApplyConfirmation(db.outbox, ack), o)
    BY PendingIs DEF App!ToRelease, App!PresentOf, App!PendingOf
  <2> HIDE DEF pc, release
  <2>3. IsTask(a) /\ a.pc = pc /\ a.arg = ack
    BY <1>0, GoFacts
  <2>4. next = [a EXCEPT !.release = release]
    OBVIOUS
  <2> HIDE DEF a, next, ack, target
  <2>5. next = [pc |-> pc, live |-> a.live, arg |-> ack, ops |-> a.ops, release |-> release]
    BY <2>3, <2>4, ReleaseIs
  <2>6. IsTask(next) /\ next.pc = pc /\ next.arg = ack /\ next.release = release
    BY <2>5, TaskFacts
  <2>7. Stale(expired, db.outbox, next)
    BY <1>2, <2>1, <2>2, <2>6 DEF Stale, Over
  <2>8. next.pc \in InLine /\ next.pc # "send"
        /\ \A o \in Ops : Releases(next) /\ o \in next.release => db.outbox[o] # None
    BY <2>1, <2>2, <2>6 DEF InLine
  <2> QED
    BY <1>0, <1>1, <1>5, <2>6, <2>7, <2>8, WaitIInv DEF App!Local
<1> QED
  BY <1>3, <1>4, <1>5

LEMMA ApplyIInv == ASSUME Apart, AppIInv, App!Apply PROVE AppIInv'
<1>0. /\ IsState(db) /\ db.outbox \in Outboxes /\ Keeps(expired, db)
      /\ "ingest" \in App!Activities /\ IsTask(task["ingest"])
      /\ IsTask(App!Idle) /\ App!Idle.pc = "idle"
  BY CommandIs, TasksAre, IdleFacts DEF AppIInv, Inv, IsState
<1> DEFINE ack == task["ingest"].arg
           release == task["ingest"].release
           box == App!ApplyConfirmation(db.outbox, ack)
           to == App!Update(db, box, release)
           a == App!Go("ingest", "store")
           store == [a EXCEPT !.release = {}]
<1>1. App!Turn("ingest", "apply")
  BY DEF App!Apply
<1>2. ack \in App!Acks /\ Over(expired, box, release)
  BY <1>0, <1>1 DEF AppIInv, Inv, Stale, App!Turn
<1>3. \/ App!Refused("ingest")
      \/ App!Mutate("ingest", to, {}, store, TRUE)
      \/ App!Mutate("ingest", to, {}, App!Idle, FALSE)
  BY DEF App!Apply
<1>4. IsTask(store) /\ store.pc = "store"
  <2>1. IsTask(a) /\ a.pc = "store"
    BY <1>0, GoFacts
  <2> HIDE DEF a
  <2>2. store = [pc |-> "store", live |-> a.live, arg |-> a.arg, ops |-> a.ops, release |-> {}]
    BY <2>1, ReleaseIs
  <2> QED
    BY <2>2, TaskFacts
<1>5. box \in Outboxes /\ Follows(db.outbox, box, {})
  BY <1>0, <1>2, ConfirmationFacts, ConfirmsFollows
<1> HIDE DEF ack, release, store
<1>6. IsState(to) /\ to.outbox = box
  BY <1>0, <1>5, UpdateFacts
<1>7. Keeps(expired, to)
  BY <1>0, <1>2, <1>5, KeepsReleased
<1> HIDE DEF to, box
<1>8. CASE App!Refused("ingest")
  BY <1>0, <1>1, <1>8, RefuseIInv
<1>9. CASE App!Mutate("ingest", to, {}, store, TRUE)
  <2>1. Written("ingest", to, store)
    BY <1>1, <1>4, <1>9, MutateIs DEF InLine
  <2> QED
    BY <1>0, <1>4, <1>5, <1>6, <1>7, <2>1, CommitIInv
<1>10. CASE App!Mutate("ingest", to, {}, App!Idle, FALSE)
  <2>1. Written("ingest", to, App!Idle)
    BY <1>1, <1>10, MutateIs
  <2> QED
    BY <1>0, <1>5, <1>6, <1>7, <2>1, CommitIInv
<1> QED
  BY <1>3, <1>8, <1>9, <1>10

LEMMA PutIInv ==
    ASSUME Apart, AppIInv, NEW t \in App!Activities, App!putBundle(t) \/ App!confirm(t) \/ App!Answer(t)
    PROVE  AppIInv'
<1>0. IsState(db) /\ IsTask(task[t]) /\ IsTask(App!Idle) /\ App!Idle.pc = "idle"
  BY TasksAre, IdleFacts DEF AppIInv, Inv
<1> DEFINE anew == FALSE
<1>a. anew \in BOOLEAN
  OBVIOUS
<1>1. CASE App!putBundle(t)
  <2> DEFINE b == task[t].arg
             next == IF b \in Foreign THEN App!Go(t, "confirm") ELSE App!Idle
  <2>1. App!Turn(t, "store")
    BY <1>1 DEF App!putBundle
  <2>2. \/ App!Refused(t)
        \/ \E d \in App!PutBundle(db, b, anew) : App!Commit(t, d, {}, next, FALSE)
    BY <1>1 DEF App!putBundle
  <2>3. IsTask(next) /\ next.pc \in {"idle", "confirm"}
    BY <1>0, GoFacts
  <2> HIDE DEF b, next, anew
  <2>4. CASE App!Refused(t)
    BY <2>1, <2>4, RefuseIInv
  <2>5. ASSUME NEW d \in App!PutBundle(db, b, anew), App!Commit(t, d, {}, next, FALSE) PROVE AppIInv'
    <3>1. /\ IsState(d) /\ d.outbox = db.outbox
          /\ \A x \in Ops \ expired : x \in db.held /\ x \in db.reserved
                                         => x \in d.held /\ x \in d.reserved
      BY <1>0, <1>a, PutFacts
    <3>2. Written(t, d, next)
      BY <2>1, <2>5, MutateIs
    <3> QED
      BY <2>3, <3>1, <3>2, StoreIInv
  <2> QED
    BY <2>2, <2>4, <2>5
<1>2. CASE App!confirm(t)
  <2>1. task[t].pc \notin InLine /\ App!Local
    BY <1>2 DEF App!confirm, InLine
  <2>2. CASE App!Wait(t, App!Go(t, "reply"))
    <3>1. IsTask(App!Go(t, "reply")) /\ App!Go(t, "reply").pc \in Plain
      BY <1>0, GoFacts DEF Plain, InLine
    <3> QED
      BY <2>1, <2>2, <3>1, AskIInv
  <2>3. CASE App!Set(t, App!Idle) /\ UNCHANGED queue
    BY <1>0, <2>1, <2>3, StayIInv DEF App!Local
  <2> QED
    BY <1>2, <2>2, <2>3 DEF App!confirm
<1>3. CASE App!Answer(t)
  <2> DEFINE said == App!Reply(task[t].arg)
  <2>1. App!Turn(t, "reply")
    BY <1>3 DEF App!Answer
  <2>2. \/ App!Refused(t)
        \/ \E d \in App!PutBundle(db, said, anew) :
              App!Mutate(t, [d EXCEPT !.receipts = @ \cup {said}], {}, App!Idle, FALSE)
    BY <1>3 DEF App!Answer
  <2> HIDE DEF said, anew
  <2>3. CASE App!Refused(t)
    BY <2>1, <2>3, RefuseIInv
  <2>4. ASSUME NEW d \in App!PutBundle(db, said, anew),
               App!Mutate(t, [d EXCEPT !.receipts = @ \cup {said}], {}, App!Idle, FALSE)
        PROVE  AppIInv'
    <3> DEFINE more == d.receipts \cup {said}
               to == [d EXCEPT !.receipts = more]
    <3>1. /\ IsState(d) /\ d.outbox = db.outbox
          /\ \A x \in Ops \ expired : x \in db.held /\ x \in db.reserved
                                         => x \in d.held /\ x \in d.reserved
      BY <1>0, <1>a, PutFacts
    <3>2. Written(t, to, App!Idle)
      BY <2>1, <2>4, MutateIs
    <3> HIDE DEF more
    <3>3. IsState(to) /\ to.outbox = d.outbox /\ to.held = d.held /\ to.reserved = d.reserved
      BY <3>1, FieldFacts
    <3> HIDE DEF to
    <3> QED
      BY <1>0, <3>1, <3>2, <3>3, StoreIInv
  <2> QED
    BY <2>2, <2>3, <2>4
<1> QED
  BY <1>1, <1>2, <1>3

(***************************************************************************)
(* The environment                                                         *)
(***************************************************************************)
LEMMA InterruptedIInv == ASSUME Apart, AppIInv, NEW t \in App!Activities, App!Interrupted(t) PROVE AppIInv'
<1>1. task[t].pc \notin InLine /\ App!Thrown(t) /\ UNCHANGED <<db, queue, expired>>
  BY DEF App!Interrupted, InLine, App!Local
<1> QED
  BY <1>1, EndIInv

\* Everybody goes on, only the session ended or more has expired.
LEMMA SameIInv ==
    ASSUME Apart, AppIInv, AreTasks(task'), \A x \in App!Activities : Same(task[x], task'[x]),
           expired \subseteq expired', UNCHANGED <<db, queue>>
    PROVE  AppIInv'
<1>1. db.outbox \in Outboxes
  BY DEF AppIInv, Inv, IsState
<1>2. Keeps(expired', db)
  BY DEF AppIInv, Inv, Keeps, Pend
<1>3. ASSUME NEW x \in App!Activities
      PROVE  Waits(queue, x, task'[x]) /\ Stale(expired', db.outbox, task'[x])
  <2>1. Waits(queue, x, task[x]) /\ Stale(expired, db.outbox, task[x]) /\ Same(task[x], task'[x])
    BY DEF AppIInv, Inv
  <2>2. Releases(task[x]) => task[x].release \cap {} = {}
    OBVIOUS
  <2>3. Follows(db.outbox, db.outbox, {})
    BY FollowsRefl
  <2>4. Stale(expired', db.outbox, task'[x])
    BY <1>1, <2>1, <2>2, <2>3, StaleFollows
  <2> QED
    BY <2>1, <2>4 DEF Waits, Same, Releases
<1>4. Admits(db.outbox, task'["command"])
  BY CommandIs DEF AppIInv, Inv, Admits, Same
<1>5. \A x \in App!Activities \ {"command"} :
         task'[x].pc # "send" /\ First(queue, x, task'[x], task'["command"])
  BY CommandIs DEF AppIInv, Inv, First, Same, Releases
<1> QED
  BY <1>2, <1>3, <1>4, <1>5 DEF AppIInv, Inv

LEMMA FreshIs ==
    ASSUME NEW ex, NEW d, IsState(d), Keeps(ex, d)
    PROVE  Inv(ex, d, [t \in App!Activities |-> App!Idle], <<>>)
<1> DEFINE tasks == [t \in App!Activities |-> App!Idle]
           q == <<>>
<1>1. AreTasks(tasks) /\ \A x \in App!Activities : tasks[x] = App!Idle
  BY IdleFacts DEF AreTasks
<1>2. q \in Seq(App!Activities) /\ Distinct(q) /\ \A x : ~In(q, x)
  BY DEF Distinct, In
<1> HIDE DEF tasks, q
<1>3. \A x \in App!Activities : Waits(q, x, tasks[x]) /\ Stale(ex, d.outbox, tasks[x])
                            /\ tasks[x].pc # "send" /\ ~Releases(tasks[x])
  BY <1>1, <1>2, IdleFacts DEF Waits, Stale, Releases
<1>4. Inv(ex, d, tasks, q)
  BY <1>1, <1>2, <1>3, CommandIs DEF Inv, Admits, First
<1> QED
  BY <1>4 DEF tasks, q

LEMMA EnvironmentIInv == ASSUME Apart, AppIInv, App!Environment PROVE AppIInv'
<1>0. AreTasks(task) /\ IsState(db) /\ Keeps(expired, db)
  BY DEF AppIInv, Inv
<1>1. CASE App!lock
  <2>1. task' = App!Ended(task) /\ UNCHANGED <<db, queue, expired>>
    BY <1>1 DEF App!lock
  <2>2. AreTasks(task') /\ \A x \in App!Activities : Same(task[x], task'[x])
    BY <1>0, <2>1, EndedFacts
  <2> QED
    BY <2>1, <2>2, SameIInv
<1>2. CASE App!Reload
  <2>1. task' = [t \in App!Activities |-> App!Idle] /\ queue' = <<>> /\ UNCHANGED <<db, expired>>
    BY <1>2 DEF App!Reload
  <2> QED
    BY <1>0, <2>1, FreshIs DEF AppIInv
<1>3. ASSUME NEW o \in Ops, App!Expire(o) PROVE AppIInv'
  <2>1. UNCHANGED <<db, task, queue>> /\ expired \subseteq expired'
    BY <1>3 DEF App!Expire
  <2>2. \A x \in App!Activities : Same(task[x], task'[x])
    BY <2>1 DEF Same
  <2> QED
    BY <1>0, <2>1, <2>2, SameIInv
<1> QED
  BY <1>1, <1>2, <1>3 DEF App!Environment

LEMMA AppInitIInv == ASSUME Apart, App!Init PROVE AppIInv
<1> DEFINE box == [o \in Ops |-> None]
<1>1. db = [profile |-> "none", outbox |-> box, held |-> {}, reserved |-> {},
            receipts |-> {}, quota |-> DefaultQuota]
  BY DEF App!Init
<1>2. box \in Outboxes /\ \A o \in Ops : box[o] = None
  BY DEF Outboxes
<1> HIDE DEF box
<1>3. /\ db.profile = "none" /\ db.outbox = box /\ db.held = {} /\ db.reserved = {}
      /\ db.receipts = {} /\ db.quota = DefaultQuota
  BY <1>1
<1>4. IsState(db)
  BY <1>1, <1>2, <1>3, Zenon DEF IsState
<1>5. Keeps(expired, db)
  BY <1>2, <1>3 DEF Keeps, Pend
<1>6. task = [t \in App!Activities |-> App!Idle] /\ queue = <<>>
  BY DEF App!Init
<1> QED
  BY <1>4, <1>5, <1>6, FreshIs DEF AppIInv

LEMMA AppNextIInv == ASSUME Apart, AppIInv, [App!Next]_(App!vars) PROVE AppIInv'
<1>1. CASE App!Command
  BY <1>1, SetupIInv, UnlockIInv, QuotaIInv, CallsIInv, SendIInv, ResendIInv DEF App!Command
<1>2. CASE App!Ingest
  BY <1>2, CallIngestIInv, ObserveIInv, ApplyIInv DEF App!Ingest
<1>3. CASE App!Flush
  BY <1>3, FlushIInv DEF App!Flush
<1>4. ASSUME NEW t \in App!Activities, App!Shared(t) PROVE AppIInv'
  BY <1>4, ReconcileReadIInv, ReconcileIInv, SpoilIInv, PutIInv, InterruptedIInv DEF App!Shared
<1>5. CASE App!Environment
  BY <1>5, EnvironmentIInv
<1>6. CASE UNCHANGED App!vars
  BY <1>6 DEF App!vars, AppIInv
<1> QED
  BY <1>1, <1>2, <1>3, <1>4, <1>5, <1>6 DEF App!Next

\* reconcile, putBundle, flush: what is still to be delivered is never evicted.
THEOREM PendingHeld == App!Spec => []PendingIsHeld
<1>1. Apart
  BY WebOutboxAssumption DEF Apart, App!Entry, Entry
<1>2. AppIInv => PendingIsHeld
  BY DEF AppIInv, Inv, Keeps, Pend, PendingIsHeld, PendingOf, IsPending
<1>3. App!Init => AppIInv
  BY <1>1, AppInitIInv
<1>4. AppIInv /\ [App!Next]_(App!vars) => AppIInv'
  BY <1>1, AppNextIInv
<1> QED
  BY <1>2, <1>3, <1>4, PTL DEF App!Spec
=============================================================================
