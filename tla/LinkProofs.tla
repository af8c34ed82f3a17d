----------------------------- MODULE LinkProofs -----------------------------
(***************************************************************************)
(* Proofs about Link, for every set of packets, every priority and size,   *)
(* and every value of the limits.                                          *)
(***************************************************************************)
EXTENDS Link, FiniteSetTheorems, TLAPS

\* What will be sent in part once the write under way completes.
Held == Partial(pending) \cup {p \in pending : Writing(p) /\ Fragments[p] > 1}

\* A set of unfinished packets that the receiver's slots can hold.
Admissible(H) ==
    /\ Cardinality(H) <= MaxAssemblies
    /\ Cardinality(InClass(H, "sos")) <= MaxAssemblies - 1
    /\ Cardinality(InClass(H, "normal")) + Cardinality(InClass(H, "bulk"))
          <= MaxAssemblies - 2
    /\ Cardinality(InClass(H, "normal")) <= MaxAssemblies - 3
    /\ Cardinality(InClass(H, "bulk")) <= MaxAssemblies - 3
    /\ Reticulum => Cardinality(InClass(H, "bulk")) <= 1

\* The strengthening of PartialsBounded: it also counts the packet whose first
\* fragment is being written, and forgets the progress of what is not queued.
IInv ==
    /\ TypeOK
    /\ \A p \in Packets \ pending : next[p] = 0
    /\ Admissible(Held)

(***************************************************************************)
(* Facts about the operators                                               *)
(***************************************************************************)

\* There are finitely many priorities.
LEMMA ClassFinite == IsFiniteSet(Class)
<1>1. IsFiniteSet({"sos"})
  BY FS_Singleton
<1>2. IsFiniteSet({"sos"} \cup {"normal"})
  BY <1>1, FS_AddElement
<1>3. IsFiniteSet(({"sos"} \cup {"normal"}) \cup {"bulk"})
  BY <1>2, FS_AddElement
<1>4. Class = ({"sos"} \cup {"normal"}) \cup {"bulk"}
  BY DEF Class
<1> QED
  BY <1>3, <1>4

\* The age that pump gives to a transfer or a class is a natural number.
LEMMA OlderNat ==
    ASSUME NEW f, NEW S, NEW x, IsFiniteSet(S)
    PROVE  Older(f, S, x) \in Nat
<1> DEFINE Z == {z \in S : f[z] < f[x]}
           g == [z \in Z |-> f[z]]
           Y == {f[y] : y \in Z}
<1>1. IsFiniteSet(Z)
  BY FS_Subset
<1>2. g \in Surjection(Z, Y)
  BY DEF Surjection
<1>3. IsFiniteSet(Y)
  BY <1>1, <1>2, FS_Surjection
<1>4. Cardinality(Y) \in Nat
  BY <1>3, FS_CardinalityType
<1> QED
  BY <1>4 DEF Older

\* Fewer unfinished packets fit wherever more of them do.
LEMMA AdmissibleMono ==
    ASSUME NEW G \in SUBSET Packets, NEW H \in SUBSET G, Admissible(G)
    PROVE  Admissible(H)
<1>1. IsFiniteSet(G)
  BY PacketsAssumption, FS_Subset
<1>2. Cardinality(H) <= Cardinality(G) /\ Cardinality(H) \in Nat /\ Cardinality(G) \in Nat
  BY <1>1, FS_Subset, FS_CardinalityType
<1>3. ASSUME NEW c \in Class
      PROVE  /\ Cardinality(InClass(H, c)) <= Cardinality(InClass(G, c))
             /\ Cardinality(InClass(H, c)) \in Nat /\ Cardinality(InClass(G, c)) \in Nat
  <2>1. IsFiniteSet(InClass(G, c)) /\ InClass(H, c) \subseteq InClass(G, c)
    BY <1>1, FS_Subset DEF InClass
  <2> QED
    BY <2>1, FS_Subset, FS_CardinalityType
<1> QED
  BY <1>2, <1>3, LimitsAssumption DEF Admissible, Class

\* One more packet that MayOpen lets through still fits.
LEMMA AdmissibleAdd ==
    ASSUME NEW p \in pending \ Partial(pending), pending \subseteq Packets,
           Admissible(Partial(pending)), MayOpen(pending, p), Fragments[p] > 1
    PROVE  Admissible(Partial(pending) \cup {p})
<1> DEFINE H == Partial(pending)
           G == H \cup {p}
           c == Priority[p]
<1>1. H \subseteq Packets /\ IsFiniteSet(H) /\ p \in Packets /\ p \notin H
  BY PacketsAssumption, FS_Subset DEF Partial
<1>2. Cardinality(G) = Cardinality(H) + 1 /\ Cardinality(H) \in Nat
  BY <1>1, FS_AddElement, FS_CardinalityType
<1>3. c \in Class
  BY <1>1, PacketsAssumption
<1>4. ASSUME NEW d \in Class
      PROVE  /\ Cardinality(InClass(H, d)) \in Nat
             /\ Cardinality(InClass(G, d)) = Cardinality(InClass(H, d)) + (IF d = c THEN 1 ELSE 0)
  <2>1. IsFiniteSet(InClass(H, d)) /\ p \notin InClass(H, d)
    BY <1>1, FS_Subset DEF InClass
  <2>2. InClass(G, d) = IF d = c THEN InClass(H, d) \cup {p} ELSE InClass(H, d)
    BY DEF InClass
  <2> QED
    BY <2>1, <2>2, FS_AddElement, FS_CardinalityType
<1>5. Cardinality(H) < MaxAssemblies
  <2>1. IsFiniteSet(Waiting(pending) \ {c})
    BY ClassFinite, FS_Subset DEF Waiting
  <2>2. Cardinality(Waiting(pending) \ {c}) \in Nat
    BY <2>1, FS_CardinalityType
  <2> QED
    BY <1>2, <2>2, LimitsAssumption DEF MayOpen
<1>6. /\ c = "sos" => Cardinality(InClass(H, "sos")) < MaxAssemblies - 1
      /\ c # "sos" => /\ Cardinality(InClass(H, "normal")) + Cardinality(InClass(H, "bulk"))
                            < MaxAssemblies - 2
                      /\ Cardinality(InClass(H, c)) < MaxAssemblies - 3
      /\ Reticulum /\ c = "bulk" => ~ Cardinality(InClass(H, "bulk")) >= 1
  BY DEF MayOpen, Count
<1>7. /\ Cardinality(InClass(H, "sos")) \in Nat
      /\ Cardinality(InClass(H, "normal")) \in Nat
      /\ Cardinality(InClass(H, "bulk")) \in Nat
      /\ Cardinality(InClass(G, "sos")) = Cardinality(InClass(H, "sos")) + (IF c = "sos" THEN 1 ELSE 0)
      /\ Cardinality(InClass(G, "normal")) = Cardinality(InClass(H, "normal")) + (IF c = "normal" THEN 1 ELSE 0)
      /\ Cardinality(InClass(G, "bulk")) = Cardinality(InClass(H, "bulk")) + (IF c = "bulk" THEN 1 ELSE 0)
  BY <1>4 DEF Class
<1>8. Admissible(H)
  OBVIOUS
<1> HIDE DEF H, G, c
<1> QED
  BY <1>2, <1>3, <1>5, <1>6, <1>7, <1>8, LimitsAssumption DEF Admissible, Class, G, H

(***************************************************************************)
(* Type correctness                                                        *)
(***************************************************************************)

\* A removed transfer leaves well-typed counters behind.
LEMMA RemoveTransfersTypes ==
    ASSUME NEW S, TypeOK, RemoveTransfers(S)
    PROVE  /\ pending' \subseteq Packets
           /\ next' \in [Packets -> Nat]
           /\ sent' \in [Packets -> 0..RetryTicks]
           /\ scheduled' \in [Packets -> Nat]
<1>1. pending' \subseteq Packets
  BY DEF RemoveTransfers, TypeOK
<1>2. next' \in [Packets -> Nat]
  BY DEF RemoveTransfers, TypeOK
<1>3. sent' \in [Packets -> 0..RetryTicks]
  BY LimitsAssumption DEF RemoveTransfers, TypeOK
<1>4. scheduled' \in [Packets -> Nat]
  BY DEF RemoveTransfers, TypeOK
<1> QED
  BY <1>1, <1>2, <1>3, <1>4

\* So does a removed assembly.
LEMMA RemoveAssembliesTypes ==
    ASSUME NEW S, TypeOK, RemoveAssemblies(S)
    PROVE  /\ parts' \in [Packets -> SUBSET Nat]
           /\ idle' \in [Packets -> 0..(IdleTicks + 1)]
<1>1. parts' \in [Packets -> SUBSET Nat]
  BY DEF RemoveAssemblies, TypeOK
<1>2. idle' \in [Packets -> 0..(IdleTicks + 1)]
  <2>1. 0 \in 0..(IdleTicks + 1)
    BY LimitsAssumption
  <2> QED
    BY <2>1 DEF RemoveAssemblies, TypeOK
<1> QED
  BY <1>1, <1>2

\* Every step of the sending end keeps every variable in its type.
LEMMA SenderTypes ==
    ASSUME TypeOK,
           \/ \E p \in Packets : enqueue(p) \/ cancelTransfer(p)
           \/ SenderMaintain \/ PumpPart \/ WriteDone \/ RecvAck
    PROVE  TypeOK'
<1>1. ASSUME NEW p \in Packets, enqueue(p) PROVE TypeOK'
  <2>1. PICK V \in SUBSET Victims(p) : TRUE /\ LET fits == Fits(p, V)
             IN  /\ pending' = (pending \ V) \cup (IF fits THEN {p} ELSE {})
                 /\ next' = [t \in Packets |-> IF t \in V THEN 0 ELSE next[t]]
                 /\ sent' = [t \in Packets |-> IF t \in V THEN 0 ELSE sent[t]]
                 /\ scheduled' = [t \in Packets |->
                        IF t \in V THEN 0
                        ELSE IF t = p THEN 0 ELSE scheduled[t]]
    BY <1>1 DEF enqueue
  <2>2. pending' \subseteq Packets
    BY <2>1 DEF TypeOK
  <2>3. next' \in [Packets -> Nat]
    BY <2>1 DEF TypeOK
  <2>4. sent' \in [Packets -> 0..RetryTicks]
    BY <2>1, LimitsAssumption DEF TypeOK
  <2>5. scheduled' \in [Packets -> Nat]
    BY <2>1 DEF TypeOK
  <2>6. UNCHANGED <<active, writing, phase, priorityTurns, lowPower, partWire,
                    ackWire, parts, idle, controls, acksWindow, invalidWindow>>
    BY <1>1 DEF enqueue
  <2>7. /\ unused' \subseteq Packets /\ expired' \subseteq Packets
        /\ acked' \subseteq Packets /\ seen' \subseteq Packets
        /\ acknowledged' \subseteq Packets
    BY <1>1 DEF enqueue, TypeOK
  <2> QED
    BY <2>2, <2>3, <2>4, <2>5, <2>6, <2>7 DEF TypeOK
<1>2. ASSUME NEW p \in Packets, cancelTransfer(p) PROVE TypeOK'
  BY <1>2, RemoveTransfersTypes DEF cancelTransfer, TypeOK, receiverVars, history
<1>3. CASE SenderMaintain
  BY <1>3, RemoveTransfersTypes DEF SenderMaintain, TypeOK, receiverVars, history
<1>4. CASE PumpPart
  <2>1. PICK p \in select(pending) :
          LET index == IF next[p] >= Fragments[p] THEN 0 ELSE next[p]
          IN  /\ next' = [next EXCEPT ![p] = index]
              /\ writing' = [id |-> p, index |-> index]
              /\ partWire' = Append(partWire, [id |-> p, index |-> index])
    BY <1>4 DEF PumpPart
  <2>2. p \in Packets
    BY DEF select, Due, Ready, TypeOK
  <2>3. scheduled' \in [Packets -> Nat]
    <3>1. \A q \in Packets : Older(scheduled, InClass(pending, Priority[q]), q) \in Nat
      <4> TAKE q \in Packets
      <4>1. IsFiniteSet(InClass(pending, Priority[q]))
        BY PacketsAssumption, FS_Subset DEF InClass, TypeOK
      <4> QED
        BY <4>1, OlderNat
    <3> QED
      BY <1>4, <3>1 DEF PumpPart
  <2>4. priorityTurns' \in [Class -> Nat]
    <3>1. \A c \in Class : Older(priorityTurns, Class, c) \in Nat
      BY OlderNat, ClassFinite
    <3> QED
      BY <1>4, <3>1 DEF PumpPart
  <2>5. phase' \in 0..3
    BY <1>4 DEF PumpPart, TypeOK
  <2>6. next' \in [Packets -> Nat]
    BY <2>1, <2>2 DEF TypeOK
  <2>7. /\ writing' \in {None} \cup [id : Packets, index : Nat]
        /\ partWire' \in Seq([id : Packets, index : Nat])
    <3> DEFINE index == IF next[p] >= Fragments[p] THEN 0 ELSE next[p]
    <3>1. [id |-> p, index |-> index] \in [id : Packets, index : Nat]
      BY <2>2 DEF TypeOK
    <3> QED
      BY <2>1, <3>1 DEF TypeOK
  <2>8. UNCHANGED <<active, pending, sent, lowPower, ackWire, receiverVars, history>>
    BY <1>4 DEF PumpPart
  <2> QED
    BY <2>3, <2>4, <2>5, <2>6, <2>7, <2>8 DEF TypeOK, receiverVars, history
<1>5. CASE WriteDone
  <2>1. writing.id \in Packets
    BY <1>5 DEF WriteDone, TypeOK
  <2>2. next' \in [Packets -> Nat]
    BY <1>5, <2>1 DEF WriteDone, TypeOK
  <2>3. sent' \in [Packets -> 0..RetryTicks]
    BY <1>5, <2>1, LimitsAssumption DEF WriteDone, TypeOK
  <2>4. scheduled' \in [Packets -> Nat]
    BY <1>5, <2>1 DEF WriteDone, TypeOK
  <2>5. priorityTurns' \in [Class -> Nat]
    BY <1>5, <2>1, PacketsAssumption DEF WriteDone, TypeOK
  <2>6. /\ writing' = None
        /\ UNCHANGED <<active, pending, phase, lowPower, partWire, ackWire,
                       receiverVars, history>>
    BY <1>5 DEF WriteDone
  <2> QED
    BY <2>2, <2>3, <2>4, <2>5, <2>6 DEF TypeOK, receiverVars, history
<1>6. CASE RecvAck
  <2>1. Head(ackWire) \in Packets /\ Tail(ackWire) \in Seq(Packets)
    BY <1>6 DEF RecvAck, TypeOK
  <2> QED
    BY <1>6, <2>1, RemoveTransfersTypes DEF RecvAck, TypeOK, receiverVars
<1> QED
  BY <1>1, <1>2, <1>3, <1>4, <1>5, <1>6

\* Every step of the receiving end keeps every variable in its type.
LEMMA ReceiverTypes ==
    ASSUME TypeOK,
           \/ RecvDuplicate \/ PumpAck \/ ReceiverMaintain
           \/ \E p \in Packets : \E index \in 0..(Fragments[p] - 1) : RecvPacket(p, index)
    PROVE  TypeOK'
<1> DEFINE Frame == [id : Packets, index : Nat]
<1>1. ASSUME partWire # <<>>
      PROVE  Head(partWire) \in Frame /\ Tail(partWire) \in Seq(Frame)
  <2>1. partWire \in Seq(Frame)
    BY DEF TypeOK
  <2> HIDE DEF Frame
  <2> QED
    BY <1>1, <2>1
<1>2. ASSUME NEW p \in Packets, acknowledge(p) PROVE controls' \in Seq(Packets)
  BY <1>2 DEF acknowledge, TypeOK
<1>3. Reject => invalidWindow' \in 0..MaxInvalid
  BY LimitsAssumption DEF Reject, TypeOK
<1>4. CASE RecvDuplicate
  <2>1. /\ partWire' \in Seq(Frame) /\ Head(partWire).id \in Packets
        /\ acknowledge(Head(partWire).id)
    BY <1>1, <1>4 DEF RecvDuplicate
  <2>2. controls' \in Seq(Packets)
    BY <1>2, <2>1
  <2> QED
    BY <1>4, <2>1, <2>2 DEF RecvDuplicate, TypeOK, senderVars, history
<1>5. ASSUME NEW p \in Packets, NEW index \in 0..(Fragments[p] - 1), RecvPacket(p, index)
      PROVE  TypeOK'
  <2>1. Fragment(p, index)
    BY <1>5 DEF RecvPacket, RecvOverCap, RecvOverBytes, RecvPart, RecvLast
  <2>2. partWire' \in Seq(Frame)
    BY <1>1, <2>1 DEF Fragment
  <2>3. UNCHANGED <<active, senderVars, lowPower, ackWire, acknowledged,
                    acksWindow, history>>
    BY <2>1 DEF Fragment
  <2>4. /\ parts' \in [Packets -> SUBSET Nat]
        /\ idle' \in [Packets -> 0..(IdleTicks + 1)]
    <3>1. CASE RecvOverCap(p, index)
      BY <3>1, RemoveAssembliesTypes DEF RecvOverCap
    <3>2. CASE RecvOverBytes(p, index)
      BY <3>2, RemoveAssembliesTypes DEF RecvOverBytes
    <3>3. CASE RecvPart(p, index)
      <4>1. parts' \in [Packets -> SUBSET Nat]
        <5>1. parts[p] \cup {index} \in SUBSET Nat
          <6>1. index \in Nat /\ parts[p] \in SUBSET Nat
            BY PacketsAssumption DEF TypeOK
          <6> QED
            BY <6>1
        <5> QED
          BY <3>3, <5>1 DEF RecvPart, TypeOK
      <4>2. idle' \in [Packets -> 0..(IdleTicks + 1)]
        <5>1. 0 \in 0..(IdleTicks + 1)
          BY LimitsAssumption
        <5> QED
          BY <3>3, <5>1 DEF RecvPart, TypeOK
      <4> QED
        BY <4>1, <4>2
    <3>4. CASE RecvLast(p, index)
      BY <3>4, RemoveAssembliesTypes DEF RecvLast
    <3> QED
      BY <1>5, <3>1, <3>2, <3>3, <3>4 DEF RecvPacket
  <2>5. /\ seen' \subseteq Packets
        /\ controls' \in Seq(Packets)
        /\ invalidWindow' \in 0..MaxInvalid
    BY <1>2, <1>3, <1>5
       DEF RecvPacket, RecvOverCap, RecvOverBytes, RecvPart, RecvLast, receive, TypeOK
  <2> QED
    BY <2>2, <2>3, <2>4, <2>5 DEF TypeOK, senderVars, history
<1>6. CASE PumpAck
  <2>1. /\ ackWire' \in Seq(Packets) /\ controls' \in Seq(Packets)
        /\ acknowledged' \subseteq Packets
    BY <1>6 DEF PumpAck, TypeOK
  <2>2. acksWindow' \in 0..MaxAcks
    BY <1>6, LimitsAssumption DEF PumpAck, TypeOK
  <2> QED
    BY <1>6, <2>1, <2>2 DEF PumpAck, TypeOK, senderVars, history
<1>7. CASE ReceiverMaintain
  BY <1>7, RemoveAssembliesTypes DEF ReceiverMaintain, TypeOK, senderVars, history
<1> QED
  BY <1>4, <1>5, <1>6, <1>7

\* Time, faults and the end of the link keep every variable in its type.
LEMMA EnvironmentTypes ==
    ASSUME TypeOK,
           \/ \E p \in Packets : Expire(p)
           \/ \E b \in PowerModes : SetLowPower(b)
           \/ Tick \/ LosePart \/ LoseAck \/ close \/ UNCHANGED vars
    PROVE  TypeOK'
<1>1. ASSUME NEW p \in Packets, Expire(p) PROVE TypeOK'
  BY <1>1 DEF Expire, TypeOK, senderVars, receiverVars
<1>2. ASSUME NEW b \in PowerModes, SetLowPower(b) PROVE TypeOK'
  BY <1>2, LimitsAssumption DEF SetLowPower, TypeOK, senderVars, receiverVars, history
<1>3. CASE Tick
  <2>1. sent' \in [Packets -> 0..RetryTicks]
    <3>1. \A n \in 0..RetryTicks : Aged(n, RetryTicks) \in 0..RetryTicks
      BY LimitsAssumption DEF Aged
    <3> QED
      BY <1>3, <3>1 DEF Tick, TypeOK
  <2>2. idle' \in [Packets -> 0..(IdleTicks + 1)]
    <3>1. \A n \in 0..(IdleTicks + 1) : Aged(n, IdleTicks + 1) \in 0..(IdleTicks + 1)
      BY LimitsAssumption DEF Aged
    <3> QED
      BY <1>3, <3>1 DEF Tick, TypeOK
  <2>3. acknowledged' = {} /\ acksWindow' \in 0..MaxAcks /\ invalidWindow' \in 0..MaxInvalid
    BY <1>3, LimitsAssumption DEF Tick
  <2> QED
    BY <1>3, <2>1, <2>2, <2>3 DEF Tick, TypeOK, history
<1>4. CASE LosePart
  <2>1. Tail(partWire) \in Seq([id : Packets, index : Nat])
    BY <1>4 DEF LosePart, TypeOK
  <2>2. invalidWindow' \in 0..MaxInvalid
    <3>1. invalidWindow \in 0..MaxInvalid
      BY DEF TypeOK
    <3>2. Reject => invalidWindow' \in 0..MaxInvalid
      BY <3>1, LimitsAssumption DEF Reject
    <3> QED
      BY <1>4, <3>1, <3>2 DEF LosePart
  <2> QED
    BY <1>4, <2>1, <2>2 DEF LosePart, TypeOK, senderVars, history
<1>5. CASE LoseAck
  BY <1>5 DEF LoseAck, TypeOK, senderVars, receiverVars, history
<1>6. CASE close
  <2>1. /\ pending' \subseteq Packets
        /\ next' \in [Packets -> Nat]
        /\ sent' \in [Packets -> 0..RetryTicks]
        /\ scheduled' \in [Packets -> Nat]
    BY <1>6, RemoveTransfersTypes DEF close
  <2>2. /\ parts' \in [Packets -> SUBSET Nat]
        /\ idle' \in [Packets -> 0..(IdleTicks + 1)]
    BY <1>6, RemoveAssembliesTypes DEF close
  <2>3. /\ active' = FALSE /\ acknowledged' = {} /\ writing' = None
        /\ partWire' = <<>> /\ ackWire' = <<>> /\ controls' = <<>>
    BY <1>6 DEF close
  <2>4. UNCHANGED <<phase, priorityTurns, lowPower, seen, acksWindow, invalidWindow,
                    unused, expired, acked>>
    BY <1>6 DEF close, history
  <2>5. /\ active' \in BOOLEAN /\ acknowledged' \subseteq Packets
        /\ writing' \in {None} \cup [id : Packets, index : Nat]
    BY <2>3
  <2>6. /\ partWire' \in Seq([id : Packets, index : Nat])
        /\ ackWire' \in Seq(Packets) /\ controls' \in Seq(Packets)
    BY <2>3
  <2> QED
    BY <2>1, <2>2, <2>4, <2>5, <2>6 DEF TypeOK
<1>7. CASE UNCHANGED vars
  BY <1>7 DEF TypeOK, vars, senderVars, receiverVars, history
<1> QED
  BY <1>1, <1>2, <1>3, <1>4, <1>5, <1>6, <1>7

\* The initial state is well typed.
LEMMA InitTypes ==
    ASSUME Init
    PROVE  TypeOK
<1> USE PacketsAssumption, LimitsAssumption DEF Init
<1>1. /\ active \in BOOLEAN /\ lowPower \in BOOLEAN
      /\ pending \subseteq Packets /\ seen \subseteq Packets
      /\ acknowledged \subseteq Packets /\ unused \subseteq Packets
      /\ expired \subseteq Packets /\ acked \subseteq Packets
  OBVIOUS
<1>2. phase \in 0..3 /\ acksWindow \in 0..MaxAcks /\ invalidWindow \in 0..MaxInvalid
  OBVIOUS
<1>3. next \in [Packets -> Nat] /\ scheduled \in [Packets -> Nat]
  OBVIOUS
<1>4. sent \in [Packets -> 0..RetryTicks]
  OBVIOUS
<1>5. idle \in [Packets -> 0..(IdleTicks + 1)]
  OBVIOUS
<1>6. priorityTurns \in [Class -> Nat]
  OBVIOUS
<1>7. parts \in [Packets -> SUBSET Nat]
  OBVIOUS
<1>8. /\ writing \in {None} \cup [id : Packets, index : Nat]
      /\ partWire \in Seq([id : Packets, index : Nat])
      /\ ackWire \in Seq(Packets) /\ controls \in Seq(Packets)
  OBVIOUS
<1> QED
  BY <1>1, <1>2, <1>3, <1>4, <1>5, <1>6, <1>7, <1>8 DEF TypeOK

\* The variables of Link keep their types in every behaviour.
THEOREM TypeCorrect == Spec => []TypeOK
<1>1. Init => TypeOK
  BY InitTypes
<1>2. TypeOK /\ [Next]_vars => TypeOK'
  BY SenderTypes, ReceiverTypes, EnvironmentTypes DEF Next
<1> QED
  BY <1>1, <1>2, PTL DEF Spec

(***************************************************************************)
(* Admission: the sender never has more packets in part than the receiver  *)
(* has slots.  PartialsBounded alone is not inductive: select decides when *)
(* the write starts, the transfer becomes partial when it completes, and   *)
(* in between anything may be queued, removed or acknowledged.             *)
(***************************************************************************)

\* A step after which no packet is held that was not held before.
LEMMA HeldShrinks ==
    ASSUME IInv, TypeOK', Held' \subseteq Held,
           \A p \in Packets \ pending' : next'[p] = 0
    PROVE  IInv'
<1>1. Held \in SUBSET Packets
  BY DEF Held, Partial, IInv, TypeOK
<1>2. Admissible(Held')
  BY <1>1, AdmissibleMono DEF IInv
<1>3. Admissible(Held') = Admissible(Held)'
  BY DEF Admissible, InClass
<1> QED
  BY <1>2, <1>3 DEF IInv

\* removeTransfer only ever makes the set of held packets smaller.
LEMMA RemoveShrinks ==
    ASSUME NEW S, IInv, RemoveTransfers(S), writing' \in {writing, None}
    PROVE  /\ Held' \subseteq Held
           /\ \A p \in Packets \ pending' : next'[p] = 0
<1>1. \A p \in Packets : next'[p] = IF p \in S THEN 0 ELSE next[p]
  BY DEF RemoveTransfers
<1>2. pending' = pending \ S /\ pending \subseteq Packets
  BY DEF RemoveTransfers, IInv, TypeOK
<1> QED
  BY <1>1, <1>2 DEF Held, Partial, Writing, IInv

\* The strengthened invariant is inductive.
LEMMA Inductive == IInv /\ [Next]_vars => IInv'
<1> SUFFICES ASSUME IInv, [Next]_vars PROVE IInv'
  OBVIOUS
<1> USE DEF IInv
<1>0. TypeOK'
  BY SenderTypes, ReceiverTypes, EnvironmentTypes DEF Next
<1>1. ASSUME NEW p \in Packets, enqueue(p) PROVE IInv'
  <2>1. PICK V \in SUBSET Victims(p) :
           /\ pending' \subseteq (pending \ V) \cup {p}
           /\ pending \ V \subseteq pending'
           /\ next' = [t \in Packets |-> IF t \in V THEN 0 ELSE next[t]]
    BY <1>1 DEF enqueue
  <2>2. writing' = writing /\ p \notin pending /\ ~Writing(p)
    BY <1>1 DEF enqueue, Free
  <2>3. next'[p] = 0
    BY <2>1, <2>2
  <2>4. Held' \subseteq Held
    BY <2>1, <2>2, <2>3 DEF Held, Partial, Writing, TypeOK
  <2>5. \A q \in Packets \ pending' : next'[q] = 0
    BY <2>1
  <2> QED
    BY <1>0, <2>4, <2>5, HeldShrinks
<1>2. ASSUME NEW p \in Packets, cancelTransfer(p) PROVE IInv'
  BY <1>0, <1>2, RemoveShrinks, HeldShrinks DEF cancelTransfer
<1>3. CASE SenderMaintain
  BY <1>0, <1>3, RemoveShrinks, HeldShrinks DEF SenderMaintain
<1>4. CASE PumpPart
  <2>1. PICK p \in select(pending) :
          LET index == IF next[p] >= Fragments[p] THEN 0 ELSE next[p]
          IN  /\ next' = [next EXCEPT ![p] = index]
              /\ writing' = [id |-> p, index |-> index]
    BY <1>4 DEF PumpPart
  <2>2. /\ p \in pending /\ p \in Packets
        /\ p \in Partial(pending) \/ MayOpen(pending, p)
    BY DEF select, Due, Ready, TypeOK
  <2>3. pending' = pending /\ writing = None
    BY <1>4 DEF PumpPart
  <2>4. Held = Partial(pending)
    BY <2>3 DEF Held, Writing
  <2>5. \A q \in Packets : q # p => next'[q] = next[q]
    BY <2>1, <2>2 DEF TypeOK
  <2>6. next'[p] = IF next[p] >= Fragments[p] THEN 0 ELSE next[p]
    BY <2>1, <2>2 DEF TypeOK
  <2>7. \A q \in Packets \ pending' : next'[q] = 0
    BY <2>2, <2>3, <2>5
  <2>8. Partial(pending)' \subseteq Partial(pending)
    <3>1. ASSUME NEW q \in pending, next'[q] > 0, next'[q] < Fragments[q]
          PROVE  next[q] > 0 /\ next[q] < Fragments[q]
      <4>1. q \in Packets /\ next[q] \in Nat /\ Fragments[q] \in Nat
        BY PacketsAssumption DEF TypeOK
      <4>2. CASE q = p
        BY <2>6, <3>1, <4>1, <4>2
      <4>3. CASE q # p
        BY <2>5, <3>1, <4>1, <4>3
      <4> QED
        BY <4>2, <4>3
    <3> QED
      BY <2>3, <3>1 DEF Partial
  <2>9. Held' \subseteq Partial(pending) \cup (IF Fragments[p] > 1 THEN {p} ELSE {})
    BY <2>1, <2>3, <2>8 DEF Held, Writing
  <2>10. CASE p \in Partial(pending) \/ ~(Fragments[p] > 1)
    BY <1>0, <2>4, <2>7, <2>9, <2>10, HeldShrinks
  <2>11. CASE p \notin Partial(pending) /\ Fragments[p] > 1
    <3>1. Admissible(Partial(pending) \cup {p})
      BY <2>2, <2>4, <2>11, AdmissibleAdd DEF TypeOK
    <3>2. Partial(pending) \cup {p} \in SUBSET Packets
      BY <2>2 DEF Partial, TypeOK
    <3>3. Admissible(Held')
      BY <2>9, <3>1, <3>2, AdmissibleMono
    <3>4. Admissible(Held') = Admissible(Held)'
      BY DEF Admissible, InClass
    <3> QED
      BY <1>0, <2>7, <3>3, <3>4
  <2> QED
    BY <2>10, <2>11
<1>5. CASE WriteDone
  <2> DEFINE p == writing.id
  <2>1. writing # None /\ writing' = None /\ pending' = pending /\ p \in Packets
    BY <1>5 DEF WriteDone, TypeOK
  <2>2. \A q \in Packets : q # p => next'[q] = next[q]
    BY <1>5, <2>1 DEF WriteDone, TypeOK
  <2>3. next'[p] = IF p \in pending THEN next[p] + 1 ELSE next[p]
    BY <1>5, <2>1 DEF WriteDone, TypeOK
  <2>4. Held' \subseteq Held
    <3>1. ASSUME NEW q \in Held' PROVE q \in Held
      <4>1. /\ q \in pending /\ q \in Packets
            /\ next'[q] > 0 /\ next'[q] < Fragments[q]
        BY <2>1, <3>1 DEF Held, Partial, Writing, TypeOK
      <4>2. CASE q = p
        <5>1. Fragments[q] > 1
          BY <2>3, <4>1, <4>2, PacketsAssumption DEF TypeOK
        <5> QED
          BY <2>1, <4>1, <4>2, <5>1 DEF Held, Writing
      <4>3. CASE q # p
        BY <2>2, <4>1, <4>3 DEF Held, Partial
      <4> QED
        BY <4>2, <4>3
    <3> QED
      BY <3>1
  <2>5. \A q \in Packets \ pending' : next'[q] = 0
    BY <2>1, <2>2, <2>3
  <2> QED
    BY <1>0, <2>4, <2>5, HeldShrinks
<1>6. CASE RecvAck
  BY <1>0, <1>6, RemoveShrinks, HeldShrinks DEF RecvAck
<1>7. CASE close
  BY <1>0, <1>7, RemoveShrinks, HeldShrinks DEF close
<1>8. CASE UNCHANGED <<pending, next, writing>>
  <2>1. Held' = Held
    BY <1>8 DEF Held, Partial, Writing
  <2> QED
    BY <1>0, <1>8, <2>1, HeldShrinks
<1>9. ASSUME \/ \E p \in Packets : Expire(p)
             \/ \E b \in PowerModes : SetLowPower(b)
             \/ RecvDuplicate \/ PumpAck \/ ReceiverMaintain
             \/ \E p \in Packets : \E index \in 0..(Fragments[p] - 1) : RecvPacket(p, index)
             \/ Tick \/ LosePart \/ LoseAck \/ UNCHANGED vars
      PROVE  UNCHANGED <<pending, next, writing>>
  BY <1>9 DEF Expire, SetLowPower, RecvDuplicate, PumpAck, ReceiverMaintain,
     RecvPacket, RecvOverCap, RecvOverBytes, RecvPart, RecvLast, Fragment, Tick,
     LosePart, LoseAck, vars, senderVars
<1> QED
  BY <1>1, <1>2, <1>3, <1>4, <1>5, <1>6, <1>7, <1>8, <1>9 DEF Next

\* Whatever is queued, cancelled, expired, lost, retransmitted or paused, the
\* packets sent in part fit the receiver's slots with the reservations between
\* the classes, for every number of slots of at least four.
THEOREM AdmissionCorrect == Spec => []PartialsBounded
<1>1. Init => IInv
  <2> SUFFICES ASSUME Init PROVE IInv
    OBVIOUS
  <2>1. TypeOK
    BY InitTypes
  <2>2. Held = {} /\ \A p \in Packets \ pending : next[p] = 0
    BY DEF Init, Held, Partial
  <2>3. Admissible({})
    <3>1. /\ Cardinality({}) = 0
          /\ Cardinality(InClass({}, "sos")) = 0
          /\ Cardinality(InClass({}, "normal")) = 0
          /\ Cardinality(InClass({}, "bulk")) = 0
      <4>1. /\ InClass({}, "sos") = {} /\ InClass({}, "normal") = {}
            /\ InClass({}, "bulk") = {}
        BY DEF InClass
      <4> QED
        BY <4>1, FS_EmptySet
    <3> QED
      BY <3>1, LimitsAssumption DEF Admissible
  <2> QED
    BY <2>1, <2>2, <2>3 DEF IInv
<1>2. IInv => PartialsBounded
  <2> SUFFICES ASSUME IInv PROVE PartialsBounded
    OBVIOUS
  <2>1. Held \in SUBSET Packets /\ Partial(pending) \in SUBSET Held
    BY DEF Held, Partial, IInv, TypeOK
  <2>2. Admissible(Partial(pending))
    BY <2>1, AdmissibleMono DEF IInv
  <2> QED
    BY <2>2 DEF Admissible, PartialsBounded, Count
<1> QED
  BY <1>1, <1>2, Inductive, PTL DEF Spec

(***************************************************************************)
(* Acknowledgements                                                        *)
(***************************************************************************)

\* The acknowledgements queued and on their way are of packets the receiving
\* router emitted; that is what makes the ones that arrive so.
AInv ==
    /\ TypeOK /\ AckSound
    /\ \A i \in DOMAIN controls : controls[i] \in seen
    /\ \A i \in DOMAIN ackWire : ackWire[i] \in seen

\* Removing the head of a queue removes no bad element and adds none.
LEMMA TailKeeps ==
    ASSUME NEW S, NEW q \in Seq(S), q # <<>>, NEW T, \A i \in DOMAIN q : q[i] \in T
    PROVE  Head(q) \in T /\ \A i \in DOMAIN Tail(q) : Tail(q)[i] \in T
  OBVIOUS

\* acknowledge queues nothing but the packet it is given.
LEMMA AcknowledgeKeeps ==
    ASSUME NEW p \in Packets, AInv, acknowledge(p), seen' = seen \cup {p}
    PROVE  \A i \in DOMAIN controls' : controls'[i] \in seen'
<1>1. controls \in Seq(Packets)
  BY DEF AInv, TypeOK
<1>2. controls' = controls \/ controls' = Append(controls, p)
  BY DEF acknowledge
<1> QED
  BY <1>1, <1>2 DEF AInv

\* Every step keeps the queued and the travelling acknowledgements sound.
LEMMA AckInductive == AInv /\ [Next]_vars => AInv'
<1> SUFFICES ASSUME AInv, [Next]_vars PROVE AInv'
  OBVIOUS
<1>0. TypeOK /\ TypeOK'
  BY SenderTypes, ReceiverTypes, EnvironmentTypes DEF Next, AInv
<1>1. ASSUME NEW p \in Packets, enqueue(p) PROVE AInv'
  <2>1. /\ \A i \in DOMAIN controls : controls[i] # p
        /\ \A i \in DOMAIN ackWire : ackWire[i] # p
        /\ seen' = seen \ {p} /\ acked' = acked \ {p}
        /\ UNCHANGED <<controls, ackWire>>
    BY <1>1 DEF enqueue, Free
  <2> QED
    BY <1>0, <2>1 DEF AInv, AckSound
<1>2. CASE RecvAck
  <2>1. /\ ackWire \in Seq(Packets) /\ ackWire # <<>> /\ ackWire' = Tail(ackWire)
        /\ acked' = acked \cup ({Head(ackWire)} \cap pending)
        /\ UNCHANGED <<seen, controls>>
    BY <1>0, <1>2 DEF RecvAck, receiverVars, TypeOK
  <2>2. Head(ackWire) \in seen /\ \A i \in DOMAIN ackWire' : ackWire'[i] \in seen
    BY <2>1, TailKeeps DEF AInv
  <2> QED
    BY <1>0, <2>1, <2>2 DEF AInv, AckSound
<1>3. CASE RecvDuplicate
  <2>1. /\ Head(partWire).id \in seen /\ acknowledge(Head(partWire).id)
        /\ UNCHANGED <<seen, ackWire, acked>>
    BY <1>3 DEF RecvDuplicate, history
  <2>2. \A i \in DOMAIN controls' : controls'[i] \in seen'
    <3>1. Head(partWire).id \in Packets /\ seen' = seen \cup {Head(partWire).id}
      BY <1>0, <2>1 DEF TypeOK
    <3> QED
      BY <2>1, <3>1, AcknowledgeKeeps
  <2> QED
    BY <1>0, <2>1, <2>2 DEF AInv, AckSound
<1>4. ASSUME NEW p \in Packets, NEW index \in 0..(Fragments[p] - 1), RecvPacket(p, index)
      PROVE  AInv'
  <2>1. UNCHANGED <<ackWire, acked>>
    BY <1>4 DEF RecvPacket, RecvOverCap, RecvOverBytes, RecvPart, RecvLast,
       Fragment, history
  <2>2. CASE UNCHANGED <<seen, controls>>
    BY <1>0, <2>1, <2>2 DEF AInv, AckSound
  <2>3. CASE seen' = seen \cup {p} /\ acknowledge(p)
    <3>1. \A i \in DOMAIN controls' : controls'[i] \in seen'
      BY <2>3, AcknowledgeKeeps
    <3> QED
      BY <1>0, <2>1, <2>3, <3>1 DEF AInv, AckSound
  <2> QED
    BY <1>4, <2>2, <2>3 DEF RecvPacket, RecvOverCap, RecvOverBytes, RecvPart,
       RecvLast, receive
<1>5. CASE PumpAck
  <2>1. /\ controls \in Seq(Packets) /\ controls # <<>> /\ controls' = Tail(controls)
        /\ ackWire \in Seq(Packets) /\ ackWire' = Append(ackWire, Head(controls))
        /\ UNCHANGED <<seen, acked>>
    BY <1>0, <1>5 DEF PumpAck, history, TypeOK
  <2>2. Head(controls) \in seen /\ \A i \in DOMAIN controls' : controls'[i] \in seen
    BY <2>1, TailKeeps DEF AInv
  <2>3. \A i \in DOMAIN ackWire' : ackWire'[i] \in seen
    BY <2>1, <2>2 DEF AInv
  <2> QED
    BY <1>0, <2>1, <2>2, <2>3 DEF AInv, AckSound
<1>6. CASE LoseAck
  <2>1. /\ ackWire \in Seq(Packets) /\ ackWire # <<>> /\ ackWire' = Tail(ackWire)
        /\ UNCHANGED <<seen, controls, acked>>
    BY <1>0, <1>6 DEF LoseAck, receiverVars, history, TypeOK
  <2>2. \A i \in DOMAIN ackWire' : ackWire'[i] \in seen
    BY <2>1, TailKeeps DEF AInv
  <2> QED
    BY <1>0, <2>1, <2>2 DEF AInv, AckSound
<1>7. CASE close
  <2>1. ackWire' = <<>> /\ controls' = <<>> /\ UNCHANGED <<seen, acked>>
    BY <1>7 DEF close, history
  <2> QED
    BY <1>0, <2>1 DEF AInv, AckSound
<1>8. CASE UNCHANGED <<seen, controls, ackWire, acked>>
  BY <1>0, <1>8 DEF AInv, AckSound
<1>9. ASSUME \/ \E p \in Packets : cancelTransfer(p) \/ Expire(p)
             \/ SenderMaintain \/ PumpPart \/ WriteDone
             \/ \E b \in PowerModes : SetLowPower(b)
             \/ ReceiverMaintain \/ Tick \/ LosePart \/ UNCHANGED vars
      PROVE  UNCHANGED <<seen, controls, ackWire, acked>>
  BY <1>9 DEF cancelTransfer, Expire, SenderMaintain, PumpPart, WriteDone,
     SetLowPower, ReceiverMaintain, Tick, LosePart, vars, receiverVars, history
<1> QED
  BY <1>1, <1>2, <1>3, <1>4, <1>5, <1>6, <1>7, <1>8, <1>9 DEF Next

\* The sender drops a transfer for an acknowledgement only when the receiving
\* router emitted its packet, whatever frames are lost and however often a
\* packet is sent again.
THEOREM AckCorrect == Spec => []AckSound
<1>1. Init => AInv
  <2> SUFFICES ASSUME Init PROVE AInv
    OBVIOUS
  <2> QED
    <3>1. TypeOK
      BY InitTypes
    <3>2. controls = <<>> /\ ackWire = <<>> /\ acked = {}
      BY DEF Init
    <3> QED
      BY <3>1, <3>2 DEF AInv, AckSound
<1>2. AInv => AckSound
  BY DEF AInv
<1> QED
  BY <1>1, <1>2, AckInductive, PTL DEF Spec

(***************************************************************************)
(* Eviction                                                                *)
(***************************************************************************)

\* A packet that may be at the receiver in part leaves the queue only by an
\* acknowledgement, its expiry, a cancellation, or the end of the link.
THEOREM StartedKept == Spec => StartedAreKept
<1> DEFINE Kept == \A p \in pending :
              (p \in Partial(pending) \/ Writing(p)) /\ p \notin pending'
                 => p \in acked' \cup expired \cup Cancellable \/ ~active'
<1>1. TypeOK /\ [Next]_vars => [Kept]_vars
  <2> SUFFICES ASSUME TypeOK, Next PROVE Kept
    OBVIOUS
  <2>1. ASSUME NEW q \in Packets, enqueue(q) PROVE Kept
    <3>1. \A p \in pending \ pending' : p \in Victims(q)
      BY <2>1 DEF enqueue
    <3>2. \A p \in Victims(q) : p \in pending /\ ~Writing(p)
                                /\ (next[p] = 0 \/ next[p] = Fragments[p])
      BY DEF Victims
    <3>3. \A p \in pending : next[p] \in Nat /\ Fragments[p] \in Nat
      BY PacketsAssumption DEF TypeOK
    <3> QED
      BY <3>1, <3>2, <3>3 DEF Partial
  <2>2. ASSUME NEW q \in Packets, cancelTransfer(q) PROVE Kept
    BY <2>2 DEF cancelTransfer, RemoveTransfers
  <2>3. CASE SenderMaintain
    BY <2>3 DEF SenderMaintain, RemoveTransfers
  <2>4. CASE RecvAck
    BY <2>4 DEF RecvAck, RemoveTransfers
  <2>5. CASE close
    BY <2>5 DEF close
  <2>6. CASE pending' = pending
    BY <2>6
  <2>7. ASSUME \/ \E p \in Packets : Expire(p)
               \/ PumpPart \/ WriteDone
               \/ \E b \in PowerModes : SetLowPower(b)
               \/ RecvDuplicate \/ PumpAck \/ ReceiverMaintain
               \/ \E p \in Packets : \E index \in 0..(Fragments[p] - 1) : RecvPacket(p, index)
               \/ Tick \/ LosePart \/ LoseAck
        PROVE  pending' = pending
    BY <2>7 DEF Expire, PumpPart, WriteDone, SetLowPower, RecvDuplicate, PumpAck,
       ReceiverMaintain, RecvPacket, RecvOverCap, RecvOverBytes, RecvPart, RecvLast,
       Fragment, Tick, LosePart, LoseAck, senderVars
  <2> QED
    BY <2>1, <2>2, <2>3, <2>4, <2>5, <2>6, <2>7 DEF Next
<1> QED
  BY <1>1, TypeCorrect, PTL DEF Spec, StartedAreKept
=============================================================================
