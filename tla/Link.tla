-------------------------------- MODULE Link --------------------------------
(***************************************************************************)
(* One direction of a transport link (packages/transport/src/index.ts,     *)
(* class Link): the sending end cuts packets into fragments and schedules  *)
(* them by priority, the receiving end reassembles them, hands whole       *)
(* packets to its router and acknowledges.  The two ends share only the    *)
(* byte stream, so what the sender believes about the receiver's           *)
(* reassembly slots can be wrong.                                          *)
(*                                                                         *)
(* A member of Packets is a slot: once a packet has left every queue a     *)
(* fresh packet of the same priority and size may take it, so runs with a  *)
(* finite set of packets have unbounded traffic.                           *)
(***************************************************************************)
EXTENDS Integers, Sequences, FiniteSets, FiniteSetsExt

CONSTANTS
    Packets,        \* packet slots
    Priority,       \* [Packets -> Class]
    Fragments,      \* [Packets -> Nat]: ceil(bytes / FRAGMENT)
    Created,        \* [Packets -> Nat]: packet.created
    Cancellable,    \* packets the router may cancel (relay pause, cancelLocal)
    Mortal,         \* packets whose time to live may run out
    MaxTransfers,   \* MAX_TRANSFERS, 64 in the code
    MaxPending,     \* MAX_PENDING in fragments, 16 MiB in the code
    SosReserve,     \* pending fragments kept for SOS, 64 KiB in the code
    MaxAssemblies,  \* MAX_ASSEMBLIES, 8 in the code
    MaxControl,     \* MAX_CONTROL, 64 in the code
    MaxAcks,        \* MAX_ACKS_PER_SECOND, 64 in the code
    MaxInvalid,     \* rejected frames per second that close the link, 32
    RetryTicks,     \* ticks before an unacknowledged packet is sent again
    IdleTicks,      \* ticks an assembly survives without a new fragment
    MaxWire,        \* frames the stream holds before it pushes back
    Reticulum,      \* TRUE: the medium is "reticulum"
    Lossy,          \* TRUE: a frame may be lost or garbled (serial)
    PowerModes,     \* values lowPower is given
    Ticks,          \* FALSE: everything happens within one second
    Prompt,         \* TRUE: fragments of a packet come within IdleTicks
    Recycled,       \* slots that a second packet may take
    None            \* no write in progress

Class == {"sos", "normal", "bulk"}
rank(c) == CASE c = "sos" -> 0 [] c = "normal" -> 1 [] c = "bulk" -> 2

ASSUME PacketsAssumption ==
    /\ IsFiniteSet(Packets)
    /\ None \notin Packets
    /\ Priority \in [Packets -> Class]
    /\ Fragments \in [Packets -> Nat \ {0}]
    /\ Created \in [Packets -> Nat]
    /\ Cancellable \subseteq Packets /\ Mortal \subseteq Packets
    /\ Recycled \subseteq Packets
ASSUME LimitsAssumption ==
    /\ MaxTransfers \in Nat /\ MaxPending \in Nat /\ SosReserve \in Nat
    /\ MaxControl \in Nat /\ MaxAcks \in Nat /\ MaxWire \in Nat
    /\ RetryTicks \in Nat /\ IdleTicks \in Nat
    /\ MaxInvalid \in Nat /\ MaxInvalid > 0
    /\ MaxAssemblies \in Nat /\ MaxAssemblies >= 4
    /\ Reticulum \in BOOLEAN /\ Lossy \in BOOLEAN
    /\ Ticks \in BOOLEAN /\ Prompt \in BOOLEAN
    /\ PowerModes \subseteq BOOLEAN

VARIABLES
    active,         \* the link has not been closed
    \* sending end
    pending,        \* ids of the transfers queued on the link
    pendingBytes,   \* the running total the code keeps
    next,           \* next fragment of each transfer
    sent,           \* ticks since the last fragment of a complete pass
    scheduled,      \* turns since each transfer was served, or queued
    writing,        \* the fragment whose write has not completed, or None
    phase,          \* turn, the number of fragments served, modulo 4
    priorityTurns,  \* turns since each class was served
    lowPower,       \* router.lowPower
    \* the stream
    partWire,       \* fragments on their way to the receiver
    ackWire,        \* acknowledgements on their way back
    \* receiving end
    parts,          \* fragment indices of each assembly, {} when there is none
    idle,           \* ticks since each assembly got a new fragment
    seen,           \* the receiving router's seen set: what it has emitted
    controls,       \* acknowledgements to write
    acknowledged,   \* acknowledged within the last second
    acksWindow,     \* acknowledgements written in this second
    invalidWindow,  \* frames rejected in this second
    \* time and history
    unused,         \* slots no packet has taken yet
    expired,        \* packets whose expires has passed
    acked           \* packets the sender dropped because of an acknowledgement

senderVars == <<pending, pendingBytes, next, sent, scheduled, writing, phase, priorityTurns>>
receiverVars == <<parts, idle, seen, controls, acknowledged,
                  acksWindow, invalidWindow>>
history == <<unused, expired, acked>>
vars == <<active, senderVars, lowPower, partWire, ackWire, receiverVars,
          history>>

Weight(S) == MapThenSumSet(LAMBDA p : Fragments[p], S)

TypeOK ==
    /\ active \in BOOLEAN
    /\ pending \subseteq Packets
    /\ next \in [Packets -> Nat]
    /\ sent \in [Packets -> 0..RetryTicks]
    /\ scheduled \in [Packets -> Nat]
    /\ writing \in {None} \cup [id : Packets, index : Nat]
    /\ phase \in 0..3
    /\ priorityTurns \in [Class -> Nat]
    /\ lowPower \in BOOLEAN
    /\ partWire \in Seq([id : Packets, index : Nat])
    /\ ackWire \in Seq(Packets)
    /\ parts \in [Packets -> SUBSET Nat]
    /\ idle \in [Packets -> 0..(IdleTicks + 1)]
    /\ seen \subseteq Packets
    /\ controls \in Seq(Packets)
    /\ acknowledged \subseteq Packets
    /\ acksWindow \in 0..MaxAcks /\ invalidWindow \in 0..MaxInvalid
    /\ unused \subseteq Packets /\ expired \subseteq Packets /\ acked \subseteq Packets

Init ==
    /\ active = TRUE
    /\ pending = {} /\ pendingBytes = 0
    /\ next = [p \in Packets |-> 0]
    /\ sent = [p \in Packets |-> 0]
    /\ scheduled = [p \in Packets |-> 0]
    /\ writing = None
    /\ phase = 0
    /\ priorityTurns = [c \in Class |-> 0]
    /\ lowPower = FALSE
    /\ partWire = <<>> /\ ackWire = <<>>
    /\ parts = [p \in Packets |-> {}]
    /\ idle = [p \in Packets |-> 0]
    /\ seen = {}
    /\ controls = <<>>
    /\ acknowledged = {} /\ acksWindow = 0 /\ invalidWindow = 0
    /\ unused = Packets /\ expired = {} /\ acked = {}

(***************************************************************************)
(* The sending end                                                         *)
(***************************************************************************)
Writing(p) == writing # None /\ writing.id = p

\* removeTransfer for every member of S; the slots' counters are forgotten.
RemoveTransfers(S) ==
    /\ pending' = pending \ S
    /\ pendingBytes' = pendingBytes - Weight(S \cap pending)
    /\ next' = [p \in Packets |-> IF p \in S THEN 0 ELSE next[p]]
    /\ sent' = [p \in Packets |-> IF p \in S THEN 0 ELSE sent[p]]
    /\ scheduled' = [p \in Packets |-> IF p \in S THEN 0 ELSE scheduled[p]]

\* Sent in part: the receiver should hold an assembly for it.
Partial(S) == {p \in S : next[p] > 0 /\ next[p] < Fragments[p]}
InClass(S, c) == {p \in S : Priority[p] = c}

\* Mutant of Victims: any transfer of a lower class may go.
Victims_Any(p) == {t \in pending : rank(Priority[t]) > rank(Priority[p])}

\* enqueue: transfers that may make room for p, and the order they go in.
Victims(p) ==
    {t \in pending : /\ ~Writing(t)
                     /\ rank(Priority[t]) > rank(Priority[p])
                     /\ next[t] = 0 \/ next[t] = Fragments[t]}
GoesBefore(t, u) ==
    \/ rank(Priority[t]) > rank(Priority[u])
    \/ rank(Priority[t]) = rank(Priority[u]) /\ Created[t] > Created[u]
Slots(c) == IF c = "sos" THEN MaxTransfers ELSE MaxTransfers - 2
Limit(c) == IF c = "sos" THEN MaxPending ELSE MaxPending - SosReserve
Fits(p, V) ==
    /\ Cardinality(pending \ V) < Slots(Priority[p])
    /\ pendingBytes - Weight(V) + Fragments[p] <= Limit(Priority[p])

\* The victims the loop removes: a shortest prefix of the order that makes
\* room, or all of them when none does.
Evicts(p, V) ==
    /\ V \subseteq Victims(p)
    /\ \A u \in V, t \in Victims(p) : GoesBefore(t, u) => t \in V
    /\ Fits(p, V) \/ V = Victims(p)
    /\ \A u \in V : (\A t \in V : ~GoesBefore(u, t)) => ~Fits(p, V \ {u})

\* Nothing is left of the packet that last used the slot.
Free(p) ==
    /\ p \notin pending /\ ~Writing(p) /\ parts[p] = {}
    /\ \A i \in DOMAIN partWire : partWire[i].id # p
    /\ \A i \in DOMAIN ackWire : ackWire[i] # p
    /\ \A i \in DOMAIN controls : controls[i] # p

enqueue(p) ==
    /\ active /\ Free(p) /\ p \in unused \cup Recycled
    /\ \E V \in SUBSET Victims(p) :
          /\ Evicts(p, V)
          /\ LET fits == Fits(p, V)
             IN  /\ pending' = (pending \ V) \cup (IF fits THEN {p} ELSE {})
                 /\ pendingBytes' = pendingBytes - Weight(V)
                                    + (IF fits THEN Fragments[p] ELSE 0)
                 /\ next' = [t \in Packets |-> IF t \in V THEN 0 ELSE next[t]]
                 /\ sent' = [t \in Packets |-> IF t \in V THEN 0 ELSE sent[t]]
                 /\ scheduled' = [t \in Packets |->
                        IF t \in V THEN 0
                        ELSE IF t = p THEN 0 ELSE scheduled[t]]
    /\ unused' = unused \ {p}
    /\ expired' = expired \ {p} /\ acked' = acked \ {p}
    /\ seen' = seen \ {p}
    /\ acknowledged' = acknowledged \ {p}
    /\ UNCHANGED <<active, writing, phase, priorityTurns, lowPower,
                   partWire, ackWire, parts, idle, controls,
                   acksWindow, invalidWindow>>

\* Mutant of Ready: a packet sent whole is not sent again.
Ready_Once(S) ==
    {p \in S : ~(lowPower /\ Priority[p] = "bulk") /\ next[p] < Fragments[p]}

\* select: which transfers of S may send their next fragment now.
Ready(S) ==
    {p \in S : /\ ~(lowPower /\ Priority[p] = "bulk")
               /\ next[p] < Fragments[p] \/ sent[p] >= RetryTicks}
Waiting(S) ==
    {c \in Class : /\ InClass(Partial(S), c) = {}
                   /\ InClass(Ready(S), c) # {}}
Count(S, c) == Cardinality(InClass(Partial(S), c))
\* Mutant of MayOpen: a class is not held to its own share.
MayOpen_AnyClass(S, p) ==
    LET c == Priority[p]
        lower == Count(S, "normal") + Count(S, "bulk")
    IN  /\ IF c = "sos" THEN Count(S, "sos") < MaxAssemblies - 1
           ELSE lower < MaxAssemblies - 2
        /\ Cardinality(Partial(S)) < MaxAssemblies - Cardinality(Waiting(S) \ {c})
MayOpen(S, p) ==
    LET c == Priority[p]
        lower == Count(S, "normal") + Count(S, "bulk")
    IN  /\ ~ /\ Reticulum /\ c = "bulk"
             /\ Count(S, "bulk") >= 1 /\ Fragments[p] > 1
        /\ IF c = "sos" THEN Count(S, "sos") < MaxAssemblies - 1
           ELSE lower < MaxAssemblies - 2 /\ Count(S, c) < MaxAssemblies - 3
        /\ Cardinality(Partial(S)) < MaxAssemblies - Cardinality(Waiting(S) \ {c})
Due(S) == {p \in Ready(S) : p \in Partial(S) \/ MayOpen(S, p)}

\* The code keeps the turn of each transfer and class; only the order of the
\* turns matters, and the longer ago the earlier it is served.  Two classes
\* not yet served have equal turns: which of them goes first is left open.
Fair == (phase + 1) % 4 = 0
ServedBefore(p, q) ==
    LET c == Priority[p]
        d == Priority[q]
    IN  IF c # d THEN IF Fair THEN priorityTurns[c] > priorityTurns[d]
                              ELSE rank(c) < rank(d)
        ELSE \/ scheduled[p] > scheduled[q]
             \/ scheduled[p] = scheduled[q] /\ Created[p] < Created[q]
select(S) == {p \in Due(S) : \A q \in Due(S) : ~ServedBefore(q, p)}

\* maintain at the sending end: transfers past their time to live go.
SenderMaintain ==
    /\ active /\ pending \cap expired # {}
    /\ RemoveTransfers(expired)
    /\ UNCHANGED <<active, writing, phase, priorityTurns, lowPower,
                   partWire, ackWire, receiverVars, history>>

\* The next turn begins: everything in S is one older than what is younger.
Older(f, S, x) == 1 + Cardinality({f[y] : y \in {z \in S : f[z] < f[x]}})

\* pump, up to the await of the write: the frame is in the stream.
PumpPart ==
    /\ active /\ writing = None /\ Len(partWire) < MaxWire
    /\ pending \cap expired = {}
    /\ \E p \in select(pending) :
          LET index == IF next[p] >= Fragments[p] THEN 0 ELSE next[p]
          IN  /\ next' = [next EXCEPT ![p] = index]
              /\ writing' = [id |-> p, index |-> index]
              /\ partWire' = Append(partWire, [id |-> p, index |-> index])
    /\ phase' = (phase + 1) % 4
    /\ scheduled' = [p \in Packets |-> IF p \in pending
           THEN Older(scheduled, InClass(pending, Priority[p]), p) ELSE 0]
    /\ priorityTurns' = [c \in Class |-> Older(priorityTurns, Class, c)]
    /\ UNCHANGED <<active, pending, pendingBytes, sent, lowPower, ackWire,
                   receiverVars, history>>

\* pump, after the write: the transfer object is updated even if an
\* acknowledgement or a cancellation took it out of pending meanwhile.
WriteDone ==
    /\ active /\ writing # None
    /\ LET p == writing.id
           live == p \in pending
       IN  /\ next' = IF live THEN [next EXCEPT ![p] = @ + 1] ELSE next
           /\ sent' = IF live THEN [sent EXCEPT ![p] = 0] ELSE sent
           /\ scheduled' = [scheduled EXCEPT ![p] = 0]
           /\ priorityTurns' = [priorityTurns EXCEPT ![Priority[p]] = 0]
    /\ writing' = None
    /\ UNCHANGED <<active, pending, pendingBytes, phase, lowPower, partWire,
                   ackWire, receiverVars, history>>

\* cancelTransfer, from cancelRelayed or cancelLocal.  On a plain stream the
\* receiver is not told.
cancelTransfer(p) ==
    /\ active /\ p \in pending \cap Cancellable
    /\ RemoveTransfers({p})
    /\ UNCHANGED <<active, writing, phase, priorityTurns, lowPower,
                   partWire, ackWire, receiverVars, history>>

\* frame, an acknowledgement.
RecvAck ==
    /\ active /\ ackWire # <<>>
    /\ RemoveTransfers({Head(ackWire)})
    /\ acked' = acked \cup ({Head(ackWire)} \cap pending)
    /\ ackWire' = Tail(ackWire)
    /\ UNCHANGED <<active, writing, phase, priorityTurns, lowPower,
                   partWire, receiverVars, unused, expired>>

SetLowPower(b) ==
    /\ active /\ lowPower # b
    /\ lowPower' = b
    /\ UNCHANGED <<active, senderVars, partWire, ackWire, receiverVars,
                   history>>

(***************************************************************************)
(* The receiving end                                                       *)
(***************************************************************************)
Assemblies == {p \in Packets : parts[p] # {}}
Stale == {p \in Assemblies : idle[p] > IdleTicks}
RemoveAssemblies(S) ==
    /\ parts' = [p \in Packets |-> IF p \in S THEN {} ELSE parts[p]]
    /\ idle' = [p \in Packets |-> IF p \in S THEN 0 ELSE idle[p]]

\* acknowledge: coalesced by id, at most one a second, bounded.
acknowledge(p) ==
    controls' = IF \/ p \in acknowledged
                   \/ \E i \in DOMAIN controls : controls[i] = p
                   \/ Len(controls) >= MaxControl
                THEN controls ELSE Append(controls, p)

\* assemblyBytes, in fragments.
Stored(S) == MapThenSumSet(LAMBDA p : Cardinality(parts[p]), S)


\* A first fragment may open an assembly once the idle ones are gone.
Dropped(p) == IF parts[p] = {} THEN Stale ELSE {}
HasSlot(p) == parts[p] # {} \/ Cardinality(Assemblies \ Stale) < MaxAssemblies
HasBytes(p) == Stored(Packets \ Dropped(p)) < MaxPending

\* A frame that throws is counted; enough of them close the link.
Reject == invalidWindow + 1 < MaxInvalid /\ invalidWindow' = invalidWindow + 1

\* frame, a fragment of a packet the router has seen.
RecvDuplicate ==
    /\ active /\ partWire # <<>>
    /\ Head(partWire).id \in seen \ expired
    /\ acknowledge(Head(partWire).id)
    /\ partWire' = Tail(partWire)
    /\ UNCHANGED <<active, senderVars, lowPower, ackWire, parts, idle, seen,
                   acknowledged, acksWindow, invalidWindow, history>>

\* A fragment of a packet that still has to be put together.
Fragment(p, index) ==
    /\ active /\ partWire # <<>>
    /\ p = Head(partWire).id /\ index = Head(partWire).index
    /\ p \notin seen \ expired
    /\ partWire' = Tail(partWire)
    /\ UNCHANGED <<active, senderVars, lowPower, ackWire, acknowledged,
                   acksWindow, history>>

\* frame, the first fragment of a packet when every slot is taken.
RecvOverCap(p, index) ==
    /\ Fragment(p, index) /\ ~HasSlot(p)
    /\ RemoveAssemblies(Stale)
    /\ Reject
    /\ UNCHANGED <<seen, controls>>

\* frame, a new fragment when the assemblies hold all the bytes they may.
RecvOverBytes(p, index) ==
    /\ Fragment(p, index) /\ HasSlot(p)
    /\ index \notin parts[p] /\ ~HasBytes(p)
    /\ RemoveAssemblies(Dropped(p) \cup {p})
    /\ Reject
    /\ UNCHANGED <<seen, controls>>

\* Mutant of Refreshes: every fragment keeps its assembly alive.
Refreshes_Always(p, index) == TRUE

\* A fragment the assembly already has does not make it younger.
Refreshes(p, index) == index \notin parts[p]

\* frame, a fragment that is stored and does not complete its packet.
RecvPart(p, index) ==
    /\ Fragment(p, index) /\ HasSlot(p)
    /\ index \in parts[p] \/ HasBytes(p)
    /\ Cardinality(parts[p] \cup {index}) < Fragments[p]
    /\ parts' = [q \in Packets |-> IF q = p THEN parts[p] \cup {index}
                                   ELSE IF q \in Dropped(p) THEN {} ELSE parts[q]]
    /\ idle' = [q \in Packets |-> IF \/ q \in Dropped(p)
                                     \/ q = p /\ Refreshes(p, index)
                                  THEN 0 ELSE idle[q]]
    /\ UNCHANGED <<seen, controls, invalidWindow>>

\* Mutant of receive: a refused packet is acknowledged too.
receive_AcksRefused(p) ==
    \/ /\ p \in expired
       /\ acknowledge(p)
       /\ UNCHANGED <<seen, invalidWindow>>
    \/ /\ p \notin expired
       /\ seen' = seen \cup {p}
       /\ acknowledge(p)
       /\ UNCHANGED invalidWindow

\* router.receive for a packet put together, and the acknowledgement after it:
\* a packet past its time to live is refused and not acknowledged.
receive(p) ==
    \/ /\ p \in expired
       /\ Reject
       /\ UNCHANGED <<seen, controls>>
    \/ /\ p \notin expired
       /\ seen' = seen \cup {p}
       /\ acknowledge(p)
       /\ UNCHANGED invalidWindow

\* frame, the fragment that completes a packet.
RecvLast(p, index) ==
    /\ Fragment(p, index) /\ HasSlot(p)
    /\ index \notin parts[p] /\ HasBytes(p)
    /\ Cardinality(parts[p] \cup {index}) = Fragments[p]
    /\ RemoveAssemblies(Dropped(p) \cup {p})
    /\ receive(p)

\* pump at the receiving end, the acknowledgement branch.
PumpAck ==
    /\ active /\ controls # <<>> /\ acksWindow < MaxAcks
    /\ Len(ackWire) < MaxWire
    /\ acksWindow' = acksWindow + 1
    /\ acknowledged' = acknowledged \cup {Head(controls)}
    /\ ackWire' = Append(ackWire, Head(controls))
    /\ controls' = Tail(controls)
    /\ UNCHANGED <<active, senderVars, lowPower, partWire, parts, idle, seen,
                   invalidWindow, history>>

\* maintain at the receiving end: assemblies nobody feeds are dropped, and
\* those older than the longest time to live a packet may have.
ReceiverMaintain ==
    /\ active
    /\ \E aged \in SUBSET (Assemblies \cap expired) :
          /\ Stale \cup aged # {}
          /\ RemoveAssemblies(Stale \cup aged)
    /\ UNCHANGED <<active, senderVars, lowPower, partWire, ackWire, seen,
                   controls, acknowledged, acksWindow,
                   invalidWindow, history>>

(***************************************************************************)
(* Time, faults and the end of the link                                    *)
(***************************************************************************)

Aged(age, max) == IF age < max THEN age + 1 ELSE max

\* A second passes: retry and idle ages grow, the windows start again.
Tick ==
    /\ active /\ Ticks
    /\ Prompt => \A p \in Assemblies : idle[p] < IdleTicks
    /\ sent' = [p \in Packets |-> IF p \in pending /\ next[p] = Fragments[p]
                                  THEN Aged(sent[p], RetryTicks) ELSE sent[p]]
    /\ idle' = [p \in Packets |-> IF p \in Assemblies
                                  THEN Aged(idle[p], IdleTicks + 1) ELSE idle[p]]
    /\ acknowledged' = {} /\ acksWindow' = 0 /\ invalidWindow' = 0
    /\ UNCHANGED <<active, pending, pendingBytes, next, scheduled, writing,
                   phase, priorityTurns, lowPower, partWire, ackWire,
                   parts, seen, controls, history>>

Expire(p) ==
    /\ active /\ p \in Mortal \ (expired \cup unused)
    /\ expired' = expired \cup {p}
    /\ UNCHANGED <<active, senderVars, lowPower, partWire, ackWire,
                   receiverVars, unused, acked>>

\* A frame that arrives garbled is rejected, one that is cut off is not seen.
LosePart ==
    /\ active /\ Lossy /\ partWire # <<>>
    /\ \/ UNCHANGED invalidWindow
       \/ Reject
    /\ partWire' = Tail(partWire)
    /\ UNCHANGED <<active, senderVars, lowPower, ackWire, parts, idle, seen,
                   controls, acknowledged, acksWindow,
                   history>>
LoseAck ==
    /\ active /\ Lossy /\ ackWire # <<>>
    /\ ackWire' = Tail(ackWire)
    /\ UNCHANGED <<active, senderVars, lowPower, partWire, receiverVars,
                   history>>

\* close: the stream ended, a write failed, or too many frames were rejected.
close ==
    /\ active
    /\ active' = FALSE
    /\ RemoveTransfers(Packets)
    /\ writing' = None
    /\ partWire' = <<>> /\ ackWire' = <<>>
    /\ RemoveAssemblies(Packets)
    /\ controls' = <<>> /\ acknowledged' = {}
    /\ UNCHANGED <<phase, priorityTurns, lowPower, seen, acksWindow,
                   invalidWindow, history>>

RecvPacket(p, index) ==
    \/ RecvOverCap(p, index) \/ RecvOverBytes(p, index)
    \/ RecvPart(p, index) \/ RecvLast(p, index)

Next ==
    \/ \E p \in Packets : enqueue(p) \/ cancelTransfer(p) \/ Expire(p)
    \/ SenderMaintain \/ PumpPart \/ WriteDone \/ RecvAck
    \/ \E b \in PowerModes : SetLowPower(b)
    \/ RecvDuplicate
    \/ \E p \in Packets : \E index \in 0..(Fragments[p] - 1) : RecvPacket(p, index)
    \/ PumpAck \/ ReceiverMaintain
    \/ Tick \/ LosePart \/ LoseAck \/ close

Spec == Init /\ [][Next]_vars

(***************************************************************************)
(* Both ends run their pump from a 200 ms timer and from every read, the   *)
(* stream hands over what was written, and time passes.  Nothing obliges   *)
(* anyone to enqueue, cancel, lose a frame, change the power mode or close *)
(* the link.                                                               *)
(***************************************************************************)
Receive ==
    \/ RecvDuplicate
    \/ \E p \in Packets : \E index \in 0..(Fragments[p] - 1) : RecvPacket(p, index)
Fairness ==
    /\ WF_vars(SenderMaintain) /\ WF_vars(PumpPart) /\ WF_vars(WriteDone)
    /\ WF_vars(Receive) /\ WF_vars(RecvAck)
    /\ WF_vars(PumpAck)
    /\ WF_vars(ReceiverMaintain) /\ WF_vars(Tick)
FairSpec == Spec /\ Fairness

(***************************************************************************)
(* Properties                                                              *)
(***************************************************************************)

\* select never has more packets in part than the receiver has assembly
\* slots, the classes below SOS leave the slots they are denied, and a
\* Reticulum stream carries one bulk packet at a time.
PartialsBounded ==
    /\ Cardinality(Partial(pending)) <= MaxAssemblies
    /\ Count(pending, "sos") <= MaxAssemblies - 1
    /\ Count(pending, "normal") + Count(pending, "bulk") <= MaxAssemblies - 2
    /\ Count(pending, "normal") <= MaxAssemblies - 3
    /\ Count(pending, "bulk") <= MaxAssemblies - 3
    /\ Reticulum => Count(pending, "bulk") <= 1

\* A transfer that removeTransfer drops for an acknowledgement was emitted by
\* the receiving router, whatever was lost, retried or cancelled before.
AckSound == acked \subseteq seen

\* The running total that admission compares with its limits is the weight of
\* what is queued, through every eviction, cancellation and late write.
PendingBytesExact == pendingBytes = Weight(pending)

\* On a link that loses nothing and whose packets are neither cancelled nor
\* expire, the receiver never refuses a fragment for want of a slot or of
\* bytes: the sender's admission in select mirrors the receiver's limits.
NeverRefused == invalidWindow = 0

\* enqueue never makes room by abandoning a packet the receiver may hold in
\* part: such a packet leaves only when it is acknowledged, expires, is
\* cancelled by the router, or the link closes.
StartedAreKept ==
    [][\A p \in pending : (p \in Partial(pending) \/ Writing(p)) /\ p \notin pending'
          => p \in acked' \cup expired \cup Cancellable \/ ~active']_vars

\* Every packet queued on a live link is acknowledged once frames stop getting
\* lost and assemblies stop going stale between two fragments, although new
\* packets of every class keep coming, acknowledgements were dropped when the
\* control queue was full, and bulk waits while the node saves power (select,
\* pump, acknowledge).
QueuedIsAcked ==
    /\ <>[](~lowPower /\ Stale = {})
    /\ <>[][~LosePart /\ ~LoseAck]_vars
    => \A p \in Packets \ Cancellable :
          p \in pending ~> p \in acked \cup expired \/ ~active

\* No reassembly slot is held for ever: whatever is lost, retransmitted,
\* cancelled or expired at the sending end, an assembly is completed or dropped.
AssembliesEnd ==
    \A p \in Packets : parts[p] # {} ~> parts[p] = {}
=============================================================================
