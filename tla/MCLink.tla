------------------------------- MODULE MCLink -------------------------------
(***************************************************************************)
(* Small instances of Link.  The slots of each class and their sizes are   *)
(* given by definitions that the configurations choose from.               *)
(***************************************************************************)
EXTENDS Link, TLC

CONSTANTS s1, s2, s3, n1, n2, b1, b2

ByClass(sos, normal, bulk) ==
    [p \in sos \cup normal \cup bulk |->
        IF p \in sos THEN "sos" ELSE IF p \in normal THEN "normal" ELSE "bulk"]
Sizes(long, S) == [p \in S |-> IF p \in long THEN 2 ELSE 1]

\* slots: as many unfinished packets as one class may have, and one more
SlotPackets == {s1, s2, s3, n1, b1}
SlotPriority == ByClass({s1, s2, s3}, {n1}, {b1})
SlotFragments == Sizes(SlotPackets, SlotPackets)
SlotCreated == [p \in SlotPackets |-> 1]
SlotSymmetry == Permutations({s1, s2, s3})

\* queue: a full queue with something to evict in two classes, and enough packets
\* to fill the receiver's slots with what cancelled ones leave behind
QueuePackets == {s1, n1, n2, b1, b2}
QueuePriority == ByClass({s1}, {n1, n2}, {b1, b2})
QueueFragments == [Sizes(QueuePackets, QueuePackets) EXCEPT ![n1] = 3]
QueueCreated == [p \in QueuePackets |-> IF p = b2 THEN 2 ELSE 1]

\* flow: a bulk packet among SOS packets that never stop coming
FlowPackets == {s1, b1}
FlowPriority == ByClass({s1}, {}, {b1})
FlowFragments == Sizes({b1}, FlowPackets)
FlowCreated == [p \in FlowPackets |-> 1]

\* loss: a packet in two fragments and another that keeps the wire busy
LossPackets == {n1, b1}
LossPriority == ByClass({}, {n1}, {b1})
LossFragments == Sizes({n1}, LossPackets)
LossCreated == [p \in LossPackets |-> 1]
=============================================================================
