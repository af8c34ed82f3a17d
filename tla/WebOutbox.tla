----------------------------- MODULE WebOutbox ------------------------------
(***************************************************************************)
(* What the application of a browser keeps in IndexedDB (the outbox of     *)
(* browser/src/application.ts and the bundles, reservations and quota of   *)
(* browser/src/profile.ts): the operations of one transaction on the       *)
(* committed state, and what must hold of that state.  WebApp has the      *)
(* activities that carry them out.                                         *)
(***************************************************************************)
EXTENDS Naturals, Sequences, FiniteSets, FiniteSetsExt

CONSTANTS
    Ops,           \* operation identifiers; one stands for its message too
    Readers,       \* recipients of every message sent
    Foreign,       \* messages of other people
    None,
    Quotas,        \* what the settings may ask for, in bundles
    DefaultQuota,  \* MAX_BYTES, the quota of a profile just connected
    MaxPending,    \* OUTBOX_LIMITS.pending
    MaxTotal       \* OUTBOX_LIMITS.total

VARIABLES
    quota,         \* profile.quota, in memory
    db,            \* what IndexedDB holds
    expired        \* messages past their expiry

Acks == Ops \X Readers
Reply(m) == <<"delivery", m>>
Replies == {Reply(m) : m \in Foreign}
Bundles == Ops \cup Foreign \cup Acks \cup Replies
Entry == [phase : {"ready", "unavailable"}, confirmed : SUBSET Readers]

\* The absence of a record is no record.
ASSUME WebOutboxAssumption == None \notin Entry

\* What decodeState and parse take for a private state; "bare" is one that
\* setup left without the application's value.
State == [profile : {"none", "bare", "ready"},
          outbox : [Ops -> Entry \cup {None}], held : SUBSET Bundles,
          reserved : SUBSET Ops, receipts : SUBSET Replies,
          quota : Quotas \cup {DefaultQuota}]

-----------------------------------------------------------------------------
IsPending(outbox, o) ==
    /\ outbox[o] # None
    /\ outbox[o].phase # "unavailable"
    /\ o \notin expired
    /\ outbox[o].confirmed # Readers

PendingOf(outbox) == {o \in Ops : IsPending(outbox, o)}
PresentOf(outbox) == {o \in Ops : outbox[o] # None}

\* The outboxes admitOutbox may return: records that are over make room.
AdmitOutbox(outbox, o) ==
    LET over == PresentOf(outbox) \ PendingOf(outbox)
        excess == Max({0, Cardinality(PresentOf(outbox)) + 1 - MaxTotal})
        entry == [phase |-> "ready", confirmed |-> {}]
    IN  IF Cardinality(PendingOf(outbox)) >= MaxPending THEN {}
        ELSE {[x \in Ops |-> CASE x = o -> entry
                               [] x \in drop -> None
                               [] OTHER -> outbox[x]] : drop \in kSubset(excess, over)}

ApplyConfirmation(outbox, ack) ==
    IF outbox[ack[1]] = None THEN outbox
    ELSE [outbox EXCEPT ![ack[1]].confirmed = @ \cup {ack[2]}]

\* Records given up; what was confirmed of them stays.
Unavailable(outbox, ops) ==
    [o \in Ops |-> IF o \in ops /\ outbox[o] # None
                   THEN [outbox[o] EXCEPT !.phase = "unavailable"] ELSE outbox[o]]

\* MUTANT: storing a bundle again sets its reservation anew.
Kept_Anew(d, id, reserve) == IF reserve THEN {id} ELSE {}

\* The reservation a stored bundle has: asked for now, or had before.
Kept(d, id, reserve) ==
    IF reserve \/ id \in d.reserved \ expired THEN {id} ELSE {}

\* putBundle: what has expired goes, then what is not reserved until it fits.
\* No element: the space is reserved and the bundle is refused.
PutBundle(d, id, reserve) ==
    LET others == (d.held \ expired) \ {id}
        excess == Max({0, Cardinality(others) + 1 - quota})
    IN  {[d EXCEPT !.held = (others \ drop) \cup {id},
                   !.reserved = (@ \cap (others \ drop)) \cup Kept(d, id, reserve)] :
             drop \in kSubset(excess, others \ d.reserved)}

\* changeQuota: the states that fit q; none when reservations are in the way.
Shrunk(d, q) ==
    LET excess == Max({0, Cardinality(d.held) - q})
        free == d.held \ (d.reserved \ expired)
    IN  {[d EXCEPT !.held = @ \ drop, !.reserved = @ \ drop] :
             drop \in kSubset(excess, free)}

\* updateValue: the outbox is replaced and what it needs no longer is released.
Update(d, outbox, release) ==
    [d EXCEPT !.outbox = outbox, !.reserved = @ \ release]

\* parse, of the application's value: an outbox that validateOutbox accepts.
Valid(d) ==
    /\ Cardinality(PresentOf(d.outbox)) <= MaxTotal
    /\ Cardinality(PendingOf(d.outbox)) <= MaxPending

-----------------------------------------------------------------------------
(* Properties.                                                              *)

\* A message the outbox still has to deliver is in the store and reserved, so
\* nothing evicts it, whatever else was stored, released from a stale reading
\* of the outbox, aborted or interrupted by lock().
PendingIsHeld ==
    \A o \in PendingOf(db.outbox) : o \in db.held /\ o \in db.reserved

\* What is reserved fits the saved quota, so that open() can always apply it:
\* a profile that does not fit could never be unlocked again.
UnlockFits ==
    Cardinality(db.reserved \ expired) <= db.quota

=============================================================================
