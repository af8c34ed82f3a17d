----------------------------- MODULE Mutations ------------------------------
(***************************************************************************)
(* Edits, deletions and confirmations of ordinary messages, and what nodes *)
(* have on record of them (materializeMutations and reconcileOutbox of     *)
(* apps/node/src/node.ts, project of browser/src/application.ts).  The     *)
(* events themselves may leave the store; Messages has how they come.      *)
(***************************************************************************)
EXTENDS Naturals, Sequences

CONSTANTS
    Nodes,
    Messages,       \* messages: private content of kind message
    Edits, Deletes, Deliveries, Receipts,  \* events about messages
    Carriers,       \* group controls and notices a native node holds
    Target,         \* the message of each event
    By,             \* the author of each object
    Rank,           \* the order of edits and deletions by (created, identifier)
    Listed          \* every object, in the order a store lists them

VARIABLES
    mutations,      \* privateState.mutations: per message, the last event taken
    confirmed,      \* confirmations the author's records have
    told            \* messages whose deletion a node had at hand with the message

Mutating == Edits \cup Deletes
Confirmations == Deliveries \cup Receipts
Events == Mutating \cup Confirmations
Objects == Messages \cup Events \cup Carriers
Unchanged == [rank |-> 0, deleted |-> FALSE]

ASSUME MutationsAssumption ==
    /\ Target \in [Events -> Messages]
    /\ By \in [Objects -> Nodes]
    /\ Rank \in [Mutating -> Nat \ {0}]
    /\ Listed \in Seq(Objects)
    /\ \A o \in Objects : \E k \in 1..Len(Listed) : Listed[k] = o

\* The later event wins, and a deletion stays.
Applied(record, e) ==
    IF Rank[e] > record.rank \/ (e \in Deletes /\ ~record.deleted)
    THEN [rank |-> Rank[e], deleted |-> record.deleted \/ e \in Deletes]
    ELSE record

\* The records after one more object.
Updated(records, o) ==
    IF o \in Mutating THEN [records EXCEPT ![Target[o]] = Applied(@, o)] ELSE records

\* The records after the events among the accepted objects, as the store lists them.
Materialized(records, accepted) ==
    LET after[k \in 0..Len(Listed)] ==
            IF k = 0 THEN records
            ELSE IF Listed[k] \in accepted THEN Updated(after[k - 1], Listed[k])
            ELSE after[k - 1]
    IN  after[Len(Listed)]

\* The confirmations reconcileOutbox finds among the accepted objects.
Answered(n, accepted) ==
    {<<Target[c], By[c]>> : c \in {x \in accepted \cap Confirmations : By[Target[x]] = n}}

\* Deletions that are at hand together with what they delete.
Deletions(accepted) == {Target[d] : d \in accepted \cap Deletes}

Recorded(n, records, accepted) ==
    /\ mutations' = [mutations EXCEPT ![n] = records]
    /\ confirmed' = confirmed \cup Answered(n, accepted)
    /\ told' = [told EXCEPT ![n] = @ \cup Deletions(accepted)]

\* What a node takes from the objects it accepts, and from these and a last one.
Look(n, accepted) == Recorded(n, Materialized(mutations[n], accepted), accepted)

LookAt(n, accepted, o) ==
    Recorded(n, Updated(Materialized(mutations[n], accepted), o), accepted \cup {o})

LooksAway == UNCHANGED <<mutations, confirmed, told>>

-----------------------------------------------------------------------------
\* A deletion that reached a node while it held the message and could read both is
\* on record from then on, so that the message is never shown again as it was: not
\* after an older or a newer edit, not when the event or the message left the store
\* in between, and not after a restart (receive takes an event in before store.put,
\* whose eviction could remove what it needs).
DeletionsStick ==
    \A n \in Nodes : \A m \in told[n] : mutations[n][m].deleted
=============================================================================
