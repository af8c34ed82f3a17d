---------------------------- MODULE GroupContent ----------------------------
(***************************************************************************)
(* What a member's node does with the content of a group: which objects it *)
(* shows, holds back or refuses, what it still sends of its own, and the   *)
(* bytes it protects meanwhile (packages/groups/src/access.ts and          *)
(* ledger.ts; group-content.ts, group-send.ts, group-events.ts,            *)
(* group-outbox.ts and group-confirmations.ts of apps/node/src, driven by  *)
(* node.ts).                                                               *)
(*                                                                         *)
(* The group's chain of epochs is one the creator signed; what this node   *)
(* knows of it, "auth", moves as GroupRegistry lets it.  Admissions, holds,*)
(* stops and the private document are in one database, where a transaction *)
(* is atomic; the content store is beside it, so an operation over both    *)
(* takes several steps, between which the process may die.  Objects do not *)
(* expire here (modules Outbox and ContentStore do that).                  *)
(***************************************************************************)
EXTENDS Naturals, Sequences, FiniteSets, SequencesExt

CONSTANTS
    Me,
    Chains,         \* chains of epochs: sequences of [members, closed]
    Objects,        \* objects, authored by members of the group
    Kind,           \* message, edit, delete or delivery
    Author,
    Epoch,          \* number of the epoch an object is published in
    Target,         \* what an edit, a deletion or a confirmation is about
    Rank,           \* order of events: time of creation, then identifier
    MaxHistory,     \* GROUP_LEDGER_LIMITS.accepted, 4096 in the code
    MaxHeld,        \* GROUP_LEDGER_LIMITS.held, 128 in the code
    MaxOutbox,      \* OUTBOX_LIMITS.total, 256 in the code
    MayFill,        \* whether the database may refuse ordinary data
    None

ASSUME ContentAssumption ==
    /\ \A o \in Objects :
         /\ Epoch[o] \in Nat \ {0} /\ Rank[o] \in Nat
         /\ Kind[o] \in {"message", "edit", "delete", "delivery"}
         /\ Kind[o] # "message" => Target[o] \in Objects /\ Kind[Target[o]] = "message"
         /\ Kind[o] \in {"delete", "delivery"} => Epoch[o] = Epoch[Target[o]]
         /\ Kind[o] \in {"edit", "delete"} => Author[o] = Author[Target[o]]
         /\ Kind[o] = "delivery" => Author[o] # Author[Target[o]]
    /\ MaxHistory \in Nat \ {0} /\ MaxHeld \in Nat /\ MaxOutbox \in Nat \ {0}
    /\ MayFill \subseteq BOOLEAN /\ FALSE \in MayFill

VARIABLES
    chain,      \* the epochs the creator signed
    auth,       \* what the registry of this node has verified of them
    history,    \* accepted objects, oldest admission first
    held,       \* objects held back: quarantined or awaiting proof
    stops,      \* own messages whose sending was stopped for good
    outbox,     \* [own messages -> phase, readers whose confirmation is awaited]
    mutations,  \* [messages -> the event that decides what is shown of them]
    stored, reserved, \* objects of the content store, and those it may not evict
    queued,     \* own messages in the router's queues
    process,    \* "up", or "down" after a crash
    op          \* the operation under way

db == <<auth, history, held, stops, outbox, mutations>>
vars == <<chain, db, stored, reserved, queued, process, op>>

Own == {o \in Objects : Kind[o] = "message" /\ Author[o] = Me}
Events == {o \in Objects : Kind[o] \in {"edit", "delete"}}

(***************************************************************************)
(* Authority.  A node knows the first "seen" epochs, the private states in *)
(* "states", the epoch that admitted it, and whether it left or saw a fork.*)
(***************************************************************************)
Members(n) == chain[n].members
Audience(o) == IF Kind[o] = "message" THEN Members(Epoch[o])
               ELSE IF Kind[o] = "edit" THEN Members(Epoch[o]) \cap Members(Epoch[Target[o]])
               ELSE Members(Epoch[Target[o]])
\* What the members of the group can have published, and this node can open.
Published(o) == Epoch[o] <= Len(chain) /\ ~chain[Epoch[o]].closed /\ {Me, Author[o]} \subseteq Audience(o)

\* The private state of a closed epoch is its predecessor's.
HasState(a, n) == (IF chain[n].closed THEN n - 1 ELSE n) \in a.states

\* GroupRegistry.view.
Status(a) ==
    IF a.forked THEN "forked"
    ELSE IF chain[a.seen].closed THEN "closed"
    ELSE IF a.left # 0 THEN "left"
    ELSE IF a.admitted = 0 THEN "removed"
    ELSE IF \A n \in a.admitted..a.seen : HasState(a, n) THEN "active" ELSE "awaiting-snapshot"

\* mutant: only the head is compared with the original epoch
Compatible_Head(a, n) == ~chain[a.seen].closed /\ Members(n) \subseteq Members(a.seen)
\* compatible: no later epoch closes the group or withdraws a member.
Compatible(a, n) ==
    \A m \in n + 1..a.seen : ~chain[m].closed /\ Members(m - 1) \subseteq Members(m)

\* GroupAccess.retry: whether a message of an epoch may still be sent, or may
\* never be again.
Terminal(a, o) == \/ Status(a) \in {"left", "closed", "forked", "removed"}
                  \/ Epoch[o] <= a.seen /\ ~Compatible(a, Epoch[o])
MayRetry(a, o) == ~Terminal(a, o) /\ Status(a) = "active" /\ Epoch[o] <= a.seen

\* GroupAccess.decide.  What was accepted stays accepted, and a confirmation or
\* a deletion needs only its target; anything else needs current authority.
Decide(a, h, o) ==
    LET accepted == o \in Range(h)
        contextual == Kind[o] # "message"
    IN  IF Epoch[o] > a.seen \/ ~HasState(a, Epoch[o]) THEN "awaiting-proof"
        ELSE IF contextual /\ (Target[o] \notin Range(h) \/ ~HasState(a, Epoch[Target[o]]))
             THEN "invalid"
        ELSE IF accepted \/ Kind[o] \in {"delete", "delivery"} THEN "accepted"
        ELSE IF Status(a) # "active" \/ ~Compatible(a, Epoch[o]) THEN "quarantine"
        ELSE "accepted"

(***************************************************************************)
(* The ledger                                                              *)
(***************************************************************************)
\* mutant: the oldest admission goes, shown or not
Retirable_Oldest(h, o, protected) == {1} \cap DOMAIN h
\* consider, of a first acceptance when the history is full: the oldest
\* admission that is neither protected nor the target goes.
Retirable(h, o, protected) ==
    {k \in DOMAIN h : h[k] \notin protected /\ h[k] # Target[o]}
Oldest(S) == CHOOSE k \in S : \A j \in S : k <= j

\* retainHeld: a new hold needs a place among the others and room in the database.
RetainHeld(o, full) == o \in held \/ (Cardinality(held) < MaxHeld /\ ~full)

\* consider: the history and the holds after an object, and what was decided.
Consider(o, protected, full) ==
    LET decision == Decide(auth, history, o)
        first == decision = "accepted" /\ o \notin Range(history)
        refused == first /\ (full \/ (Len(history) = MaxHistory
                                      /\ Retirable(history, o, protected) = {}))
        kept == IF Len(history) = MaxHistory
                THEN RemoveAt(history, Oldest(Retirable(history, o, protected)))
                ELSE history
        hold == /\ decision \in {"quarantine", "awaiting-proof"} \/ refused
                /\ RetainHeld(o, full)
    IN  [accepted |-> decision = "accepted" /\ ~refused,
         history |-> IF first /\ ~refused THEN Append(kept, o) ELSE history,
         held |-> IF hold THEN held \cup {o}
                  ELSE IF decision = "accepted" /\ ~refused THEN held \ {o} ELSE held]

\* mutant: an edit that is later than a deletion undoes it
Mutated_Undeletes(m, o) ==
    IF Kind[o] \notin {"edit", "delete"} \/ Rank[o] <= m[Target[o]].rank THEN m
    ELSE [m EXCEPT ![Target[o]] =
            [event |-> o, rank |-> Rank[o], deleted |-> Kind[o] = "delete"]]
\* What observeGroupObject makes of an accepted edit or deletion: the later
\* event decides, and a deletion stays whatever follows it.
Mutated(m, o) ==
    IF Kind[o] \notin {"edit", "delete"} THEN m
    ELSE LET before == m[Target[o]]
         IN  IF Rank[o] > before.rank \/ (Kind[o] = "delete" /\ ~before.deleted)
             THEN [m EXCEPT ![Target[o]] =
                     [event |-> o, rank |-> Rank[o],
                      deleted |-> Kind[o] = "delete" \/ before.deleted]]
             ELSE m

\* applyConfirmations.
Confirmed(box, o) ==
    IF Kind[o] = "delivery" /\ Target[o] \in DOMAIN box
    THEN [box EXCEPT ![Target[o]].waiting = @ \ {Author[o]}] ELSE box

(***************************************************************************)
(* Own messages                                                            *)
(***************************************************************************)
\* Unfinished sends, and those that reconcileRetry stops for good.
Unfinished(box) == {o \in DOMAIN box : box[o].waiting # {}}
reconcileRetry(a, box) == {o \in Unfinished(box) : Terminal(a, o)}
\* retireStops: a stop is kept as long as the outbox has the message.
retireStops(st, box) == st \cap DOMAIN box

\* reconcileGroupOutbox: an unfinished message that may never be sent again gets
\* a stop, in the transaction that found out.
Reconciled(a, box, old) == old \cup reconcileRetry(a, box)

\* seedAllowed and groupEventSeeds: own objects that may be on the wire.
Seeds(a, h, box, st) ==
    {o \in Range(h) : /\ Author[o] = Me /\ MayRetry(a, o)
                      /\ Kind[o] = "message" => o \in DOMAIN box \ st
                      /\ Decide(a, h, o) = "accepted"}
\* cancelGroupPackets: confirmations and deletions are not withdrawn.
Free(o) == Kind[o] \in {"delete", "delivery"}

\* groupOutboxReservations, and the holds: what the content store must keep.
Wanted(box, st, hd) ==
    hd \cup {o \in Unfinished(box) \ st : box[o].phase # "unavailable"}

(***************************************************************************)
(* Steps                                                                   *)
(***************************************************************************)
Ready == process = "up" /\ op = None

\* reconcileGroupSends: packets that may no longer be sent leave the queues.
reconcileGroupSends(a, h, box, st) ==
    queued' = {o \in queued : o \in Seeds(a, h, box, st) \/ Free(o)}
\* restoreGroupHolds, after what the database says changed.
restoreGroupHolds(a, h, hd, box, st) ==
    /\ reserved' = Wanted(box, st, hd) \cap stored
    /\ reconcileGroupSends(a, h, box, st)

\* executeGroupCommand: a change of authority and the stops it calls for are one
\* transaction; groupCommand then restores the holds.
Authority(a) ==
    LET st == Reconciled(a, outbox, stops)
    IN  /\ Ready /\ a # auth
        /\ auth' = a /\ stops' = st
        /\ restoreGroupHolds(a, history, held, outbox, st)
        /\ UNCHANGED <<chain, history, held, outbox, mutations, stored, process, op>>

adopt == /\ auth.seen < Len(chain) /\ ~auth.forked
         /\ Authority([auth EXCEPT !.seen = @ + 1,
                         !.admitted = IF Me \in Members(auth.seen + 1) THEN @ ELSE 0])
learnState(n) == /\ auth.admitted # 0 /\ ~auth.forked /\ Me \in Members(n) /\ ~chain[n].closed
                 /\ Authority([auth EXCEPT !.states = @ \cup {n}])
leave == Authority([auth EXCEPT !.left = auth.seen, !.admitted = 0])
\* A consent given after the member was out, and the state of the epoch that has it.
rejoin(n) == /\ auth.admitted = 0 /\ ~auth.forked /\ ~chain[n].closed /\ n > auth.left + 1
             /\ Me \notin Members(n - 1) /\ \A m \in n..auth.seen : Me \in Members(m)
             /\ Authority([auth EXCEPT !.states = @ \cup {n}, !.admitted = n, !.left = 0])
seeFork == ~auth.forked /\ Authority([auth EXCEPT !.forked = TRUE])

\* receive: objects arrive from the network, in any order, and again after they
\* were evicted; which objects a put evicts is ContentStore's choice.
receive(o) ==
    /\ Ready /\ o \notin stored /\ Author[o] # Me /\ Published(o)
    /\ stored' = stored \cup {o}
    /\ UNCHANGED <<chain, db, reserved, queued, process, op>>
evict(o) ==
    /\ op = None /\ o \in stored \ reserved
    /\ stored' = stored \ {o}
    /\ UNCHANGED <<chain, db, reserved, queued, process, op>>

\* What observeGroupObject is about to commit.
Observation(o, c) ==
    [kind |-> "observe", object |-> o, history |-> c.history, held |-> c.held,
     mutations |-> IF c.accepted THEN Mutated(mutations, o) ELSE mutations,
     outbox |-> IF c.accepted THEN Confirmed(outbox, o) ELSE outbox]

\* mutant: the bytes of a new hold are reserved after the commit only
Protect_Later(next) == reserved' = reserved
\* Protection is added before the transaction commits.
Protect(next) == reserved' = reserved \cup (Wanted(next.outbox, stops, next.held) \cap stored)

\* inspectGroupObjects: a decision that admits, holds and retires nothing is settled.
Stable(next) == next.history = history /\ next.held = held
\* inspectGroups: the stored objects whose decision is not.
inspectGroups(o, next) == o \in stored /\ ~Stable(next)

\* objects: what is not settled is observed; the stored objects and those of the
\* outbox are protected from retirement.
observe(o, full) ==
    LET next == Observation(o, Consider(o, stored \cup DOMAIN outbox, full))
    IN  /\ Ready /\ inspectGroups(o, next)
        /\ op' = next /\ Protect(next)
        /\ UNCHANGED <<chain, db, stored, queued, process>>
\* ... the transaction, or its failure, after which the database is read again ...
observeCommit ==
    /\ process = "up" /\ op # None /\ op.kind = "observe"
    /\ \/ /\ history' = op.history /\ held' = op.held
          /\ mutations' = op.mutations /\ outbox' = op.outbox
          /\ op' = [kind |-> "release", object |-> op.object]
          /\ UNCHANGED <<reserved, queued>>
       \/ /\ op' = None /\ restoreGroupHolds(auth, history, held, outbox, stops)
          /\ UNCHANGED <<history, held, mutations, outbox>>
    /\ UNCHANGED <<chain, auth, stops, stored, process>>
\* ... and what needs no protection any more is released.  An event of one's own
\* goes out now.
release ==
    /\ process = "up" /\ op # None /\ op.kind = "release"
    /\ reserved' = Wanted(outbox, stops, held) \cap stored
    /\ queued' = IF Author[op.object] = Me /\ (op.object \in Seeds(auth, history, outbox, stops)
                                               \/ Free(op.object))
                 THEN queued \cup {op.object} ELSE queued
    /\ op' = None /\ UNCHANGED <<chain, db, stored, process>>

\* commitGroupSendIntent: the admission and the intent commit before the content
\* store or the network is touched.  A finished entry makes room for a new one.
send(o, full) ==
    LET st == Reconciled(auth, outbox, stops)
        spare == {x \in DOMAIN outbox : x \in st \/ outbox[x].waiting = {}
                                                \/ outbox[x].phase = "unavailable"}
        room == Cardinality(DOMAIN outbox) < MaxOutbox
        box(gone) == [x \in (DOMAIN outbox \ gone) \cup {o} |->
                        IF x = o THEN [phase |-> "preparing", waiting |-> Audience(o) \ {Me}]
                                 ELSE outbox[x]]
    IN  /\ Ready /\ o \in Own /\ o \notin DOMAIN outbox /\ o \notin Range(history) /\ Published(o)
        /\ Status(auth) = "active" /\ auth.seen = Epoch[o] /\ Audience(o) # {Me}
        /\ \E gone \in (IF room THEN {{}} ELSE {{x} : x \in spare}) :
             LET c == Consider(o, stored \cup DOMAIN box(gone), full)
             IN  /\ c.accepted
                 /\ history' = c.history /\ held' = c.held
                 /\ outbox' = box(gone) /\ stops' = retireStops(st, box(gone))
        /\ op' = [kind |-> "put", object |-> o]
        /\ UNCHANGED <<chain, auth, mutations, stored, reserved, queued, process>>

\* What both demand: the object is about a message that is admitted and whose
\* bytes are stored, and is itself admitted before anything is stored or sent.
About(o, full) ==
    LET c == Consider(o, stored, full)
    IN  /\ Ready /\ Author[o] = Me /\ Published(o)
        /\ o \notin Range(history) /\ Target[o] \in Range(history) /\ Target[o] \in stored
        /\ c.accepted /\ history' = c.history /\ held' = c.held
        /\ op' = [kind |-> "put", object |-> o]
        /\ UNCHANGED <<chain, auth, stops, outbox, mutations, stored, reserved, queued, process>>

\* commitGroupEvent: an edit needs the current epoch, a deletion does not.
commitGroupEvent(o, full) ==
    /\ o \in Events /\ About(o, full)
    /\ Kind[o] = "edit" => Status(auth) = "active" /\ auth.seen = Epoch[o]
\* commitGroupConfirmation.
commitGroupConfirmation(o, full) == Kind[o] = "delivery" /\ About(o, full)

\* The signed bytes are stored after the commit: a message is reserved and then
\* ready, a confirmation goes out, and an edit or deletion of one's own is
\* observed like another's.
putReserved ==
    LET o == op.object
        next == Observation(o, Consider(o, stored \cup {o}, FALSE))
    IN  /\ process = "up" /\ op # None /\ op.kind = "put"
        /\ stored' = stored \cup {o}
        /\ CASE o \in Own -> /\ reserved' = reserved \cup {o} /\ op' = None
                             /\ outbox' = [outbox EXCEPT ![o].phase = "ready"]
                             /\ UNCHANGED queued
             [] o \in Events -> op' = next /\ Protect(next) /\ UNCHANGED <<outbox, queued>>
             [] OTHER -> op' = None /\ queued' = queued \cup {o} /\ UNCHANGED <<reserved, outbox>>
        /\ UNCHANGED <<chain, auth, history, held, stops, mutations, process>>
\* The content store refuses: the intent stays, without its bytes.
putFails ==
    LET o == op.object
        box == IF o \in Own THEN [outbox EXCEPT ![o].phase = "unavailable"] ELSE outbox
    IN  /\ process = "up" /\ op # None /\ op.kind = "put"
        /\ outbox' = box /\ op' = None /\ restoreGroupHolds(auth, history, held, box, stops)
        /\ UNCHANGED <<chain, auth, history, held, stops, mutations, stored, process>>

\* reconcileOutbox: what became of an intent whose bytes were being stored.
settle(o) ==
    /\ Ready /\ o \in DOMAIN outbox \ stops /\ outbox[o].waiting # {}
    /\ outbox[o].phase = "preparing" \/ (outbox[o].phase = "ready" /\ o \notin stored)
    /\ outbox' = [outbox EXCEPT ![o].phase = IF o \in stored THEN "ready" ELSE "unavailable"]
    /\ reserved' = reserved \cup ({o} \cap stored)
    /\ UNCHANGED <<chain, auth, history, held, stops, mutations, stored, queued, process, op>>

\* flushOutbox, and receive of a request (maySeed): the authority is read again
\* before anything is queued.
flush(o) ==
    /\ Ready /\ o \in stored \ queued /\ Author[o] = Me
    /\ o \in Seeds(auth, history, outbox, stops)
    /\ o \in Own => outbox[o].phase = "ready"
    /\ queued' = queued \cup {o}
    /\ UNCHANGED <<chain, db, stored, reserved, process, op>>

crash ==
    /\ process = "up" /\ process' = "down" /\ op' = None /\ queued' = {}
    /\ UNCHANGED <<chain, db, stored, reserved>>
\* unlock.
restart ==
    /\ process = "down" /\ process' = "up"
    /\ stops' = Reconciled(auth, outbox, stops)
    /\ restoreGroupHolds(auth, history, held, outbox, stops')
    /\ UNCHANGED <<chain, auth, history, held, outbox, mutations, stored, op>>

Init ==
    /\ chain \in Chains
    /\ auth = [seen |-> 1, states |-> {1}, admitted |-> 1, left |-> 0, forked |-> FALSE]
    /\ history = <<>> /\ held = {} /\ stops = {} /\ outbox = [o \in {} |-> None]
    /\ mutations = [o \in Objects |-> [event |-> None, rank |-> 0, deleted |-> FALSE]]
    /\ stored = {} /\ reserved = {} /\ queued = {} /\ process = "up" /\ op = None

Next ==
    \/ adopt \/ leave \/ seeFork
    \/ \E n \in 1..auth.seen : learnState(n)
    \/ \E n \in 2..auth.seen : rejoin(n)
    \/ \E o \in Objects : receive(o) \/ evict(o) \/ settle(o) \/ flush(o)
    \/ \E o \in Objects, full \in MayFill : observe(o, full) \/ send(o, full)
                                          \/ commitGroupEvent(o, full) \/ commitGroupConfirmation(o, full)
    \/ observeCommit \/ release \/ putReserved \/ putFails
    \/ crash \/ restart
Spec == Init /\ [][Next]_vars

(***************************************************************************)
(* Properties                                                              *)
(***************************************************************************)
\* A message that was not accepted before the node learnt that a reader had been
\* withdrawn is never accepted later, whether or not the reader came back.
LateIsNeverShown ==
    [][\A o \in Objects : Kind[o] = "message" /\ o \in Range(history') \ Range(history)
          => \A n \in Epoch[o]..auth.seen : Members(Epoch[o]) \subseteq Members(n)]_vars

\* A message that was shown is shown for as long as its bytes are here, whatever
\* becomes of the group and however full the history is.
ShownStaysShown ==
    [][\A o \in Objects :
         Kind[o] = "message" /\ Decide(auth, history, o) = "accepted" /\ o \in Range(history)
            /\ o \in stored
         => Decide(auth', history', o) = "accepted"]_vars

\* The bytes of what is held back, and of own messages still to be delivered,
\* cannot be evicted, at any step of an operation and after any crash.
HeldIsReserved == Wanted(outbox, stops, held) \cap stored \subseteq reserved

\* What is shown of a message does not depend on the order in which the edits and
\* deletions its author sent arrived, nor on what was admitted, retired or held
\* meanwhile: deleted if any of them was a deletion, else the last edit.
Applied(o) == mutations[Target[o]].deleted \/
              (Kind[o] = "edit" /\ Rank[o] <= mutations[Target[o]].rank)
EditsConverge == \A o \in Events \cap Range(history) : Author[o] # Me => Applied(o)

\* An edit or deletion that was admitted, one's own included, has been applied
\* when the node is at rest.
AcceptedIsApplied ==
    op = None => \A o \in Events \cap Range(history) \cap stored : Applied(o)
=============================================================================
