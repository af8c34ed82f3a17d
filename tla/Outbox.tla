------------------------------- MODULE Outbox -------------------------------
(***************************************************************************)
(* Durable sends of a node: the journal of messages in the private profile *)
(* (packages/content/src/outbox.ts), the pins it puts on the content store *)
(* and the pipeline that composes the two with the router                  *)
(* (apps/node/src/node.ts: persistPrivate, send, reconcileOutbox,          *)
(* flushOutbox and the pin of localAction).                                *)
(*                                                                         *)
(* Node runs each call to its end, so the calls do not interleave; but the *)
(* database, the object file and the index file are written one after the  *)
(* other.  Each write is a step, at which it can fail and between which    *)
(* the process can die.  Module ContentStore shows what the store keeps;   *)
(* here it is reduced to files, the index in memory and its pins on disk.  *)
(***************************************************************************)
EXTENDS Integers, FiniteSets

CONSTANTS
    Ops,            \* operation identifiers of clients
    Ids,            \* addresses of signed messages
    Readers,        \* recipients of every message
    MaxPending,     \* OUTBOX_LIMITS.pending, 128 in the code
    MaxTotal,       \* OUTBOX_LIMITS.total, 256 in the code
    MaxAttempts,    \* bound of the model: attempts to send one message
    Failing,        \* writes that may fail: journal, object, index
    Fragile, Mortal,    \* messages whose object may go bad, or that may expire
    MayCrash, MayLock,  \* which of these a run explores
    None

ASSUME OutboxAssumption ==
    /\ IsFiniteSet(Ops) /\ IsFiniteSet(Ids) /\ IsFiniteSet(Readers) /\ Readers # {}
    /\ MaxPending \in Nat \ {0} /\ MaxTotal \in Nat \ {0} /\ MaxAttempts \in Nat
    /\ Failing \subseteq {"journal", "object", "index"}
    /\ {MayCrash, MayLock} \subseteq BOOLEAN

VARIABLES
    process,    \* "unlocked", "locked" or "down"
    journal,    \* the outbox in the database
    memory,     \* privateState.outbox
    task,       \* what the call under way still has to write
    files,      \* messages whose object file verifies
    held,       \* messages in the index of the store
    pinned,     \* of these, the pinned ones
    diskPins,   \* the pins in index.json
    expired,    \* messages past their signed expiry
    arrived,    \* confirmations in the content store
    used,       \* messages ever signed
    broadcasts  \* times each message was handed to the router

store == <<files, held, pinned, diskPins>>
world == <<expired, arrived, used, broadcasts>>
vars == <<process, journal, memory, task, store, world>>

\* OutboxEntry.  A confirmation is read only if it is received.
Entry == [id : Ids, phase : {"preparing", "ready", "unavailable"},
          attempts : 0..MaxAttempts, manualPin : BOOLEAN,
          received : SUBSET Readers, read : SUBSET Readers]
Records == [Ops -> Entry \cup {None}]
Nothing == [op \in Ops |-> None]
ASSUME NoneAssumption == None \notin Entry

\* Changes of pins still to make, as pairs of a message and its new pin.
Idle == [step |-> "idle"]
Task == {Idle}
    \cup [step : {"object", "index", "ready", "broadcast"}, op : Ops]
    \cup [step : {"pins", "user"}, pins : SUBSET (Ids \X BOOLEAN)]

TypeOK ==
    /\ process \in {"unlocked", "locked", "down"}
    /\ journal \in Records /\ memory \in Records /\ task \in Task
    /\ files \subseteq Ids /\ held \subseteq Ids /\ diskPins \subseteq Ids
    /\ pinned \subseteq held
    /\ expired \subseteq Ids /\ used \subseteq Ids
    /\ arrived \subseteq Ids \X Readers \X {"delivery", "receipt"}
    /\ broadcasts \in [Ids -> 0..MaxAttempts]

Init ==
    /\ process = "locked" /\ journal = Nothing /\ memory = Nothing /\ task = Idle
    /\ files = {} /\ held = {} /\ pinned = {} /\ diskPins = {}
    /\ expired = {} /\ arrived = {} /\ used = {}
    /\ broadcasts = [id \in Ids |-> 0]

(***************************************************************************)
(* The journal                                                             *)
(***************************************************************************)
Kept(records) == {op \in Ops : records[op] # None}
isPending(e) ==
    e.phase # "unavailable" /\ e.id \notin expired /\ e.received # Readers
Pending(records) == {op \in Kept(records) : isPending(records[op])}

\* persistPrivate: memory follows the database.  When the write throws it may
\* have committed: the database is opened again and what it holds is taken, or
\* the identity is locked; the call ends there.
Adopt(next, then) ==
    /\ journal' = next /\ memory' = next /\ task' = then
    /\ UNCHANGED process
\* mutant: memory is left as it was
PersistFails_KeepsMemory(next) ==
    /\ "journal" \in Failing /\ journal' \in {journal, next}
    /\ task' = Idle /\ UNCHANGED <<memory, process>>
PersistFails(next) ==
    /\ "journal" \in Failing /\ journal' \in {journal, next}
    /\ task' = Idle
    /\ \/ memory' = journal' /\ UNCHANGED process
       \/ memory' = Nothing /\ process' = "locked"
persistPrivate(next, then) == Adopt(next, then) \/ PersistFails(next)

\* admitOutbox: records that are not pending make room, the oldest first; ages
\* are left open.
Rooms(records) ==
    LET extra == Cardinality(Kept(records)) - MaxTotal + 1
    IN  {D \in SUBSET (Kept(records) \ Pending(records)) :
            Cardinality(D) = IF extra > 0 THEN extra ELSE 0}
admitOutbox(op, entry, D) ==
    [o \in Ops |-> IF o = op THEN entry ELSE IF o \in D THEN None ELSE memory[o]]

(***************************************************************************)
(* Reconciliation with the content store                                   *)
(***************************************************************************)
Verified(id) == id \in files \cap held /\ id \notin expired
Running == process = "unlocked" /\ task = Idle

\* applyConfirmations: those of a message that is there to be confirmed.
Confirming(id, kinds) ==
    {r \in Readers : Verified(id) /\ \E k \in kinds : <<id, r, k>> \in arrived}
\* mutant: confirmations are counted again from the content store
Confirmed_Recounted(e) ==
    [e EXCEPT !.received = Confirming(e.id, {"delivery", "receipt"}),
              !.read = Confirming(e.id, {"receipt"})]
\* mutant: a message that was read does not count as received
Confirmed_Apart(e) ==
    [e EXCEPT !.received = @ \cup Confirming(e.id, {"delivery"}),
              !.read = @ \cup Confirming(e.id, {"receipt"})]
Confirmed(e) ==
    [e EXCEPT !.received = @ \cup Confirming(e.id, {"delivery", "receipt"}),
              !.read = @ \cup Confirming(e.id, {"receipt"})]
\* A pending message that is not there any more is given up.
Checked(e) ==
    IF ~isPending(e) THEN e
    ELSE [e EXCEPT !.phase = IF Verified(e.id) THEN "ready" ELSE "unavailable"]
Reconciled ==
    [op \in Ops |-> IF memory[op] = None THEN None ELSE Checked(Confirmed(memory[op]))]
\* mutant: only a confirmed send releases its pin
PinChanges_ConfirmedOnly ==
    LET after == Reconciled
        P == Pending(after)
    IN  {<<after[op].id, TRUE>> : op \in {o \in P : after[o].id \notin pinned}}
        \cup {<<after[op].id, FALSE>> : op \in {o \in Kept(after) :
                 /\ after[o].received = Readers
                 /\ ~after[o].manualPin /\ after[o].id \in pinned}}
\* What is pending is pinned, and what is not is released unless the user
\* pinned it.
PinChanges ==
    LET after == Reconciled
        P == Pending(after)
    IN  {<<after[op].id, TRUE>> : op \in {o \in P : after[o].id \notin pinned}}
        \cup {<<after[op].id, FALSE>> : op \in {o \in Kept(after) \ P :
                 ~after[o].manualPin /\ after[o].id \in pinned}}
Then == IF PinChanges = {} THEN Idle ELSE [step |-> "pins", pins |-> PinChanges]

\* Nothing to do: reconcileOutbox would change neither the records nor a pin.
Settled == Reconciled = memory /\ PinChanges = {}

reconcileOutbox ==
    /\ Running /\ ~Settled
    /\ IF Reconciled = memory
       THEN task' = Then /\ UNCHANGED <<process, journal, memory>>
       ELSE persistPrivate(Reconciled, Then)
    /\ UNCHANGED <<store, world>>

(***************************************************************************)
(* Sending                                                                 *)
(***************************************************************************)
\* send of an operation without a record; it starts by reconciling.
send(op, id) ==
    /\ Running /\ Settled /\ memory[op] = None /\ id \notin used
    /\ Cardinality(Pending(memory)) < MaxPending
    /\ \E D \in Rooms(memory) :
          LET entry == [id |-> id, phase |-> "preparing", attempts |-> 0,
                        manualPin |-> FALSE, received |-> {}, read |-> {}]
          IN  persistPrivate(admitOutbox(op, entry, D), [step |-> "object", op |-> op])
    /\ used' = used \cup {id}
    /\ UNCHANGED <<store, expired, arrived, broadcasts>>

At(step) == process = "unlocked" /\ task # Idle /\ task.step = step
Message == memory[task.op].id

\* store.put: it is refused, or writes the object file,
PutRefused ==
    /\ At("object") /\ task' = Idle
    /\ UNCHANGED <<process, journal, memory, store, world>>
WriteObject ==
    /\ At("object") /\ files' = files \cup {Message}
    /\ task' \in {[task EXCEPT !.step = "index"]}
                 \cup IF "object" \in Failing THEN {Idle} ELSE {}
    /\ UNCHANGED <<process, journal, memory, held, pinned, diskPins, world>>
\* and then the index with the pin.
WriteIndex ==
    /\ At("index")
    /\ held' = held \cup {Message} /\ pinned' = pinned \cup {Message}
    /\ \/ diskPins' = pinned' /\ task' = [task EXCEPT !.step = "ready"]
       \/ "index" \in Failing /\ diskPins' \in {diskPins, pinned'} /\ task' = Idle
    /\ UNCHANGED <<process, journal, memory, files, world>>
MakeReady ==
    /\ At("ready")
    /\ persistPrivate([memory EXCEPT ![task.op].phase = "ready"], Idle)
    /\ UNCHANGED <<store, world>>

\* mutants: the broadcast comes first, and the count has no bound
Attempt_Unjournalled(op) ==
    /\ Running /\ op \in Pending(memory) /\ memory[op].phase = "ready"
    /\ Verified(memory[op].id) /\ broadcasts[memory[op].id] < MaxAttempts
    /\ task' = [step |-> "broadcast", op |-> op]
    /\ UNCHANGED <<process, journal, memory, store, world>>
\* flushOutbox: an attempt is in the database before the message is broadcast.
\* It is called by send, by retryOutbox and by the timer; when it is due, and
\* which of the due ones goes first, is left open.
Attempt(op) ==
    /\ Running /\ op \in Pending(memory) /\ memory[op].phase = "ready"
    /\ Verified(memory[op].id) /\ memory[op].attempts < MaxAttempts
    /\ persistPrivate([memory EXCEPT ![op].attempts = @ + 1],
                      [step |-> "broadcast", op |-> op])
    /\ UNCHANGED <<store, world>>
Broadcast ==
    /\ At("broadcast") /\ task' = Idle
    /\ broadcasts' = [broadcasts EXCEPT ![Message] = @ + 1]
    /\ UNCHANGED <<process, journal, memory, store, expired, arrived, used>>

(***************************************************************************)
(* Pins                                                                    *)
(***************************************************************************)
\* localAction, pin: the content of a pending send cannot be released.
localAction(op, value) ==
    /\ Running /\ memory[op] # None
    /\ value \/ ~isPending(memory[op])
    /\ persistPrivate([memory EXCEPT ![op].manualPin = value],
                      [step |-> "user", pins |-> {<<memory[op].id, value>>}])
    /\ UNCHANGED <<store, world>>

Rest(change) ==
    IF task.pins = {change} THEN Idle ELSE [task EXCEPT !.pins = @ \ {change}]
\* mutant: content that is released is removed
Pin_Removes ==
    /\ At("pins") \/ At("user")
    /\ \E change \in task.pins :
          LET gone == IF change[2] THEN {} ELSE {change[1]}
          IN  /\ Verified(change[1])
              /\ files' = files \ gone /\ held' = held \ gone
              /\ pinned' = (pinned \cup {change[1]}) \ gone
              /\ diskPins' = pinned' /\ task' = Rest(change)
    /\ UNCHANGED <<process, journal, memory, world>>
\* store.pin, once for each change.
Pin ==
    /\ At("pins") \/ At("user")
    /\ \E change \in task.pins :
          LET id == change[1]
          IN  /\ Verified(id)
              /\ pinned' = IF change[2] THEN pinned \cup {id} ELSE pinned \ {id}
              /\ diskPins' = pinned' /\ task' = Rest(change)
    /\ UNCHANGED <<process, journal, memory, files, held, world>>
\* store.pin throws: the content does not verify, or the index is not written.
\* reconcileOutbox removes the content it meant to release.
PinFails ==
    /\ At("pins") \/ At("user")
    /\ \E change \in task.pins :
          LET id == change[1]
              kept == IF Verified(id)
                      THEN IF change[2] THEN pinned \cup {id} ELSE pinned \ {id}
                      ELSE pinned
              removed == IF task.step = "pins" /\ ~change[2] THEN {id} ELSE {}
              written == (IF Verified(id) THEN {kept} ELSE {})
                         \cup (IF removed # {} THEN {pinned'} ELSE {})
          IN  /\ Verified(id) => "index" \in Failing
              /\ pinned' = kept \ removed
              /\ files' = files \ removed /\ held' = held \ removed
              /\ \/ removed # {} /\ diskPins' = pinned' /\ task' = Rest(change)
                 \/ /\ removed = {} \/ "index" \in Failing
                    /\ task' = Idle /\ diskPins' \in {diskPins} \cup written
    /\ UNCHANGED <<process, journal, memory, world>>

(***************************************************************************)
(* The environment                                                         *)
(***************************************************************************)
\* validateOutbox: what the database must hold to be taken into memory.  Nothing
\* checks it when the records are written.
Valid(records) ==
    /\ Cardinality(Kept(records)) <= MaxTotal
    /\ Cardinality(Pending(records)) <= MaxPending
    /\ \A op \in Kept(records) : records[op].read \subseteq records[op].received
    /\ \A o, p \in Kept(records) : o # p => records[o].id # records[p].id
unlock ==
    /\ Valid(journal)
    /\ process = "locked" /\ process' = "unlocked" /\ memory' = journal
    /\ UNCHANGED <<journal, task, store, world>>
lock ==
    /\ MayLock /\ Running /\ process' = "locked" /\ memory' = Nothing
    /\ UNCHANGED <<journal, task, store, world>>

\* A signed confirmation of a message that was sent comes from the mesh, also
\* while the identity is locked; it may be evicted like any other content.
Arrive(id, r, kind) ==
    /\ process # "down" /\ task = Idle
    /\ broadcasts[id] > 0 /\ id \notin expired
    /\ arrived' = arrived \cup {<<id, r, kind>>}
    /\ UNCHANGED <<process, journal, memory, task, store, expired, used, broadcasts>>
EvictConfirmation ==
    /\ process # "down" /\ task = Idle
    /\ \E event \in arrived : arrived' = arrived \ {event}
    /\ UNCHANGED <<process, journal, memory, task, store, expired, used, broadcasts>>

\* A put of other content evicts what is not protected, or has expired, and
\* writes the index.
Evict(id) ==
    /\ process # "down" /\ task = Idle
    /\ id \in held /\ id \notin pinned \ expired
    /\ files' = files \ {id} /\ held' = held \ {id}
    /\ pinned' = pinned \ {id} /\ diskPins' = pinned'
    /\ UNCHANGED <<process, journal, memory, task, world>>

Expire(id) ==
    /\ id \in (Mortal \cap used) \ expired /\ task = Idle
    /\ expired' = expired \cup {id}
    /\ UNCHANGED <<process, journal, memory, task, store, arrived, used, broadcasts>>
Corrupt(id) ==
    /\ id \in Fragile \cap files /\ task = Idle
    /\ files' = files \ {id}
    /\ UNCHANGED <<process, journal, memory, task, held, pinned, diskPins, world>>

Crash ==
    /\ MayCrash /\ process # "down"
    /\ process' = "down" /\ memory' = Nothing /\ task' = Idle
    /\ held' = {} /\ pinned' = {}
    /\ UNCHANGED <<journal, files, diskPins, world>>
\* The store takes back what verifies, with the pins of index.json.
Restart ==
    /\ process = "down" /\ process' = "locked"
    /\ files' = files \ expired /\ held' = files'
    /\ pinned' = diskPins \cap files' /\ diskPins' = pinned'
    /\ UNCHANGED <<journal, memory, task, world>>

Steps ==
    PutRefused \/ WriteObject \/ WriteIndex \/ MakeReady \/ Broadcast \/ Pin \/ PinFails
Next ==
    \/ \E op \in Ops : Attempt(op) \/ \E id \in Ids : send(op, id)
    \/ \E op \in Ops, value \in BOOLEAN : localAction(op, value)
    \/ reconcileOutbox \/ Steps \/ unlock \/ lock \/ EvictConfirmation \/ Crash \/ Restart
    \/ \E id \in Ids : Evict(id) \/ Expire(id) \/ Corrupt(id)
    \/ \E id \in Ids, r \in Readers, kind \in {"delivery", "receipt"} : Arrive(id, r, kind)

Spec == Init /\ [][Next]_vars

\* A call runs to its end, and between the calls, however many there are, the
\* 2.2 s timer gets its turn and reconciles.
FairSpec == Spec /\ SF_vars(reconcileOutbox) /\ WF_vars(Steps)

(***************************************************************************)
(* Properties                                                              *)
(***************************************************************************)

\* No message is given to the router unless the database already counts the
\* attempt, whatever fails or dies in between (flushOutbox: no unjournalled new
\* broadcast).
JournalFirst ==
    \A op \in Kept(journal) : broadcasts[journal[op].id] <= journal[op].attempts

\* The record of a send is not dropped while it is pending, is never given
\* another message, and what it says of attempts and confirmations never goes
\* back, through retries, failed writes, evictions of the confirmations and crashes
\* (admitOutbox, applyConfirmations, persistPrivate).
RecordsKept ==
    [][\A op \in Kept(journal) :
          /\ isPending(journal[op]) => journal'[op] # None
          /\ journal'[op] # None =>
                /\ journal'[op].id = journal[op].id
                /\ journal[op].attempts <= journal'[op].attempts
                /\ journal[op].received \subseteq journal'[op].received
                /\ journal[op].read \subseteq journal'[op].read
                /\ journal[op].phase # "preparing" => journal'[op].phase # "preparing"]_vars

\* The unlocked application decides on the records of the database, also after
\* a write of unknown outcome (persistPrivate adopts what was committed).
MemoryIsJournal == process = "unlocked" => memory = journal

\* The database can be opened again whatever was written: records are checked
\* only when an identity is unlocked (validateOutbox), and one that failed then
\* would lock its owner out for good.
Opens == Valid(journal)

\* What was accepted and is not confirmed yet is still in the store (send pins
\* the message before it is ready; reconcileOutbox pins it again).
AcceptedIsKept ==
    \A op \in Pending(journal) : journal[op].phase = "ready" =>
       process = "down" \/ journal[op].id \in held

\* The content of a send leaves the store only unpinned, expired or damaged
\* (reconcileOutbox, Evict).
PinnedIsKept ==
    [][\A id \in (files \cap held \cap pinned) \ expired : id \in files' \/ id \in held']_vars

\* A send that was interrupted is resolved: its message is ready, or given up,
\* while the identity stays unlocked (reconcileOutbox).
Resolves ==
    \A op \in Ops : (process = "unlocked" /\ memory[op] # None
                       /\ memory[op].phase = "preparing" /\ task = Idle)
       ~> (process # "unlocked" \/ memory[op] = None
             \/ memory[op].phase # "preparing" \/ ~isPending(memory[op]))

\* The pin of a send that is over is released, unless the user set it.
PinsReleased ==
    \A op \in Ops, id \in Ids :
       (process = "unlocked" /\ memory[op] # None /\ memory[op].id = id
          /\ ~isPending(memory[op]))
       ~> (id \notin pinned \/ process # "unlocked" \/ id \in expired
             \/ (memory[op] # None /\ memory[op].id = id /\ memory[op].manualPin))
=============================================================================
