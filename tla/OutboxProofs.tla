---------------------------- MODULE OutboxProofs ----------------------------
(***************************************************************************)
(* Proofs about Outbox, for every set of operations, messages and readers, *)
(* every limit, and every choice of what may fail, crash, expire or be     *)
(* damaged.                                                                *)
(***************************************************************************)
EXTENDS Outbox, FiniteSetTheorems, TLAPS

\* Records of distinct messages that were signed, each with its broadcasts
\* counted.
Sound(records, U) ==
    /\ records \in Records
    /\ \A op \in Ops : records[op] # None =>
          /\ records[op].id \in U
          /\ broadcasts[records[op].id] <= records[op].attempts
    /\ \A o, q \in Ops :
          records[o] # None /\ records[q] # None /\ records[o].id = records[q].id => o = q

\* The call under way still has its record, and one attempt in hand if it is
\* about to broadcast.
Follows(t, records) ==
    /\ t.step \in {"object", "index", "ready", "broadcast"} => records[t.op] # None
    /\ t.step = "broadcast" => broadcasts[records[t.op].id] < records[t.op].attempts

\* The records and the call under way,
RecordsInv ==
    /\ process \in {"unlocked", "locked", "down"}
    /\ memory \in Records /\ task \in Task
    /\ used \subseteq Ids /\ broadcasts \in [Ids -> 0..MaxAttempts]
    /\ Sound(journal, used)
    /\ MemoryIsJournal
    /\ \A id \in Ids \ used : broadcasts[id] = 0
    /\ task # Idle => process = "unlocked"
    /\ Follows(task, memory)

\* the store,
StoreInv ==
    /\ files \subseteq Ids /\ held \subseteq Ids /\ diskPins \subseteq Ids
    /\ pinned \subseteq held /\ expired \subseteq Ids
    /\ arrived \subseteq Ids \X Readers \X {"delivery", "receipt"}

\* and the strengthening of TypeOK, MemoryIsJournal and JournalFirst.
IInv == RecordsInv /\ StoreInv

(***************************************************************************)
(* Facts about the operators                                               *)
(***************************************************************************)

\* A task that is not idle says what it does.
LEMMA TaskShape ==
    ASSUME NEW t \in Task
    PROVE  /\ t.step \in {"object", "index", "ready", "broadcast"} =>
                 t = [step |-> t.step, op |-> t.op] /\ t.op \in Ops
           /\ t.step \in {"pins", "user"} =>
                 /\ t = [step |-> t.step, pins |-> t.pins]
                 /\ t.pins \in SUBSET (Ids \X BOOLEAN)
           /\ t.step = "idle" => t = Idle
           /\ t # Idle => t.step # "idle"
  BY DEF Task, Idle

\* Reconciling one record keeps its message and its attempts; confirmations
\* are added and the phase only advances.
LEMMA Reconciling ==
    ASSUME NEW e \in Entry
    PROVE  /\ Checked(Confirmed(e)) \in Entry
           /\ Checked(Confirmed(e)).id = e.id
           /\ Checked(Confirmed(e)).attempts = e.attempts
           /\ e.received \subseteq Checked(Confirmed(e)).received
           /\ e.read \subseteq Checked(Confirmed(e)).read
           /\ e.phase # "preparing" => Checked(Confirmed(e)).phase # "preparing"
<1> DEFINE c == Confirmed(e)
<1>1. /\ c \in Entry /\ c.id = e.id /\ c.attempts = e.attempts /\ c.phase = e.phase
      /\ e.received \subseteq c.received /\ e.read \subseteq c.read
  BY DEF Confirmed, Confirming, Entry
<1> HIDE DEF c
<1>2. /\ Checked(c) \in Entry /\ Checked(c).id = c.id /\ Checked(c).attempts = c.attempts
      /\ Checked(c).received = c.received /\ Checked(c).read = c.read
      /\ Checked(c).phase \in {c.phase, "ready", "unavailable"}
  BY <1>1 DEF Checked, Entry
<1>3. /\ Checked(c) \in Entry /\ Checked(c).id = e.id /\ Checked(c).attempts = e.attempts
      /\ e.received \subseteq Checked(c).received /\ e.read \subseteq Checked(c).read
      /\ e.phase # "preparing" => Checked(c).phase # "preparing"
  BY <1>1, <1>2
<1> QED
  BY <1>3 DEF c

LEMMA ReconciledSound ==
    ASSUME RecordsInv, process = "unlocked"
    PROVE  Sound(Reconciled, used)
<1>1. memory = journal /\ Sound(memory, used)
  BY DEF RecordsInv, MemoryIsJournal
<1>2. \A op \in Ops : memory[op] # None => memory[op] \in Entry
  BY <1>1 DEF Sound, Records
<1>3. \A op \in Ops : Reconciled[op] =
         IF memory[op] = None THEN None ELSE Checked(Confirmed(memory[op]))
  BY DEF Reconciled
<1>4. Reconciled \in Records
  BY <1>2, Reconciling DEF Reconciled, Records
<1>5. \A op \in Ops : Reconciled[op] # None =>
         /\ memory[op] # None
         /\ Reconciled[op].id = memory[op].id
         /\ Reconciled[op].attempts = memory[op].attempts
  BY <1>2, <1>3, Reconciling
<1> QED
  BY <1>1, <1>4, <1>5 DEF Sound

LEMMA ThenTyped ==
    ASSUME RecordsInv, process = "unlocked"
    PROVE  Then \in Task /\ Then.step \in {"idle", "pins"}
<1>1. Reconciled \in Records
  BY ReconciledSound DEF Sound
<1>2. \A op \in Kept(Reconciled) : Reconciled[op].id \in Ids
  BY <1>1 DEF Kept, Records, Entry
<1>3. PinChanges \in SUBSET (Ids \X BOOLEAN)
  <2> DEFINE P == Pending(Reconciled)
             A == {<<Reconciled[op].id, TRUE>> :
                      op \in {o \in P : Reconciled[o].id \notin pinned}}
             B == {<<Reconciled[op].id, FALSE>> :
                      op \in {o \in Kept(Reconciled) \ P :
                         ~Reconciled[o].manualPin /\ Reconciled[o].id \in pinned}}
  <2>1. P \subseteq Kept(Reconciled)
    BY DEF Pending
  <2>2. A \subseteq Ids \X BOOLEAN
    <3> HIDE DEF P
    <3>1. \A c \in A : \E op \in P : c = <<Reconciled[op].id, TRUE>>
      OBVIOUS
    <3>2. \A id \in Ids : <<id, TRUE>> \in Ids \X BOOLEAN
      OBVIOUS
    <3> HIDE DEF A
    <3> QED
      BY <1>2, <2>1, <3>1, <3>2
  <2>3. B \subseteq Ids \X BOOLEAN
    <3> HIDE DEF P
    <3>1. \A c \in B : \E op \in Kept(Reconciled) : c = <<Reconciled[op].id, FALSE>>
      OBVIOUS
    <3>2. \A id \in Ids : <<id, FALSE>> \in Ids \X BOOLEAN
      OBVIOUS
    <3> HIDE DEF B
    <3> QED
      BY <1>2, <2>1, <3>1, <3>2
  <2>4. PinChanges = A \cup B
    BY DEF PinChanges
  <2> QED
    BY <2>2, <2>3, <2>4
<1> QED
  BY <1>3 DEF Then, Task, Idle

(***************************************************************************)
(* Steps                                                                   *)
(***************************************************************************)

\* A write of the records leaves the old ones or the new ones.
LEMMA PersistStep ==
    ASSUME RecordsInv, process = "unlocked", NEW next, NEW then \in Task,
           persistPrivate(next, then), Follows(then, next),
           used' \in SUBSET Ids, used \subseteq used', broadcasts' = broadcasts,
           Sound(next, used')
    PROVE  RecordsInv'
<1>1. Sound(journal, used')
  BY DEF RecordsInv, Sound
<1>2. Idle \in Task /\ \A records : Follows(Idle, records)
  BY DEF Idle, Task, Follows
<1>3. Nothing \in Records
  BY DEF Nothing, Records
<1>4. \A records : Sound(records, used') => records \in Records
  BY DEF Sound
<1>5. /\ journal' \in {journal, next} /\ memory' \in {journal', Nothing}
      /\ (memory' = journal' /\ process' = process) \/ process' = "locked"
      /\ \/ task' = then /\ memory' = next /\ process' = process
         \/ task' = Idle
  BY DEF persistPrivate, Adopt, PersistFails
<1>6. Sound(journal', used')
  BY <1>1, <1>5
<1>7. Sound(journal, used)'
  BY <1>6 DEF Sound
<1>8. memory' \in Records /\ task' \in Task /\ Follows(task', memory')
  BY <1>2, <1>3, <1>4, <1>5, <1>6
<1>9. \A id \in Ids \ used' : broadcasts'[id] = 0
  BY DEF RecordsInv
<1> QED
  BY <1>5, <1>7, <1>8, <1>9 DEF RecordsInv, MemoryIsJournal, Follows

\* A step that leaves the records alone.
LEMMA FrameStep ==
    ASSUME RecordsInv, UNCHANGED <<process, journal, memory, used, broadcasts>>,
           task' \in Task, Follows(task', memory), task' # Idle => process = "unlocked"
    PROVE  RecordsInv'
  BY DEF RecordsInv, MemoryIsJournal, Follows, Sound

\* Changing one record but neither its message nor, downwards, its attempts.
LEMMA Edit ==
    ASSUME RecordsInv, process = "unlocked", NEW op \in Ops, memory[op] # None,
           NEW e \in Entry, e.id = memory[op].id, memory[op].attempts <= e.attempts
    PROVE  /\ Sound([memory EXCEPT ![op] = e], used)
           /\ [memory EXCEPT ![op] = e][op] = e /\ e # None
<1> DEFINE next == [memory EXCEPT ![op] = e]
<1>1. memory \in Records /\ Sound(memory, used)
  BY DEF RecordsInv, MemoryIsJournal
<1>2. next \in Records /\ next[op] = e /\ \A o \in Ops \ {op} : next[o] = memory[o]
  BY <1>1 DEF Records
<1>3. e # None
  BY NoneAssumption
<1>4. memory[op] \in Entry /\ memory[op].id \in Ids
  BY <1>1 DEF Records, Entry
<1>5. broadcasts[e.id] <= e.attempts
  <2>1. broadcasts[e.id] <= memory[op].attempts
    BY <1>1 DEF Sound
  <2>2. broadcasts[e.id] \in Int /\ memory[op].attempts \in Int /\ e.attempts \in Int
    BY <1>4, OutboxAssumption DEF RecordsInv, Entry
  <2> QED
    BY <2>1, <2>2
<1> HIDE DEF next
<1>6. Sound(next, used)
  BY <1>1, <1>2, <1>5 DEF Sound
<1> QED
  BY <1>2, <1>3, <1>6 DEF next

LEMMA StepReconcile == ASSUME RecordsInv, reconcileOutbox PROVE RecordsInv'
<1>1. process = "unlocked" /\ task = Idle /\ UNCHANGED world
  BY DEF reconcileOutbox, Running
<1>2. Then \in Task /\ Then.step \in {"idle", "pins"} /\ Sound(Reconciled, used)
  BY <1>1, ThenTyped, ReconciledSound
<1>3. \A records : Follows(Then, records)
  BY <1>2 DEF Follows
<1>4. CASE Reconciled = memory
  BY <1>1, <1>2, <1>3, <1>4, FrameStep DEF reconcileOutbox, world
<1>5. CASE Reconciled # memory
  <2>1. persistPrivate(Reconciled, Then)
    BY <1>5 DEF reconcileOutbox
  <2>2. used' = used /\ broadcasts' = broadcasts /\ used \in SUBSET Ids
    BY <1>1 DEF world, RecordsInv
  <2> QED
    BY <1>1, <1>2, <1>3, <2>1, <2>2, PersistStep
<1> QED
  BY <1>4, <1>5

\* The new record has a message of its own that was never broadcast; the
\* records that make room are gone.
LEMMA StepSend ==
    ASSUME RecordsInv, NEW op \in Ops, NEW id \in Ids, send(op, id) PROVE RecordsInv'
<1> DEFINE entry == [id |-> id, phase |-> "preparing", attempts |-> 0,
                     manualPin |-> FALSE, received |-> {}, read |-> {}]
           then == [step |-> "object", op |-> op]
<1>1. /\ process = "unlocked" /\ id \notin used /\ used' = used \cup {id}
      /\ broadcasts' = broadcasts
  BY DEF send, Running
<1>2. PICK D : persistPrivate(admitOutbox(op, entry, D), then)
  BY DEF send
<1> DEFINE next == admitOutbox(op, entry, D)
<1>3. memory \in Records /\ Sound(memory, used) /\ broadcasts[id] = 0
  BY <1>1 DEF RecordsInv, MemoryIsJournal
<1>4. entry \in Entry /\ entry # None /\ entry.id = id /\ entry.attempts = 0
  <2>1. entry \in Entry
    BY OutboxAssumption DEF Entry
  <2> QED
    BY <2>1, NoneAssumption
<1>5. then \in Task /\ then.step = "object" /\ then.op = op
  BY DEF Task
<1> HIDE DEF entry, then
<1>6. /\ next \in Records /\ next[op] = entry
      /\ \A o \in Ops \ {op} : next[o] # None => next[o] = memory[o]
  BY <1>3, <1>4 DEF admitOutbox, Records
<1> HIDE DEF next
<1>7. Sound(next, used')
  BY <1>1, <1>3, <1>4, <1>6 DEF Sound
<1>8. Follows(then, next)
  BY <1>4, <1>5, <1>6 DEF Follows
<1>9. persistPrivate(next, then) /\ used' \in SUBSET Ids /\ used \subseteq used'
  BY <1>1, <1>2 DEF next, RecordsInv
<1> QED
  BY <1>1, <1>5, <1>7, <1>8, <1>9, PersistStep

LEMMA StepReady == ASSUME RecordsInv, MakeReady PROVE RecordsInv'
<1> DEFINE op == task.op
           e == [memory[op] EXCEPT !.phase = "ready"]
<1>1. /\ process = "unlocked" /\ task.step = "ready" /\ UNCHANGED world
      /\ persistPrivate([memory EXCEPT ![op].phase = "ready"], Idle)
  BY DEF MakeReady, At
<1>2. op \in Ops /\ memory[op] # None
  BY <1>1, TaskShape DEF RecordsInv, Follows
<1>3. memory[op] \in Entry /\ memory \in Records
  BY <1>2 DEF RecordsInv, Records
<1>4. e \in Entry /\ e.id = memory[op].id /\ memory[op].attempts <= e.attempts
  BY <1>3 DEF Entry
<1>5. [memory EXCEPT ![op].phase = "ready"] = [memory EXCEPT ![op] = e]
  OBVIOUS
<1> HIDE DEF e, op
<1>6. Sound([memory EXCEPT ![op] = e], used)
  BY <1>1, <1>2, <1>4, Edit
<1>7. Idle \in Task /\ \A records : Follows(Idle, records)
  BY DEF Task, Idle, Follows
<1>8. used' = used /\ broadcasts' = broadcasts /\ used \in SUBSET Ids
  BY <1>1 DEF world, RecordsInv
<1> QED
  BY <1>1, <1>5, <1>6, <1>7, <1>8, PersistStep

\* The attempt is in the records that the broadcast follows.
LEMMA StepAttempt == ASSUME RecordsInv, NEW op \in Ops, Attempt(op) PROVE RecordsInv'
<1> DEFINE e == [memory[op] EXCEPT !.attempts = @ + 1]
           then == [step |-> "broadcast", op |-> op]
<1>1. /\ process = "unlocked" /\ op \in Pending(memory) /\ memory[op].attempts < MaxAttempts
      /\ persistPrivate([memory EXCEPT ![op].attempts = @ + 1], then)
      /\ UNCHANGED world
  BY DEF Attempt, Running
<1>2. memory[op] # None /\ memory \in Records /\ Sound(memory, used)
  BY <1>1 DEF Pending, Kept, RecordsInv, MemoryIsJournal
<1>3. memory[op] \in Entry
  BY <1>2 DEF Records
<1>4. memory[op].attempts \in Nat /\ memory[op].id \in Ids /\ MaxAttempts \in Nat
  BY <1>3, OutboxAssumption DEF Entry
<1>5. /\ e \in Entry /\ e.id = memory[op].id
      /\ e.attempts = memory[op].attempts + 1
  BY <1>1, <1>3, <1>4 DEF Entry
<1>6. [memory EXCEPT ![op].attempts = @ + 1] = [memory EXCEPT ![op] = e]
  OBVIOUS
<1>7. then \in Task /\ then.step = "broadcast" /\ then.op = op
  BY DEF Task
<1> HIDE DEF e, then
<1> DEFINE next == [memory EXCEPT ![op] = e]
<1>8. Sound(next, used) /\ next[op] = e /\ e # None
  <2>1. memory[op].attempts <= e.attempts
    BY <1>4, <1>5
  <2> QED
    BY <1>1, <1>2, <1>5, <2>1, Edit
<1>9. broadcasts[e.id] < e.attempts
  <2>1. broadcasts[e.id] <= memory[op].attempts /\ broadcasts[e.id] \in Int
    BY <1>2, <1>4, <1>5 DEF Sound, RecordsInv
  <2> QED
    BY <1>4, <1>5, <2>1
<1> HIDE DEF next
<1>10. Follows(then, next)
  BY <1>7, <1>8, <1>9 DEF Follows
<1>11. used' = used /\ broadcasts' = broadcasts /\ used \in SUBSET Ids
  BY <1>1 DEF world, RecordsInv
<1>12. persistPrivate(next, then)
  BY <1>1, <1>6 DEF next
<1> QED
  BY <1>1, <1>7, <1>8, <1>10, <1>11, <1>12, PersistStep

\* A broadcast uses the attempt in hand; no other record has its message.
LEMMA StepBroadcast == ASSUME RecordsInv, Broadcast PROVE RecordsInv'
<1> DEFINE op == task.op
           id == memory[op].id
<1>1. /\ process = "unlocked" /\ task.step = "broadcast" /\ task' = Idle
      /\ broadcasts' = [broadcasts EXCEPT ![id] = @ + 1]
      /\ UNCHANGED <<process, journal, memory, used>>
  BY DEF Broadcast, At, Message
<1>2. op \in Ops /\ memory[op] # None /\ broadcasts[id] < memory[op].attempts
  BY <1>1, TaskShape DEF RecordsInv, Follows
<1>3. memory = journal /\ Sound(memory, used) /\ memory[op] \in Entry /\ id \in used
  BY <1>1, <1>2 DEF RecordsInv, MemoryIsJournal, Sound, Records
<1>4. id \in Ids /\ memory[op].attempts \in 0..MaxAttempts /\ broadcasts[id] \in 0..MaxAttempts
  BY <1>3 DEF Entry, RecordsInv
<1>5. broadcasts[id] + 1 \in 0..MaxAttempts /\ broadcasts[id] + 1 <= memory[op].attempts
  BY <1>2, <1>4, OutboxAssumption
<1>6. /\ broadcasts' \in [Ids -> 0..MaxAttempts] /\ broadcasts'[id] = broadcasts[id] + 1
      /\ \A i \in Ids \ {id} : broadcasts'[i] = broadcasts[i]
  BY <1>1, <1>4, <1>5 DEF RecordsInv
<1>7. \A o \in Ops : memory[o] # None =>
         memory[o].id \in Ids /\ (memory[o].id = id => o = op)
  BY <1>2, <1>3 DEF Sound, Records, Entry
<1> HIDE DEF op, id
<1>8. Sound(journal, used)'
  <2>1. ASSUME NEW o \in Ops, memory[o] # None
        PROVE  broadcasts'[memory[o].id] <= memory[o].attempts
    <3>1. CASE o = op
      BY <1>5, <1>6, <3>1 DEF id
    <3>2. CASE o # op
      BY <1>3, <1>6, <1>7, <2>1, <3>2 DEF Sound
    <3> QED
      BY <3>1, <3>2
  <2> QED
    BY <1>1, <1>3, <2>1 DEF Sound
<1>9. Idle \in Task
  BY DEF Task
<1>10. \A i \in Ids \ used' : broadcasts'[i] = 0
  BY <1>1, <1>3, <1>6 DEF RecordsInv
<1>11. Follows(task, memory)'
  BY <1>1 DEF Follows, Idle
<1> QED
  BY <1>1, <1>6, <1>8, <1>9, <1>10, <1>11 DEF RecordsInv, MemoryIsJournal

LEMMA StepLocal ==
    ASSUME RecordsInv, NEW op \in Ops, NEW value \in BOOLEAN, localAction(op, value)
    PROVE  RecordsInv'
<1> DEFINE e == [memory[op] EXCEPT !.manualPin = value]
           then == [step |-> "user", pins |-> {<<memory[op].id, value>>}]
<1>1. /\ process = "unlocked" /\ memory[op] # None /\ UNCHANGED world
      /\ persistPrivate([memory EXCEPT ![op].manualPin = value], then)
  BY DEF localAction, Running
<1>2. memory[op] \in Entry /\ memory[op].id \in Ids
  BY <1>1 DEF RecordsInv, Records, Entry
<1>3. e \in Entry /\ e.id = memory[op].id /\ memory[op].attempts <= e.attempts
  BY <1>2 DEF Entry
<1>4. [memory EXCEPT ![op].manualPin = value] = [memory EXCEPT ![op] = e]
  OBVIOUS
<1>5. then \in Task /\ then.step = "user"
  <2>1. {<<memory[op].id, value>>} \in SUBSET (Ids \X BOOLEAN)
    BY <1>2
  <2> QED
    BY <2>1 DEF Task
<1>6. \A records : Follows(then, records)
  BY <1>5 DEF Follows
<1> HIDE DEF e, then
<1>7. Sound([memory EXCEPT ![op] = e], used)
  BY <1>1, <1>3, Edit
<1>8. used' = used /\ broadcasts' = broadcasts /\ used \in SUBSET Ids
  BY <1>1 DEF world, RecordsInv
<1> QED
  BY <1>1, <1>4, <1>5, <1>6, <1>7, <1>8, PersistStep

\* A call that goes on to its next write, or ends.
LEMMA NextWrite ==
    ASSUME RecordsInv, process = "unlocked", UNCHANGED <<process, journal, memory, used, broadcasts>>,
           task.step \in {"object", "index"}, NEW s \in {"index", "ready"},
           task' \in {[task EXCEPT !.step = s], Idle}
    PROVE  RecordsInv'
<1>1. task = [step |-> task.step, op |-> task.op] /\ task.op \in Ops /\ memory[task.op] # None
  BY TaskShape DEF RecordsInv, Follows
<1>2. [task EXCEPT !.step = s] = [step |-> s, op |-> task.op]
  BY <1>1
<1>3. [step |-> s, op |-> task.op] \in Task /\ Idle \in Task
  BY <1>1 DEF Task
<1>4. Follows([step |-> s, op |-> task.op], memory) /\ Follows(Idle, memory)
  BY <1>1 DEF Follows, Idle
<1>5. task' \in Task /\ Follows(task', memory)
  BY <1>2, <1>3, <1>4
<1> QED
  BY <1>5, FrameStep

LEMMA StepPut ==
    ASSUME RecordsInv, PutRefused \/ WriteObject \/ WriteIndex PROVE RecordsInv'
<1>1. CASE PutRefused
  <2>1. Idle \in Task /\ Follows(Idle, memory)
    BY DEF Task, Idle, Follows
  <2> QED
    BY <1>1, <2>1, FrameStep DEF PutRefused, world
<1>2. CASE WriteObject
  BY <1>2, NextWrite DEF WriteObject, At, world
<1>3. CASE WriteIndex
  BY <1>3, NextWrite DEF WriteIndex, At, world
<1> QED
  BY <1>1, <1>2, <1>3

\* The pins that are left are pins to make.
LEMMA RestTyped ==
    ASSUME NEW t \in Task, t.step \in {"pins", "user"}, NEW change, t = task
    PROVE  Rest(change) \in Task /\ \A records : Follows(Rest(change), records)
<1>1. t = [step |-> t.step, pins |-> t.pins] /\ t.pins \in SUBSET (Ids \X BOOLEAN)
  BY TaskShape
<1>2. [t EXCEPT !.pins = @ \ {change}] = [step |-> t.step, pins |-> t.pins \ {change}]
  BY <1>1
<1>3. [step |-> t.step, pins |-> t.pins \ {change}] \in Task
  <2>1. t.pins \ {change} \in SUBSET (Ids \X BOOLEAN)
    BY <1>1
  <2> QED
    BY <2>1 DEF Task
<1>4. \A records : Follows([step |-> t.step, pins |-> t.pins \ {change}], records)
  BY DEF Follows
<1>5. Idle \in Task /\ \A records : Follows(Idle, records)
  BY DEF Task, Idle, Follows
<1>6. Rest(change) \in {Idle, [step |-> t.step, pins |-> t.pins \ {change}]}
  BY <1>2 DEF Rest
<1> QED
  BY <1>3, <1>4, <1>5, <1>6

LEMMA StepPin == ASSUME RecordsInv, Pin \/ PinFails PROVE RecordsInv'
<1>1. /\ process = "unlocked" /\ task.step \in {"pins", "user"}
      /\ UNCHANGED <<process, journal, memory, used, broadcasts>>
  BY DEF Pin, PinFails, At, world
<1>2. \E change : task' \in {Rest(change), Idle}
  BY DEF Pin, PinFails
<1>3. \A change : Rest(change) \in Task /\ Follows(Rest(change), memory)
  BY <1>1, RestTyped DEF RecordsInv
<1>4. Idle \in Task /\ Follows(Idle, memory)
  BY DEF Task, Idle, Follows
<1>5. task' \in Task /\ Follows(task', memory)
  BY <1>2, <1>3, <1>4
<1> QED
  BY <1>1, <1>5, FrameStep

\* Unlocking reads the records; locking and dying forget them.
LEMMA StepProcess ==
    ASSUME RecordsInv, unlock \/ lock \/ Crash \/ Restart PROVE RecordsInv'
<1>1. /\ journal' = journal /\ used' = used /\ broadcasts' = broadcasts
      /\ process' \in {"unlocked", "locked", "down"}
  BY DEF unlock, lock, Crash, Restart, world
<1>2. task' = Idle
  BY DEF unlock, lock, Crash, Restart, Running, RecordsInv
<1>3. memory' \in Records /\ (process' = "unlocked" => memory' = journal')
  <2>1. journal \in Records /\ memory \in Records /\ Nothing \in Records
    BY DEF RecordsInv, Sound, Nothing, Records
  <2> QED
    BY <1>1, <2>1 DEF unlock, lock, Crash, Restart
<1>4. Idle \in Task /\ Follows(task, memory)'
  BY <1>2 DEF Task, Idle, Follows
<1>5. Sound(journal, used)'
  BY <1>1 DEF RecordsInv, Sound
<1> QED
  BY <1>1, <1>2, <1>3, <1>4, <1>5 DEF RecordsInv, MemoryIsJournal

\* What happens around the records.
Around ==
    \/ EvictConfirmation
    \/ \E id \in Ids : Evict(id) \/ Expire(id) \/ Corrupt(id)
    \/ \E id \in Ids, r \in Readers, kind \in {"delivery", "receipt"} : Arrive(id, r, kind)

LEMMA StepAround == ASSUME RecordsInv, Around PROVE RecordsInv'
<1>1. UNCHANGED <<process, journal, memory, task, used, broadcasts>>
  BY DEF Around, EvictConfirmation, Evict, Expire, Corrupt, Arrive, world
<1> QED
  BY <1>1, FrameStep DEF RecordsInv

LEMMA RecordsStep == ASSUME RecordsInv, Next PROVE RecordsInv'
<1>1. ASSUME NEW op \in Ops, Attempt(op) PROVE RecordsInv'
  BY <1>1, StepAttempt
<1>2. ASSUME NEW op \in Ops, NEW id \in Ids, send(op, id) PROVE RecordsInv'
  BY <1>2, StepSend
<1>3. ASSUME NEW op \in Ops, NEW value \in BOOLEAN, localAction(op, value) PROVE RecordsInv'
  BY <1>3, StepLocal
<1>4. CASE reconcileOutbox
  BY <1>4, StepReconcile
<1>5. CASE PutRefused \/ WriteObject \/ WriteIndex
  BY <1>5, StepPut
<1>6. CASE MakeReady
  BY <1>6, StepReady
<1>7. CASE Broadcast
  BY <1>7, StepBroadcast
<1>8. CASE Pin \/ PinFails
  BY <1>8, StepPin
<1>9. CASE unlock \/ lock \/ Crash \/ Restart
  BY <1>9, StepProcess
<1>10. CASE Around
  BY <1>10, StepAround
<1> QED
  BY <1>1, <1>2, <1>3, <1>4, <1>5, <1>6, <1>7, <1>8, <1>9, <1>10 DEF Next, Steps, Around

\* The store holds messages and pins what it holds.
LEMMA StoreStep == ASSUME IInv, Next PROVE StoreInv'
<1>1. /\ files \subseteq Ids /\ held \subseteq Ids /\ diskPins \subseteq Ids
      /\ pinned \subseteq held /\ expired \subseteq Ids
      /\ arrived \subseteq Ids \X Readers \X {"delivery", "receipt"}
  BY DEF IInv, StoreInv
<1>2. At("object") \/ At("index") => Message \in Ids
  <2>1. SUFFICES ASSUME At("object") \/ At("index") PROVE Message \in Ids
    OBVIOUS
  <2>2. task.op \in Ops /\ memory[task.op] # None
    BY <2>1, TaskShape DEF At, IInv, RecordsInv, Follows
  <2> QED
    BY <2>2 DEF IInv, RecordsInv, Records, Entry, Message
<1>3. At("pins") \/ At("user") => \A change \in task.pins : change[1] \in Ids
  BY TaskShape DEF At, IInv, RecordsInv
<1>4. ASSUME UNCHANGED <<store, expired, arrived>> PROVE StoreInv'
  BY <1>1, <1>4 DEF StoreInv, store
<1>5. ASSUME NEW op \in Ops,
             Attempt(op) \/ (\E id \in Ids : send(op, id))
                \/ (\E value \in BOOLEAN : localAction(op, value))
      PROVE  StoreInv'
  BY <1>4, <1>5 DEF Attempt, send, localAction, world
<1>6. CASE reconcileOutbox \/ MakeReady \/ Broadcast \/ PutRefused \/ unlock \/ lock
  BY <1>4, <1>6 DEF reconcileOutbox, MakeReady, Broadcast, PutRefused, unlock, lock, world
<1>7. CASE WriteObject \/ WriteIndex
  BY <1>1, <1>2, <1>7 DEF WriteObject, WriteIndex, StoreInv, world
<1>8. CASE Pin
  BY <1>1, <1>3, <1>8 DEF Pin, Verified, StoreInv, world
<1>9. CASE PinFails
  <2>1. PICK change \in task.pins :
           /\ pinned' \subseteq held' /\ files' \subseteq files /\ held' \subseteq held
           /\ diskPins' \subseteq diskPins \cup pinned \cup {change[1]} \cup pinned'
    <3>1. PICK change \in task.pins :
             LET id == change[1]
                 kept == IF Verified(id)
                         THEN IF change[2] THEN pinned \cup {id} ELSE pinned \ {id}
                         ELSE pinned
                 removed == IF task.step = "pins" /\ ~change[2] THEN {id} ELSE {}
                 written == (IF Verified(id) THEN {kept} ELSE {})
                            \cup (IF removed # {} THEN {pinned'} ELSE {})
             IN  /\ pinned' = kept \ removed
                 /\ files' = files \ removed /\ held' = held \ removed
                 /\ \/ removed # {} /\ diskPins' = pinned' /\ task' = Rest(change)
                    \/ diskPins' \in {diskPins} \cup written
      BY <1>9 DEF PinFails
    <3> DEFINE id == change[1]
               kept == IF Verified(id)
                       THEN IF change[2] THEN pinned \cup {id} ELSE pinned \ {id}
                       ELSE pinned
               removed == IF task.step = "pins" /\ ~change[2] THEN {id} ELSE {}
    <3>2. kept \subseteq held /\ kept \subseteq pinned \cup {id}
      BY <1>1 DEF Verified
    <3> HIDE DEF kept, removed
    <3>3. /\ pinned' = kept \ removed /\ files' = files \ removed /\ held' = held \ removed
          /\ diskPins' \in {diskPins, kept, pinned'}
      BY <3>1 DEF kept, removed
    <3> QED
      BY <3>2, <3>3 DEF id
  <2>2. UNCHANGED <<expired, arrived>> /\ change[1] \in Ids
    BY <1>3, <1>9 DEF PinFails, world
  <2> QED
    BY <1>1, <2>1, <2>2 DEF StoreInv
<1>10. CASE Crash \/ Restart
  BY <1>1, <1>10 DEF Crash, Restart, StoreInv, world
<1>11. CASE Around
  <2>1. CASE EvictConfirmation
    BY <1>1, <2>1 DEF EvictConfirmation, StoreInv, store
  <2>2. CASE \E id \in Ids : Evict(id) \/ Expire(id) \/ Corrupt(id)
    BY <1>1, <2>2 DEF Evict, Expire, Corrupt, StoreInv, store, world
  <2>3. CASE \E id \in Ids, r \in Readers, kind \in {"delivery", "receipt"} : Arrive(id, r, kind)
    BY <1>1, <2>3 DEF Arrive, StoreInv, store
  <2> QED
    BY <1>11, <2>1, <2>2, <2>3 DEF Around
<1> QED
  BY <1>5, <1>6, <1>7, <1>8, <1>9, <1>10, <1>11 DEF Next, Steps, Around

(***************************************************************************)
(* What a step does to the records                                         *)
(***************************************************************************)

\* The records `new` say no less than the records `old` did.
Later(old, new) ==
    \A op \in Kept(old) :
       /\ isPending(old[op]) => new[op] # None
       /\ new[op] # None =>
             /\ new[op].id = old[op].id
             /\ old[op].attempts <= new[op].attempts
             /\ old[op].received \subseteq new[op].received
             /\ old[op].read \subseteq new[op].read
             /\ old[op].phase # "preparing" => new[op].phase # "preparing"

\* Records that are left alone, and one that is edited.
LEMMA LaterRefl == ASSUME NEW records \in Records PROVE Later(records, records)
<1>1. \A op \in Kept(records) : records[op] \in Entry
  BY DEF Records, Kept
<1>2. \A e \in Entry : e.attempts <= e.attempts
  BY OutboxAssumption DEF Entry
<1> QED
  BY <1>1, <1>2 DEF Later, Kept

LEMMA LaterEdit ==
    ASSUME NEW old \in Records, NEW op \in Ops, old[op] # None, NEW e \in Entry,
           e.id = old[op].id, old[op].attempts <= e.attempts,
           old[op].received \subseteq e.received, old[op].read \subseteq e.read,
           old[op].phase # "preparing" => e.phase # "preparing"
    PROVE  Later(old, [old EXCEPT ![op] = e])
<1> DEFINE new == [old EXCEPT ![op] = e]
<1>1. new[op] = e /\ e # None /\ \A o \in Ops \ {op} : new[o] = old[o]
  BY NoneAssumption DEF Records
<1>2. Later(old, old)
  BY LaterRefl
<1> HIDE DEF new
<1>3. Later(old, new)
  BY <1>1, <1>2 DEF Later, Kept
<1> QED
  BY <1>3 DEF new

LEMMA LaterReconciled == ASSUME memory \in Records PROVE Later(memory, Reconciled)
<1>1. ASSUME NEW op \in Kept(memory)
      PROVE  memory[op] \in Entry /\ Reconciled[op] = Checked(Confirmed(memory[op]))
  BY DEF Kept, Records, Reconciled
<1>2. ASSUME NEW op \in Kept(memory)
      PROVE  Reconciled[op] # None /\ memory[op].attempts <= Reconciled[op].attempts
  <2>1. Reconciled[op] \in Entry /\ Reconciled[op].attempts = memory[op].attempts
    BY <1>1, Reconciling
  <2>2. memory[op].attempts \in Int
    BY <1>1, OutboxAssumption DEF Entry
  <2> QED
    BY <2>1, <2>2, NoneAssumption
<1> QED
  BY <1>1, <1>2, Reconciling DEF Later

LEMMA LaterAdmitted ==
    ASSUME memory \in Records, NEW op \in Ops, memory[op] = None, NEW entry,
           NEW D \in Rooms(memory)
    PROVE  Later(memory, admitOutbox(op, entry, D))
<1> DEFINE new == admitOutbox(op, entry, D)
<1>1. \A o \in Kept(memory) : new[o] = IF o \in D THEN None ELSE memory[o]
  BY DEF admitOutbox, Kept
<1>2. D \cap Pending(memory) = {}
  BY DEF Rooms
<1>3. Later(memory, memory)
  BY LaterRefl
<1> HIDE DEF new
<1>4. Later(memory, new)
  BY <1>1, <1>2, <1>3 DEF Later, Pending
<1> QED
  BY <1>4 DEF new

LEMMA RecordsGrow == ASSUME RecordsInv, Next PROVE Later(journal, journal')
<1>1. journal \in Records /\ Later(journal, journal)
  BY LaterRefl DEF RecordsInv, Sound
<1>2. process = "unlocked" => memory = journal
  BY DEF RecordsInv, MemoryIsJournal
<1>3. ASSUME NEW next, NEW then, persistPrivate(next, then), process = "unlocked",
             Later(memory, next)
      PROVE  Later(journal, journal')
  BY <1>1, <1>2, <1>3 DEF persistPrivate, Adopt, PersistFails
<1>4. ASSUME NEW op \in Ops, Attempt(op) PROVE Later(journal, journal')
  <2> DEFINE e == [memory[op] EXCEPT !.attempts = @ + 1]
  <2>1. /\ process = "unlocked" /\ memory[op] # None /\ memory[op].attempts < MaxAttempts
        /\ persistPrivate([memory EXCEPT ![op].attempts = @ + 1],
                          [step |-> "broadcast", op |-> op])
    BY <1>4 DEF Attempt, Running, Pending, Kept
  <2>2. memory \in Records /\ memory[op] \in Entry
    BY <1>1, <1>2, <2>1 DEF Records
  <2>3. memory[op].attempts \in Nat /\ MaxAttempts \in Nat
    BY <2>2, OutboxAssumption DEF Entry
  <2>4. /\ e \in Entry /\ e.id = memory[op].id /\ e.attempts = memory[op].attempts + 1
        /\ e.received = memory[op].received /\ e.read = memory[op].read
        /\ e.phase = memory[op].phase
    BY <2>1, <2>2, <2>3 DEF Entry
  <2>5. [memory EXCEPT ![op].attempts = @ + 1] = [memory EXCEPT ![op] = e]
    OBVIOUS
  <2>6. memory[op].attempts <= e.attempts
    BY <2>3, <2>4
  <2> HIDE DEF e
  <2>7. Later(memory, [memory EXCEPT ![op] = e])
    BY <2>1, <2>2, <2>4, <2>6, LaterEdit
  <2> QED
    BY <1>3, <2>1, <2>5, <2>7
<1>5. ASSUME NEW op \in Ops, NEW id \in Ids, send(op, id) PROVE Later(journal, journal')
  <2>1. process = "unlocked" /\ memory[op] = None /\ memory \in Records
    BY <1>1, <1>2, <1>5 DEF send, Running
  <2>2. PICK D \in Rooms(memory) :
           \E entry, then : persistPrivate(admitOutbox(op, entry, D), then)
    BY <1>5 DEF send
  <2> QED
    BY <1>3, <2>1, <2>2, LaterAdmitted
<1>6. ASSUME NEW op \in Ops, NEW value \in BOOLEAN, localAction(op, value)
      PROVE  Later(journal, journal')
  <2> DEFINE e == [memory[op] EXCEPT !.manualPin = value]
  <2>1. /\ process = "unlocked" /\ memory[op] # None
        /\ persistPrivate([memory EXCEPT ![op].manualPin = value],
                          [step |-> "user", pins |-> {<<memory[op].id, value>>}])
    BY <1>6 DEF localAction, Running
  <2>2. memory \in Records /\ memory[op] \in Entry
    BY <1>1, <1>2, <2>1 DEF Records
  <2>3. /\ e \in Entry /\ e.id = memory[op].id /\ memory[op].attempts <= e.attempts
        /\ e.received = memory[op].received /\ e.read = memory[op].read
        /\ e.phase = memory[op].phase
    BY <2>2, OutboxAssumption DEF Entry
  <2>4. [memory EXCEPT ![op].manualPin = value] = [memory EXCEPT ![op] = e]
    OBVIOUS
  <2> HIDE DEF e
  <2>5. Later(memory, [memory EXCEPT ![op] = e])
    BY <2>1, <2>2, <2>3, LaterEdit
  <2> QED
    BY <1>3, <2>1, <2>4, <2>5
<1>7. CASE reconcileOutbox
  <2>1. process = "unlocked" /\ memory \in Records
    BY <1>1, <1>2, <1>7 DEF reconcileOutbox, Running
  <2>2. journal' = journal \/ \E then : persistPrivate(Reconciled, then)
    BY <1>7 DEF reconcileOutbox
  <2> QED
    BY <1>1, <1>3, <2>1, <2>2, LaterReconciled
<1>8. CASE MakeReady
  <2> DEFINE op == task.op
             e == [memory[op] EXCEPT !.phase = "ready"]
  <2>1. /\ process = "unlocked" /\ op \in Ops /\ memory[op] # None
        /\ persistPrivate([memory EXCEPT ![op].phase = "ready"], Idle)
    BY <1>8, TaskShape DEF MakeReady, At, RecordsInv, Follows
  <2>2. memory \in Records /\ memory[op] \in Entry
    BY <1>1, <1>2, <2>1 DEF Records
  <2>3. /\ e \in Entry /\ e.id = memory[op].id /\ memory[op].attempts <= e.attempts
        /\ e.received = memory[op].received /\ e.read = memory[op].read
        /\ e.phase = "ready"
    BY <2>2, OutboxAssumption DEF Entry
  <2>4. [memory EXCEPT ![op].phase = "ready"] = [memory EXCEPT ![op] = e]
    OBVIOUS
  <2> HIDE DEF op, e
  <2>5. Later(memory, [memory EXCEPT ![op] = e])
    BY <2>1, <2>2, <2>3, LaterEdit
  <2> QED
    BY <1>3, <2>1, <2>4, <2>5
<1>9. CASE \/ PutRefused \/ WriteObject \/ WriteIndex \/ Broadcast \/ Pin \/ PinFails
           \/ unlock \/ lock \/ Crash \/ Restart \/ Around
  <2>1. journal' = journal
    BY <1>9 DEF PutRefused, WriteObject, WriteIndex, Broadcast, Pin, PinFails, unlock, lock,
                Crash, Restart, Around, EvictConfirmation, Evict, Expire, Corrupt, Arrive
  <2> QED
    BY <1>1, <2>1
<1> QED
  BY <1>4, <1>5, <1>6, <1>7, <1>8, <1>9 DEF Next, Steps, Around

(***************************************************************************)
(* What unlocking checks                                                   *)
(***************************************************************************)

\* The record of a message that is being stored was not given up, or finishing
\* the call would make it pending again, beyond the limit.
Storing == task.step \in {"object", "index", "ready"} => memory[task.op].phase # "unavailable"

\* Records with nothing more kept or pending pass when the old ones did.
LEMMA ValidFewer ==
    ASSUME NEW old, NEW new, Valid(old), Kept(new) \subseteq Kept(old),
           Pending(new) \subseteq Pending(old),
           \A op \in Kept(new) : new[op].read \subseteq new[op].received,
           \A o, p \in Kept(new) : o # p => new[o].id # new[p].id
    PROVE  Valid(new)
<1>1. IsFiniteSet(Kept(old)) /\ IsFiniteSet(Pending(old))
  BY FS_Subset, OutboxAssumption DEF Kept, Pending
<1>2. /\ Cardinality(Kept(new)) <= Cardinality(Kept(old)) /\ Cardinality(Kept(old)) \in Nat
      /\ Cardinality(Pending(new)) <= Cardinality(Pending(old))
      /\ Cardinality(Pending(old)) \in Nat
      /\ IsFiniteSet(Kept(new)) /\ IsFiniteSet(Pending(new))
  BY <1>1, FS_Subset, FS_CardinalityType
<1>3. Cardinality(Kept(new)) \in Nat /\ Cardinality(Pending(new)) \in Nat
  BY <1>2, FS_CardinalityType
<1>4. /\ Cardinality(Kept(new)) <= MaxTotal
      /\ Cardinality(Pending(new)) <= MaxPending
  BY <1>2, <1>3, OutboxAssumption DEF Valid
<1> QED
  BY <1>4 DEF Valid

LEMMA ValidEdit ==
    ASSUME RecordsInv, process = "unlocked", Valid(journal),
           NEW op \in Ops, memory[op] # None, NEW e \in Entry, e.id = memory[op].id,
           e.read \subseteq e.received, isPending(e) => isPending(memory[op])
    PROVE  Valid([memory EXCEPT ![op] = e])
<1> DEFINE new == [memory EXCEPT ![op] = e]
<1>1. memory = journal /\ memory \in Records
  BY DEF RecordsInv, MemoryIsJournal
<1>2. new[op] = e /\ e # None /\ \A o \in Ops \ {op} : new[o] = memory[o]
  BY <1>1, NoneAssumption DEF Records
<1> HIDE DEF new
<1>3. Kept(new) = Kept(memory)
  BY <1>2 DEF Kept
<1>4. Pending(new) \subseteq Pending(memory)
  <2> SUFFICES ASSUME NEW o \in Kept(new), isPending(new[o])
               PROVE  o \in Kept(memory) /\ isPending(memory[o])
    BY DEF Pending
  <2>1. o \in Kept(memory) /\ o \in Ops
    BY <1>3 DEF Kept
  <2>2. CASE o = op
    BY <1>2, <2>1, <2>2
  <2>3. CASE o # op
    <3>1. new[o] = memory[o]
      BY <1>2, <2>1, <2>3
    <3> QED
      BY <2>1, <3>1
  <2> QED
    BY <2>2, <2>3
<1>5. \A o \in Kept(new) : new[o].id = memory[o].id
  BY <1>2 DEF Kept
<1>6. \A o \in Kept(new) : new[o].read \subseteq new[o].received
  BY <1>1, <1>2, <1>3 DEF Valid, Kept
<1>7. Valid(new)
  BY <1>1, <1>3, <1>4, <1>5, <1>6, ValidFewer DEF Valid
<1> QED
  BY <1>7 DEF new

LEMMA ValidReconciled ==
    ASSUME RecordsInv, process = "unlocked", Valid(journal) PROVE Valid(Reconciled)
<1>1. memory = journal /\ memory \in Records
  BY DEF RecordsInv, MemoryIsJournal
<1>2. ASSUME NEW op \in Kept(memory)
      PROVE  /\ memory[op] \in Entry /\ Reconciled[op] = Checked(Confirmed(memory[op]))
             /\ Reconciled[op].id = memory[op].id
             /\ Reconciled[op].read \subseteq Reconciled[op].received
             /\ isPending(Reconciled[op]) => isPending(memory[op])
  <2> DEFINE e == memory[op]
             c == Confirmed(e)
  <2>1. e \in Entry /\ Reconciled[op] = Checked(c) /\ e.read \subseteq e.received
    BY <1>1 DEF Kept, Records, Reconciled, Valid
  <2>2. /\ c \in Entry /\ c.id = e.id /\ c.phase = e.phase /\ e.received \subseteq c.received
        /\ c.read \subseteq c.received /\ c.received \subseteq Readers
    BY <2>1 DEF Confirmed, Confirming, Entry
  <2> HIDE DEF c
  <2>3. /\ Checked(c).id = c.id /\ Checked(c).received = c.received /\ Checked(c).read = c.read
        /\ isPending(Checked(c)) => isPending(c)
    BY <2>2 DEF Checked, Entry
  <2>4. isPending(c) => isPending(e)
    BY <2>1, <2>2 DEF isPending, Entry
  <2> QED
    BY <2>1, <2>2, <2>3, <2>4 DEF c
<1>3. Kept(Reconciled) = Kept(memory)
  <2>1. \A op \in Ops : memory[op] = None <=> Reconciled[op] = None
    <3>1. \A op \in Kept(memory) : Reconciled[op] # None
      BY <1>2, Reconciling, NoneAssumption
    <3> QED
      BY <3>1 DEF Kept, Reconciled
  <2> QED
    BY <2>1 DEF Kept
<1>4. Pending(Reconciled) \subseteq Pending(memory)
  BY <1>2, <1>3 DEF Pending
<1>5. \A o, p \in Kept(Reconciled) : o # p => Reconciled[o].id # Reconciled[p].id
  BY <1>1, <1>2, <1>3 DEF Valid
<1> QED
  BY <1>1, <1>2, <1>3, <1>4, <1>5, ValidFewer

\* The oldest records that are not pending make room for one more; the new one
\* is pending, and the send was refused without room for it.
LEMMA ValidAdmitted ==
    ASSUME RecordsInv, process = "unlocked", Valid(journal),
           NEW op \in Ops, memory[op] = None, NEW id \in Ids \ used,
           NEW entry \in Entry, entry.id = id, entry.read \subseteq entry.received,
           Cardinality(Pending(memory)) < MaxPending, NEW D \in Rooms(memory)
    PROVE  Valid(admitOutbox(op, entry, D))
<1> DEFINE new == admitOutbox(op, entry, D)
           K == Kept(memory)
<1>1. memory = journal /\ memory \in Records /\ Sound(memory, used)
  BY DEF RecordsInv, MemoryIsJournal
<1>2. /\ new[op] = entry /\ entry # None
      /\ \A o \in Ops \ {op} : new[o] = IF o \in D THEN None ELSE memory[o]
  BY NoneAssumption DEF admitOutbox
<1>3. D \subseteq K \ Pending(memory) /\ op \notin K
  BY DEF Rooms, Kept
<1> HIDE DEF new
<1>4. Kept(new) = (K \ D) \cup {op}
  BY <1>2, <1>3 DEF Kept
<1>5. IsFiniteSet(K) /\ IsFiniteSet(Pending(memory)) /\ Pending(memory) \subseteq K
  BY FS_Subset, OutboxAssumption DEF Kept, Pending
<1>6. /\ Cardinality(K \ D) = Cardinality(K) - Cardinality(D)
      /\ Cardinality(K) \in Nat /\ Cardinality(D) \in Nat /\ IsFiniteSet(K \ D)
  <2>1. K \cap D = D
    BY <1>3
  <2>2. IsFiniteSet(D)
    BY <1>3, <1>5, FS_Subset
  <2> QED
    BY <1>5, <2>1, <2>2, FS_Difference, FS_CardinalityType
<1>7. Cardinality(Kept(new)) = Cardinality(K) - Cardinality(D) + 1
  BY <1>3, <1>4, <1>6, FS_AddElement
<1>8. Cardinality(Kept(new)) <= MaxTotal
  <2>1. Cardinality(D) = LET extra == Cardinality(K) - MaxTotal + 1
                         IN  IF extra > 0 THEN extra ELSE 0
    BY DEF Rooms
  <2> QED
    BY <1>6, <1>7, <2>1, OutboxAssumption
<1>9. Pending(new) \subseteq Pending(memory) \cup {op}
  <2> SUFFICES ASSUME NEW o \in (K \ D), isPending(new[o])
               PROVE  o \in K /\ isPending(memory[o])
    BY <1>4 DEF Pending
  <2>1. o \in Ops /\ o # op /\ o \notin D
    BY <1>3 DEF Kept
  <2>2. new[o] = memory[o]
    BY <1>2, <2>1
  <2> QED
    BY <2>2
<1>10. Cardinality(Pending(new)) <= MaxPending
  <2> DEFINE P == Pending(memory)
  <2>1. /\ IsFiniteSet(P \cup {op}) /\ Cardinality(P \cup {op}) <= Cardinality(P) + 1
        /\ Cardinality(P) \in Nat
    <3> HIDE DEF P
    <3>1. IsFiniteSet(P)
      BY <1>5 DEF P
    <3>2. /\ IsFiniteSet(P \cup {op}) /\ Cardinality(P) \in Nat
          /\ Cardinality(P \cup {op}) = IF op \in P THEN Cardinality(P) ELSE Cardinality(P) + 1
      BY <3>1, FS_AddElement, FS_CardinalityType
    <3> QED
      BY <3>2
  <2>2. /\ Cardinality(Pending(new)) <= Cardinality(Pending(memory) \cup {op})
        /\ Cardinality(Pending(new)) \in Nat
        /\ Cardinality(Pending(memory) \cup {op}) \in Nat
    BY <1>9, <2>1, FS_Subset, FS_CardinalityType
  <2> QED
    BY <2>1, <2>2, OutboxAssumption
<1>11. \A o \in Kept(new) : new[o].read \subseteq new[o].received
  <2>1. \A o \in K \ D : new[o] = memory[o]
    BY <1>2, <1>3 DEF Kept
  <2> QED
    BY <1>1, <1>2, <1>4, <2>1 DEF Valid
<1>12. \A o, p \in Kept(new) : o # p => new[o].id # new[p].id
  <2>1. \A o \in K \ D : new[o] = memory[o] /\ memory[o].id \in used
    BY <1>1, <1>2, <1>3 DEF Sound, Kept
  <2> QED
    BY <1>1, <1>2, <1>4, <2>1 DEF Valid
<1> QED
  BY <1>8, <1>10, <1>11, <1>12 DEF Valid, new

LEMMA ValidPersist ==
    ASSUME Valid(journal), NEW next, Valid(next), NEW then, persistPrivate(next, then),
           expired' = expired
    PROVE  Valid(journal)'
<1>1. Valid(journal')
  <2>1. journal' \in {journal, next}
    BY DEF persistPrivate, Adopt, PersistFails
  <2> QED
    BY <2>1
<1> QED
  BY <1>1 DEF Valid, Pending, Kept, isPending

\* While no write is under way for the message of a send.
LEMMA NotStoring == ASSUME NEW t \in {"idle", "broadcast", "pins", "user"}, task'.step = t
                    PROVE  Storing'
  BY DEF Storing

LEMMA StoringPersist ==
    ASSUME NEW next, NEW then, persistPrivate(next, then),
           \/ then.step \in {"idle", "broadcast", "pins", "user"}
           \/ then.step = "object" /\ next[then.op].phase = "preparing"
    PROVE  Storing'
<1>1. task' = Idle \/ (task' = then /\ memory' = next)
  BY DEF persistPrivate, Adopt, PersistFails
<1>2. Idle.step = "idle"
  BY DEF Idle
<1> QED
  BY <1>1, <1>2 DEF Storing

LEMMA ValidStep == ASSUME RecordsInv, Valid(journal), Storing, Next
                   PROVE  Valid(journal)' /\ Storing'
<1>1. /\ journal \in Records /\ Idle.step = "idle"
      /\ process = "unlocked" => memory = journal /\ memory \in Records
  BY DEF RecordsInv, MemoryIsJournal, Sound, Idle
<1>2. ASSUME NEW op \in Ops, Attempt(op) PROVE Valid(journal)' /\ Storing'
  <2> DEFINE e == [memory[op] EXCEPT !.attempts = @ + 1]
  <2>1. /\ process = "unlocked" /\ op \in Pending(memory) /\ memory[op].attempts < MaxAttempts
        /\ persistPrivate([memory EXCEPT ![op].attempts = @ + 1],
                          [step |-> "broadcast", op |-> op])
        /\ expired' = expired
    BY <1>2 DEF Attempt, Running, world
  <2>2. memory[op] # None /\ memory[op] \in Entry /\ isPending(memory[op])
        /\ memory[op].read \subseteq memory[op].received
    BY <1>1, <2>1 DEF Pending, Kept, Records, Valid
  <2>3. memory[op].attempts \in Nat /\ memory[op].attempts + 1 \in 0..MaxAttempts
    BY <2>1, <2>2, OutboxAssumption DEF Entry
  <2>4. /\ e \in Entry /\ e.id = memory[op].id /\ e.received = memory[op].received
        /\ e.read = memory[op].read
    BY <2>2, <2>3 DEF Entry
  <2>5. [memory EXCEPT ![op].attempts = @ + 1] = [memory EXCEPT ![op] = e]
    OBVIOUS
  <2> HIDE DEF e
  <2>6. Valid([memory EXCEPT ![op] = e])
    BY <2>1, <2>2, <2>4, ValidEdit
  <2> QED
    BY <2>1, <2>5, <2>6, ValidPersist, StoringPersist
<1>3. ASSUME NEW op \in Ops, NEW id \in Ids, send(op, id) PROVE Valid(journal)' /\ Storing'
  <2> DEFINE entry == [id |-> id, phase |-> "preparing", attempts |-> 0,
                       manualPin |-> FALSE, received |-> {}, read |-> {}]
             then == [step |-> "object", op |-> op]
  <2>1. /\ process = "unlocked" /\ memory[op] = None /\ id \in Ids \ used
        /\ Cardinality(Pending(memory)) < MaxPending /\ expired' = expired
    BY <1>3 DEF send, Running
  <2>2. PICK D \in Rooms(memory) : persistPrivate(admitOutbox(op, entry, D), then)
    BY <1>3 DEF send
  <2>3. entry \in Entry /\ entry.id = id /\ entry.read \subseteq entry.received
        /\ entry.phase = "preparing"
    BY OutboxAssumption DEF Entry
  <2>4. then.step = "object" /\ then.op = op
    OBVIOUS
  <2> HIDE DEF entry, then
  <2>5. Valid(admitOutbox(op, entry, D))
    BY <2>1, <2>3, ValidAdmitted
  <2>6. admitOutbox(op, entry, D)[op] = entry
    BY DEF admitOutbox
  <2> QED
    BY <2>1, <2>2, <2>3, <2>4, <2>5, <2>6, ValidPersist, StoringPersist
<1>4. ASSUME NEW op \in Ops, NEW value \in BOOLEAN, localAction(op, value)
      PROVE  Valid(journal)' /\ Storing'
  <2> DEFINE e == [memory[op] EXCEPT !.manualPin = value]
             then == [step |-> "user", pins |-> {<<memory[op].id, value>>}]
  <2>1. /\ process = "unlocked" /\ memory[op] # None /\ expired' = expired
        /\ persistPrivate([memory EXCEPT ![op].manualPin = value], then)
    BY <1>4 DEF localAction, Running, world
  <2>2. memory[op] \in Entry /\ memory[op].read \subseteq memory[op].received
    BY <1>1, <2>1 DEF Records, Valid, Kept
  <2>3. /\ e \in Entry /\ e.id = memory[op].id /\ e.received = memory[op].received
        /\ e.read = memory[op].read /\ e.phase = memory[op].phase
    BY <2>2 DEF Entry
  <2>4. [memory EXCEPT ![op].manualPin = value] = [memory EXCEPT ![op] = e]
    OBVIOUS
  <2>5. then.step = "user"
    OBVIOUS
  <2> HIDE DEF e, then
  <2>6. isPending(e) => isPending(memory[op])
    BY <2>3 DEF isPending
  <2>7. Valid([memory EXCEPT ![op] = e])
    BY <2>1, <2>2, <2>3, <2>6, ValidEdit
  <2> QED
    BY <2>1, <2>4, <2>5, <2>7, ValidPersist, StoringPersist
<1>5. CASE reconcileOutbox
  <2>1. process = "unlocked" /\ task = Idle /\ expired' = expired
    BY <1>5 DEF reconcileOutbox, Running, world
  <2>2. Then.step \in {"idle", "pins"} /\ Valid(Reconciled)
    BY <2>1, ThenTyped, ValidReconciled
  <2>3. CASE task' = Then /\ UNCHANGED journal
    BY <2>1, <2>2, <2>3, NotStoring DEF Valid, Pending, Kept, isPending
  <2>4. CASE persistPrivate(Reconciled, Then)
    BY <2>1, <2>2, <2>4, ValidPersist, StoringPersist
  <2> QED
    BY <1>5, <2>3, <2>4 DEF reconcileOutbox
<1>6. CASE MakeReady
  <2> DEFINE op == task.op
             e == [memory[op] EXCEPT !.phase = "ready"]
  <2>1. /\ process = "unlocked" /\ op \in Ops /\ memory[op] # None /\ expired' = expired
        /\ persistPrivate([memory EXCEPT ![op].phase = "ready"], Idle)
        /\ memory[op].phase # "unavailable"
    BY <1>6, TaskShape DEF MakeReady, At, RecordsInv, Follows, Storing, world
  <2>2. memory[op] \in Entry /\ memory[op].read \subseteq memory[op].received
    BY <1>1, <2>1 DEF Records, Valid, Kept
  <2>3. /\ e \in Entry /\ e.id = memory[op].id /\ e.received = memory[op].received
        /\ e.read = memory[op].read
    BY <2>2 DEF Entry
  <2>4. [memory EXCEPT ![op].phase = "ready"] = [memory EXCEPT ![op] = e]
    OBVIOUS
  <2> HIDE DEF op, e
  <2>5. isPending(e) => isPending(memory[op])
    BY <2>1, <2>3 DEF isPending
  <2>6. Valid([memory EXCEPT ![op] = e])
    BY <2>1, <2>2, <2>3, <2>5, ValidEdit
  <2> QED
    BY <1>1, <2>1, <2>4, <2>6, ValidPersist, StoringPersist
<1>7. CASE PutRefused \/ WriteObject \/ WriteIndex
  <2>1. UNCHANGED <<journal, memory, expired>>
    BY <1>7 DEF PutRefused, WriteObject, WriteIndex, world
  <2>2. /\ task.step \in {"object", "index"}
        /\ task' \in {Idle, [task EXCEPT !.step = "index"], [task EXCEPT !.step = "ready"]}
    BY <1>7 DEF PutRefused, WriteObject, WriteIndex, At
  <2>3. task = [step |-> task.step, op |-> task.op]
    BY <2>2, TaskShape DEF RecordsInv
  <2>4. task' = Idle \/ task'.op = task.op
    BY <2>2, <2>3
  <2>5. Storing'
    BY <1>1, <2>1, <2>2, <2>4 DEF Storing
  <2> QED
    BY <2>1, <2>5 DEF Valid, Pending, Kept, isPending
<1>8. CASE Broadcast \/ Pin \/ PinFails
  <2>1. UNCHANGED <<journal, expired>>
    BY <1>8 DEF Broadcast, Pin, PinFails, world
  <2>2. task' = Idle \/ task'.step \in {"pins", "user"}
    <3>1. CASE Broadcast
      BY <3>1 DEF Broadcast
    <3>2. CASE Pin \/ PinFails
      <4>1. task.step \in {"pins", "user"}
        BY <3>2 DEF Pin, PinFails, At
      <4>2. task = [step |-> task.step, pins |-> task.pins]
        BY <4>1, TaskShape DEF RecordsInv
      <4>3. \E change : task' \in {Idle, [task EXCEPT !.pins = @ \ {change}]}
        BY <3>2 DEF Pin, PinFails, Rest
      <4> QED
        BY <4>1, <4>2, <4>3
    <3> QED
      BY <1>8, <3>1, <3>2
  <2> QED
    BY <1>1, <2>1, <2>2, NotStoring DEF Valid, Pending, Kept, isPending
<1>9. CASE unlock \/ lock \/ Crash \/ Restart
  <2>1. UNCHANGED <<journal, expired>> /\ task' = Idle
    BY <1>9 DEF unlock, lock, Crash, Restart, world, Running, RecordsInv
  <2> QED
    BY <1>1, <2>1, NotStoring DEF Valid, Pending, Kept, isPending
<1>10. CASE Around
  <2>1. UNCHANGED <<journal, memory, task>> /\ expired \subseteq expired'
    BY <1>10 DEF Around, EvictConfirmation, Evict, Expire, Corrupt, Arrive, world
  <2>2. Valid(journal)'
    <3>1. /\ Kept(journal)' = Kept(journal)
          /\ Pending(journal)' \subseteq Pending(journal)
      BY <2>1 DEF Kept, Pending, isPending
    <3>2. /\ Cardinality(Pending(journal)') <= Cardinality(Pending(journal))
          /\ Cardinality(Pending(journal)') \in Nat /\ Cardinality(Pending(journal)) \in Nat
      <4>1. IsFiniteSet(Pending(journal))
        BY FS_Subset, OutboxAssumption DEF Kept, Pending
      <4> QED
        BY <3>1, <4>1, FS_Subset, FS_CardinalityType
    <3>3. Cardinality(Pending(journal)') <= MaxPending
      BY <3>2, OutboxAssumption DEF Valid
    <3> QED
      BY <2>1, <3>1, <3>3 DEF Valid
  <2> QED
    BY <2>1, <2>2 DEF Storing
<1> QED
  BY <1>2, <1>3, <1>4, <1>5, <1>6, <1>7, <1>8, <1>9, <1>10 DEF Next, Steps, Around

(***************************************************************************)
(* Theorems                                                                *)
(***************************************************************************)

LEMMA InitInv == ASSUME Init PROVE IInv
<1>1. Nothing \in Records /\ \A op \in Ops : Nothing[op] = None
  BY DEF Nothing, Records
<1>2. Idle \in Task /\ Follows(Idle, Nothing)
  BY DEF Idle, Task, Follows
<1>3. [id \in Ids |-> 0] \in [Ids -> 0..MaxAttempts]
  BY OutboxAssumption
<1>4. RecordsInv
  BY <1>1, <1>2, <1>3 DEF Init, RecordsInv, Sound, MemoryIsJournal
<1>5. StoreInv
  BY DEF Init, StoreInv
<1> QED
  BY <1>4, <1>5 DEF IInv

LEMMA StepInv == ASSUME IInv, [Next]_vars PROVE IInv'
<1>1. CASE Next
  BY <1>1, RecordsStep, StoreStep DEF IInv
<1>2. CASE UNCHANGED vars
  <2>1. RecordsInv'
    BY <1>2, FrameStep DEF IInv, RecordsInv, vars, world
  <2>2. StoreInv'
    BY <1>2 DEF IInv, StoreInv, vars, store, world
  <2> QED
    BY <2>1, <2>2 DEF IInv
<1> QED
  BY <1>1, <1>2

\* The records, the call under way and the store always fit together.
THEOREM Inductive == Spec => []IInv
  BY InitInv, StepInv, PTL DEF Spec

\* Every variable keeps its type: no record has more than MaxAttempts attempts,
\* and only what is in the index is pinned.
THEOREM TypeCorrect == Spec => []TypeOK
<1>1. IInv => TypeOK
  BY DEF IInv, RecordsInv, StoreInv, Sound, TypeOK
<1> QED
  BY <1>1, Inductive, PTL

\* The unlocked application decides on the records of the database, whatever
\* became of the writes before (persistPrivate).
THEOREM AdoptCorrect == Spec => []MemoryIsJournal
<1>1. IInv => MemoryIsJournal
  BY DEF IInv, RecordsInv
<1> QED
  BY <1>1, Inductive, PTL

\* No message is broadcast unless the database already counts the attempt
\* (flushOutbox).
THEOREM JournalCorrect == Spec => []JournalFirst
<1>1. IInv => JournalFirst
  BY DEF IInv, RecordsInv, Sound, JournalFirst, Kept
<1> QED
  BY <1>1, Inductive, PTL

\* A pending record is not dropped, and no record is given another message or
\* takes back an attempt or a confirmation (admitOutbox, applyConfirmations,
\* persistPrivate).
THEOREM RecordsCorrect == Spec => RecordsKept
<1> DEFINE Growth ==
      \A op \in Kept(journal) :
          /\ isPending(journal[op]) => journal'[op] # None
          /\ journal'[op] # None =>
                /\ journal'[op].id = journal[op].id
                /\ journal[op].attempts <= journal'[op].attempts
                /\ journal[op].received \subseteq journal'[op].received
                /\ journal[op].read \subseteq journal'[op].read
                /\ journal[op].phase # "preparing" => journal'[op].phase # "preparing"
<1>1. IInv /\ [Next]_vars => [Growth]_vars
  <2>1. SUFFICES ASSUME IInv, Next PROVE Growth
    OBVIOUS
  <2>2. Later(journal, journal')
    BY <2>1, RecordsGrow DEF IInv
  <2> QED
    BY <2>2 DEF Later
<1> HIDE DEF Growth
<1>2. Spec => [][Growth]_vars
  BY <1>1, Inductive, PTL DEF Spec
<1> QED
  BY <1>2 DEF RecordsKept, Growth

\* Unless the index cannot be written, the content of a send leaves the store
\* only unpinned, expired or damaged (reconcileOutbox, Evict).
THEOREM PinsCorrect == ASSUME "index" \notin Failing PROVE Spec => PinnedIsKept
<1> DEFINE Stays ==
      \A id \in (files \cap held \cap pinned) \ expired : id \in files' \/ id \in held'
<1>1. [Next]_vars => [Stays]_vars
  <2>1. SUFFICES ASSUME Next PROVE Stays
    OBVIOUS
  <2>2. ASSUME UNCHANGED files \/ UNCHANGED held \/ files \subseteq files' PROVE Stays
    BY <2>2
  <2>3. ASSUME NEW op \in Ops,
               Attempt(op) \/ (\E id \in Ids : send(op, id))
                  \/ (\E value \in BOOLEAN : localAction(op, value))
        PROVE  Stays
    BY <2>2, <2>3 DEF Attempt, send, localAction, store
  <2>4. CASE reconcileOutbox \/ MakeReady \/ Broadcast \/ PutRefused \/ unlock \/ lock
    BY <2>2, <2>4 DEF reconcileOutbox, MakeReady, Broadcast, PutRefused, unlock, lock, store
  <2>5. CASE WriteObject \/ WriteIndex \/ Pin \/ Crash \/ EvictConfirmation
    BY <2>2, <2>5 DEF WriteObject, WriteIndex, Pin, Crash, EvictConfirmation, store
  <2>6. CASE PinFails
    <3>1. PICK change : ~Verified(change[1]) /\ files \ {change[1]} \subseteq files'
      BY <2>6 DEF PinFails
    <3> QED
      BY <3>1 DEF Verified
  <2>7. CASE Restart
    BY <2>7 DEF Restart
  <2>8. CASE \E id \in Ids : Evict(id) \/ Expire(id) \/ Corrupt(id)
    BY <2>8 DEF Evict, Expire, Corrupt, store
  <2>9. CASE \E id \in Ids, r \in Readers, kind \in {"delivery", "receipt"} : Arrive(id, r, kind)
    BY <2>2, <2>9 DEF Arrive, store
  <2> QED
    BY <2>1, <2>3, <2>4, <2>5, <2>6, <2>7, <2>8, <2>9 DEF Next, Steps
<1> HIDE DEF Stays
<1>2. Spec => [][Stays]_vars
  BY <1>1, PTL DEF Spec
<1> QED
  BY <1>2 DEF PinnedIsKept, Stays

\* What is written in the outbox can be read again (validateOutbox): the limits
\* on kept and on pending records, distinct messages, and readers that are
\* recipients; admitOutbox makes room before it writes, and a record that was
\* given up is never pending again.
THEOREM OpensCorrect == Spec => []Opens
<1> DEFINE VInv == IInv /\ Valid(journal) /\ Storing
<1>1. Init => VInv
  <2> SUFFICES ASSUME Init PROVE VInv
    OBVIOUS
  <2>1. Kept(journal) = {} /\ Pending(journal) = {}
    BY DEF Init, Kept, Pending, Nothing
  <2>2. Valid(journal)
    BY <2>1, FS_EmptySet, OutboxAssumption DEF Valid
  <2> QED
    BY <2>2, InitInv DEF Storing, Init, Idle
<1>2. VInv /\ [Next]_vars => VInv'
  <2> SUFFICES ASSUME VInv, [Next]_vars PROVE VInv'
    OBVIOUS
  <2>1. CASE Next
    BY <2>1, StepInv, ValidStep DEF IInv
  <2>2. CASE UNCHANGED vars
    BY <2>2, StepInv DEF Storing, Valid, Pending, Kept, isPending, vars, world
  <2> QED
    BY <2>1, <2>2
<1>3. VInv => Opens
  BY DEF Opens
<1> QED
  BY <1>1, <1>2, <1>3, PTL DEF Spec
=============================================================================
