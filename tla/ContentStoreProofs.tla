------------------------- MODULE ContentStoreProofs -------------------------
(***************************************************************************)
(* Proofs about module ContentStore, for any set of objects, quotas and    *)
(* failing writes: the types, that pins survive, that a reservation stays  *)
(* protected until a call that releases it has succeeded, and that a       *)
(* restart leaves the index and the files in agreement.  At the end, about *)
(* Messages, whose nodes keep objects in such stores: deletions stick.     *)
(***************************************************************************)
EXTENDS ContentStore, Mutations, WellFoundedInduction, TLAPS

\* An operation ends with its pins and reservations protected by the index it
\* writes, and unlinks none of them; what is promised meanwhile is less.
Jobs == [kind : {"insert", "pin", "reserve", "remove", "quota", "open"},
         step : {"object", "unlink", "config"}, object : Ids \cup {None},
         gone : SUBSET Ids, target : Index, quota : Quotas, promise : Promise]
Written == IF op.step = "object" THEN good \cup {op.object} ELSE good

\* The protected, of a promise: what the invariant keeps on disk and in an index.
Live(S) == S \ expired

Job ==
    op # Idle =>
       /\ process = "up"
       /\ op.step = "object" => op.object \in Ids \ op.gone
       /\ Live(promised.pinned) \subseteq op.target.pinned \ op.gone
       /\ Live(op.promise.pinned) \subseteq (op.target.pinned \cap Written) \ op.gone
       /\ Live(promised.standing) \cap op.gone = {}
       /\ op.kind # "reserve" => Live(promised.standing) \subseteq op.target.reserved
       /\ Live(op.promise.standing) \subseteq (op.target.reserved \cap Written) \ op.gone
       /\ op.kind = "open" => /\ op.step = "unlink" /\ good \cup bad = index.held
                              /\ op.target.held = index.held \ op.gone

Pins ==
    /\ Live(promised.pinned) \subseteq good \cap disk.pinned
    /\ process = "up" => Live(promised.pinned) \subseteq index.pinned

Stands ==
    /\ Live(promised.standing) \subseteq good
    /\ IF process = "up" THEN Live(promised.standing) \subseteq index.reserved
                         ELSE Live(promised.standing) \subseteq disk.reserved
    /\ op # Idle /\ op.kind = "open" => Live(promised.standing) \subseteq disk.reserved

IInv == TypeOK /\ Job /\ Pins /\ Stands

-----------------------------------------------------------------------------
(* Entries and plans. *)

LEMMA WithoutType ==
    ASSUME NEW idx \in Index, NEW S
    PROVE  /\ Without(idx, S) \in Index
           /\ Without(idx, S).held = idx.held \ S
           /\ Without(idx, S).pinned = idx.pinned \ S
           /\ Without(idx, S).reserved = idx.reserved \ S
<1>1. DOMAIN idx = {"held", "pinned", "reserved"}
  BY DEF Index
<1>2. Without(idx, S) = [held |-> idx.held \ S, pinned |-> idx.pinned \ S,
                         reserved |-> idx.reserved \ S]
  BY <1>1 DEF Without
<1> QED
  BY <1>2 DEF Index

LEMMA WithoutPromise ==
    ASSUME NEW p \in Promise, NEW S
    PROVE  /\ Without(p, S) \in Promise
           /\ Without(p, S).pinned = p.pinned \ S
           /\ Without(p, S).reserved = p.reserved \ S
           /\ Without(p, S).standing = p.standing \ S
<1>1. DOMAIN p = {"pinned", "reserved", "standing"}
  BY DEF Promise
<1>2. Without(p, S) = [pinned |-> p.pinned \ S, reserved |-> p.reserved \ S,
                       standing |-> p.standing \ S]
  BY <1>1 DEF Without
<1> QED
  BY <1>2 DEF Promise

\* What is planned to go is expired or not protected.
LEMMA PlanSpares ==
    ASSUME NEW idx \in Index, NEW size, NEW added, NEW q, NEW V \in Plans(idx, size, added, q)
    PROVE  V \subseteq idx.held /\ Live(V) \cap (idx.pinned \cup idx.reserved) = {}
  BY DEF Plans, Live

LEMMA EmptyType == Empty \in Index
  BY DEF Empty, Index

LEMMA JobType ==
    ASSUME TypeOK
    PROVE  /\ op # Idle <=> op \in Jobs
           /\ op.kind = "open" => op # Idle
<1>1. Idle.kind = "idle" /\ \A j \in Jobs : j.kind # "idle"
  BY DEF Idle, Jobs
<1>2. op = Idle \/ op \in Jobs
  BY DEF TypeOK, Op, Jobs
<1> QED
  BY <1>1, <1>2

-----------------------------------------------------------------------------
(* An operation starts. *)

LEMMA BeginStep ==
    ASSUME IInv, Ready, NEW kind \in {"insert", "pin", "reserve", "remove", "quota"},
           NEW object \in Ids \cup {None}, NEW gone \in SUBSET Ids, NEW target \in Index,
           NEW q \in Quotas, NEW promise \in Promise,
           Begin(kind, object, gone, target, q, promise),
           object \notin gone,
           Live(promised.pinned \cap promise.pinned) \subseteq target.pinned \ gone,
           Live(promise.pinned) \subseteq (target.pinned \cap (good \cup {object})) \ gone,
           Live(promise.standing) \subseteq (target.reserved \cap (good \cup {object})) \ gone,
           IF kind = "remove" THEN promise.standing \subseteq promised.standing
           ELSE /\ Live(promised.standing) \cap gone = {}
                /\ kind # "reserve" => Live(promised.standing) \subseteq target.reserved
    PROVE  IInv'
<1> DEFINE job == [kind |-> kind, step |-> IF object = None THEN "unlink" ELSE "object",
                   object |-> object, gone |-> gone, target |-> target, quota |-> q,
                   promise |-> promise]
           less == [pinned |-> promised.pinned \cap promise.pinned,
                    reserved |-> promised.reserved \cap promise.reserved,
                    standing |-> IF kind = "remove" THEN promise.standing
                                                   ELSE promised.standing]
<1>1. /\ op' = job /\ promised' = less
      /\ UNCHANGED <<good, bad, disk, index, quota, wanted, config, process, expired>>
  BY DEF Begin
<1>2. job \in Jobs /\ less \in Promise
  BY DEF Jobs, IInv, TypeOK, Promise
<1>3. /\ job.kind = kind /\ job.step = (IF object = None THEN "unlink" ELSE "object")
      /\ job.object = object /\ job.gone = gone /\ job.target = target /\ job.promise = promise
      /\ less.pinned = promised.pinned \cap promise.pinned
      /\ less.standing = IF kind = "remove" THEN promise.standing ELSE promised.standing
      /\ less.standing \subseteq promised.standing
  OBVIOUS
<1> HIDE DEF job, less
<1>4. process = "up" /\ op = Idle
  BY DEF Ready
<1>5. TypeOK'
  BY <1>1, <1>2 DEF IInv, TypeOK, Op, Jobs
<1>6. Pins' /\ Stands'
  BY <1>1, <1>3, <1>4 DEF IInv, Pins, Stands, Live
<1>7. Job'
  <2>1. promise.pinned \subseteq Ids /\ promise.standing \subseteq Ids /\ None \notin Ids
    BY StoreAssumption DEF Promise
  <2>2. /\ Live(promise.pinned) \subseteq Written'
        /\ Live(promise.standing) \subseteq Written'
    BY <1>1, <1>3, <2>1 DEF Written, Live
  <2>3. /\ Live(less.pinned) \subseteq target.pinned \ gone
        /\ Live(less.standing) \cap gone = {}
        /\ kind # "reserve" => Live(less.standing) \subseteq target.reserved
    BY <1>3
  <2>4. (op.step = "object")' => (op.object \in Ids \ op.gone)'
    BY <1>1, <1>3
  <2> QED
    BY <1>1, <1>3, <1>4, <2>2, <2>3, <2>4 DEF Job, Live
<1> QED
  BY <1>5, <1>6, <1>7 DEF IInv

\* What holds when an operation can start.
LEMMA ReadyFacts ==
    ASSUME IInv, Ready
    PROVE  /\ index \in Index /\ promised \in Promise /\ quota \in Quotas
           /\ good \subseteq Ids /\ bad \subseteq Ids
           /\ Live(promised.pinned) \subseteq good \cap index.pinned
           /\ Live(promised.standing) \subseteq good \cap index.reserved
  BY DEF IInv, TypeOK, Ready, Pins, Stands

LEMMA insertStep ==
    ASSUME IInv, NEW id \in Ids, NEW pinned \in BOOLEAN, NEW reserve \in BOOLEAN,
           insert(id, pinned, reserve)
    PROVE  IInv'
<1> DEFINE p == IF pinned THEN {id} ELSE {}
           r == IF reserve THEN {id} ELSE {}
<1>1. PICK V \in Plans(index, Size[id], 1, quota) :
         Begin("insert", id, V,
               [held |-> (index.held \ V) \cup {id}, pinned |-> (index.pinned \ V) \cup p,
                reserved |-> (index.reserved \ V) \cup r],
               quota, Promising(p, r))
  BY DEF insert
<1>2. Ready /\ id \notin expired \cup index.held
  BY DEF insert
<1> DEFINE target == [held |-> (index.held \ V) \cup {id}, pinned |-> (index.pinned \ V) \cup p,
                      reserved |-> (index.reserved \ V) \cup r]
           promise == Promising(p, r)
<1>3. V \subseteq index.held /\ Live(V) \cap (index.pinned \cup index.reserved) = {}
  BY <1>2, PlanSpares, ReadyFacts
<1>4. /\ V \in SUBSET Ids /\ id \notin V /\ target \in Index /\ promise \in Promise
      /\ target.pinned = (index.pinned \ V) \cup p
      /\ target.reserved = (index.reserved \ V) \cup r
      /\ promise.pinned = promised.pinned \cup p
      /\ promise.standing = promised.standing \cup r
  BY <1>2, <1>3, ReadyFacts DEF Index, Promise, Promising
<1>5. p \subseteq {id} /\ r \subseteq {id}
  OBVIOUS
<1> HIDE DEF target, promise, p, r
<1>6. Live(promise.pinned) \subseteq (target.pinned \cap (good \cup {id})) \ V
  BY <1>2, <1>3, <1>4, <1>5, ReadyFacts DEF Live
<1>7. /\ Live(promise.standing) \subseteq (target.reserved \cap (good \cup {id})) \ V
      /\ Live(promised.standing) \subseteq target.reserved
      /\ Live(promised.standing) \cap V = {}
  BY <1>2, <1>3, <1>4, <1>5, ReadyFacts DEF Live
<1>8. Live(promised.pinned \cap promise.pinned) \subseteq target.pinned \ V
  BY <1>6 DEF Live
<1>9. Begin("insert", id, V, target, quota, promise)
  BY <1>1 DEF target, promise
<1> QED
  BY <1>2, <1>4, <1>6, <1>7, <1>8, <1>9, ReadyFacts, BeginStep

LEMMA setReservationsStep ==
    ASSUME IInv, NEW S \in SUBSET Ids, setReservations(S) PROVE IInv'
<1> DEFINE promise == [promised EXCEPT !.reserved = S, !.standing = S]
           target == [index EXCEPT !.reserved = S]
<1>1. Ready /\ S \subseteq index.held \cap good /\ S \cap expired = {}
  BY DEF setReservations, Readable
<1>2. /\ promise \in Promise /\ promise.pinned = promised.pinned /\ promise.standing = S
      /\ target \in Index /\ target.pinned = index.pinned /\ target.reserved = S
  BY <1>1, ReadyFacts DEF Promise, Index
<1> HIDE DEF promise, target
<1>3. CASE S = index.reserved
  <2>1. /\ promised' = promise
        /\ UNCHANGED <<good, bad, disk, index, quota, wanted, config, process, op, expired>>
    BY <1>3 DEF setReservations, promise
  <2>2. TypeOK'
    BY <1>2, <2>1 DEF IInv, TypeOK
  <2>3. Pins' /\ Stands' /\ Job'
    BY <1>1, <1>2, <1>3, <2>1 DEF IInv, Pins, Stands, Job, Live, Ready
  <2> QED
    BY <2>2, <2>3 DEF IInv
<1>4. CASE S # index.reserved
  <2>1. Begin("reserve", None, {}, target, quota, promise)
    BY <1>4 DEF setReservations, promise, target
  <2>2. /\ Live(promise.pinned) \subseteq (target.pinned \cap (good \cup {None})) \ {}
        /\ Live(promised.pinned \cap promise.pinned) \subseteq target.pinned \ {}
        /\ Live(promise.standing) \subseteq (target.reserved \cap (good \cup {None})) \ {}
        /\ Live(promised.standing) \cap {} = {}
    BY <1>1, <1>2, ReadyFacts DEF Live
  <2> QED
    BY <1>1, <1>2, <2>1, <2>2, ReadyFacts, BeginStep
<1> QED
  BY <1>3, <1>4

LEMMA reserveHeldStep == ASSUME IInv, NEW id \in Ids, reserveHeld(id) PROVE IInv'
<1>1. setReservations(index.reserved \cup {id}) /\ index.reserved \cup {id} \in SUBSET Ids
  BY DEF reserveHeld, IInv, TypeOK, Index
<1> QED
  BY <1>1, setReservationsStep

LEMMA pinStep == ASSUME IInv, NEW id \in Ids, NEW pinned \in BOOLEAN, pin(id, pinned) PROVE IInv'
<1> DEFINE pins == IF pinned THEN index.pinned \cup {id} ELSE index.pinned \ {id}
           target == [index EXCEPT !.pinned = pins]
           promise == [promised EXCEPT !.pinned = IF pinned THEN @ \cup {id} ELSE @ \ {id}]
<1>1. Ready /\ id \in index.held \cap good /\ Begin("pin", None, {}, target, quota, promise)
  BY DEF pin, Readable
<1>2. /\ promise \in Promise /\ promise.standing = promised.standing
      /\ promise.pinned = IF pinned THEN promised.pinned \cup {id} ELSE promised.pinned \ {id}
      /\ target \in Index /\ target.pinned = pins /\ target.reserved = index.reserved
  BY <1>1, ReadyFacts DEF Promise, Index
<1> HIDE DEF promise, target
<1>3. /\ Live(promise.pinned) \subseteq (target.pinned \cap (good \cup {None})) \ {}
      /\ Live(promised.pinned \cap promise.pinned) \subseteq target.pinned \ {}
      /\ Live(promise.standing) \subseteq (target.reserved \cap (good \cup {None})) \ {}
      /\ Live(promised.standing) \cap {} = {} /\ Live(promised.standing) \subseteq target.reserved
  BY <1>1, <1>2, ReadyFacts DEF Live
<1> QED
  BY <1>1, <1>2, <1>3, ReadyFacts, BeginStep

LEMMA removeStep == ASSUME IInv, NEW id \in Ids, remove(id) PROVE IInv'
<1> DEFINE target == Without(index, {id})
           promise == Without(promised, {id})
<1>1. Ready /\ Begin("remove", None, {id}, target, quota, promise)
  BY DEF remove
<1>2. /\ promise \in Promise /\ promise.pinned = promised.pinned \ {id}
      /\ promise.standing = promised.standing \ {id}
      /\ target \in Index /\ target.pinned = index.pinned \ {id}
      /\ target.reserved = index.reserved \ {id}
  BY <1>1, ReadyFacts, WithoutType, WithoutPromise
<1> HIDE DEF promise, target
<1>3. /\ Live(promise.pinned) \subseteq (target.pinned \cap (good \cup {None})) \ {id}
      /\ Live(promised.pinned \cap promise.pinned) \subseteq target.pinned \ {id}
      /\ Live(promise.standing) \subseteq (target.reserved \cap (good \cup {None})) \ {id}
      /\ promise.standing \subseteq promised.standing /\ None \notin {id}
  BY <1>1, <1>2, ReadyFacts, StoreAssumption DEF Live
<1> QED
  BY <1>1, <1>2, <1>3, ReadyFacts, BeginStep

LEMMA settingsStep == ASSUME IInv, NEW q \in Quotas, settings(q) PROVE IInv'
<1>1. Ready
  BY DEF settings
<1>2. PICK V \in Plans(index, 0, 0, q) : Begin("quota", None, V, Without(index, V), q, promised)
  BY DEF settings
<1> DEFINE target == Without(index, V)
<1>3. V \subseteq index.held /\ Live(V) \cap (index.pinned \cup index.reserved) = {}
  BY <1>1, PlanSpares, ReadyFacts
<1>4. /\ V \in SUBSET Ids /\ None \notin V
      /\ target \in Index /\ target.pinned = index.pinned \ V
      /\ target.reserved = index.reserved \ V
  BY <1>1, <1>3, ReadyFacts, WithoutType, StoreAssumption DEF Index
<1>5. Begin("quota", None, V, target, q, promised)
  BY <1>2
<1> HIDE DEF target
<1>6. /\ Live(promised.pinned) \subseteq (target.pinned \cap (good \cup {None})) \ V
      /\ Live(promised.pinned \cap promised.pinned) \subseteq target.pinned \ V
      /\ Live(promised.standing) \subseteq (target.reserved \cap (good \cup {None})) \ V
      /\ Live(promised.standing) \cap V = {} /\ Live(promised.standing) \subseteq target.reserved
  BY <1>1, <1>3, <1>4, ReadyFacts DEF Live
<1> QED
  BY <1>1, <1>4, <1>5, <1>6, ReadyFacts, BeginStep

-----------------------------------------------------------------------------
(* An operation writes. *)

\* What an operation under way is, and what the invariant says of it.
LEMMA RunningFacts ==
    ASSUME IInv, op # Idle
    PROVE  /\ op \in Jobs /\ process = "up" /\ op.target \in Index /\ op.promise \in Promise
           /\ op.gone \subseteq Ids /\ op.quota \in Quotas
           /\ op.step = "object" => op.object \in Ids \ op.gone
           /\ Live(promised.pinned) \subseteq op.target.pinned \ op.gone
           /\ Live(op.promise.pinned) \subseteq (op.target.pinned \cap Written) \ op.gone
           /\ Live(promised.standing) \cap op.gone = {}
           /\ op.kind # "reserve" => Live(promised.standing) \subseteq op.target.reserved
           /\ Live(op.promise.standing) \subseteq (op.target.reserved \cap Written) \ op.gone
           /\ op.kind = "open" => /\ op.step = "unlink" /\ good \cup bad = index.held
                                  /\ op.target.held = index.held \ op.gone
                                  /\ Live(promised.standing) \subseteq disk.reserved
           /\ Live(promised.pinned) \subseteq good \cap disk.pinned
           /\ Live(promised.pinned) \subseteq index.pinned
           /\ Live(promised.standing) \subseteq good \cap index.reserved
<1>1. op \in Jobs
  BY JobType DEF IInv
<1> QED
  BY <1>1 DEF IInv, Job, Pins, Stands, Jobs

\* An operation that goes on is the same but for its step or what it unlinks.
LEMMA Move ==
    ASSUME NEW j \in Jobs, NEW step \in {"object", "unlink", "config"}
    PROVE  LET next == [j EXCEPT !.step = step]
           IN  /\ next \in Jobs /\ next # Idle /\ next.step = step /\ next.gone = j.gone
               /\ next.kind = j.kind /\ next.object = j.object /\ next.target = j.target
               /\ next.promise = j.promise
<1>1. [j EXCEPT !.step = step] \in Jobs /\ [j EXCEPT !.step = step].kind # "idle"
  BY DEF Jobs
<1> QED
  BY <1>1 DEF Jobs, Idle

LEMMA Drop ==
    ASSUME NEW j \in Jobs, NEW gone \in SUBSET Ids
    PROVE  LET next == [j EXCEPT !.gone = gone]
           IN  /\ next \in Jobs /\ next # Idle /\ next.step = j.step /\ next.gone = gone
               /\ next.kind = j.kind /\ next.object = j.object /\ next.target = j.target
               /\ next.promise = j.promise
<1>1. [j EXCEPT !.gone = gone] \in Jobs /\ [j EXCEPT !.gone = gone].kind # "idle"
  BY DEF Jobs
<1> QED
  BY <1>1 DEF Jobs, Idle

\* Types that a step of an operation keeps.
LEMMA StepType ==
    ASSUME TypeOK, op' \in Jobs \cup {Idle}, good' \subseteq Ids, bad' \subseteq Ids,
           disk' \in Index, index' \in Index, quota' \in Quotas, wanted' \in Quotas,
           config' \in Quotas, process' \in {"up", "down", "refused"}, promised' \in Promise,
           expired' \subseteq Ids
    PROVE  TypeOK'
  BY DEF TypeOK, Op, Jobs

LEMMA WriteObjectStep == ASSUME IInv, WriteObject PROVE IInv'
<1>1. /\ op # Idle /\ op.step = "object"
      /\ good' = good \cup {op.object} /\ bad' = bad \ {op.object}
      /\ UNCHANGED <<disk, index, quota, wanted, config, process, expired, promised>>
  BY DEF WriteObject, Running
<1> DEFINE next == [op EXCEPT !.step = "unlink"]
<1>2. op' = next
  BY DEF WriteObject
<1>3. /\ next \in Jobs /\ next # Idle /\ next.step = "unlink" /\ next.gone = op.gone
      /\ next.kind = op.kind /\ next.target = op.target /\ next.promise = op.promise
  BY <1>1, RunningFacts, Move
<1>4. op.kind # "open" /\ op.object \in Ids
  BY <1>1, RunningFacts
<1> HIDE DEF next
<1>5. TypeOK'
  BY <1>1, <1>2, <1>3, <1>4, StepType DEF IInv, TypeOK
<1>6. Written' = Written
  BY <1>1, <1>2, <1>3 DEF Written
<1>7. Job'
  BY <1>1, <1>2, <1>3, <1>4, <1>6, RunningFacts DEF Job, Live
<1>8. Pins' /\ Stands'
  BY <1>1, <1>2, <1>3, <1>4, RunningFacts DEF Pins, Stands, Live
<1> QED
  BY <1>5, <1>7, <1>8 DEF IInv

\* An operation that is over, or thrown out of.
LEMMA OverStep == ASSUME op' = Idle, TypeOK', Pins', Stands' PROVE IInv'
  BY DEF IInv, Job

LEMMA ThrowFacts ==
    ASSUME IInv, op # Idle, Throw
    PROVE  /\ op' = Idle
           /\ process' = IF op.kind = "open" THEN "down" ELSE "up"
  BY RunningFacts DEF Throw

LEMMA WriteObjectFailsStep == ASSUME IInv, WriteObjectFails PROVE IInv'
<1>1. /\ op # Idle /\ op.step = "object" /\ Throw
      /\ good' \in {good, good \cup {op.object}} /\ bad' \in {bad, bad \ {op.object}}
      /\ UNCHANGED <<disk, index, quota, wanted, config, expired, promised>>
  BY DEF WriteObjectFails, Running
<1>2. op.object \in Ids /\ op.kind # "open" /\ op' = Idle /\ process' = "up"
  BY <1>1, RunningFacts, ThrowFacts
<1>3. TypeOK'
  BY <1>1, <1>2, StepType DEF IInv, TypeOK
<1>4. Pins' /\ Stands'
  BY <1>1, <1>2, RunningFacts DEF Pins, Stands, Live
<1> QED
  BY <1>2, <1>3, <1>4, OverStep

LEMMA UnlinkStep == ASSUME IInv, Unlink PROVE IInv'
<1>1. PICK id \in op.gone :
         /\ good' = good \ {id} /\ bad' = bad \ {id}
         /\ index' = Without(index, {id})
         /\ op' = [op EXCEPT !.gone = @ \ {id}]
  BY DEF Unlink
<1>2. /\ op # Idle /\ op.step = "unlink"
      /\ UNCHANGED <<disk, quota, wanted, config, process, expired, promised>>
  BY DEF Unlink, Running
<1> DEFINE gone == op.gone \ {id}
           next == [op EXCEPT !.gone = gone]
<1>3. op' = next
  BY <1>1
<1>4. gone \in SUBSET Ids /\ op \in Jobs
  BY <1>2, RunningFacts
<1>5. /\ next \in Jobs /\ next # Idle /\ next.step = "unlink" /\ next.gone = op.gone \ {id}
      /\ next.kind = op.kind /\ next.target = op.target /\ next.promise = op.promise
  BY <1>2, <1>4, Drop
<1>6. /\ index' \in Index /\ index'.held = index.held \ {id}
      /\ index'.pinned = index.pinned \ {id} /\ index'.reserved = index.reserved \ {id}
  BY <1>1, WithoutType DEF IInv, TypeOK
<1> HIDE DEF next, gone
<1>7. TypeOK'
  BY <1>1, <1>2, <1>3, <1>5, <1>6, StepType DEF IInv, TypeOK
<1>8. Written = good /\ Written' = good'
  BY <1>2, <1>3, <1>5 DEF Written
<1>9. Job'
  <2>1. /\ next.gone \subseteq op.gone
        /\ Live(op.promise.pinned) \subseteq (op.target.pinned \cap good') \ next.gone
        /\ Live(op.promise.standing) \subseteq (op.target.reserved \cap good') \ next.gone
    BY <1>1, <1>2, <1>5, <1>8, RunningFacts
  <2>2. op.kind = "open" => /\ good' \cup bad' = index'.held
                            /\ op.target.held = index'.held \ next.gone
    BY <1>1, <1>2, <1>5, <1>6, RunningFacts
  <2>3. op'.step = "unlink" /\ process' = "up"
    BY <1>2, <1>3, <1>5, RunningFacts
  <2> QED
    BY <1>2, <1>3, <1>5, <1>8, <2>1, <2>2, <2>3, RunningFacts DEF Job, Live
<1>10. Pins' /\ Stands'
  BY <1>1, <1>2, <1>3, <1>5, <1>6, RunningFacts DEF Pins, Stands, Live
<1> QED
  BY <1>7, <1>9, <1>10 DEF IInv

LEMMA UnlinkFailsStep == ASSUME IInv, UnlinkFails PROVE IInv'
<1>1. /\ op # Idle /\ Throw
      /\ UNCHANGED <<good, bad, disk, index, quota, wanted, config, expired, promised>>
  BY DEF UnlinkFails, Running
<1>2. op' = Idle /\ process' = IF op.kind = "open" THEN "down" ELSE "up"
  BY <1>1, ThrowFacts
<1>3. TypeOK'
  BY <1>1, <1>2, StepType DEF IInv, TypeOK
<1>4. Pins' /\ Stands'
  BY <1>1, <1>2, RunningFacts DEF Pins, Stands, Live
<1> QED
  BY <1>2, <1>3, <1>4, OverStep

LEMMA WriteIndexStep == ASSUME IInv, WriteIndex PROVE IInv'
<1>1. /\ op # Idle /\ op.step = "unlink" /\ op.gone = {}
      /\ index' = op.target /\ disk' = op.target /\ quota' = op.quota
      /\ promised' = op.promise
      /\ UNCHANGED <<good, bad, config, process, expired>>
  BY DEF WriteIndex, Running
<1>2. Live(op.promise.pinned) \subseteq op.target.pinned \cap good
      /\ Live(op.promise.standing) \subseteq op.target.reserved \cap good
  BY <1>1, RunningFacts DEF Written
<1>3. Pins' /\ Stands'
  BY <1>1, <1>2, RunningFacts DEF Pins, Stands, Live
<1>4. CASE op.kind = "quota"
  <2> DEFINE next == [op EXCEPT !.step = "config"]
  <2>1. op' = next /\ wanted' = op.quota
    BY <1>4 DEF WriteIndex
  <2>2. /\ next \in Jobs /\ next # Idle /\ next.step = "config" /\ next.gone = {}
        /\ next.kind = "quota" /\ next.target = op.target /\ next.promise = op.promise
    BY <1>1, <1>4, RunningFacts, Move
  <2> HIDE DEF next
  <2>3. TypeOK'
    BY <1>1, <2>1, <2>2, RunningFacts, StepType DEF IInv, TypeOK
  <2>4. Job'
    BY <1>1, <1>2, <2>1, <2>2, RunningFacts DEF Job, Live, Written
  <2> QED
    BY <1>3, <2>3, <2>4 DEF IInv
<1>5. CASE op.kind # "quota"
  <2>1. op' = Idle /\ wanted' = wanted
    BY <1>5 DEF WriteIndex
  <2>2. TypeOK'
    BY <1>1, <2>1, RunningFacts, StepType DEF IInv, TypeOK
  <2> QED
    BY <1>3, <2>1, <2>2, OverStep
<1> QED
  BY <1>4, <1>5

LEMMA WriteIndexFailsStep == ASSUME IInv, WriteIndexFails PROVE IInv'
<1> DEFINE union == [op.target EXCEPT !.reserved = @ \cup index.reserved]
<1>1. /\ op # Idle /\ op.step = "unlink" /\ Throw
      /\ index' = IF op.kind = "reserve" THEN union ELSE op.target
      /\ disk' \in {disk, op.target} /\ quota' = op.quota
      /\ UNCHANGED <<good, bad, wanted, config, expired, promised>>
  BY DEF WriteIndexFails, Running
<1>2. op' = Idle /\ process' = IF op.kind = "open" THEN "down" ELSE "up"
  BY <1>1, ThrowFacts
<1>3. /\ union \in Index /\ union.pinned = op.target.pinned
      /\ union.reserved = op.target.reserved \cup index.reserved
  BY <1>1, RunningFacts DEF Index, IInv, TypeOK
<1> HIDE DEF union
<1>4. TypeOK'
  BY <1>1, <1>2, <1>3, RunningFacts, StepType DEF IInv, TypeOK
<1>5. Pins'
  BY <1>1, <1>2, <1>3, RunningFacts DEF Pins, Live
<1>6. Stands'
  BY <1>1, <1>2, <1>3, RunningFacts, JobType DEF Stands, Live, Idle
<1> QED
  BY <1>2, <1>4, <1>5, <1>6, OverStep

LEMMA saveConfigStep == ASSUME IInv, saveConfig \/ SaveConfigFails PROVE IInv'
<1>1. /\ op' = Idle /\ config' \in {config, wanted}
      /\ UNCHANGED <<good, bad, disk, index, quota, wanted, process, expired, promised>>
      /\ process = "up"
  BY DEF saveConfig, SaveConfigFails, Running, Ready
<1>2. TypeOK'
  BY <1>1, StepType DEF IInv, TypeOK
<1>3. Pins' /\ Stands'
  BY <1>1 DEF IInv, Pins, Stands, Live
<1> QED
  BY <1>1, <1>2, <1>3, OverStep

-----------------------------------------------------------------------------
(* A restart, and the environment. *)

LEMMA openStep == ASSUME IInv, open PROVE IInv'
<1> DEFINE kept == good \ expired
           found == [held |-> kept, pinned |-> disk.pinned \cap kept,
                     reserved |-> disk.reserved \cap kept]
<1>1. /\ process = "down" /\ good' = kept /\ bad' = {}
      /\ quota' = config /\ wanted' = config
      /\ UNCHANGED <<disk, config, expired, promised>>
  BY DEF open
<1>2. /\ found \in Index /\ found.held = kept
      /\ found.pinned = disk.pinned \cap kept /\ found.reserved = disk.reserved \cap kept
  BY DEF IInv, TypeOK, Index
<1>3. op = Idle
  BY <1>1 DEF IInv, Job
<1>4. Live(promised.pinned) \subseteq kept \cap disk.pinned
  BY DEF IInv, Pins, Live
<1>5. Live(promised.standing) \subseteq kept \cap disk.reserved
  BY <1>1 DEF IInv, Stands, Live
<1>6. CASE Plans(found, 0, 0, config) = {}
  <2>1. process' = "refused" /\ UNCHANGED <<index, op>>
    BY <1>6 DEF open
  <2> HIDE DEF found, kept
  <2>2. TypeOK'
    BY <1>1, <1>2, <1>3, <2>1, StepType DEF IInv, TypeOK, Index, kept
  <2>3. Pins' /\ Stands' /\ Job'
    BY <1>1, <1>3, <1>4, <1>5, <2>1 DEF Pins, Stands, Job, Live
  <2> QED
    BY <2>2, <2>3 DEF IInv
<1>7. CASE Plans(found, 0, 0, config) # {}
  <2>1. PICK V \in Plans(found, 0, 0, config) :
           /\ process' = "up" /\ index' = found
           /\ op' = [kind |-> "open", step |-> "unlink", object |-> None,
                     gone |-> V, target |-> Without(found, V),
                     quota |-> config, promise |-> promised]
    BY <1>7 DEF open
  <2> DEFINE target == Without(found, V)
             job == [kind |-> "open", step |-> "unlink", object |-> None,
                     gone |-> V, target |-> target, quota |-> config, promise |-> promised]
  <2>2. V \subseteq kept /\ Live(V) \cap (found.pinned \cup found.reserved) = {}
    BY <1>2, PlanSpares
  <2>3. /\ target \in Index /\ target.held = kept \ V
        /\ target.pinned = (disk.pinned \cap kept) \ V
        /\ target.reserved = (disk.reserved \cap kept) \ V
    BY <1>2, WithoutType
  <2> HIDE DEF target, found
  <2>4. V \in SUBSET Ids /\ kept \subseteq Ids
    BY <2>2 DEF IInv, TypeOK
  <2>5. /\ job \in Jobs /\ job.kind = "open" /\ job.step = "unlink" /\ job.gone = V
        /\ job.target = target /\ job.promise = promised
    BY <2>3, <2>4 DEF IInv, TypeOK, Jobs
  <2>6. op' = job
    BY <2>1 DEF target
  <2> HIDE DEF job, kept
  <2>7. TypeOK'
    BY <1>1, <1>2, <2>1, <2>4, <2>5, <2>6, StepType DEF IInv, TypeOK
  <2>8. kept \cap expired = {}
    BY DEF kept
  <2>9. /\ Live(promised.pinned) \subseteq (target.pinned \cap kept) \ V
        /\ Live(promised.standing) \subseteq (target.reserved \cap kept) \ V
        /\ Live(promised.standing) \cap V = {}
    BY <1>2, <1>4, <1>5, <2>2, <2>3, <2>8 DEF Live
  <2>10. Job'
    BY <1>1, <1>2, <2>1, <2>3, <2>5, <2>6, <2>9 DEF Job, Live, Written
  <2>11. Pins' /\ Stands'
    BY <1>1, <1>2, <1>4, <1>5, <2>1, <2>5, <2>6 DEF Pins, Stands, Live
  <2> QED
    BY <2>7, <2>10, <2>11 DEF IInv
<1> QED
  BY <1>6, <1>7

LEMMA CrashStep == ASSUME IInv, Crash PROVE IInv'
<1> DEFINE less == [promised EXCEPT !.standing = @ \cap disk.reserved]
<1>1. /\ process' = "down" /\ op' = Idle /\ promised' = less
      /\ UNCHANGED <<good, bad, disk, index, quota, wanted, config, expired>>
  BY DEF Crash
<1>2. /\ less \in Promise /\ less.pinned = promised.pinned
      /\ less.standing = promised.standing \cap disk.reserved
  BY DEF IInv, TypeOK, Promise
<1> HIDE DEF less
<1>3. TypeOK'
  BY <1>1, <1>2, StepType DEF IInv, TypeOK
<1>4. Pins' /\ Stands'
  BY <1>1, <1>2 DEF IInv, Pins, Stands, Live
<1> QED
  BY <1>1, <1>3, <1>4, OverStep

LEMMA ExpireStep == ASSUME IInv, NEW id \in Ids, Expire(id) PROVE IInv'
<1>1. /\ expired' = expired \cup {id}
      /\ UNCHANGED <<good, bad, disk, index, quota, wanted, config, process, op, promised>>
  BY DEF Expire
<1>2. TypeOK'
  BY <1>1 DEF IInv, TypeOK
<1>3. Written' = Written
  BY <1>1 DEF Written
<1>4. Pins' /\ Stands'
  BY <1>1 DEF IInv, Pins, Stands, Live
<1>5. Job'
  BY <1>1, <1>3 DEF IInv, Job, Live
<1> QED
  BY <1>2, <1>4, <1>5 DEF IInv

LEMMA CorruptStep == ASSUME IInv, NEW id \in Ids, Corrupt(id) PROVE IInv'
<1>1. /\ op = Idle /\ op' = Idle /\ good' = good \ {id} /\ bad' = bad \cup {id}
      /\ promised' = Without(promised, {id})
      /\ UNCHANGED <<disk, index, quota, wanted, config, process, expired>>
  BY DEF Corrupt
<1>2. /\ promised' \in Promise /\ promised'.pinned = promised.pinned \ {id}
      /\ promised'.standing = promised.standing \ {id}
  BY <1>1, WithoutPromise DEF IInv, TypeOK
<1>3. TypeOK'
  BY <1>1, <1>2, StepType DEF IInv, TypeOK
<1>4. Pins' /\ Stands'
  BY <1>1, <1>2 DEF IInv, Pins, Stands, Live
<1> QED
  BY <1>1, <1>3, <1>4, OverStep

-----------------------------------------------------------------------------
LEMMA Steps == ASSUME IInv, [Next]_vars PROVE IInv'
<1>1. ASSUME NEW id \in Ids, NEW b \in BOOLEAN,
             insert(id, b, FALSE) \/ insert(id, b, TRUE) \/ pin(id, b)
      PROVE  IInv'
  BY <1>1, insertStep, pinStep
<1>2. ASSUME NEW id \in Ids, reserveHeld(id) \/ remove(id) \/ Expire(id) \/ Corrupt(id)
      PROVE  IInv'
  BY <1>2, reserveHeldStep, removeStep, ExpireStep, CorruptStep
<1>3. ASSUME NEW S \in SUBSET Ids, setReservations(S) PROVE IInv'
  BY <1>3, setReservationsStep
<1>4. ASSUME NEW q \in Quotas, settings(q) PROVE IInv'
  BY <1>4, settingsStep
<1>5. CASE \/ open \/ WriteObject \/ WriteObjectFails \/ Unlink \/ UnlinkFails
           \/ WriteIndex \/ WriteIndexFails \/ saveConfig \/ SaveConfigFails \/ Crash
  BY <1>5, openStep, WriteObjectStep, WriteObjectFailsStep, UnlinkStep, UnlinkFailsStep,
     WriteIndexStep, WriteIndexFailsStep, saveConfigStep, CrashStep
<1>6. CASE UNCHANGED vars
  <2>1. UNCHANGED <<good, bad, disk, index, quota, wanted, config, process, op, expired,
                    promised>>
    BY <1>6 DEF vars
  <2>2. Written' = Written
    BY <2>1 DEF Written
  <2>3. TypeOK'
    BY <2>1 DEF IInv, TypeOK
  <2> QED
    BY <2>1, <2>2, <2>3 DEF IInv, Job, Pins, Stands, Live
<1> QED
  BY <1>1, <1>2, <1>3, <1>4, <1>5, <1>6 DEF Next

LEMMA Start == Init => IInv
<1> SUFFICES ASSUME Init PROVE IInv
  OBVIOUS
<1>1. TypeOK
  BY EmptyType, StoreAssumption DEF Init, TypeOK, Op, Promise
<1> QED
  BY <1>1 DEF Init, IInv, Job, Pins, Stands, Live

LEMMA Invariant == Spec => []IInv
  BY Start, Steps, PTL DEF Spec

\* Every variable keeps its type, whatever writes fail and wherever the process
\* dies (class ContentStore).
THEOREM TypeCorrect == Spec => []TypeOK
<1>1. IInv => TypeOK
  BY DEF IInv
<1> QED
  BY Invariant, <1>1, PTL

\* What was reported pinned keeps its object and its pin, in memory and in
\* index.json, until it expires, is damaged or is released: an operation unlinks
\* only what it does not protect and index.json is renamed into place (put, pin,
\* removeEntries, save, the constructor).
THEOREM PinsKept == Spec => []PinsSurvive
<1>1. IInv => PinsSurvive
  BY DEF IInv, Pins, PinsSurvive, Deciding, Live
<1> QED
  BY Invariant, <1>1, PTL

\* A reservation decides what the running process evicts until a call that
\* releases it has succeeded: memory keeps the union when setReservations fails,
\* and a restart takes it from the index.json it finds.
THEOREM UnionKept == Spec => []UnionProtected
<1>1. IInv => UnionProtected
  BY DEF IInv, Stands, UnionProtected, Live
<1> QED
  BY Invariant, <1>1, PTL

\* A restart that gets to its end has made index and files agree: it starts from
\* what verifies, unlinks file and entry together and writes the index last; one
\* that throws leaves no running process (the constructor).
THEOREM NoOrphansLeft == Spec => NoOrphans
<1>1. ASSUME IInv, Next, Opening, op' = Idle, process' = "up"
      PROVE  good' \cup bad' = index'.held
  <2>1. /\ op # Idle /\ op.kind = "open" /\ op.step = "unlink" /\ process = "up"
        /\ good \cup bad = index.held /\ op.target.held = index.held \ op.gone
    BY <1>1, RunningFacts DEF Opening
  <2>2. ~(Ready \/ WriteObject \/ WriteObjectFails \/ saveConfig \/ SaveConfigFails
          \/ UnlinkFails \/ WriteIndexFails \/ Crash \/ open)
    BY <1>1, <2>1 DEF Ready, WriteObject, WriteObjectFails, saveConfig, SaveConfigFails,
       UnlinkFails, WriteIndexFails, Running, Throw, Crash, open
  <2>3. ~Unlink
    <3> SUFFICES ASSUME Unlink PROVE FALSE
      OBVIOUS
    <3>1. PICK id \in op.gone : op' = [op EXCEPT !.gone = @ \ {id}]
      BY DEF Unlink
    <3>2. op \in Jobs /\ op.gone \ {id} \in SUBSET Ids
      BY <1>1, <2>1, RunningFacts
    <3>3. [op EXCEPT !.gone = op.gone \ {id}] # Idle
      BY <3>2, Drop
    <3> QED
      BY <1>1, <3>1, <3>3
  <2>4. \A id \in Ids : ~Expire(id) /\ ~Corrupt(id)
    BY <1>1, <2>1 DEF Expire, Corrupt
  <2>5. WriteIndex
    BY <1>1, <2>2, <2>3, <2>4 DEF Next, insert, pin, reserveHeld, setReservations, remove,
       settings
  <2>6. op.gone = {} /\ index' = op.target /\ UNCHANGED <<good, bad>>
    BY <2>5 DEF WriteIndex
  <2> QED
    BY <2>1, <2>6
<1>2. IInv /\ [Next]_vars => [Opening /\ op' = Idle /\ process' = "up"
                              => good' \cup bad' = index'.held]_vars
  BY <1>1
<1> QED
  BY Invariant, <1>2, PTL DEF Spec, NoOrphans


(***************************************************************************)
(* What nodes have on record of deletions (module Messages, whose store is *)
(* the above reduced to what it loses).  Materialized, which goes through  *)
(* the objects in the order of a list, keeps every deletion there was and  *)
(* takes every one at hand (MaterializedKeeps); the rest follows the       *)
(* handlers, each of which looks at objects (Look, LookAt) or does not.    *)
(***************************************************************************)
CONSTANTS Kinds, Unconfirmable, Window, WebWindow, AskLimit, IssueLimit, MaxMarks, Sought,
          Losing, MaxMishaps
VARIABLES web, held, marks, cursor, locked, relays, blocked, net, mishaps

Mesh == INSTANCE Messages

\* Sets of numbers have a least element.
Less == {p \in Nat \X Nat : p[1] < p[2]}

LEMMA Least == ASSUME NEW T, T \subseteq Nat, T # {} PROVE \E x \in T : \A y \in T : x <= y
<1>1. IsWellFoundedOn(Less, Nat)
  BY NatLessThanWellFounded, Zenon DEF OpToRel, Less
<1>2. PICK x \in T : \A y \in T : ~(<<y, x>> \in Less)
  BY <1>1, WFMin
<1>3. \A y \in T : x \in Nat /\ y \in Nat /\ ~(y < x)
  BY <1>2 DEF Less
<1> QED
  BY <1>3

\* Induction over the places of a list, on the members of a set.
LEMMA Places ==
    ASSUME NEW top \in Nat, NEW T, 0 \in T, \A k \in 1..top : k - 1 \in T => k \in T
    PROVE  \A k \in 0..top : k \in T
<1> DEFINE Out == {k \in 0..top : k \notin T}
<1> SUFFICES ASSUME Out # {} PROVE FALSE
  OBVIOUS
<1>0. Out \subseteq Nat
  OBVIOUS
<1> HIDE DEF Out
<1>1. PICK k \in Out : \A j \in Out : k <= j
  BY <1>0, Least
<1> USE DEF Out
<1>2. k \in 1..top /\ k \notin T /\ k - 1 \in 0..top
  BY <1>1
<1>3. k - 1 \notin Out
  BY <1>1, <1>2
<1> QED
  BY <1>2, <1>3

\* The records of a node.
Record == [rank : Nat, deleted : BOOLEAN]
Records == [Messages -> Record]

\* No event takes a deletion back, and a deletion is one, whatever came before.
LEMMA AppliedKeeps ==
    ASSUME NEW r \in Record, NEW e \in Mutating
    PROVE  /\ Applied(r, e) \in Record
           /\ r.deleted => Applied(r, e).deleted
           /\ e \in Deletes => Applied(r, e).deleted
<1>1. Rank[e] \in Nat
  BY MutationsAssumption
<1>2. r.rank \in Nat /\ r.deleted \in BOOLEAN
  BY DEF Record
<1>3. CASE Rank[e] > r.rank \/ (e \in Deletes /\ ~r.deleted)
  <2>1. Applied(r, e) = [rank |-> Rank[e], deleted |-> r.deleted \/ e \in Deletes]
    BY <1>3 DEF Applied
  <2> DEFINE gone == r.deleted \/ e \in Deletes
  <2>2. gone \in BOOLEAN /\ (r.deleted => gone) /\ (e \in Deletes => gone)
    OBVIOUS
  <2>3. Applied(r, e) = [rank |-> Rank[e], deleted |-> gone]
    BY <2>1
  <2> HIDE DEF gone
  <2>4. Applied(r, e) \in Record /\ Applied(r, e).deleted = gone
    BY <1>1, <2>2, <2>3 DEF Record
  <2> QED
    BY <2>2, <2>4
<1>4. CASE ~(Rank[e] > r.rank \/ (e \in Deletes /\ ~r.deleted))
  BY <1>2, <1>4 DEF Applied
<1> QED
  BY <1>3, <1>4

LEMMA UpdatedKeeps ==
    ASSUME NEW R \in Records, NEW o \in Objects
    PROVE  /\ Updated(R, o) \in Records
           /\ \A m \in Messages : R[m].deleted => Updated(R, o)[m].deleted
           /\ o \in Deletes => Target[o] \in Messages /\ Updated(R, o)[Target[o]].deleted
<1>1. CASE o \in Mutating
  <2>1. Target[o] \in Messages
    BY <1>1, MutationsAssumption DEF Events
  <2> DEFINE r == Applied(R[Target[o]], o)
  <2>2. r \in Record /\ (R[Target[o]].deleted => r.deleted) /\ (o \in Deletes => r.deleted)
    BY <1>1, <2>1, AppliedKeeps DEF Records
  <2>3. Updated(R, o) = [R EXCEPT ![Target[o]] = r]
    BY <1>1 DEF Updated
  <2> HIDE DEF r
  <2> QED
    BY <2>1, <2>2, <2>3 DEF Records
<1>2. CASE o \notin Mutating
  BY <1>2 DEF Updated, Mutating
<1> QED
  BY <1>1, <1>2

\* The records after the first k objects of the list, from those (f) after k - 1.
After(R, S, f, k) ==
    IF k = 0 THEN R ELSE IF Listed[k] \in S THEN Updated(f[k - 1], Listed[k]) ELSE f[k - 1]

\* That there is such a function, so that Materialized is what it returns.
LEMMA AfterExists ==
    ASSUME NEW R, NEW S
    PROVE  \A n \in 0..Len(Listed) : \E f : f = [k \in 0..n |-> After(R, S, f, k)]
<1> DEFINE T == {n \in 0..Len(Listed) : \E f : f = [k \in 0..n |-> After(R, S, f, k)]}
<1>1. Len(Listed) \in Nat
  BY MutationsAssumption
<1>2. 0 \in T
  <2> DEFINE f == [k \in 0..0 |-> R]
  <2>1. \A k \in 0..0 : k = 0
    OBVIOUS
  <2>2. \A k \in 0..0 : After(R, S, f, k) = R
    BY <2>1 DEF After
  <2>3. f = [k \in 0..0 |-> After(R, S, f, k)]
    BY <2>2
  <2> QED
    BY <1>1, <2>3
<1>3. ASSUME NEW n \in 1..Len(Listed), n - 1 \in T PROVE n \in T
  <2>1. PICK f : f = [k \in 0..n - 1 |-> After(R, S, f, k)]
    BY <1>3
  <2> DEFINE g == [k \in 0..n |-> IF k = n THEN After(R, S, f, n) ELSE f[k]]
  <2>2. \A k \in 0..n - 1 : g[k] = f[k]
    OBVIOUS
  <2>3. \A k \in 0..n : k # 0 => k - 1 \in 0..n - 1
    OBVIOUS
  <2>4. \A k \in 0..n : After(R, S, g, k) = After(R, S, f, k)
    <3> HIDE DEF g
    <3> QED
      BY <2>2, <2>3 DEF After
  <2>5. \A k \in 0..n - 1 : f[k] = After(R, S, f, k)
    <3>1. \A k \in 0..n - 1 : [j \in 0..n - 1 |-> After(R, S, f, j)][k] = After(R, S, f, k)
      OBVIOUS
    <3> QED
      BY <2>1, <3>1
  <2>6. \A k \in 0..n : k # n => k \in 0..n - 1
    OBVIOUS
  <2>7. \A k \in 0..n : g[k] = After(R, S, g, k)
    BY <2>2, <2>4, <2>5, <2>6
  <2>8. g = [k \in 0..n |-> g[k]]
    OBVIOUS
  <2> HIDE DEF g
  <2>9. g = [k \in 0..n |-> After(R, S, g, k)]
    BY <2>7, <2>8
  <2> QED
    BY <2>9
<1> HIDE DEF T
<1>4. \A n \in 0..Len(Listed) : n \in T
  BY <1>1, <1>2, <1>3, Places
<1> QED
  BY <1>4 DEF T

LEMMA MaterializedKeeps ==
    ASSUME NEW R \in Records, NEW S \in SUBSET Objects
    PROVE  /\ Materialized(R, S) \in Records
           /\ \A m \in Messages : R[m].deleted => Materialized(R, S)[m].deleted
           /\ \A d \in S \cap Deletes :
                  Target[d] \in Messages /\ Materialized(R, S)[Target[d]].deleted
<1> DEFINE f == CHOOSE f : f = [k \in 0..Len(Listed) |-> After(R, S, f, k)]
<1>1. Materialized(R, S) = f[Len(Listed)]
  BY DEF Materialized, After
<1>2. Len(Listed) \in Nat /\ \A k \in 1..Len(Listed) : Listed[k] \in Objects
  BY MutationsAssumption
<1>3. f = [k \in 0..Len(Listed) |-> After(R, S, f, k)]
  BY <1>2, AfterExists
<1> HIDE DEF f
<1>4. \A k \in 0..Len(Listed) : f[k] = After(R, S, f, k)
  <2>1. \A k \in 0..Len(Listed) : [j \in 0..Len(Listed) |-> After(R, S, f, j)][k] = After(R, S, f, k)
    OBVIOUS
  <2> QED
    BY <1>3, <2>1
<1> DEFINE Kept(k) == \A m \in Messages : R[m].deleted => f[k][m].deleted
           Done(k) == \A j \in 1..k : Listed[j] \in S \cap Deletes =>
                          Target[Listed[j]] \in Messages /\ f[k][Target[Listed[j]]].deleted
           T == {k \in 0..Len(Listed) : f[k] \in Records /\ Kept(k) /\ Done(k)}
<1>5. 0 \in T
  <2>1. f[0] = R
    BY <1>2, <1>4 DEF After
  <2>2. \A j \in 1..0 : FALSE
    OBVIOUS
  <2> QED
    BY <1>2, <2>1, <2>2
<1>6. ASSUME NEW k \in 1..Len(Listed), k - 1 \in T PROVE k \in T
  <2>1. f[k] = IF Listed[k] \in S THEN Updated(f[k - 1], Listed[k]) ELSE f[k - 1]
    BY <1>2, <1>4 DEF After
  <2>2. f[k - 1] \in Records /\ Kept(k - 1) /\ Done(k - 1)
    BY <1>6
  <2>3. Listed[k] \in Objects
    BY <1>2
  <2>4. \A j \in 1..k : j = k \/ j \in 1..k - 1
    OBVIOUS
  <2>5. f[k] \in Records /\ (\A m \in Messages : f[k - 1][m].deleted => f[k][m].deleted)
    BY <2>1, <2>2, <2>3, UpdatedKeeps
  <2>6. Listed[k] \in S \cap Deletes => Target[Listed[k]] \in Messages /\ f[k][Target[Listed[k]]].deleted
    BY <2>1, <2>2, <2>3, UpdatedKeeps
  <2>7. Kept(k)
    BY <2>2, <2>5
  <2>8. Done(k)
    BY <2>2, <2>4, <2>5, <2>6
  <2> QED
    BY <2>5, <2>7, <2>8
<1> HIDE DEF T
<1>7. Len(Listed) \in T
  <2>1. \A k \in 0..Len(Listed) : k \in T
    BY <1>2, <1>5, <1>6, Places
  <2> QED
    BY <1>2, <2>1
<1>8. ASSUME NEW d \in S \cap Deletes PROVE \E j \in 1..Len(Listed) : Listed[j] = d
  BY MutationsAssumption
<1>9. f[Len(Listed)] \in Records /\ Kept(Len(Listed)) /\ Done(Len(Listed))
  BY <1>7 DEF T
<1>10. ASSUME NEW d \in S \cap Deletes
       PROVE  Target[d] \in Messages /\ f[Len(Listed)][Target[d]].deleted
  BY <1>8, <1>9
<1> HIDE DEF Done
<1> QED
  BY <1>1, <1>9, <1>10

\* The instance has the operators of Mutations.
LEMMA SameObjects ==
    /\ Mesh!Objects = Objects /\ Mesh!Mutating = Mutating /\ Mesh!Events = Events
    /\ Mesh!Confirmations = Confirmations
  BY DEF Mesh!Objects, Mesh!Mutating, Mesh!Events, Mesh!Confirmations, Objects, Mutating, Events, Confirmations

LEMMA SameUpdated == ASSUME NEW R, NEW o PROVE Mesh!Updated(R, o) = Updated(R, o)
  BY SameObjects DEF Mesh!Updated, Updated, Mesh!Applied, Applied

LEMMA SameMaterialized == ASSUME NEW R, NEW S PROVE Mesh!Materialized(R, S) = Materialized(R, S)
  BY SameUpdated DEF Mesh!Materialized, Materialized

\* The inductive invariant: what the property needs of the state besides itself is
\* that stores hold objects, which the list of the store has, and the shape of the rest.
Typed ==
    /\ held \in [Nodes -> SUBSET Objects]
    /\ mutations \in [Nodes -> Records]
    /\ told \in [Nodes -> SUBSET Messages]

MeshIInv == Typed /\ DeletionsStick

\* A step that records what it made of some objects with a deletion each.
LEMMA RecordedKeeps ==
    ASSUME MeshIInv, NEW n \in Nodes, NEW R \in Records, NEW S \in SUBSET Objects,
           \A m \in Messages : mutations[n][m].deleted => R[m].deleted,
           \A d \in S \cap Deletes : Target[d] \in Messages /\ R[Target[d]].deleted,
           Mesh!Recorded(n, R, S)
    PROVE  /\ mutations' \in [Nodes -> Records] /\ told' \in [Nodes -> SUBSET Messages]
           /\ DeletionsStick'
<1>1. mutations' = [mutations EXCEPT ![n] = R]
  BY DEF Mesh!Recorded
<1>2. told' = [told EXCEPT ![n] = told[n] \cup Mesh!Deletions(S)]
  BY DEF Mesh!Recorded
<1>3. \A m \in Mesh!Deletions(S) : m \in Messages /\ R[m].deleted
  BY DEF Mesh!Deletions
<1>4. mutations' \in [Nodes -> Records]
  BY <1>1 DEF MeshIInv, Typed
<1>5. told' \in [Nodes -> SUBSET Messages]
  BY <1>2, <1>3 DEF MeshIInv, Typed
<1>6. ASSUME NEW x \in Nodes, NEW m \in told'[x] PROVE mutations'[x][m].deleted
  <2>1. CASE x = n
    <3>1. m \in told[n] \cup Mesh!Deletions(S) /\ mutations'[n] = R
      BY <1>1, <1>2, <1>6, <2>1 DEF MeshIInv, Typed
    <3>2. m \in told[n] => R[m].deleted
      BY DEF MeshIInv, Typed, DeletionsStick
    <3> QED
      BY <1>3, <2>1, <3>1, <3>2
  <2>2. CASE x # n
    <3>1. m \in told[x] /\ mutations'[x] = mutations[x]
      BY <1>1, <1>2, <1>6, <2>2 DEF MeshIInv, Typed
    <3> QED
      BY <3>1 DEF MeshIInv, DeletionsStick
  <2> QED
    BY <2>1, <2>2
<1>7. DeletionsStick'
  BY <1>6 DEF DeletionsStick
<1> QED
  BY <1>4, <1>5, <1>7

\* What a step leaves of the records, and of the stores.
Content ==
    /\ mutations' \in [Nodes -> Records] /\ told' \in [Nodes -> SUBSET Messages]
    /\ DeletionsStick'

Stores == held' \in [Nodes -> SUBSET Objects]

LEMMA LookKeeps ==
    ASSUME MeshIInv, NEW n \in Nodes, NEW S \in SUBSET Objects, Mesh!Look(n, S)
    PROVE  Content
<1> DEFINE R == Materialized(mutations[n], S)
<1>1. mutations[n] \in Records
  BY DEF MeshIInv, Typed
<1>2. /\ R \in Records
      /\ \A m \in Messages : mutations[n][m].deleted => R[m].deleted
      /\ \A d \in S \cap Deletes : Target[d] \in Messages /\ R[Target[d]].deleted
  BY <1>1, MaterializedKeeps
<1>3. Mesh!Recorded(n, R, S)
  BY SameMaterialized DEF Mesh!Look
<1> HIDE DEF R
<1> QED
  BY <1>2, <1>3, RecordedKeeps DEF Content

LEMMA LookAtKeeps ==
    ASSUME MeshIInv, NEW n \in Nodes, NEW S \in SUBSET Objects, NEW o \in Objects, Mesh!LookAt(n, S, o)
    PROVE  Content
<1> DEFINE Q == Materialized(mutations[n], S)
           R == Updated(Q, o)
<1>1. mutations[n] \in Records
  BY DEF MeshIInv, Typed
<1>2. /\ Q \in Records
      /\ \A m \in Messages : mutations[n][m].deleted => Q[m].deleted
      /\ \A d \in S \cap Deletes : Target[d] \in Messages /\ Q[Target[d]].deleted
  BY <1>1, MaterializedKeeps
<1>3. Mesh!Recorded(n, R, S \cup {o})
  BY SameMaterialized, SameUpdated DEF Mesh!LookAt
<1> HIDE DEF Q
<1>4. /\ R \in Records
      /\ \A m \in Messages : Q[m].deleted => R[m].deleted
      /\ o \in Deletes => Target[o] \in Messages /\ R[Target[o]].deleted
  BY <1>2, UpdatedKeeps
<1> HIDE DEF R
<1>5. \A m \in Messages : mutations[n][m].deleted => R[m].deleted
  BY <1>2, <1>4
<1>6. \A d \in (S \cup {o}) \cap Deletes : Target[d] \in Messages /\ R[Target[d]].deleted
  BY <1>2, <1>4
<1>7. S \cup {o} \in SUBSET Objects
  OBVIOUS
<1> QED
  BY <1>3, <1>4, <1>5, <1>6, <1>7, RecordedKeeps DEF Content

LEMMA LooksAwayKeeps == ASSUME MeshIInv, UNCHANGED <<mutations, told>> PROVE Content
  BY DEF MeshIInv, Typed, DeletionsStick, Content

LEMMA AcceptedIs ==
    ASSUME MeshIInv, NEW n \in Nodes
    PROVE  Mesh!Accepted(n, held[n]) \in SUBSET Objects /\ Mesh!Shown(n) \in SUBSET Objects
<1>1. held[n] \in SUBSET Objects
  BY DEF MeshIInv, Typed
<1> QED
  BY <1>1 DEF Mesh!Accepted, Mesh!Shown, Mesh!Displayed

LEMMA SnapshotKeeps == ASSUME MeshIInv, NEW n \in Nodes, Mesh!Snapshot(n) PROVE Content
  BY AcceptedIs, LookKeeps, LooksAwayKeeps DEF Mesh!Snapshot, Mesh!LooksAway

LEMMA TakeInKeeps ==
    ASSUME MeshIInv, NEW n \in Nodes, NEW o \in Objects, Mesh!TakeIn(n, o)
    PROVE  Content
<1> DEFINE seen == IF n \in web THEN {} ELSE Mesh!Accepted(n, held[n])
<1>1. seen \in SUBSET Objects
  BY AcceptedIs
<1>2. Mesh!LooksAway \/ Mesh!LookAt(n, seen, o) \/ Mesh!Look(n, seen)
  BY DEF Mesh!TakeIn
<1> HIDE DEF seen
<1> QED
  BY <1>1, <1>2, LookKeeps, LookAtKeeps, LooksAwayKeeps DEF Mesh!LooksAway

LEMMA PutKeeps == ASSUME MeshIInv, NEW n \in Nodes, NEW o \in Objects, Mesh!Put(n, o) PROVE Stores
<1>1. PICK s \in Mesh!Stored(n, o) : held' = [held EXCEPT ![n] = s.objects]
  BY DEF Mesh!Put
<1>2. held[n] \in SUBSET Objects
  BY DEF MeshIInv, Typed
<1>3. s.objects \in SUBSET Objects
  BY <1>1, <1>2 DEF Mesh!Stored
<1> QED
  BY <1>1, <1>3 DEF MeshIInv, Typed, Stores

LEMMA HeldKeeps ==
    ASSUME MeshIInv, NEW n \in Nodes, NEW S \in SUBSET Objects, held' = [held EXCEPT ![n] = S]
    PROVE  Stores
  BY DEF MeshIInv, Typed, Stores

LEMMA HeldSame == ASSUME MeshIInv, held' = held PROVE Stores
  BY DEF MeshIInv, Typed, Stores

LEMMA Together == ASSUME Content, Stores PROVE MeshIInv'
  BY DEF Content, Stores, MeshIInv, Typed

LEMMA PublishIInv ==
    ASSUME MeshIInv, NEW n \in Nodes, NEW o \in Objects,
           \/ Mesh!publish(n, o) \/ Mesh!publishCut(n, o)
           \/ Mesh!publishWeb(n, o) \/ Mesh!publishWebCut(n, o)
    PROVE  MeshIInv'
<1>1. held[n] \cup {o} \in SUBSET Objects /\ {} \in SUBSET Objects
  BY DEF MeshIInv, Typed
<1>2. CASE Mesh!publish(n, o)
  <2>1. Mesh!LookAt(n, Mesh!Shown(n), o) /\ held' = [held EXCEPT ![n] = held[n] \cup {o}]
    BY <1>2 DEF Mesh!publish
  <2> QED
    BY <1>1, <2>1, AcceptedIs, LookAtKeeps, HeldKeeps, Together
<1>3. CASE Mesh!publishCut(n, o)
  <2>1. Mesh!Snapshot(n) /\ held' = [held EXCEPT ![n] = held[n] \cup {o}]
    BY <1>3 DEF Mesh!publishCut
  <2> QED
    BY <1>1, <2>1, SnapshotKeeps, HeldKeeps, Together
<1>4. CASE Mesh!publishWeb(n, o)
  BY <1>1, <1>4, LookAtKeeps, PutKeeps, Together DEF Mesh!publishWeb
<1>5. CASE Mesh!publishWebCut(n, o)
  BY <1>1, <1>5, LookAtKeeps, HeldSame, Together DEF Mesh!publishWebCut
<1> QED
  BY <1>2, <1>3, <1>4, <1>5

LEMMA DeliveryIs == ASSUME NEW n, NEW o PROVE Mesh!Delivery(n, o) \in SUBSET Objects
  BY DEF Mesh!Delivery, Objects, Events, Confirmations

LEMMA ReceiveIInv ==
    ASSUME MeshIInv, NEW n \in Nodes, NEW o \in Objects,
           Mesh!receive(n, o) \/ Mesh!receiveCut(n, o) \/ Mesh!ingest(n, o)
    PROVE  MeshIInv'
<1>1. CASE Mesh!receive(n, o)
  <2>1. (UNCHANGED <<held, mutations, told>>) \/ (Mesh!TakeIn(n, o) /\ Mesh!Put(n, o))
    BY <1>1 DEF Mesh!receive, Mesh!content
  <2> QED
    BY <2>1, TakeInKeeps, PutKeeps, LooksAwayKeeps, HeldSame, Together
<1>2. CASE Mesh!receiveCut(n, o)
  BY <1>2, TakeInKeeps, HeldSame, Together DEF Mesh!receiveCut
<1>3. CASE Mesh!ingest(n, o)
  <2>1. \/ UNCHANGED <<held, mutations, told>>
        \/ /\ Mesh!TakeIn(n, o)
           /\ \E s \in Mesh!Stored(n, o) :
                  held' = [held EXCEPT ![n] = s.objects \cup Mesh!Delivery(n, o)]
    BY <1>3 DEF Mesh!ingest, Mesh!content
  <2>2. CASE UNCHANGED <<held, mutations, told>>
    BY <2>2, LooksAwayKeeps, HeldSame, Together
  <2>3. ASSUME Mesh!TakeIn(n, o), NEW s \in Mesh!Stored(n, o),
               held' = [held EXCEPT ![n] = s.objects \cup Mesh!Delivery(n, o)]
        PROVE  MeshIInv'
    <3>1. held[n] \in SUBSET Objects
      BY DEF MeshIInv, Typed
    <3>2. s.objects \in SUBSET Objects
      BY <2>3, <3>1 DEF Mesh!Stored
    <3>3. s.objects \cup Mesh!Delivery(n, o) \in SUBSET Objects
      BY <3>2, DeliveryIs
    <3> QED
      BY <2>3, <3>3, TakeInKeeps, HeldKeeps, Together
  <2> QED
    BY <2>1, <2>2, <2>3
<1> QED
  BY <1>1, <1>2, <1>3

\* What is looked at while nothing is stored, or one's own confirmations are.
LEMMA LookingIInv ==
    ASSUME MeshIInv, NEW n \in Nodes,
           \/ Mesh!state(n)
           \/ \E k \in Mesh!AllPages : Mesh!sync(n, k)
           \/ \E m \in Messages : Mesh!view(n, m)
    PROVE  MeshIInv'
<1>1. held[n] \in SUBSET Objects
  BY DEF MeshIInv, Typed
<1>2. CASE Mesh!state(n)
  BY <1>2, SnapshotKeeps, HeldSame, Together DEF Mesh!state
<1>3. ASSUME NEW k, Mesh!sync(n, k) PROVE MeshIInv'
  <2> DEFINE issued == Mesh!Issued(n, Mesh!Materialized(mutations[n], Mesh!Shown(n)))
  <2>1. issued \in SUBSET Objects
    BY DeliveryIs DEF Mesh!Issued
  <2>2. Mesh!Snapshot(n) /\ held' = [held EXCEPT ![n] = held[n] \cup issued]
    BY <1>3 DEF Mesh!sync
  <2> HIDE DEF issued
  <2>3. held[n] \cup issued \in SUBSET Objects
    BY <1>1, <2>1
  <2> QED
    BY <2>2, <2>3, SnapshotKeeps, HeldKeeps, Together
<1>4. ASSUME NEW m, Mesh!view(n, m) PROVE MeshIInv'
  <2> DEFINE receipt == {r \in Receipts : Target[r] = m /\ By[r] = n}
  <2>1. receipt \in SUBSET Objects
    BY DEF Objects, Events, Confirmations
  <2>2. Mesh!Snapshot(n) /\ held' = [held EXCEPT ![n] = held[n] \cup receipt]
    BY <1>4 DEF Mesh!view
  <2> HIDE DEF receipt
  <2>3. held[n] \cup receipt \in SUBSET Objects
    BY <1>1, <2>1
  <2> QED
    BY <2>2, <2>3, SnapshotKeeps, HeldKeeps, Together
<1> QED
  BY <1>2, <1>3, <1>4

LEMMA EvictIInv == ASSUME MeshIInv, NEW n \in Nodes, NEW o, Mesh!Evict(n, o) PROVE MeshIInv'
<1>1. held[n] \ {o} \in SUBSET Objects
  BY DEF MeshIInv, Typed
<1>2. held' = [held EXCEPT ![n] = held[n] \ {o}] /\ UNCHANGED <<mutations, told>>
  BY DEF Mesh!Evict
<1> QED
  BY <1>1, <1>2, HeldKeeps, LooksAwayKeeps, Together

\* The exchange of identifiers, settings and losses on the way.
LEMMA ExchangeKeeps ==
    ASSUME NEW n, NEW o, NEW x,
           \/ Mesh!receiveInventory(n) \/ Mesh!receiveRequest(n) \/ Mesh!syncWeb(n)
           \/ Mesh!flush(n) \/ Mesh!retrieve(n, o) \/ Mesh!elapse
           \/ Mesh!lock(n) \/ Mesh!unlock(n) \/ Mesh!restart(n) \/ Mesh!setRelay(n)
           \/ Mesh!Lose(n) \/ Mesh!block(n, x) \/ Mesh!setBlocked(n, x)
           \/ UNCHANGED Mesh!vars
    PROVE  UNCHANGED <<held, mutations, told>>
  BY DEF Mesh!receiveInventory, Mesh!receiveRequest, Mesh!syncWeb, Mesh!flush, Mesh!retrieve,
     Mesh!elapse, Mesh!lock, Mesh!unlock, Mesh!restart, Mesh!setRelay, Mesh!Lose, Mesh!block,
     Mesh!setBlocked, Mesh!content, Mesh!vars

LEMMA MeshInitIInv == ASSUME Mesh!Init PROVE MeshIInv
<1>1. held \in [Nodes -> SUBSET Objects]
  BY DEF Mesh!Init, Objects
<1>2. Mesh!Unchanged \in Record
  BY DEF Mesh!Unchanged, Record
<1>3. mutations \in [Nodes -> Records]
  BY <1>2 DEF Mesh!Init, Records
<1>4. \A n \in Nodes : told[n] = {}
  BY DEF Mesh!Init
<1>5. told \in [Nodes -> SUBSET Messages]
  BY DEF Mesh!Init
<1> QED
  BY <1>1, <1>3, <1>4, <1>5 DEF MeshIInv, Typed, DeletionsStick

LEMMA MeshNextIInv == ASSUME MeshIInv, [Mesh!Next]_(Mesh!vars) PROVE MeshIInv'
<1>1. ASSUME NEW n \in Nodes, NEW o \in Objects,
             \/ Mesh!publish(n, o) \/ Mesh!publishCut(n, o)
             \/ Mesh!publishWeb(n, o) \/ Mesh!publishWebCut(n, o)
             \/ Mesh!receive(n, o) \/ Mesh!receiveCut(n, o) \/ Mesh!ingest(n, o)
             \/ Mesh!Evict(n, o)
      PROVE  MeshIInv'
  BY <1>1, PublishIInv, ReceiveIInv, EvictIInv
<1>2. ASSUME NEW n \in Nodes,
             \/ Mesh!state(n)
             \/ \E k \in Mesh!AllPages : Mesh!sync(n, k)
             \/ \E m \in Messages : Mesh!view(n, m)
      PROVE  MeshIInv'
  BY <1>2, LookingIInv
<1>3. CASE UNCHANGED <<held, mutations, told>>
  BY <1>3, HeldSame, LooksAwayKeeps, Together
<1> QED
  BY <1>1, <1>2, <1>3, ExchangeKeeps, SameObjects DEF Mesh!Next

\* receive, ingest and publish: a deletion a node could act upon is on record for good.
THEOREM DeletionsHold == Mesh!Spec => []DeletionsStick
<1>1. Mesh!Init => MeshIInv
  BY MeshInitIInv
<1>2. MeshIInv /\ [Mesh!Next]_(Mesh!vars) => MeshIInv'
  BY MeshNextIInv
<1>3. MeshIInv => DeletionsStick
  BY DEF MeshIInv
<1> QED
  BY <1>1, <1>2, <1>3, PTL DEF Mesh!Spec
=============================================================================
