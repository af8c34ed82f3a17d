---------------------------- MODULE ContentStore ----------------------------
(***************************************************************************)
(* The content store of a node (packages/core/src/index.ts, class          *)
(* ContentStore): signed objects in one file each, an index file with the  *)
(* pins and the reservations, and the index in memory that decides what is *)
(* evicted.  The quota it is opened with is in the node's config.json      *)
(* (apps/node/src/node.ts, settings and saveConfig).                       *)
(*                                                                         *)
(* An operation runs to its end before another starts, but it writes       *)
(* several files: each write is a step here, between which the process can *)
(* die and at which the file system can fail.                              *)
(***************************************************************************)
EXTENDS Naturals, FiniteSets, FiniteSetsExt

CONSTANTS
    Ids,            \* addresses of objects
    Size,           \* [Ids -> Nat]
    Quotas,         \* quotas the user may choose
    FirstQuota,
    MaxObjects,     \* MAX_STORED_OBJECTS, 1024 in the code
    Failing,        \* writes that may fail: object, unlink, index, config
    MayExpire, MayCorrupt, MayCrash, \* which of these a run explores
    None

ASSUME StoreAssumption ==
    /\ IsFiniteSet(Ids) /\ Size \in [Ids -> Nat \ {0}] /\ None \notin Ids
    /\ Quotas \subseteq Nat /\ FirstQuota \in Quotas /\ MaxObjects \in Nat \ {0}
    /\ Failing \subseteq {"object", "unlink", "index", "config"}
    /\ {MayExpire, MayCorrupt, MayCrash} \subseteq BOOLEAN

VARIABLES
    good, bad,  \* objects on disk: files that verify, and files that do not
    disk,       \* what index.json says
    index,      \* the index in memory
    quota,      \* ContentStore.quota
    wanted,     \* config.quota in memory
    config,     \* config.quota in config.json
    process,    \* "up", "down" after a crash, "refused" when it cannot open
    op,         \* the operation under way
    expired,    \* objects past their signed expiry
    promised    \* protection that operations reported, for the properties

vars == <<good, bad, disk, index, quota, wanted, config, process, op, expired, promised>>

\* Entries and their flags.
Index == [held : SUBSET Ids, pinned : SUBSET Ids, reserved : SUBSET Ids]
Empty == [held |-> {}, pinned |-> {}, reserved |-> {}]
Without(idx, S) == [flag \in DOMAIN idx |-> idx[flag] \ S]

\* What is promised: pins, reservations, and reservations that stand because no
\* operation has released them for certain.
Promise == [pinned : SUBSET Ids, reserved : SUBSET Ids, standing : SUBSET Ids]

\* An operation writes an object, unlinks others, and ends with the index it
\* was started for; settings then writes config.json.
Idle == [kind |-> "idle"]
Op == {Idle} \cup
      [kind : {"insert", "pin", "reserve", "remove", "quota", "open"},
       step : {"object", "unlink", "config"}, object : Ids \cup {None},
       gone : SUBSET Ids, target : Index, quota : Quotas, promise : Promise]

TypeOK ==
    /\ good \in SUBSET Ids /\ bad \in SUBSET Ids
    /\ disk \in Index /\ index \in Index
    /\ quota \in Quotas /\ wanted \in Quotas /\ config \in Quotas
    /\ process \in {"up", "down", "refused"}
    /\ op \in Op /\ expired \in SUBSET Ids /\ promised \in Promise

Init ==
    /\ good = {} /\ bad = {} /\ disk = Empty /\ index = Empty
    /\ quota = FirstQuota /\ wanted = FirstQuota /\ config = FirstQuota
    /\ process = "up" /\ op = Idle /\ expired = {}
    /\ promised = [pinned |-> {}, reserved |-> {}, standing |-> {}]

(***************************************************************************)
(* Admission                                                               *)
(***************************************************************************)
Bytes(S) == FoldSet(LAMBDA id, total : Size[id] + total, 0, S)
Fits(S, size, added, q) ==
    Bytes(S) + size <= q /\ Cardinality(S) + added <= MaxObjects

\* mutant: reservations are protected, pins are not
Plans_EvictsPinned(idx, size, added, q) ==
    LET late == idx.held \cap expired
        free == idx.held \ (idx.reserved \cup expired)
    IN  {V \in {late \cup W : W \in SUBSET free} : Fits(idx.held \ V, size, added, q)}

\* evictionPlan: what has expired goes, then unprotected entries one at a time
\* until the rest fits; which of them go first, by their last access, is left
\* open.  Without such a plan nothing is removed.
Plans(idx, size, added, q) ==
    LET late == idx.held \cap expired
        free == idx.held \ (idx.pinned \cup idx.reserved \cup expired)
    IN  {V \in {late \cup W : W \in SUBSET free} :
            /\ Fits(idx.held \ V, size, added, q)
            /\ V = late \/ \E w \in V \ late : ~Fits(idx.held \ (V \ {w}), size, added, q)}

(***************************************************************************)
(* Operations                                                              *)
(***************************************************************************)
Ready == process = "up" /\ op = Idle
Readable == good \ expired

\* An operation starts: from now on it is uncertain what it releases.
Begin(kind, object, gone, target, q, promise) ==
    /\ op' = [kind |-> kind, step |-> IF object = None THEN "unlink" ELSE "object",
              object |-> object, gone |-> gone, target |-> target, quota |-> q,
              promise |-> promise]
    /\ promised' = [pinned |-> promised.pinned \cap promise.pinned,
                    reserved |-> promised.reserved \cap promise.reserved,
                    standing |-> IF kind = "remove" THEN promise.standing
                                                   ELSE promised.standing]
    /\ UNCHANGED <<good, bad, disk, index, quota, wanted, config, process, expired>>

Promising(pins, reservations) ==
    [pinned |-> promised.pinned \cup pins,
     reserved |-> promised.reserved \cup reservations,
     standing |-> promised.standing \cup reservations]

\* put and putReserved of an object the store does not have.
insert(id, pin, reserve) ==
    LET flag(b) == IF b THEN {id} ELSE {}
    IN  /\ Ready /\ id \notin expired \cup index.held /\ Size[id] <= quota
        /\ \E V \in Plans(index, Size[id], 1, quota) :
              Begin("insert", id, V,
                    [held |-> (index.held \ V) \cup {id},
                     pinned |-> (index.pinned \ V) \cup flag(pin),
                     reserved |-> (index.reserved \ V) \cup flag(reserve)],
                    quota, Promising(flag(pin), flag(reserve)))

\* setReservations: nothing is written when memory already agrees.
setReservations(S) ==
    LET promise == [promised EXCEPT !.reserved = S, !.standing = S]
    IN  /\ Ready /\ S \subseteq index.held \cap Readable
        /\ IF S = index.reserved
           THEN /\ promised' = promise
                /\ UNCHANGED <<good, bad, disk, index, quota, wanted, config,
                               process, op, expired>>
           ELSE Begin("reserve", None, {}, [index EXCEPT !.reserved = S], quota, promise)

\* putReserved of an object the store has.
reserveHeld(id) ==
    id \in index.held \ expired /\ setReservations(index.reserved \cup {id})

pin(id, pinned) ==
    LET pins == IF pinned THEN index.pinned \cup {id} ELSE index.pinned \ {id}
    IN  /\ Ready /\ id \in index.held \cap Readable
        /\ Begin("pin", None, {}, [index EXCEPT !.pinned = pins], quota,
                 [promised EXCEPT !.pinned = IF pinned THEN @ \cup {id} ELSE @ \ {id}])

remove(id) ==
    /\ Ready /\ id \in index.held \cup good \cup bad
    /\ Begin("remove", None, {id}, Without(index, {id}), quota, Without(promised, {id}))

\* settings with a quota: setQuota, then config.json.
settings(q) ==
    /\ Ready
    /\ \E V \in Plans(index, 0, 0, q) :
          Begin("quota", None, V, Without(index, V), q, promised)

\* mutant: index.json is trusted, files it does not list are not looked at
open_TrustsIndex ==
    LET found == Without(disk, Ids \ good)
    IN  /\ process = "down" /\ process' = "up"
        /\ quota' = config /\ wanted' = config /\ index' = found
        /\ op' = [kind |-> "open", step |-> "unlink", object |-> None, gone |-> {},
                  target |-> found, quota |-> config, promise |-> promised]
        /\ UNCHANGED <<good, bad, disk, config, expired, promised>>

\* The constructor, after a restart: what verifies is kept with the flags that
\* index.json has for it, the rest is deleted, and the quota applies.
open ==
    LET kept == good \ expired
        found == [held |-> kept, pinned |-> disk.pinned \cap kept,
                  reserved |-> disk.reserved \cap kept]
    IN  /\ process = "down"
        /\ good' = kept /\ bad' = {}
        /\ quota' = config /\ wanted' = config
        /\ IF Plans(found, 0, 0, config) = {}
           THEN /\ process' = "refused" /\ UNCHANGED <<index, op>>
           ELSE \E V \in Plans(found, 0, 0, config) :
                   /\ process' = "up" /\ index' = found
                   /\ op' = [kind |-> "open", step |-> "unlink", object |-> None,
                             gone |-> V, target |-> Without(found, V),
                             quota |-> config, promise |-> promised]
        /\ UNCHANGED <<disk, config, expired, promised>>
(***************************************************************************)
(* Writes                                                                  *)
(***************************************************************************)
Running(step) == process = "up" /\ op # Idle /\ op.step = step
\* An exception ends the operation; one of the constructor ends the process.
Throw ==
    /\ op' = Idle
    /\ process' = IF op.kind = "open" THEN "down" ELSE process
\* atomic renames a complete file into place or leaves the old one; it can also
\* throw after the rename, when it flushes the directory.

WriteObject ==
    /\ Running("object")
    /\ good' = good \cup {op.object} /\ bad' = bad \ {op.object}
    /\ op' = [op EXCEPT !.step = "unlink"]
    /\ UNCHANGED <<disk, index, quota, wanted, config, process, expired, promised>>
WriteObjectFails ==
    /\ Running("object") /\ "object" \in Failing
    /\ \E written \in BOOLEAN :
          /\ good' = IF written THEN good \cup {op.object} ELSE good
          /\ bad' = IF written THEN bad \ {op.object} ELSE bad
    /\ Throw
    /\ UNCHANGED <<disk, index, quota, wanted, config, expired, promised>>

\* removeEntries, one file and its entry at a time.
Unlink ==
    /\ Running("unlink")
    /\ \E id \in op.gone :
          /\ good' = good \ {id} /\ bad' = bad \ {id}
          /\ index' = Without(index, {id})
          /\ op' = [op EXCEPT !.gone = @ \ {id}]
    /\ UNCHANGED <<disk, quota, wanted, config, process, expired, promised>>
UnlinkFails ==
    /\ Running("unlink") /\ op.gone # {} /\ "unlink" \in Failing
    /\ Throw
    /\ UNCHANGED <<good, bad, disk, index, quota, wanted, config, expired, promised>>

\* Memory takes the new index, and save writes it.
WriteIndex ==
    /\ Running("unlink") /\ op.gone = {}
    /\ index' = op.target /\ disk' = op.target /\ quota' = op.quota
    /\ promised' = op.promise
    /\ IF op.kind = "quota"
       THEN /\ wanted' = op.quota
            /\ op' = [op EXCEPT !.step = "config"]
       ELSE op' = Idle /\ UNCHANGED wanted
    /\ UNCHANGED <<good, bad, config, process, expired>>
\* mutant: memory keeps the new reservations only
WriteIndexFails_NoUnion ==
    /\ Running("unlink") /\ op.gone = {} /\ "index" \in Failing
    /\ index' = op.target
    /\ disk' \in {disk, op.target} /\ quota' = op.quota
    /\ Throw
    /\ UNCHANGED <<good, bad, wanted, config, expired, promised>>
\* It throws: memory keeps the new index, and of the reservations the union.
WriteIndexFails ==
    /\ Running("unlink") /\ op.gone = {} /\ "index" \in Failing
    /\ index' = IF op.kind = "reserve"
                THEN [op.target EXCEPT !.reserved = @ \cup index.reserved]
                ELSE op.target
    /\ disk' \in {disk, op.target} /\ quota' = op.quota
    /\ Throw
    /\ UNCHANGED <<good, bad, wanted, config, expired, promised>>

\* saveConfig, at the end of settings or for another setting.
saveConfig ==
    /\ Running("config") \/ (Ready /\ config # wanted)
    /\ config' = wanted /\ op' = Idle
    /\ UNCHANGED <<good, bad, disk, index, quota, wanted, process, expired, promised>>
SaveConfigFails ==
    /\ Running("config") /\ "config" \in Failing
    /\ op' = Idle
    /\ UNCHANGED <<good, bad, disk, index, quota, wanted, config, process, expired, promised>>

(***************************************************************************)
(* The environment                                                         *)
(***************************************************************************)
Crash ==
    /\ MayCrash /\ process = "up"
    /\ process' = "down" /\ op' = Idle
    /\ promised' = [promised EXCEPT !.standing = @ \cap disk.reserved]
    /\ UNCHANGED <<good, bad, disk, index, quota, wanted, config, expired>>
Expire(id) ==
    /\ MayExpire /\ id \notin expired /\ expired' = expired \cup {id}
    /\ UNCHANGED <<good, bad, disk, index, quota, wanted, config, process, op, promised>>
Corrupt(id) ==
    /\ MayCorrupt /\ op = Idle
    /\ id \in good /\ good' = good \ {id} /\ bad' = bad \cup {id}
    /\ promised' = Without(promised, {id})
    /\ UNCHANGED <<disk, index, quota, wanted, config, process, op, expired>>

Next ==
    \/ \E id \in Ids, b \in BOOLEAN :
          insert(id, b, FALSE) \/ insert(id, b, TRUE) \/ pin(id, b)
    \/ \E id \in Ids : reserveHeld(id) \/ remove(id) \/ Expire(id) \/ Corrupt(id)
    \/ \E S \in SUBSET Ids : setReservations(S)
    \/ \E q \in Quotas : settings(q)
    \/ open \/ WriteObject \/ WriteObjectFails \/ Unlink \/ UnlinkFails
    \/ WriteIndex \/ WriteIndexFails \/ saveConfig \/ SaveConfigFails \/ Crash

Spec == Init /\ [][Next]_vars

(***************************************************************************)
(* Properties                                                              *)
(***************************************************************************)

\* What an operation reported as pinned or reserved is still there, and still
\* protected by the index that decides evictions, after every later operation,
\* failed write, crash and restart, until it expires, is damaged, or is
\* released (insert, pin, setReservations, open).
Deciding == IF process = "up" THEN index ELSE disk
PinsSurvive ==
    \A id \in promised.pinned \ expired : id \in good /\ id \in Deciding.pinned
ReservationsSurvive ==
    \A id \in promised.reserved \ expired : id \in good /\ id \in Deciding.reserved

\* Until a call that releases it succeeds, a reservation decides what is evicted
\* by the running process, whatever writes fail (setReservations: a failed or
\* uncertain write protects the union).
UnionProtected == process = "up" => promised.standing \ expired \subseteq index.reserved

\* Once a restart is over every object on disk is in the index and every entry
\* has its file, whichever step of an earlier operation, or of an earlier
\* restart, died or failed (the constructor reconciles, evicts and saves).
Opening == op # Idle /\ op.kind = "open"
NoOrphans ==
    [][Opening /\ op' = Idle /\ process' = "up" => good' \cup bad' = index'.held]_vars

\* Whatever step the process dies at, the store can be opened again: what
\* index.json protects fits the quota in config.json (open, setQuota).
Reopens == process # "refused"
=============================================================================
