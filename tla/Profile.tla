------------------------------ MODULE Profile ------------------------------
(***************************************************************************)
(* The private profile of an installation: the lease that one process     *)
(* holds on the directory (ownership.ts), the signed binding that stages   *)
(* the import of the old JSON state (binding.ts, database.ts), the         *)
(* encrypted SQLite store (groups/src/storage.ts), the node that keeps a   *)
(* copy of the document in memory (node.ts), and the journal in which the  *)
(* group registry remembers the operations it signed (registry.ts).        *)
(*                                                                         *)
(* A process crashes between any two steps.  A statement that writes the   *)
(* disk may also report an error, and then nobody knows whether it took    *)
(* effect.  A document is the version of the old state it was imported     *)
(* from together with the set of edits made since.  Records of the groups  *)
(* are beside it in the same database: of what an operation signs, only    *)
(* that it was signed matters here (GroupRegistry has the rest).           *)
(***************************************************************************)
EXTENDS Naturals, Sequences, FiniteSets

CONSTANTS
    Procs,       \* processes that may be started on the same directory
    Edits,       \* the changes a user saves: a draft, a collection, a send
    Operations,  \* the identifiers users give to operations on groups
    MaxOperations, \* AUTHORITY_LIMITS.operations, 256 in the code
    None,
    MaxSigned,   \* bound on the operations signed
    MaxStores,   \* bound on the random store identifiers drawn
    MaxLegacy,   \* bound on the writes of the old JSON by an older release
    MaxCrashes,  \* bound on crashes
    MaxFaults,   \* bound on the statements that report an error
    MaxLosses    \* bound on the files lost outside the program

VARIABLES
    lease,       \* profile-owner.sqlite: what the file holds, who holds its lock
    vault,       \* identity.vault exists
    legacy,      \* version of private-state.json, 0 when there is none
    binding,     \* profile-binding.json
    db,          \* profile-state.sqlite
    pc,          \* what each process is doing
    opened,      \* the binding and the old state each process is opening with
    mem,         \* privateState of each process, with its digest
    acked,       \* edits and operations whose call returned to the user
    lost,        \* files lost outside the program
    draws,       \* store identifiers drawn so far
    crashes, faults

disk == <<legacy, binding, db>>
local == <<pc, opened, mem>>
bounds == <<lost, draws, crashes, faults>>
vars == <<lease, vault, disk, local, acked, bounds>>

Opening == {"bind", "stage", "store", "schema", "fill", "commit", "read"}
Claiming == {"claim", "init"}
Document == [base : 0 .. MaxLegacy, edits : SUBSET Edits]
Binding == [store : 1 .. MaxStores, source : 0 .. MaxLegacy,
            phase : {"prepared", "committed"}]

ASSUME ProfileAssumption ==
    /\ MaxOperations \in Nat \ {0}
    /\ MaxSigned \in Nat /\ MaxStores \in Nat /\ MaxLegacy \in Nat
    /\ None \notin Procs /\ None \notin Document /\ None \notin Binding
    /\ Edits \cap Operations = {}

\* What the file of the database can be: missing, created and still empty, or
\* a store with a schema, whose records are the document and the marker of
\* its initialization (both absent until the import), the operations that were
\* signed, in their order, and those of them that are remembered.
Missing == [kind |-> "missing"]
Empty == [kind |-> "empty"]
Store(id, doc) == [kind |-> "store", id |-> id, doc |-> doc, journal |-> {}, signed |-> <<>>]

TypeOK ==
    /\ lease \in [file : {"missing", "empty", "ready"}, holder : Procs \cup {None}]
    /\ vault \in BOOLEAN
    /\ legacy \in 0 .. MaxLegacy
    /\ binding \in Binding \cup {None}
    /\ db \in {Missing, Empty} \cup
                 [kind : {"store"}, id : 1 .. MaxStores, doc : Document \cup {None},
                  journal : SUBSET [id : Operations, sequence : 1 .. MaxSigned],
                  signed : Seq(Operations)]
    /\ pc \in [Procs -> {"off", "locked", "unlocked"} \cup Claiming \cup Opening]
    /\ opened \in [Procs -> [binding : Binding \cup {None}, legacy : 0 .. MaxLegacy]]
    /\ mem \in [Procs -> Document \cup {None}]
    /\ acked \subseteq Edits \cup Operations
    /\ lost \subseteq {"database", "binding"}

Closed == [binding |-> None, legacy |-> 0]

Init ==
    /\ lease = [file |-> "missing", holder |-> None]
    /\ vault = FALSE
    /\ legacy \in {0, 1} /\ legacy <= MaxLegacy
    /\ binding = None
    /\ db = Missing
    /\ pc = [p \in Procs |-> "off"]
    /\ opened = [p \in Procs |-> Closed]
    /\ mem = [p \in Procs |-> None]
    /\ acked = {} /\ lost = {} /\ draws = 0 /\ crashes = 0 /\ faults = 0

Goto(p, step) == pc' = [pc EXCEPT ![p] = step]

-----------------------------------------------------------------------------
(* The lease.  Its first owner finds an empty file, writes the schema under   *)
(* an exclusive lock and gives the lock up to take it again.                  *)

\* The constructor of the node: the file of the lease exists from here on.
Start(p) ==
    /\ pc[p] = "off"
    /\ lease' = IF lease.file = "missing" THEN [lease EXCEPT !.file = "empty"] ELSE lease
    /\ Goto(p, "claim")
    /\ UNCHANGED <<vault, disk, opened, mem, acked, bounds>>

Free(p) == lease.holder = None

Claim(p) ==
    /\ pc[p] = "claim"
    /\ IF Free(p)
       THEN /\ lease' = [lease EXCEPT !.holder = p]
            /\ Goto(p, IF lease.file = "empty" THEN "init" ELSE "locked")
       ELSE UNCHANGED lease /\ Goto(p, "off")
    /\ UNCHANGED <<vault, disk, opened, mem, acked, bounds>>

\* The schema is committed, the lock is free for a moment.
InitLease(p) ==
    /\ pc[p] = "init"
    /\ lease' = [file |-> "ready", holder |-> None]
    /\ Goto(p, "claim")
    /\ UNCHANGED <<vault, disk, opened, mem, acked, bounds>>

Release(p) == IF lease.holder = p THEN [lease EXCEPT !.holder = None] ELSE lease

-----------------------------------------------------------------------------
(* Opening: setup, unlock and the reopening after a failed write all go       *)
(* through the same steps, each of which leaves something on the disk.        *)

\* setup stores the vault and opens; unlock opens.
Unlock(p) ==
    /\ pc[p] = "locked"
    /\ vault' = TRUE
    /\ Goto(p, "bind")
    /\ UNCHANGED <<lease, disk, opened, mem, acked, bounds>>

Abandoned(p) ==
    /\ Goto(p, "locked")
    /\ opened' = [opened EXCEPT ![p] = Closed]
    /\ mem' = [mem EXCEPT ![p] = None]

\* An opening that throws closes the database and leaves the node locked.
Fail(p) ==
    /\ Abandoned(p)
    /\ UNCHANGED <<lease, vault, disk, acked, bounds>>

\* A statement that reports an error: its effect is on the disk or it is not.
Fault(p) ==
    /\ faults < MaxFaults
    /\ faults' = faults + 1
    /\ Abandoned(p)
    /\ UNCHANGED <<lease, vault, legacy, acked, lost, crashes>>

\* The old state is imported only when it is still the one that was signed.
SourceUnchanged_Unchecked(b) == TRUE
SourceUnchanged(b) == legacy = b.source

\* A committed binding opens only a database that exists.
MayOpen_Recreates(b) == b.phase = "prepared" => SourceUnchanged(b)
MayOpen(b) == IF b.phase = "prepared" THEN SourceUnchanged(b) ELSE db # Missing

\* The binding is read; or, when there is neither binding nor database, a
\* fresh one is signed for the old state as it is now.
ReadBinding(p) ==
    /\ pc[p] = "bind" /\ binding # None
    /\ IF MayOpen(binding)
       THEN /\ opened' = [opened EXCEPT ![p] = [binding |-> binding, legacy |-> legacy]]
            /\ Goto(p, "store")
            /\ UNCHANGED <<lease, vault, disk, mem, acked, bounds>>
       ELSE Fail(p)

PrepareBinding(p) ==
    /\ pc[p] = "bind" /\ binding = None
    /\ \/ /\ db # Missing
          /\ Fail(p)
       \/ LET fresh == [store |-> draws + 1, source |-> legacy, phase |-> "prepared"]
          IN  /\ db = Missing
              /\ draws < MaxStores
              /\ draws' = draws + 1
              /\ opened' = [opened EXCEPT ![p] = [binding |-> fresh, legacy |-> legacy]]
              /\ Goto(p, "stage")
              /\ UNCHANGED <<lease, vault, disk, mem, acked, lost, crashes, faults>>

\* atomic: the new file is renamed into place, and only then can an error of
\* the directory's flush be reported.
StageBinding(p) ==
    LET b == opened[p].binding
    IN  /\ pc[p] = "stage"
        /\ \/ /\ binding' = b
              /\ Goto(p, "store")
              /\ UNCHANGED <<lease, vault, legacy, db, opened, mem, acked, bounds>>
           \/ binding' \in {binding, b} /\ UNCHANGED <<db, draws>> /\ Fault(p)

\* The store is opened under the identifier the binding pins; one that is
\* missing is created, first as an empty file.
OpenStore(p) ==
    LET b == opened[p].binding
    IN  /\ pc[p] = "store"
        /\ \/ /\ db = Missing
              /\ db' = Empty
              /\ Goto(p, "schema")
              /\ UNCHANGED <<lease, vault, legacy, binding, opened, mem, acked, bounds>>
           \/ /\ db.kind = "store" /\ db.id = b.store
              /\ Goto(p, IF b.phase = "prepared" THEN "fill" ELSE "read")
              /\ UNCHANGED <<lease, vault, disk, opened, mem, acked, bounds>>
           \/ /\ db # Missing
              /\ db.kind = "store" => db.id # b.store
              /\ Fail(p)

\* The schema and the first index are one transaction.
CreateSchema(p) ==
    LET fresh == Store(opened[p].binding.store, None)
    IN  /\ pc[p] = "schema"
        /\ \/ /\ db' = fresh
              /\ Goto(p, "fill")
              /\ UNCHANGED <<lease, vault, legacy, binding, opened, mem, acked, bounds>>
           \/ db' \in {db, fresh} /\ UNCHANGED <<binding, draws>> /\ Fault(p)

Imported(p) == [base |-> opened[p].legacy, edits |-> {}]

\* An import that insists on starting from an empty store.
Fill_Once(p) ==
    /\ pc[p] = "fill"
    /\ IF db.doc = None
       THEN /\ db' = [db EXCEPT !.doc = Imported(p)]
            /\ Goto(p, "commit")
            /\ UNCHANGED <<lease, vault, legacy, binding, opened, mem, acked, bounds>>
       ELSE Fail(p)

\* The import and its marker are one transaction, which a resumed opening
\* finds done; what it finds has to be the import of this old state.
Fill(p) ==
    LET filled == IF db.doc = None THEN [db EXCEPT !.doc = Imported(p)] ELSE db
    IN  /\ pc[p] = "fill"
        /\ IF filled.doc = Imported(p)
           THEN \/ /\ db' = filled
                   /\ Goto(p, "commit")
                   /\ UNCHANGED <<lease, vault, legacy, binding, opened, mem, acked, bounds>>
                \/ db' \in {db, filled} /\ UNCHANGED <<binding, draws>> /\ Fault(p)
           ELSE Fail(p)

CommitBinding(p) ==
    LET b == [opened[p].binding EXCEPT !.phase = "committed"]
    IN  /\ pc[p] = "commit"
        /\ \/ /\ binding' = b
              /\ opened' = [opened EXCEPT ![p].binding = b]
              /\ Goto(p, "read")
              /\ UNCHANGED <<lease, vault, legacy, db, mem, acked, bounds>>
           \/ binding' \in {binding, b} /\ UNCHANGED <<db, draws>> /\ Fault(p)

\* The marker of the initialization is that of the binding.
Initialized == db.kind = "store" /\ db.doc # None

\* The document is read and checked; the node keeps it with its digest.
Load(p) ==
    /\ pc[p] = "read"
    /\ IF Initialized
       THEN /\ mem' = [mem EXCEPT ![p] = db.doc]
            /\ Goto(p, "unlocked")
            /\ UNCHANGED <<lease, vault, disk, opened, acked, bounds>>
       ELSE Fail(p)

-----------------------------------------------------------------------------
(* The open profile.                                                          *)

\* writeProfileState: the chunks, the manifest and the index are committed
\* together, and only over the document the writer has read.
Current(p) == db.kind = "store" /\ db.doc = mem[p]

Written(doc) == [db EXCEPT !.doc = doc]

Reopen(p) == Goto(p, "bind") /\ opened' = [opened EXCEPT ![p] = Closed]

\* execute: a transaction that throws leaves what was there or, when the commit
\* reported the error, what it wrote; the handle is closed and the profile opened
\* again, whatever the error was.
Thrown(p, saved) ==
    /\ faults < MaxFaults
    /\ faults' = faults + 1
    /\ db' \in {db, saved}
    /\ Reopen(p)
    /\ UNCHANGED <<mem, acked>>

\* MUTANT: a save that takes an uncertain commit for a success.
persistPrivate_Hopes(p, e) ==
    LET next == [mem[p] EXCEPT !.edits = @ \cup {e}]
    IN  /\ pc[p] = "unlocked" /\ e \notin mem[p].edits
        /\ Current(p)
        /\ \/ db' = [db EXCEPT !.doc = next] /\ UNCHANGED faults
           \/ faults < MaxFaults /\ faults' = faults + 1 /\ UNCHANGED db
        /\ mem' = [mem EXCEPT ![p] = next]
        /\ acked' = acked \cup {e}
        /\ UNCHANGED <<lease, vault, legacy, binding, pc, opened, lost, draws, crashes>>

\* A save that returns is in memory and on the disk.
persistPrivate(p, e) ==
    LET next == [mem[p] EXCEPT !.edits = @ \cup {e}]
        saved == Written(next)
    IN  /\ pc[p] = "unlocked" /\ e \notin mem[p].edits
        /\ \/ /\ Current(p)
              /\ db' = saved
              /\ mem' = [mem EXCEPT ![p] = next]
              /\ acked' = acked \cup {e}
              /\ UNCHANGED <<pc, opened, faults>>
           \/ Thrown(p, IF Current(p) THEN saved ELSE db)
        /\ UNCHANGED <<lease, vault, legacy, binding, lost, draws, crashes>>

\* MUTANT: whether an operation was done is not looked up.
Remembered_Never(o) == FALSE
Remembered(o) == \E x \in db.journal : x.id = o

\* At the limit the oldest operation is forgotten.
Oldest(J) == CHOOSE x \in J : \A y \in J : x.sequence <= y.sequence
Kept(J) == IF Cardinality(J) >= MaxOperations THEN J \ {Oldest(J)} ELSE J

\* An operation on a group: what it signs and the memory of it are one transaction.
Signed(o) ==
    [db EXCEPT !.signed = Append(@, o),
               !.journal = Kept(@) \cup {[id |-> o, sequence |-> Len(db.signed) + 1]}]

\* A user who had no answer tries again under the same identifier, and is given
\* the result that is remembered.
groupCommand(p, o) ==
    LET saved == IF Remembered(o) THEN db ELSE Signed(o)
    IN  /\ pc[p] = "unlocked"
        /\ Remembered(o) \/ Len(db.signed) < MaxSigned
        /\ \/ /\ Current(p)
              /\ db' = saved
              /\ acked' = acked \cup {o}
              /\ UNCHANGED <<pc, opened, mem, faults>>
           \/ Thrown(p, IF Current(p) THEN saved ELSE db)
        /\ UNCHANGED <<lease, vault, legacy, binding, lost, draws, crashes>>

lock(p) ==
    /\ pc[p] = "unlocked"
    /\ Fail(p)

Gone(p) ==
    /\ lease' = Release(p)
    /\ Goto(p, "off")
    /\ opened' = [opened EXCEPT ![p] = Closed]
    /\ mem' = [mem EXCEPT ![p] = None]
    /\ UNCHANGED <<vault, disk, acked, lost, draws, faults>>

stop(p) ==
    /\ pc[p] \in {"locked", "unlocked"}
    /\ Gone(p)
    /\ UNCHANGED crashes

\* The system gives up the lock of a process that died.
Crash(p) ==
    /\ pc[p] # "off" /\ crashes < MaxCrashes
    /\ crashes' = crashes + 1
    /\ Gone(p)

-----------------------------------------------------------------------------
(* Outside the program.                                                       *)

\* An older release writes its JSON state.
WriteLegacy ==
    /\ vault /\ legacy < MaxLegacy
    /\ legacy' = legacy + 1
    /\ UNCHANGED <<lease, vault, binding, db, local, acked, bounds>>

\* A file of a profile in use is deleted while no process runs.
Lose ==
    /\ binding # None /\ binding.phase = "committed"
    /\ Cardinality(lost) < MaxLosses
    /\ \A p \in Procs : pc[p] = "off"
    /\ \/ db' = Missing /\ lost' = lost \cup {"database"} /\ UNCHANGED binding
       \/ binding' = None /\ lost' = lost \cup {"binding"} /\ UNCHANGED db
    /\ UNCHANGED <<lease, vault, legacy, local, acked, draws, crashes, faults>>

Step(p) ==
    \/ Start(p) \/ Claim(p) \/ InitLease(p) \/ Unlock(p)
    \/ ReadBinding(p) \/ PrepareBinding(p) \/ StageBinding(p) \/ OpenStore(p)
    \/ CreateSchema(p) \/ Fill(p) \/ CommitBinding(p) \/ Load(p)

Next ==
    \/ \E p \in Procs : Step(p) \/ lock(p) \/ stop(p) \/ Crash(p)
    \/ \E p \in Procs, e \in Edits : persistPrivate(p, e)
    \/ \E p \in Procs, o \in Operations : groupCommand(p, o)
    \/ WriteLegacy \/ Lose

Spec == Init /\ [][Next]_vars

\* The steps of an opening follow one another in one synchronous call; that a
\* user starts the program, and does not always stop it before giving the
\* password, is an assumption.
FairSpec == Spec /\ \A p \in Procs : WF_vars(Step(p)) /\ SF_vars(Unlock(p))

-----------------------------------------------------------------------------
(* Properties *)

\* Whatever crashes, fails or is retried, an edit whose save returned is in the
\* document of the database, and an operation whose result was returned is signed,
\* as long as nobody deletes the file.
AckedIsKept ==
    "database" \notin lost =>
        \/ acked = {}
        \/ /\ Initialized
           /\ acked \cap Edits \subseteq db.doc.edits
           /\ \A o \in acked \cap Operations : \E i \in DOMAIN db.signed : db.signed[i] = o

\* A command that is tried again, because its answer was lost in a crash or its
\* commit was uncertain, signs nothing a second time, unless as many others came
\* between as the journal holds.
SignedOnce ==
    db.kind = "store" =>
        \A j \in DOMAIN db.signed : \A i \in 1 .. j - 1 :
            db.signed[i] = db.signed[j] => j - i > MaxOperations

\* The document comes from the old state that the binding names, however
\* often the import was interrupted and the old state written meanwhile.
ImportIsTheSignedOne ==
    binding # None /\ db.kind = "store" /\ db.doc # None => db.doc.base = binding.source

\* "Uma base inicializada ausente [...] ou sem ligação é recusada; não é
\* reposta": what was lost stays lost, the program makes no other in its place.
NeverReplaced ==
    [][/\ "database" \in lost => db' = Missing
       /\ "binding" \in lost => binding' = None]_vars

\* An import that was prepared is completed once somebody tries again, unless
\* the old state moved or the attempt ended between creating the file of the
\* database and its schema.
Prepared == binding # None /\ binding.phase = "prepared"
Resumes == Prepared ~> (~Prepared \/ legacy # binding.source \/ db = Empty)

\* "Staged initialization can resume": the same with no exception but the old
\* state that moved.
StagedResumes == Prepared ~> (~Prepared \/ legacy # binding.source)
=============================================================================
