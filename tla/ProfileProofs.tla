---------------------------- MODULE ProfileProofs ----------------------------
(***************************************************************************)
(* Proofs about module Profile, for any number of processes, crashes and   *)
(* failed statements: the types, that what was acknowledged is kept, that  *)
(* no operation is signed twice while the journal remembers it, that the   *)
(* import is the one that was signed, and that what was lost is not        *)
(* replaced.                                                               *)
(***************************************************************************)
EXTENDS Profile, FiniteSetTheorems, TLAPS

Stores == [kind : {"store"}, id : 1 .. MaxStores, doc : Document \cup {None},
           journal : SUBSET [id : Operations, sequence : 1 .. MaxSigned],
           signed : Seq(Operations)]
Files == {Missing, Empty} \cup Stores

LEMMA FileKinds ==
    /\ Missing.kind # "store" /\ Empty.kind # "store" /\ Missing # Empty
    /\ \A d \in Stores : d.kind = "store" /\ d # Missing /\ d # Empty
  BY DEF Missing, Empty, Stores

-----------------------------------------------------------------------------
(* The journal of the operations. *)

\* The operations a journal has room for, of those signed in the order s.
Last(s) == {k \in 1 .. Len(s) : k + MaxOperations > Len(s)}
Recent(s) == {[id |-> s[k], sequence |-> k] : k \in Last(s)}

LEMMA RecentSize ==
    ASSUME NEW s \in Seq(Operations)
    PROVE  /\ Cardinality(Recent(s)) \in Nat
           /\ Cardinality(Recent(s)) >= MaxOperations <=> Len(s) >= MaxOperations
<1> DEFINE n == Len(s)
           a == IF n >= MaxOperations THEN n - MaxOperations + 1 ELSE 1
           f == [k \in a .. n |-> [id |-> s[k], sequence |-> k]]
<1>1. /\ n \in Nat /\ a \in Nat \ {0} /\ MaxOperations \in Nat \ {0}
      /\ n >= MaxOperations => a = n - MaxOperations + 1
      /\ n < MaxOperations => a = 1
  BY ProfileAssumption
<1>2. Last(s) = a .. n
  BY <1>1 DEF Last
<1>3. f \in Bijection(a .. n, Recent(s))
  <2>1. Recent(s) = {f[k] : k \in a .. n}
    BY <1>2 DEF Recent
  <2>2. \A j, k \in a .. n : f[j] = f[k] => j = k
    <3> SUFFICES ASSUME NEW j \in a .. n, NEW k \in a .. n, f[j] = f[k] PROVE j = k
      OBVIOUS
    <3>1. f[j].sequence = j /\ f[k].sequence = k
      OBVIOUS
    <3> QED
      BY <3>1
  <2> HIDE DEF f, a, n
  <2>3. DOMAIN f = a .. n /\ f = [k \in a .. n |-> f[k]]
    BY DEF f
  <2> QED
    BY <2>1, <2>2, <2>3 DEF Bijection, Injection, Surjection, IsInjective
<1>4. IsFiniteSet(a .. n) /\ Cardinality(a .. n) = IF a > n THEN 0 ELSE n - a + 1
  <2> HIDE DEF a, n
  <2>1. a \in Int /\ n \in Int
    BY <1>1
  <2> QED
    BY <2>1, FS_Interval
<1>5. Cardinality(Recent(s)) = Cardinality(a .. n)
  <2> HIDE DEF f, a, n
  <2> QED
    BY <1>3, <1>4, FS_Bijection DEF ExistsBijection
<1> HIDE DEF a
<1> QED
  BY <1>1, <1>4, <1>5

\* Making room forgets exactly the operation that the next one pushes out.
LEMMA KeptRecent ==
    ASSUME NEW s \in Seq(Operations), NEW o \in Operations
    PROVE  Kept(Recent(s)) \cup {[id |-> o, sequence |-> Len(s) + 1]} = Recent(Append(s, o))
<1> DEFINE n == Len(s)
           t == Append(s, o)
           R(k) == [id |-> s[k], sequence |-> k]
<1>1. n \in Nat /\ MaxOperations \in Nat \ {0}
  BY ProfileAssumption
<1>2. Len(t) = n + 1 /\ t[n + 1] = o /\ \A k \in 1 .. n : t[k] = s[k]
  OBVIOUS
<1>3. Last(t) = {k \in 1 .. n : k + MaxOperations > n + 1} \cup {n + 1}
  <2> HIDE DEF t, n
  <2> QED
    BY <1>1, <1>2 DEF Last
<1>4. Recent(t) = {R(k) : k \in {k \in 1 .. n : k + MaxOperations > n + 1}}
                    \cup {[id |-> o, sequence |-> n + 1]}
  <2> HIDE DEF t, n
  <2> QED
    BY <1>1, <1>2, <1>3 DEF Recent
<1>5. CASE n < MaxOperations
  <2>1. Last(s) = {k \in 1 .. n : k + MaxOperations > n + 1}
    BY <1>1, <1>5 DEF Last
  <2>2. Kept(Recent(s)) = Recent(s)
    BY <1>1, <1>5, RecentSize DEF Kept
  <2> QED
    BY <1>4, <2>1, <2>2 DEF Recent
<1>6. CASE n >= MaxOperations
  <2> DEFINE a == n - MaxOperations + 1
  <2>1. a \in 1 .. n /\ a \in Last(s) /\ \A k \in Last(s) : a <= k
    BY <1>1, <1>6 DEF Last
  <2>2. Oldest(Recent(s)) = R(a)
    <3>1. R(a) \in Recent(s) /\ \A y \in Recent(s) : R(a).sequence <= y.sequence
      BY <2>1 DEF Recent
    <3>2. \A x \in Recent(s) : (\A y \in Recent(s) : x.sequence <= y.sequence) => x = R(a)
      <4> SUFFICES ASSUME NEW k \in Last(s), R(k).sequence <= R(a).sequence PROVE k = a
        BY <2>1, <3>1 DEF Recent
      <4> QED
        BY <2>1, <1>1 DEF Last
    <3> HIDE DEF R
    <3> QED
      BY <3>1, <3>2 DEF Oldest
  <2>3. Kept(Recent(s)) = Recent(s) \ {R(a)}
    BY <1>6, <2>2, RecentSize DEF Kept
  <2>4. Recent(s) \ {R(a)} = {R(k) : k \in Last(s) \ {a}}
    <3>1. \A j, k \in Last(s) : R(j) = R(k) => j = k
      <4> SUFFICES ASSUME NEW j \in Last(s), NEW k \in Last(s), R(j) = R(k) PROVE j = k
        OBVIOUS
      <4>1. R(j).sequence = j /\ R(k).sequence = k
        OBVIOUS
      <4> QED
        BY <4>1
    <3>2. Recent(s) = {R(k) : k \in Last(s)}
      BY DEF Recent
    <3> HIDE DEF R
    <3> QED
      BY <2>1, <3>1, <3>2
  <2>5. Last(s) \ {a} = {k \in 1 .. n : k + MaxOperations > n + 1}
    BY <1>1, <1>6 DEF Last
  <2> QED
    BY <1>4, <2>3, <2>4, <2>5
<1> QED
  BY <1>1, <1>5, <1>6
-----------------------------------------------------------------------------
(* The inductive invariant. *)

\* A process past the claim holds the lease, so there is only one.
Holding == {"init", "locked", "unlocked"} \cup Opening
Owned == \A p \in Procs : pc[p] \in Holding => lease.holder = p

\* What a process that is opening has found and left on the disk so far.
Stage(p) ==
    LET b == opened[p].binding
    IN  /\ pc[p] \in Opening \ {"bind"} =>
              /\ b \in Binding
              /\ IF pc[p] = "stage" THEN b.phase = "prepared" /\ binding = None /\ db = Missing
                                    ELSE b = binding
              /\ b.phase = "prepared" => b.source = opened[p].legacy
              /\ b.phase = "committed" => Initialized
              /\ pc[p] \in {"schema", "fill", "commit"} => b.phase = "prepared"
        /\ pc[p] = "schema" => db = Empty
        /\ pc[p] = "fill" => db.kind = "store"
        /\ pc[p] = "commit" => Initialized
        /\ pc[p] = "unlocked" => Initialized /\ mem[p] \in Document

\* The document is the import of the old state that was signed, and a binding
\* is committed only when the import was.
Imports ==
    binding # None =>
       /\ Initialized => db.doc.base = binding.source
       /\ binding.phase = "committed" => Initialized \/ (db = Missing /\ "database" \in lost)

Journals == db.kind = "store" => db.journal = Recent(db.signed)

\* The types of all but the database.
Rest ==
    /\ lease \in [file : {"missing", "empty", "ready"}, holder : Procs \cup {None}]
    /\ vault \in BOOLEAN
    /\ legacy \in 0 .. MaxLegacy
    /\ binding \in Binding \cup {None}
    /\ pc \in [Procs -> {"off", "locked", "unlocked"} \cup Claiming \cup Opening]
    /\ opened \in [Procs -> [binding : Binding \cup {None}, legacy : 0 .. MaxLegacy]]
    /\ mem \in [Procs -> Document \cup {None}]
    /\ acked \subseteq Edits \cup Operations
    /\ lost \subseteq {"database", "binding"}
    /\ draws \in Nat

IInv ==
    /\ Rest /\ db \in Files
    /\ Owned /\ (\A p \in Procs : Stage(p))
    /\ Imports /\ Journals

\* While at most one file is lost, nobody gets past reading the binding again.
Past == (Opening \ {"bind"}) \cup {"unlocked"}
Losses ==
    /\ "binding" \in lost => lost = {"binding"} /\ binding = None /\ db # Missing
    /\ "database" \in lost =>
          lost = {"database"} /\ db = Missing /\ binding # None /\ binding.phase = "committed"
    /\ lost # {} => \A p \in Procs : pc[p] \notin Past

-----------------------------------------------------------------------------
(* What a step does to the database. *)

Saved(e) == [db EXCEPT !.doc = [db.doc EXCEPT !.edits = @ \cup {e}]]
HasDocument == db \in Stores /\ db.doc \in Document

Evolves ==
    \/ db' = db
    \/ db = Missing /\ db' = Empty
    \/ db = Empty /\ \E id \in 1 .. MaxStores : db' = Store(id, None)
    \/ db \in Stores /\ db.doc = None /\ \E doc \in Document : db' = [db EXCEPT !.doc = doc]
    \/ HasDocument /\ \E e \in Edits : db' = Saved(e)
    \/ HasDocument /\ \E o \in Operations :
          ~Remembered(o) /\ Len(db.signed) < MaxSigned /\ db' = Signed(o)
    \/ db' = Missing /\ "database" \in lost'

LEMMA DbType ==
    ASSUME db \in Files
    PROVE  (db.kind = "store" <=> db \in Stores) /\ (Initialized <=> HasDocument)
<1>1. db.kind = "store" <=> db \in Stores
  BY FileKinds DEF Files
<1>2. db \in Stores => (db.doc # None <=> db.doc \in Document)
  BY ProfileAssumption DEF Stores
<1> QED
  BY <1>1, <1>2 DEF Initialized, HasDocument

LEMMA SavedType ==
    ASSUME HasDocument, NEW e \in Edits
    PROVE  /\ Saved(e) \in Stores
           /\ Saved(e).doc \in Document /\ Saved(e).doc.base = db.doc.base
           /\ Saved(e).doc.edits = db.doc.edits \cup {e}
           /\ Saved(e).journal = db.journal /\ Saved(e).signed = db.signed
<1> DEFINE next == [db.doc EXCEPT !.edits = @ \cup {e}]
<1>1. next \in Document /\ next.base = db.doc.base /\ next.edits = db.doc.edits \cup {e}
  BY DEF HasDocument, Document
<1> HIDE DEF next
<1>2. Saved(e) = [db EXCEPT !.doc = next]
  BY DEF Saved, next
<1> QED
  BY <1>1, <1>2 DEF HasDocument, Stores

LEMMA SignedType ==
    ASSUME HasDocument, Journals, NEW o \in Operations, Len(db.signed) < MaxSigned
    PROVE  /\ Signed(o) \in Stores
           /\ Signed(o).doc = db.doc
           /\ Signed(o).signed = Append(db.signed, o)
           /\ Signed(o).journal = Recent(Append(db.signed, o))
<1> DEFINE s == db.signed
           t == Append(s, o)
<1>1. db \in Stores /\ s \in Seq(Operations) /\ db.journal = Recent(s) /\ Len(s) < MaxSigned
  BY DEF HasDocument, Journals, Stores
<1>2. t \in Seq(Operations) /\ Len(t) \in 1 .. MaxSigned
  BY <1>1, ProfileAssumption
<1>3. Recent(t) \subseteq [id : Operations, sequence : 1 .. MaxSigned]
  BY <1>2, ProfileAssumption DEF Recent, Last
<1> HIDE DEF t
<1>4. Signed(o) = [db EXCEPT !.signed = t, !.journal = Recent(t)]
  <2>1. Kept(db.journal) \cup {[id |-> o, sequence |-> Len(s) + 1]} = Recent(t)
    BY <1>1, KeptRecent DEF t
  <2>2. Signed(o) = [db EXCEPT !.signed = t,
                       !.journal = Kept(@) \cup {[id |-> o, sequence |-> Len(s) + 1]}]
    BY DEF Signed, t
  <2> QED
    BY <1>1, <2>1, <2>2 DEF Stores
<1> QED
  BY <1>1, <1>2, <1>3, <1>4 DEF Stores, t

LEMMA StoreType ==
    ASSUME NEW id \in 1 .. MaxStores
    PROVE  /\ Store(id, None) \in Stores
           /\ Store(id, None).doc = None /\ Store(id, None).signed = <<>>
           /\ Store(id, None).journal = Recent(<<>>)
<1>1. Recent(<<>>) = {}
  BY DEF Recent, Last
<1> QED
  BY <1>1 DEF Store, Stores

\* However a step changes the database, it stays well formed, and its journal is
\* that of the operations it has signed.
LEMMA DataStep ==
    ASSUME db \in Files, Journals, Evolves
    PROVE  db' \in Files /\ Journals'
<1>1. CASE db' = db
  BY <1>1 DEF Journals
<1>3. CASE db' \in {Missing, Empty}
  BY <1>3, FileKinds DEF Files, Journals
<1>4. ASSUME NEW id \in 1 .. MaxStores, db' = Store(id, None) PROVE db' \in Files /\ Journals'
  BY <1>4, StoreType DEF Files, Journals
<1>5. ASSUME db \in Stores, NEW doc \in Document, db' = [db EXCEPT !.doc = doc]
      PROVE  db' \in Files /\ Journals'
  <2>1. db' \in Stores /\ db'.journal = db.journal /\ db'.signed = db.signed
    BY <1>5 DEF Stores
  <2>2. db.kind = "store"
    BY <1>5, FileKinds
  <2> QED
    BY <2>1, <2>2 DEF Files, Journals
<1>6. ASSUME HasDocument, NEW e \in Edits, db' = Saved(e) PROVE db' \in Files /\ Journals'
  <2>1. db' \in Stores /\ db'.journal = db.journal /\ db'.signed = db.signed
    BY <1>6, SavedType
  <2>2. db.kind = "store"
    BY <1>6, FileKinds DEF HasDocument
  <2> QED
    BY <2>1, <2>2 DEF Files, Journals
<1>7. ASSUME HasDocument, NEW o \in Operations, Len(db.signed) < MaxSigned, db' = Signed(o)
      PROVE  db' \in Files /\ Journals'
  <2>1. db' \in Stores /\ db'.journal = Recent(db'.signed)
    BY <1>7, SignedType
  <2> QED
    BY <2>1 DEF Files, Journals
<1> QED
  BY <1>1, <1>3, <1>4, <1>5, <1>6, <1>7 DEF Evolves


\* A process that holds the lease is alone: what the others rely on is not
\* touched, because they rely on nothing.
LEMMA Alone ==
    ASSUME IInv, NEW p \in Procs, pc[p] \in Holding,
           \A q \in Procs \ {p} : pc'[q] = pc[q],
           Rest', Evolves, Imports', Stage(p)',
           pc'[p] \in Holding => lease'.holder = p
    PROVE  IInv'
<1>1. \A q \in Procs \ {p} : pc[q] \notin Holding
  BY DEF IInv, Owned
<1>2. \A q \in Procs \ {p} : pc'[q] \notin Holding
  BY <1>1
<1>3. \A q \in Procs \ {p} : Stage(q)'
  BY <1>2 DEF Stage, Holding, Opening
<1>4. Owned'
  BY <1>2 DEF Owned
<1>5. db' \in Files /\ Journals'
  BY DataStep DEF IInv
<1> QED
  BY <1>3, <1>4, <1>5 DEF IInv

\* The import is not touched.
LEMMA SameImport ==
    ASSUME Imports, UNCHANGED <<binding, db, lost>> PROVE Imports'
  BY DEF Imports, Initialized

LEMMA Waits == {"off", "claim"} \cap Holding = {}
  BY DEF Holding, Opening

LEMMA StartStep == ASSUME IInv, NEW p \in Procs, Start(p) PROVE IInv'
<1>1. Rest'
  BY DEF IInv, Rest, Start, Goto, Claiming, disk, bounds
<1>2. /\ pc[p] \notin Holding /\ pc'[p] \notin Holding /\ \A q \in Procs \ {p} : pc'[q] = pc[q]
      /\ lease'.holder = lease.holder
      /\ UNCHANGED <<binding, db, opened, mem, lost>>
  BY Waits DEF Start, Goto, IInv, Rest, disk, bounds
<1>3. Owned'
  BY <1>2 DEF IInv, Owned
<1>4. \A q \in Procs : Stage(q)'
  BY <1>2 DEF IInv, Stage, Holding, Opening, Initialized
<1> QED
  BY <1>1, <1>2, <1>3, <1>4, SameImport DEF IInv, Journals

LEMMA ClaimStep == ASSUME IInv, NEW p \in Procs, Claim(p) PROVE IInv'
<1>1. Rest'
  BY DEF IInv, Rest, Claim, Goto, Claiming, disk, bounds
<1>2. /\ pc[p] = "claim" /\ \A q \in Procs \ {p} : pc'[q] = pc[q]
      /\ \/ lease' = [lease EXCEPT !.holder = p] /\ lease.holder = None
         \/ lease' = lease /\ pc'[p] = "off"
      /\ pc'[p] \in {"init", "locked", "off"}
      /\ UNCHANGED <<binding, db, opened, mem, lost>>
  BY DEF Claim, Free, Goto, IInv, Rest, disk, bounds
<1>3. Owned'
  <2>1. CASE lease' = [lease EXCEPT !.holder = p] /\ lease.holder = None
    <3>1. \A q \in Procs : pc[q] \notin Holding
      BY <2>1, ProfileAssumption DEF IInv, Owned
    <3>2. lease'.holder = p
      BY <2>1 DEF IInv, Rest
    <3> QED
      BY <1>2, <3>1, <3>2 DEF Owned
  <2>2. CASE lease' = lease /\ pc'[p] = "off"
    BY <1>2, <2>2, Waits DEF IInv, Owned
  <2> QED
    BY <1>2, <2>1, <2>2
<1>4. \A q \in Procs : Stage(q)'
  BY <1>2 DEF IInv, Stage, Opening, Initialized
<1> QED
  BY <1>1, <1>2, <1>3, <1>4, SameImport DEF IInv, Journals

LEMMA InitLeaseStep == ASSUME IInv, NEW p \in Procs, InitLease(p) PROVE IInv'
<1>1. Rest'
  BY DEF IInv, Rest, InitLease, Goto, Claiming, disk, bounds
<1>2. /\ pc[p] = "init" /\ \A q \in Procs \ {p} : pc'[q] = pc[q]
      /\ pc'[p] = "claim" /\ UNCHANGED <<binding, db, lost>>
  BY DEF InitLease, Goto, IInv, Rest, disk, bounds
<1>3. pc[p] \in Holding /\ pc'[p] \notin Holding
  BY <1>2 DEF Holding, Opening
<1>4. Stage(p)'
  BY <1>2 DEF Stage, Opening
<1>5. Imports'
  BY <1>2, SameImport DEF IInv
<1> QED
  BY <1>1, <1>2, <1>3, <1>4, <1>5, Alone DEF Evolves

LEMMA UnlockStep == ASSUME IInv, NEW p \in Procs, Unlock(p) PROVE IInv'
<1>1. Rest'
  BY DEF IInv, Rest, Unlock, Goto, Opening, disk, bounds
<1>2. /\ pc[p] = "locked" /\ \A q \in Procs \ {p} : pc'[q] = pc[q]
      /\ pc'[p] = "bind" /\ UNCHANGED <<lease, binding, db, lost>>
  BY DEF Unlock, Goto, IInv, Rest, disk, bounds
<1>3. pc[p] \in Holding /\ lease'.holder = p
  BY <1>2 DEF Holding, IInv, Owned
<1>4. Stage(p)'
  BY <1>2 DEF Stage
<1>5. Imports'
  BY <1>2, SameImport DEF IInv
<1> QED
  BY <1>1, <1>2, <1>3, <1>4, <1>5, Alone DEF Evolves

\* A process that closes: it is locked, or off with the lease given up.
LEMMA CloseStep ==
    ASSUME IInv, NEW p \in Procs, pc[p] \in Holding, Rest', Evolves, Imports',
           NEW next \in {"locked", "off", "bind"}, Goto(p, next),
           next # "off" => lease' = lease
    PROVE  IInv'
<1>1. pc'[p] = next /\ \A q \in Procs \ {p} : pc'[q] = pc[q]
  BY DEF Goto, IInv, Rest
<1>2. Stage(p)'
  BY <1>1 DEF Stage, Opening
<1>3. pc'[p] \in Holding => lease'.holder = p
  BY <1>1, Waits DEF IInv, Owned
<1> QED
  BY <1>1, <1>2, <1>3, Alone

LEMMA AbandonStep ==
    ASSUME IInv, NEW p \in Procs, pc[p] \in Holding, Abandoned(p),
           UNCHANGED <<lease, vault, legacy, acked, lost, draws>>,
           binding' \in Binding \cup {None}, Evolves, Imports'
    PROVE  IInv'
<1>1. Rest'
  <2>1. Closed \in [binding : Binding \cup {None}, legacy : 0 .. MaxLegacy]
    BY ProfileAssumption DEF Closed
  <2> QED
    BY <2>1 DEF IInv, Rest, Abandoned, Goto
<1> QED
  BY <1>1, CloseStep DEF Abandoned

LEMMA FailStep ==
    ASSUME IInv, NEW p \in Procs, pc[p] \in Holding, Fail(p) PROVE IInv' /\ Evolves
<1>1. UNCHANGED <<lease, vault, legacy, acked, lost, draws, binding, db>>
  BY DEF Fail, disk, bounds
<1>2. Imports' /\ binding' \in Binding \cup {None}
  BY <1>1, SameImport DEF IInv, Rest
<1> QED
  BY <1>1, <1>2, AbandonStep DEF Fail, Evolves

\* A process in the middle of an opening or of a call moves to the next step,
\* with the binding and the old state it goes on with.
LEMMA MoveStep ==
    ASSUME IInv, NEW p \in Procs, pc[p] \in Holding,
           NEW next \in {"unlocked"} \cup Opening, Goto(p, next),
           UNCHANGED <<lease, vault, legacy, lost>>, draws' \in Nat,
           binding' \in Binding \cup {None},
           NEW o \in [binding : Binding \cup {None}, legacy : 0 .. MaxLegacy],
           opened' = [opened EXCEPT ![p] = o],
           mem' \in [Procs -> Document \cup {None}],
           acked' \subseteq Edits \cup Operations,
           Evolves, Imports',
           opened'[p] = o /\ pc'[p] = next => Stage(p)'
    PROVE  IInv'
<1>1. pc'[p] = next /\ opened'[p] = o /\ \A q \in Procs \ {p} : pc'[q] = pc[q]
  BY DEF Goto, IInv, Rest
<1>2. Rest'
  BY DEF IInv, Rest, Goto
<1>3. lease'.holder = p
  BY DEF IInv, Owned
<1> QED
  BY <1>1, <1>2, <1>3, Alone

\* What Rest says of a process that is opening.
LEMMA OpeningType ==
    ASSUME IInv, NEW p \in Procs
    PROVE  /\ opened[p] \in [binding : Binding \cup {None}, legacy : 0 .. MaxLegacy]
           /\ opened = [opened EXCEPT ![p] = opened[p]]
           /\ binding \in Binding \cup {None} /\ legacy \in 0 .. MaxLegacy
           /\ mem \in [Procs -> Document \cup {None}]
           /\ acked \subseteq Edits \cup Operations /\ draws \in Nat
           /\ Stage(p) /\ Imports /\ db \in Files
  BY DEF IInv, Rest

LEMMA ReadBindingStep == ASSUME IInv, NEW p \in Procs, ReadBinding(p) PROVE IInv'
<1>1. pc[p] = "bind" /\ binding # None /\ pc[p] \in Holding
  BY DEF ReadBinding, Holding, Opening
<1>2. CASE MayOpen(binding)
  <2> DEFINE o == [binding |-> binding, legacy |-> legacy]
  <2>1. /\ opened' = [opened EXCEPT ![p] = o] /\ Goto(p, "store")
        /\ UNCHANGED <<lease, vault, legacy, binding, db, mem, acked, lost, draws>>
    BY <1>1, <1>2 DEF ReadBinding, disk, bounds
  <2>2. o \in [binding : Binding \cup {None}, legacy : 0 .. MaxLegacy] /\ binding \in Binding
    BY <1>1, OpeningType
  <2>3. opened'[p] = o /\ pc'[p] = "store" => Stage(p)'
    <3>1. /\ binding.phase = "prepared" => binding.source = legacy
          /\ binding.phase = "committed" => Initialized
      <4>1. CASE binding.phase = "prepared"
        BY <1>2, <4>1 DEF MayOpen, SourceUnchanged
      <4>2. CASE binding.phase # "prepared"
        BY <1>1, <1>2, <4>2 DEF MayOpen, IInv, Imports
      <4> QED
        BY <4>1, <4>2
    <3> QED
      BY <2>1, <2>2, <3>1 DEF Stage, Opening, Initialized
  <2>4. Imports'
    BY <2>1, SameImport DEF IInv
  <2>5. "store" \in Opening /\ Evolves
    BY <2>1 DEF Opening, Evolves
  <2> HIDE DEF o
  <2> QED
    BY <1>1, <2>1, <2>2, <2>3, <2>4, <2>5, OpeningType, MoveStep
<1>3. CASE ~MayOpen(binding)
  BY <1>1, <1>3, FailStep DEF ReadBinding
<1> QED
  BY <1>2, <1>3

LEMMA PrepareBindingStep == ASSUME IInv, NEW p \in Procs, PrepareBinding(p) PROVE IInv'
<1>1. pc[p] = "bind" /\ binding = None /\ pc[p] \in Holding
  BY DEF PrepareBinding, Holding, Opening
<1>2. CASE Fail(p)
  BY <1>1, <1>2, FailStep
<1>3. CASE ~Fail(p)
  <2> DEFINE fresh == [store |-> draws + 1, source |-> legacy, phase |-> "prepared"]
             o == [binding |-> fresh, legacy |-> legacy]
  <2>1. /\ opened' = [opened EXCEPT ![p] = o] /\ Goto(p, "stage")
        /\ db = Missing /\ draws < MaxStores /\ draws' = draws + 1
        /\ UNCHANGED <<lease, vault, legacy, binding, db, mem, acked, lost>>
    BY <1>1, <1>3 DEF PrepareBinding, disk
  <2>2. /\ o \in [binding : Binding \cup {None}, legacy : 0 .. MaxLegacy]
        /\ fresh \in Binding /\ draws' \in Nat
    BY <2>1, OpeningType, ProfileAssumption DEF Binding
  <2>3. opened'[p] = o /\ pc'[p] = "stage" => Stage(p)'
    BY <1>1, <2>1, <2>2 DEF Stage
  <2>4. Imports'
    BY <2>1, SameImport DEF IInv
  <2>5. "stage" \in Opening /\ Evolves
    BY <2>1 DEF Opening, Evolves
  <2> HIDE DEF o
  <2> QED
    BY <1>1, <2>1, <2>2, <2>3, <2>4, <2>5, OpeningType, MoveStep
<1> QED
  BY <1>2, <1>3

LEMMA StageBindingStep == ASSUME IInv, NEW p \in Procs, StageBinding(p) PROVE IInv'
<1> DEFINE b == opened[p].binding
<1>1. pc[p] = "stage" /\ pc[p] \in Holding
  BY DEF StageBinding, Holding, Opening
<1>2. /\ b \in Binding /\ b.phase = "prepared" /\ binding = None /\ db = Missing
      /\ b.source = opened[p].legacy
  BY <1>1, OpeningType DEF Stage, Opening
<1>3. /\ binding' \in {binding, b} /\ UNCHANGED <<lease, vault, legacy, db, acked, lost, draws>>
      /\ \/ Goto(p, "store") /\ binding' = b /\ UNCHANGED <<opened, mem>>
         \/ Abandoned(p)
  BY DEF StageBinding, Fault, bounds
<1>4. Imports' /\ binding' \in Binding \cup {None} /\ Evolves
  BY <1>2, <1>3, FileKinds DEF Imports, Initialized, Evolves
<1>5. CASE Abandoned(p)
  BY <1>1, <1>3, <1>4, <1>5, AbandonStep
<1>6. CASE Goto(p, "store") /\ binding' = b /\ UNCHANGED <<opened, mem>>
  <2>1. pc'[p] = "store" => Stage(p)'
    BY <1>2, <1>6 DEF Stage, Opening
  <2>2. "store" \in Opening /\ opened' = [opened EXCEPT ![p] = opened[p]]
    BY <1>6, OpeningType DEF Opening
  <2> QED
    BY <1>1, <1>3, <1>4, <1>6, <2>1, <2>2, OpeningType, MoveStep
<1> QED
  BY <1>3, <1>5, <1>6

LEMMA OpenStoreStep == ASSUME IInv, NEW p \in Procs, OpenStore(p) PROVE IInv' /\ Evolves
<1> DEFINE b == opened[p].binding
<1>1. pc[p] = "store" /\ pc[p] \in Holding
  BY DEF OpenStore, Holding, Opening
<1>2. /\ b \in Binding /\ b = binding
      /\ b.phase = "prepared" => b.source = opened[p].legacy
      /\ b.phase = "committed" => Initialized
  BY <1>1, OpeningType DEF Stage, Opening
<1>3. opened = [opened EXCEPT ![p] = opened[p]] /\ {"schema", "fill", "read"} \subseteq Opening
  BY OpeningType DEF Opening
<1>4. CASE db = Missing /\ db' = Empty
  <2>1. Goto(p, "schema") /\ UNCHANGED <<lease, vault, legacy, binding, opened, mem, acked, lost, draws>>
    BY <1>1, <1>4, FileKinds DEF OpenStore, Fail, disk, bounds
  <2>2. b.phase = "prepared"
    BY <1>2, <1>4, FileKinds DEF Initialized, Binding
  <2>3. pc'[p] = "schema" => Stage(p)'
    BY <1>2, <1>4, <2>1, <2>2 DEF Stage
  <2>4. Imports' /\ Evolves
    BY <1>2, <1>4, <2>1, <2>2, FileKinds DEF Imports, Initialized, Evolves
  <2> QED
    BY <1>1, <1>3, <2>1, <2>3, <2>4, OpeningType, MoveStep
<1>5. CASE db.kind = "store" /\ Goto(p, IF b.phase = "prepared" THEN "fill" ELSE "read")
           /\ UNCHANGED <<lease, vault, disk, opened, mem, acked, bounds>>
  <2> DEFINE next == IF b.phase = "prepared" THEN "fill" ELSE "read"
  <2>1. pc'[p] = next => Stage(p)'
    BY <1>2, <1>5 DEF Stage, disk, Initialized
  <2>2. Imports' /\ Evolves
    BY <1>5, SameImport DEF IInv, disk, bounds, Evolves
  <2>3. next \in Opening /\ Goto(p, next)
    BY <1>3, <1>5
  <2>4. UNCHANGED <<lease, vault, legacy, lost, draws, binding, opened, mem, acked>>
    BY <1>5 DEF disk, bounds
  <2> HIDE DEF next
  <2> QED
    BY <1>1, <1>3, <2>1, <2>2, <2>3, <2>4, OpeningType, MoveStep
<1>6. CASE Fail(p)
  BY <1>1, <1>6, FailStep
<1> QED
  BY <1>4, <1>5, <1>6 DEF OpenStore

LEMMA CreateSchemaStep == ASSUME IInv, NEW p \in Procs, CreateSchema(p) PROVE IInv' /\ Evolves
<1> DEFINE b == opened[p].binding
           fresh == Store(b.store, None)
<1>1. pc[p] = "schema" /\ pc[p] \in Holding
  BY DEF CreateSchema, Holding, Opening
<1>2. /\ b \in Binding /\ b = binding /\ b.phase = "prepared" /\ b.source = opened[p].legacy
      /\ db = Empty /\ b.store \in 1 .. MaxStores
  BY <1>1, OpeningType DEF Stage, Opening, Binding
<1>3. /\ db' \in {db, fresh} /\ UNCHANGED <<lease, vault, legacy, binding, acked, lost, draws>>
      /\ \/ Goto(p, "fill") /\ db' = fresh /\ UNCHANGED <<opened, mem>>
         \/ Abandoned(p)
  BY DEF CreateSchema, Fault, bounds
<1>4. fresh \in Stores /\ fresh.doc = None
  BY <1>2, StoreType
<1>5. Evolves
  BY <1>2, <1>3 DEF Evolves
<1>6. Imports'
  <2>1. ~Initialized'
    BY <1>2, <1>3, <1>4, FileKinds DEF Initialized
  <2> QED
    BY <1>2, <1>3, <2>1 DEF Imports
<1>7. CASE Abandoned(p)
  BY <1>1, <1>3, <1>5, <1>6, <1>7, AbandonStep, OpeningType
<1>8. CASE Goto(p, "fill") /\ db' = fresh /\ UNCHANGED <<opened, mem>>
  <2>1. pc'[p] = "fill" => Stage(p)'
    BY <1>2, <1>3, <1>4, <1>8, FileKinds DEF Stage
  <2>2. "fill" \in Opening /\ opened' = [opened EXCEPT ![p] = opened[p]]
    BY <1>8, OpeningType DEF Opening
  <2> QED
    BY <1>1, <1>3, <1>5, <1>6, <1>8, <2>1, <2>2, OpeningType, MoveStep
<1> QED
  BY <1>3, <1>7, <1>8

LEMMA FillStep == ASSUME IInv, NEW p \in Procs, Fill(p) PROVE IInv' /\ Evolves
<1> DEFINE b == opened[p].binding
           filled == IF db.doc = None THEN [db EXCEPT !.doc = Imported(p)] ELSE db
<1>1. pc[p] = "fill" /\ pc[p] \in Holding
  BY DEF Fill, Holding, Opening
<1>2. /\ b \in Binding /\ b = binding /\ b.phase = "prepared" /\ b.source = opened[p].legacy
      /\ db \in Stores
  BY <1>1, OpeningType, DbType DEF Stage, Opening
<1>3. CASE filled.doc # Imported(p)
  BY <1>1, <1>3, FailStep DEF Fill
<1>4. CASE filled.doc = Imported(p)
  <2>1. Imported(p) \in Document /\ Imported(p).base = b.source
    BY <1>2, OpeningType DEF Imported, Document
  <2>2. filled \in Stores /\ (filled = db \/ (db.doc = None /\ filled = [db EXCEPT !.doc = Imported(p)]))
    BY <1>2, <2>1 DEF Stores
  <2>3. /\ db' \in {db, filled} /\ UNCHANGED <<lease, vault, legacy, binding, acked, lost, draws>>
        /\ \/ Goto(p, "commit") /\ db' = filled /\ UNCHANGED <<opened, mem>>
           \/ Abandoned(p)
    BY <1>4 DEF Fill, Fault, bounds
  <2> HIDE DEF filled
  <2>4. Evolves
    BY <1>2, <2>1, <2>2, <2>3 DEF Evolves
  <2>5. Imports'
    <3>1. Initialized' => db'.doc.base = b.source
      BY <1>2, <1>4, <2>1, <2>3, OpeningType, ProfileAssumption DEF Imports, Initialized
    <3> QED
      BY <1>2, <2>3, <3>1 DEF Imports, Binding
  <2>6. CASE Abandoned(p)
    BY <1>1, <2>3, <2>4, <2>5, <2>6, AbandonStep, OpeningType
  <2>7. CASE Goto(p, "commit") /\ db' = filled /\ UNCHANGED <<opened, mem>>
    <3>1. Initialized'
      BY <1>4, <2>1, <2>2, <2>7, ProfileAssumption, FileKinds DEF Initialized
    <3>2. pc'[p] = "commit" => Stage(p)'
      BY <1>2, <2>3, <2>7, <3>1 DEF Stage
    <3>3. "commit" \in Opening /\ opened' = [opened EXCEPT ![p] = opened[p]]
      BY <2>7, OpeningType DEF Opening
    <3> QED
      BY <1>1, <2>3, <2>4, <2>5, <2>7, <3>2, <3>3, OpeningType, MoveStep
  <2> QED
    BY <2>3, <2>6, <2>7
<1> QED
  BY <1>3, <1>4

LEMMA CommitBindingStep == ASSUME IInv, NEW p \in Procs, CommitBinding(p) PROVE IInv'
<1> DEFINE b == [opened[p].binding EXCEPT !.phase = "committed"]
           o == [opened[p] EXCEPT !.binding = b]
<1>1. pc[p] = "commit" /\ pc[p] \in Holding
  BY DEF CommitBinding, Holding, Opening
<1>2. /\ opened[p].binding \in Binding /\ opened[p].binding = binding /\ Initialized
      /\ b \in Binding /\ b.phase = "committed" /\ b.source = binding.source
  BY <1>1, OpeningType DEF Stage, Opening, Binding
<1>3. o \in [binding : Binding \cup {None}, legacy : 0 .. MaxLegacy] /\ o.binding = b
  BY <1>2, OpeningType
<1>4. /\ binding' \in {binding, b} /\ UNCHANGED <<lease, vault, legacy, db, acked, lost, draws>>
      /\ \/ Goto(p, "read") /\ binding' = b /\ opened' = [opened EXCEPT ![p] = o] /\ UNCHANGED mem
         \/ Abandoned(p)
  BY DEF CommitBinding, Fault, bounds
<1> HIDE DEF b, o
<1>5. Evolves
  BY <1>4 DEF Evolves
<1>6. Imports'
  <2>1. db.doc.base = binding.source
    BY <1>2, OpeningType, ProfileAssumption DEF Imports
  <2>2. Initialized' /\ db' = db /\ (binding' # None => binding'.source = binding.source)
    BY <1>2, <1>4 DEF Initialized
  <2> QED
    BY <2>1, <2>2 DEF Imports
<1>7. binding' \in Binding \cup {None}
  BY <1>2, <1>4, OpeningType
<1>8. CASE Abandoned(p)
  BY <1>1, <1>4, <1>5, <1>6, <1>7, <1>8, AbandonStep
<1>9. CASE Goto(p, "read") /\ binding' = b /\ opened' = [opened EXCEPT ![p] = o] /\ UNCHANGED mem
  <2>1. opened'[p] = o /\ pc'[p] = "read" => Stage(p)'
    BY <1>2, <1>3, <1>4, <1>9 DEF Stage, Initialized
  <2>2. "read" \in Opening
    BY DEF Opening
  <2> QED
    BY <1>1, <1>3, <1>4, <1>5, <1>6, <1>7, <1>9, <2>1, <2>2, OpeningType, MoveStep
<1> QED
  BY <1>4, <1>8, <1>9

LEMMA LoadStep == ASSUME IInv, NEW p \in Procs, Load(p) PROVE IInv'
<1>1. pc[p] = "read" /\ pc[p] \in Holding
  BY DEF Load, Holding, Opening
<1>2. CASE ~Initialized
  BY <1>1, <1>2, FailStep DEF Load
<1>3. CASE Initialized
  <2>1. /\ mem' = [mem EXCEPT ![p] = db.doc] /\ Goto(p, "unlocked")
        /\ UNCHANGED <<lease, vault, legacy, binding, db, opened, acked, lost, draws>>
    BY <1>3 DEF Load, disk, bounds
  <2>2. db.doc \in Document
    BY <1>3, OpeningType, DbType DEF HasDocument
  <2>3. mem' \in [Procs -> Document \cup {None}] /\ mem'[p] \in Document
    BY <2>1, <2>2, OpeningType
  <2>4. pc'[p] = "unlocked" => Stage(p)'
    BY <1>3, <2>1, <2>3 DEF Stage, Opening, Initialized
  <2>5. Imports' /\ Evolves
    BY <2>1, SameImport, OpeningType DEF Evolves
  <2>6. opened' = [opened EXCEPT ![p] = opened[p]]
    BY <2>1, OpeningType
  <2> QED
    BY <1>1, <2>1, <2>3, <2>4, <2>5, <2>6, OpeningType, MoveStep
<1> QED
  BY <1>2, <1>3

-----------------------------------------------------------------------------
(* The steps of an open profile, and of what is outside. *)

\* What persistPrivate and groupCommand do: the database holds what was saved or
\* what it held, and the profile stays open or is opened again.
LEMMA CallStep ==
    ASSUME IInv, NEW p \in Procs, pc[p] = "unlocked",
           UNCHANGED <<lease, vault, legacy, binding, lost, draws>>,
           Evolves, Initialized', db'.doc.base = db.doc.base,
           \/ UNCHANGED <<pc, opened>> /\ acked' \subseteq Edits \cup Operations
              /\ mem' \in [Procs -> Document \cup {None}] /\ mem'[p] \in Document
           \/ Reopen(p) /\ UNCHANGED <<mem, acked>>
    PROVE  IInv'
<1>1. pc[p] \in Holding /\ lease.holder = p /\ Initialized
  BY OpeningType DEF Holding, Stage, IInv, Owned
<1>2. Imports'
  BY <1>1, OpeningType DEF Imports
<1>3. CASE /\ UNCHANGED <<pc, opened>> /\ acked' \subseteq Edits \cup Operations
           /\ mem' \in [Procs -> Document \cup {None}] /\ mem'[p] \in Document
  <2>1. Rest'
    BY <1>3 DEF IInv, Rest
  <2>2. Stage(p)'
    BY <1>3 DEF Stage, Opening
  <2> QED
    BY <1>1, <1>2, <1>3, <2>1, <2>2, Alone
<1>4. CASE Reopen(p) /\ UNCHANGED <<mem, acked>>
  <2>1. Closed \in [binding : Binding \cup {None}, legacy : 0 .. MaxLegacy]
    BY ProfileAssumption DEF Closed
  <2>2. Rest'
    BY <1>4, <2>1 DEF IInv, Rest, Reopen, Goto, Opening
  <2> QED
    BY <1>1, <1>2, <1>4, <2>2, CloseStep DEF Reopen
<1> QED
  BY <1>3, <1>4

LEMMA OpenDocument ==
    ASSUME IInv, NEW p \in Procs, pc[p] = "unlocked"
    PROVE  HasDocument /\ mem[p] \in Document
  BY OpeningType, DbType DEF Stage

LEMMA persistPrivateStep ==
    ASSUME IInv, NEW p \in Procs, NEW e \in Edits, persistPrivate(p, e) PROVE IInv' /\ Evolves
<1> DEFINE next == [mem[p] EXCEPT !.edits = @ \cup {e}]
<1>1. /\ pc[p] = "unlocked" /\ UNCHANGED <<lease, vault, legacy, binding, lost, draws>>
      /\ \/ /\ Current(p) /\ db' = Written(next) /\ mem' = [mem EXCEPT ![p] = next]
            /\ acked' = acked \cup {e} /\ UNCHANGED <<pc, opened>>
         \/ /\ db' = db \/ (Current(p) /\ db' = Written(next))
            /\ Reopen(p) /\ UNCHANGED <<mem, acked>>
  BY DEF persistPrivate, Thrown
<1>2. HasDocument /\ mem[p] \in Document
  BY <1>1, OpenDocument
<1>3. next \in Document
  BY <1>2 DEF Document
<1>4. Current(p) => Written(next) = Saved(e)
  BY DEF Current, Written, Saved
<1>5. db' = db \/ db' = Saved(e)
  BY <1>1, <1>4
<1>6. Evolves
  BY <1>2, <1>5 DEF Evolves
<1>7. Initialized' /\ db'.doc.base = db.doc.base
  <2>1. CASE db' = db
    BY <1>2, <2>1, OpeningType, DbType DEF Initialized
  <2>2. CASE db' = Saved(e)
    BY <1>2, <2>2, SavedType, FileKinds, ProfileAssumption DEF Initialized
  <2> QED
    BY <1>5, <2>1, <2>2
<1> HIDE DEF next
<1>8. mem' = [mem EXCEPT ![p] = next] =>
         mem' \in [Procs -> Document \cup {None}] /\ mem'[p] \in Document
  BY <1>3, OpeningType
<1>9. acked' = acked \cup {e} => acked' \subseteq Edits \cup Operations
  BY OpeningType
<1> QED
  BY <1>1, <1>6, <1>7, <1>8, <1>9, CallStep

LEMMA groupCommandStep ==
    ASSUME IInv, NEW p \in Procs, NEW o \in Operations, groupCommand(p, o) PROVE IInv' /\ Evolves
<1>1. /\ pc[p] = "unlocked" /\ UNCHANGED <<lease, vault, legacy, binding, lost, draws, mem>>
      /\ db' = db \/ (~Remembered(o) /\ Len(db.signed) < MaxSigned /\ db' = Signed(o))
      /\ \/ acked' = acked \cup {o} /\ UNCHANGED <<pc, opened>>
         \/ Reopen(p) /\ UNCHANGED acked
  BY DEF groupCommand, Thrown
<1>2. HasDocument /\ mem[p] \in Document
  BY <1>1, OpenDocument
<1>3. Evolves
  BY <1>1, <1>2 DEF Evolves
<1>4. Initialized' /\ db'.doc.base = db.doc.base
  <2>1. CASE db' = db
    BY <1>2, <2>1, OpeningType, DbType DEF Initialized
  <2>2. CASE Len(db.signed) < MaxSigned /\ db' = Signed(o)
    <3>1. db' \in Stores /\ db'.doc = db.doc
      BY <1>2, <2>2, SignedType DEF IInv
    <3> QED
      BY <1>2, <3>1, FileKinds, ProfileAssumption DEF Initialized, HasDocument
  <2> QED
    BY <1>1, <2>1, <2>2
<1>5. acked' = acked \cup {o} => acked' \subseteq Edits \cup Operations
  BY OpeningType
<1>6. mem' \in [Procs -> Document \cup {None}] /\ mem'[p] \in Document
  BY <1>1, <1>2, OpeningType
<1> QED
  BY <1>1, <1>3, <1>4, <1>5, <1>6, CallStep

LEMMA GoneStep ==
    ASSUME IInv, NEW p \in Procs, pc[p] # "off", Gone(p),
           UNCHANGED <<vault, disk, acked, lost, draws>>
    PROVE  IInv'
<1>1. /\ pc' = [pc EXCEPT ![p] = "off"] /\ lease' = Release(p)
      /\ opened' = [opened EXCEPT ![p] = Closed] /\ mem' = [mem EXCEPT ![p] = None]
      /\ UNCHANGED <<legacy, binding, db, lost>>
  BY DEF Gone, Goto, disk
<1>2. Rest'
  <2>1. Closed \in [binding : Binding \cup {None}, legacy : 0 .. MaxLegacy]
    BY ProfileAssumption DEF Closed
  <2> QED
    BY <1>1, <2>1 DEF IInv, Rest, Release
<1>3. Imports' /\ Evolves
  BY <1>1, SameImport DEF IInv, Evolves
<1>4. CASE pc[p] \in Holding
  BY <1>1, <1>2, <1>3, <1>4, CloseStep DEF Gone
<1>5. CASE pc[p] \notin Holding
  <2>1. \A q \in Procs \ {p} : pc'[q] = pc[q] /\ opened'[q] = opened[q] /\ mem'[q] = mem[q]
    BY <1>1 DEF IInv, Rest
  <2>2. pc'[p] = "off"
    BY <1>1 DEF IInv, Rest
  <2>3. Owned'
    <3>1. \A q \in Procs \ {p} : lease.holder = q => lease'.holder = q
      BY <1>1 DEF Release
    <3> QED
      BY <2>1, <2>2, <3>1, Waits DEF IInv, Owned
  <2>4. \A q \in Procs : Stage(q)'
    BY <1>1, <2>1, <2>2 DEF IInv, Stage, Opening, Initialized
  <2> QED
    BY <1>1, <1>2, <1>3, <2>3, <2>4 DEF IInv, Journals
<1> QED
  BY <1>4, <1>5

LEMMA OutsideStep == ASSUME IInv, WriteLegacy \/ Lose PROVE IInv' /\ Evolves
<1>1. CASE WriteLegacy
  <2>1. /\ legacy' = legacy + 1 /\ legacy < MaxLegacy
        /\ UNCHANGED <<lease, vault, binding, db, pc, opened, mem, acked, lost, draws>>
    BY <1>1 DEF WriteLegacy, local, bounds
  <2>2. Rest'
    BY <2>1, ProfileAssumption DEF IInv, Rest
  <2> QED
    BY <2>1, <2>2, SameImport DEF IInv, Owned, Stage, Initialized, Journals, Evolves
<1>2. CASE Lose
  <2>1. /\ \A q \in Procs : pc[q] = "off"
        /\ \/ db' = Missing /\ "database" \in lost' /\ UNCHANGED binding
           \/ binding' = None /\ UNCHANGED db
        /\ lost' \subseteq lost \cup {"database", "binding"}
        /\ UNCHANGED <<lease, vault, legacy, pc, opened, mem, acked, draws>>
    BY <1>2 DEF Lose, local
  <2>2. Rest'
    BY <2>1 DEF IInv, Rest
  <2>3. Evolves
    BY <2>1 DEF Evolves
  <2>4. db' \in Files /\ Journals'
    BY <2>3, DataStep DEF IInv
  <2>5. Owned' /\ \A q \in Procs : Stage(q)'
    BY <2>1 DEF Owned, Holding, Stage, Opening
  <2>6. Imports'
    BY <2>1, FileKinds DEF Imports, Initialized
  <2> QED
    BY <2>2, <2>3, <2>4, <2>5, <2>6 DEF IInv
<1> QED
  BY <1>1, <1>2

LEMMA Steps == ASSUME IInv, [Next]_vars PROVE IInv'
<1>1. ASSUME NEW p \in Procs, lock(p) PROVE IInv'
  BY <1>1, FailStep DEF lock, Holding
<1>2. ASSUME NEW p \in Procs, stop(p) PROVE IInv'
  BY <1>2, GoneStep DEF stop, Gone
<1>3. ASSUME NEW p \in Procs, Crash(p) PROVE IInv'
  BY <1>3, GoneStep DEF Crash, Gone
<1>4. CASE UNCHANGED vars
  BY <1>4, SameImport
     DEF vars, disk, local, bounds, IInv, Rest, Owned, Stage, Initialized, Journals
<1> QED
  BY <1>1, <1>2, <1>3, <1>4, StartStep, ClaimStep, InitLeaseStep, UnlockStep, ReadBindingStep,
     PrepareBindingStep, StageBindingStep, OpenStoreStep, CreateSchemaStep, FillStep,
     CommitBindingStep, LoadStep, persistPrivateStep, groupCommandStep, OutsideStep
     DEF Next, Step

LEMMA Invariant == Spec => []IInv
<1>1. Init => IInv
  <2> SUFFICES ASSUME Init PROVE IInv
    OBVIOUS
  <2>1. Rest
    <3>1. legacy \in 0 .. MaxLegacy /\ 0 \in 0 .. MaxLegacy
      BY ProfileAssumption DEF Init
    <3>2. Closed \in [binding : Binding \cup {None}, legacy : 0 .. MaxLegacy]
      BY <3>1 DEF Closed
    <3> QED
      BY <3>1, <3>2 DEF Init, Rest
  <2>2. Owned /\ \A p \in Procs : Stage(p)
    BY DEF Init, Owned, Holding, Stage, Opening
  <2>3. db \in Files /\ Imports /\ Journals
    BY FileKinds DEF Init, Files, Imports, Journals
  <2> QED
    BY <2>1, <2>2, <2>3 DEF IInv
<1> QED
  BY <1>1, Steps, PTL DEF Spec

\* The lease, the files and what the processes keep of them are always well
\* formed, whatever crashes or fails (the decoders of binding.ts and storage.ts).
THEOREM TypeCorrect == Spec => []TypeOK
<1>1. IInv => TypeOK
  BY DEF IInv, Rest, Files, Stores, TypeOK
<1> QED
  BY <1>1, Invariant, PTL

\* However often the import is interrupted, and whatever an older release writes
\* meanwhile, the document comes from the old state the binding names.
THEOREM ImportCorrect == Spec => []ImportIsTheSignedOne
<1>1. IInv => ImportIsTheSignedOne
  BY DEF IInv, Imports, Initialized, ImportIsTheSignedOne
<1> QED
  BY <1>1, Invariant, PTL

-----------------------------------------------------------------------------
(* What was acknowledged, and what was signed. *)

\* How a step changes the database, with what it acknowledges.
Acknowledges ==
    \/ acked' = acked
    \/ HasDocument /\ \E e \in Edits : acked' = acked \cup {e} /\ db' = Saved(e)
    \/ HasDocument /\ \E o \in Operations :
          /\ acked' = acked \cup {o}
          /\ IF Remembered(o) THEN db' = db ELSE Len(db.signed) < MaxSigned /\ db' = Signed(o)

LEMMA Changes == ASSUME IInv, [Next]_vars PROVE Evolves /\ Acknowledges
<1>1. ASSUME NEW p \in Procs, NEW e \in Edits, persistPrivate(p, e) PROVE Evolves /\ Acknowledges
  <2>1. HasDocument
    BY <1>1, OpenDocument DEF persistPrivate
  <2>2. \/ acked' = acked
        \/ acked' = acked \cup {e} /\ db' = Saved(e)
    BY <1>1 DEF persistPrivate, Thrown, Current, Written, Saved
  <2> QED
    BY <1>1, <2>1, <2>2, persistPrivateStep DEF Acknowledges
<1>2. ASSUME NEW p \in Procs, NEW o \in Operations, groupCommand(p, o) PROVE Evolves /\ Acknowledges
  <2>1. HasDocument
    BY <1>2, OpenDocument DEF groupCommand
  <2>2. \/ acked' = acked
        \/ /\ acked' = acked \cup {o}
           /\ IF Remembered(o) THEN db' = db ELSE Len(db.signed) < MaxSigned /\ db' = Signed(o)
    BY <1>2 DEF groupCommand, Thrown
  <2> QED
    BY <1>2, <2>1, <2>2, groupCommandStep DEF Acknowledges
<1>3. ASSUME NEW p \in Procs, OpenStore(p) \/ CreateSchema(p) \/ Fill(p) PROVE Evolves /\ Acknowledges
  <2>1. acked' = acked
    BY <1>3 DEF OpenStore, CreateSchema, Fill, Fail, Fault
  <2> QED
    BY <1>3, <2>1, OpenStoreStep, CreateSchemaStep, FillStep DEF Acknowledges
<1>4. CASE WriteLegacy \/ Lose
  <2>1. acked' = acked
    BY <1>4 DEF WriteLegacy, Lose
  <2> QED
    BY <1>4, <2>1, OutsideStep DEF Acknowledges
<1>5. ASSUME NEW p \in Procs,
             \/ Start(p) \/ Claim(p) \/ InitLease(p) \/ Unlock(p) \/ lock(p) \/ stop(p) \/ Crash(p)
             \/ ReadBinding(p) \/ PrepareBinding(p) \/ StageBinding(p) \/ CommitBinding(p) \/ Load(p)
      PROVE  UNCHANGED <<db, acked>>
  BY <1>5 DEF Start, Claim, InitLease, Unlock, lock, stop, Crash, Gone, ReadBinding,
              PrepareBinding, StageBinding, CommitBinding, Load, Fail, Fault, disk, bounds
<1>6. CASE UNCHANGED vars
  BY <1>6 DEF vars, disk, Evolves, Acknowledges
<1>7. UNCHANGED <<db, acked>> => Evolves /\ Acknowledges
  BY DEF Evolves, Acknowledges
<1> QED
  BY <1>1, <1>2, <1>3, <1>4, <1>5, <1>6, <1>7 DEF Next, Step

\* What was lost stays lost.
LEMMA StaysLost == ASSUME [Next]_vars PROVE lost' = lost \/ (Lose /\ lost \subseteq lost')
<1>1. ASSUME NEW p \in Procs,
             \/ Start(p) \/ Claim(p) \/ InitLease(p) \/ Unlock(p) \/ lock(p) \/ stop(p) \/ Crash(p)
             \/ ReadBinding(p) \/ PrepareBinding(p) \/ StageBinding(p) \/ OpenStore(p)
             \/ CreateSchema(p) \/ Fill(p) \/ CommitBinding(p) \/ Load(p)
      PROVE  lost' = lost
  BY <1>1 DEF Start, Claim, InitLease, Unlock, lock, stop, Crash, Gone, ReadBinding, OpenStore,
              PrepareBinding, StageBinding, CreateSchema, Fill, CommitBinding, Load, Fail, Fault, bounds
<1>2. ASSUME NEW p \in Procs, NEW e \in Edits, persistPrivate(p, e) PROVE lost' = lost
  BY <1>2 DEF persistPrivate
<1>3. ASSUME NEW p \in Procs, NEW o \in Operations, groupCommand(p, o) PROVE lost' = lost
  BY <1>3 DEF groupCommand
<1>4. ASSUME Lose PROVE lost \subseteq lost'
  BY <1>4 DEF Lose
<1>5. CASE WriteLegacy
  BY <1>5 DEF WriteLegacy, bounds
<1>6. CASE UNCHANGED vars
  BY <1>6 DEF vars, bounds
<1> QED
  BY <1>1, <1>2, <1>3, <1>4, <1>5, <1>6 DEF Next, Step

\* What a document and a sequence of signed operations keep of the acknowledged.
Keeps(doc, signed) ==
    /\ acked \cap Edits \subseteq doc.edits
    /\ \A o \in acked \cap Operations : \E i \in DOMAIN signed : signed[i] = o

\* No edit whose save returned and no operation whose result was returned is
\* ever lost with the file there, though any statement may fail and any process
\* die at any point (persistPrivate, groupCommand, execute).
THEOREM AckedKept == Spec => []AckedIsKept
<1>1. Init => AckedIsKept
  BY DEF Init, AckedIsKept
<1>2. IInv /\ AckedIsKept /\ [Next]_vars => AckedIsKept'
  <2> SUFFICES ASSUME IInv, AckedIsKept, [Next]_vars, "database" \notin lost', acked' # {}
               PROVE  HasDocument' /\ Keeps(db.doc, db.signed)'
    BY FileKinds, ProfileAssumption DEF AckedIsKept, Initialized, HasDocument, Keeps
  <2>1. "database" \notin lost /\ Evolves /\ Acknowledges /\ Journals /\ db \in Files
    BY StaysLost, Changes DEF IInv
  <2>2. acked = {} \/ (HasDocument /\ Keeps(db.doc, db.signed))
    BY <2>1, DbType DEF AckedIsKept, Keeps
  <2>3. HasDocument
    <3>1. CASE acked' = acked
      BY <2>2, <3>1
    <3> QED
      BY <2>1, <3>1 DEF Acknowledges
  <2>4. (acked = {} \/ Keeps(db.doc, db.signed)) /\ db.signed \in Seq(Operations)
    BY <2>2, <2>3 DEF HasDocument, Stores
  <2>5. ASSUME NEW e \in Edits, db' = Saved(e), acked' \in {acked, acked \cup {e}}
        PROVE  HasDocument' /\ Keeps(db.doc, db.signed)'
    <3>1. /\ HasDocument' /\ db'.doc.edits = db.doc.edits \cup {e} /\ db'.signed = db.signed
      BY <2>3, <2>5, SavedType DEF HasDocument
    <3>2. e \notin Operations
      BY ProfileAssumption
    <3> QED
      BY <2>4, <2>5, <3>1, <3>2 DEF Keeps
  <2>6. ASSUME NEW o \in Operations, Len(db.signed) < MaxSigned, db' = Signed(o),
               acked' \in {acked, acked \cup {o}}
        PROVE  HasDocument' /\ Keeps(db.doc, db.signed)'
    <3>1. HasDocument' /\ db'.doc = db.doc /\ db'.signed = Append(db.signed, o)
      BY <2>1, <2>3, <2>6, SignedType DEF HasDocument
    <3> DEFINE s == db.signed
               t == Append(s, o)
    <3>2. /\ \A i \in DOMAIN s : i \in DOMAIN t /\ t[i] = s[i]
          /\ Len(s) + 1 \in DOMAIN t /\ t[Len(s) + 1] = o
      BY <2>4
    <3>3. o \notin Edits
      BY ProfileAssumption
    <3> HIDE DEF t
    <3>4. db'.signed = t
      BY <3>1 DEF t
    <3> QED
      BY <2>4, <2>6, <3>1, <3>2, <3>3, <3>4 DEF Keeps
  <2>7. ASSUME NEW o \in Operations, Remembered(o), db' = db, acked' = acked \cup {o}
        PROVE  HasDocument' /\ Keeps(db.doc, db.signed)'
    <3>1. \E i \in DOMAIN db.signed : db.signed[i] = o
      <4>1. PICK x \in Recent(db.signed) : x.id = o
        BY <2>1, <2>3, <2>7, FileKinds DEF Remembered, Journals, HasDocument
      <4> QED
        BY <2>4, <4>1 DEF Recent, Last
    <3>2. o \notin Edits
      BY ProfileAssumption
    <3> QED
      BY <2>3, <2>4, <2>7, <3>1, <3>2 DEF Keeps, HasDocument
  <2>8. CASE db' = db /\ acked' = acked
    BY <2>3, <2>4, <2>8 DEF Keeps, HasDocument
  <2>9. CASE acked' = acked
    <3>1. db \notin {Missing, Empty} /\ db.doc # None
      BY <2>3, FileKinds, ProfileAssumption DEF HasDocument
    <3> QED
      BY <2>1, <2>5, <2>6, <2>8, <2>9, <3>1, StaysLost DEF Evolves
  <2> QED
    BY <2>1, <2>5, <2>6, <2>7, <2>9 DEF Acknowledges
<1> QED
  BY <1>1, <1>2, Invariant, PTL DEF Spec

\* However often a command is tried again, because its answer was lost in a
\* crash or its commit was uncertain, it signs nothing a second time while the
\* journal remembers it (operation, readOperation).
THEOREM SignsOnce == Spec => []SignedOnce
<1>1. Init => SignedOnce
  BY FileKinds DEF Init, SignedOnce
<1>2. IInv /\ SignedOnce /\ [Next]_vars => SignedOnce'
  <2> DEFINE Once(s) == \A j \in DOMAIN s : \A i \in 1 .. j - 1 : s[i] = s[j] => j - i > MaxOperations
  <2> SUFFICES ASSUME IInv, SignedOnce, [Next]_vars, db'.kind = "store" PROVE Once(db'.signed)
    BY DEF SignedOnce
  <2>1. Evolves /\ Journals /\ db \in Files /\ (db.kind = "store" <=> db \in Stores)
    BY Changes, DbType DEF IInv
  <2>2. db.kind = "store" => Once(db.signed)
    BY DEF SignedOnce
  <2>3. CASE db' = db
    BY <2>2, <2>3
  <2>4. ASSUME NEW id \in 1 .. MaxStores, db' = Store(id, None) PROVE Once(db'.signed)
    BY <2>4, StoreType
  <2>5. ASSUME db \in Stores, NEW doc, db' = [db EXCEPT !.doc = doc] PROVE Once(db'.signed)
    <3>1. db'.signed = db.signed
      BY <2>5 DEF Stores
    <3> QED
      BY <2>1, <2>2, <2>5, <3>1
  <2>6. ASSUME HasDocument, NEW e \in Edits, db' = Saved(e) PROVE Once(db'.signed)
    <3>1. db'.signed = db.signed
      BY <2>6, SavedType
    <3> QED
      BY <2>1, <2>2, <2>6, <3>1 DEF HasDocument
  <2>7. ASSUME HasDocument, NEW o \in Operations, ~Remembered(o), Len(db.signed) < MaxSigned,
               db' = Signed(o)
        PROVE  Once(db'.signed)
    <3> DEFINE s == db.signed
               t == Append(s, o)
               n == Len(s)
    <3>1. s \in Seq(Operations) /\ n \in Nat /\ MaxOperations \in Nat \ {0}
      BY <2>7, ProfileAssumption DEF HasDocument, Stores
    <3>2. Once(s) /\ db.journal = Recent(s) /\ db'.signed = t
      BY <2>1, <2>2, <2>7, SignedType DEF HasDocument, Journals
    <3>3. DOMAIN s = 1 .. n /\ DOMAIN t = 1 .. n + 1 /\ t[n + 1] = o /\ \A i \in 1 .. n : t[i] = s[i]
      BY <3>1
    <3>4. \A k \in Last(s) : s[k] # o
      <4> SUFFICES ASSUME NEW k \in Last(s), s[k] = o PROVE FALSE
        OBVIOUS
      <4>1. [id |-> s[k], sequence |-> k] \in db.journal
        BY <3>2 DEF Recent
      <4> QED
        BY <2>7, <4>1 DEF Remembered
    <3> HIDE DEF s, t, n
    <3>5. \A i \in 1 .. n : s[i] = o => n + 1 - i > MaxOperations
      BY <3>1, <3>4 DEF Last, n
    <3>6. Once(t)
      <4> SUFFICES ASSUME NEW j \in 1 .. n + 1, NEW i \in 1 .. j - 1, t[i] = t[j]
                   PROVE  j - i > MaxOperations
        BY <3>3
      <4>1. i \in 1 .. n
        BY <3>1
      <4>2. CASE j = n + 1
        BY <3>1, <3>3, <3>5, <4>1, <4>2
      <4>3. CASE j # n + 1
        <5>1. j \in 1 .. n
          BY <3>1, <4>3
        <5>2. s[i] = s[j] /\ j \in DOMAIN s
          BY <3>3, <4>1, <5>1
        <5> QED
          BY <3>2, <5>2
      <4> QED
        BY <4>2, <4>3
    <3> QED
      BY <3>2, <3>6
  <2> HIDE DEF Once
  <2> QED
    BY <2>1, <2>3, <2>4, <2>5, <2>6, <2>7, FileKinds DEF Evolves
<1> QED
  BY <1>1, <1>2, Invariant, PTL DEF Spec

-----------------------------------------------------------------------------
(* What was lost. *)

\* A step while a file is lost changes neither file and gets nobody past the
\* binding.
LEMMA LostStep ==
    ASSUME IInv, Losses, MaxLosses \in {0, 1}, lost # {}, [Next]_vars
    PROVE  UNCHANGED <<binding, db, lost>> /\ \A p \in Procs : pc'[p] \notin Past
<1> DEFINE Still == UNCHANGED <<binding, db, lost>> /\ \A p \in Procs : pc'[p] \notin Past
<1> SUFFICES Still
  OBVIOUS
<1>1. /\ \A p \in Procs : pc[p] \notin Past
      /\ pc \in [Procs -> {"off", "locked", "unlocked"} \cup Claiming \cup Opening]
      /\ lost \subseteq {"database", "binding"}
  BY DEF Losses, IInv, Rest
<1>2. ASSUME NEW p \in Procs,
             NEW next \in {"off", "claim", "init", "locked", "bind"}, Goto(p, next),
             UNCHANGED <<binding, db, lost>>
      PROVE  Still
  BY <1>1, <1>2 DEF Goto, Past, Opening
<1>3. ASSUME NEW p \in Procs, Fail(p) PROVE Still
  BY <1>2, <1>3 DEF Fail, Abandoned, disk, bounds
<1>4. ASSUME NEW p \in Procs,
             \/ StageBinding(p) \/ OpenStore(p) \/ CreateSchema(p) \/ Fill(p) \/ CommitBinding(p)
             \/ Load(p) \/ lock(p)
      PROVE  FALSE
  BY <1>1, <1>4 DEF StageBinding, OpenStore, CreateSchema, Fill, CommitBinding, Load, lock, Past, Opening
<1>5. /\ \A p \in Procs, e \in Edits : ~persistPrivate(p, e)
      /\ \A p \in Procs, o \in Operations : ~groupCommand(p, o)
  BY <1>1 DEF persistPrivate, groupCommand, Past
<1>6. ASSUME NEW p \in Procs, Start(p) \/ Claim(p) \/ InitLease(p) \/ Unlock(p) PROVE Still
  BY <1>2, <1>6 DEF Start, Claim, InitLease, Unlock, disk, bounds
<1>7. ASSUME NEW p \in Procs, stop(p) \/ Crash(p) PROVE Still
  BY <1>2, <1>7 DEF stop, Crash, Gone, disk
<1>8. ASSUME NEW p \in Procs, ReadBinding(p) PROVE Still
  <2>1. binding # None
    BY <1>8 DEF ReadBinding
  <2>2. db = Missing /\ binding.phase = "committed"
    BY <1>1, <2>1 DEF Losses
  <2>3. ~MayOpen(binding)
    BY <2>2 DEF MayOpen
  <2> QED
    BY <1>3, <1>8, <2>3 DEF ReadBinding
<1>9. ASSUME NEW p \in Procs, PrepareBinding(p) PROVE Still
  <2>1. db # Missing
    BY <1>1, <1>9 DEF PrepareBinding, Losses
  <2> QED
    BY <1>3, <1>9, <2>1 DEF PrepareBinding
<1>10. CASE WriteLegacy
  BY <1>1, <1>10 DEF WriteLegacy, local, bounds
<1>11. CASE Lose
  <2>1. Cardinality(lost) # 0 /\ Cardinality(lost) \in Nat
    <3>1. IsFiniteSet({"database", "binding"})
      <4>1. IsFiniteSet({} \cup {"database"})
        BY FS_EmptySet, FS_AddElement
      <4>2. IsFiniteSet(({} \cup {"database"}) \cup {"binding"})
        BY <4>1, FS_AddElement
      <4>3. ({} \cup {"database"}) \cup {"binding"} = {"database", "binding"}
        OBVIOUS
      <4> QED
        BY <4>2, <4>3
    <3>2. IsFiniteSet(lost)
      BY <1>1, <3>1, FS_Subset
    <3> QED
      BY <3>2, FS_CardinalityType, FS_EmptySet
  <2> QED
    BY <1>11, <2>1 DEF Lose
<1>12. CASE UNCHANGED vars
  BY <1>1, <1>12 DEF vars, disk, local, bounds
<1> HIDE DEF Still
<1>13. Still
  <2>1. CASE Next
    BY <2>1, <1>4, <1>5, <1>6, <1>7, <1>8, <1>9, <1>10, <1>11 DEF Next, Step
  <2> QED
    BY <2>1, <1>12
<1> QED
  BY <1>13

\* A database or a binding that was lost is never replaced by a new one, as long
\* as the other file is there ("uma base inicializada ausente ... é recusada").
THEOREM NothingReplaced == ASSUME MaxLosses \in {0, 1} PROVE Spec => NeverReplaced
<1>1. Init => Losses
  BY DEF Init, Losses
<1>2. IInv /\ Losses /\ [Next]_vars => Losses'
  <2> SUFFICES ASSUME IInv, Losses, [Next]_vars PROVE Losses'
    OBVIOUS
  <2>1. CASE lost # {}
    BY <2>1, LostStep DEF Losses
  <2>2. CASE lost = {} /\ lost' = lost
    BY <2>2 DEF Losses
  <2>3. CASE lost = {} /\ Lose
    <3>1. Initialized /\ binding # None /\ binding.phase = "committed"
      BY <2>3 DEF Lose, IInv, Imports
    <3>2. db # Missing
      BY <3>1, FileKinds DEF Initialized
    <3>3. \A p \in Procs : pc'[p] \notin Past
      BY <2>3 DEF Lose, local, Past, Opening
    <3> QED
      BY <2>3, <3>1, <3>2, <3>3 DEF Lose, Losses
  <2> QED
    BY <2>1, <2>2, <2>3, StaysLost
<1>3. IInv /\ Losses /\ [Next]_vars =>
         [/\ "database" \in lost => db' = Missing
          /\ "binding" \in lost => binding' = None]_vars
  BY LostStep DEF Losses
<1> QED
  BY <1>1, <1>2, <1>3, Invariant, PTL DEF Spec, NeverReplaced

=============================================================================
