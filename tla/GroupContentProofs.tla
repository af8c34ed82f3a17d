------------------------- MODULE GroupContentProofs -------------------------
(***************************************************************************)
(* Proofs about module GroupContent, for any chain of epochs, any objects  *)
(* and any limits: what is held back or still to be delivered cannot be    *)
(* evicted, edits and deletions converge, what came too late is never      *)
(* shown and what was shown stays shown.  And about module GroupSync: what *)
(* a group became is not shown to those it removed.                        *)
(***************************************************************************)
EXTENDS GroupContent, GroupChain, SequenceTheorems, WellFoundedInduction, TLAPS

(***************************************************************************)
(* Sequences and numbers                                                   *)
(***************************************************************************)
Less == {p \in Nat \X Nat : p[1] < p[2]}

LEMMA Least == ASSUME NEW T, T \subseteq Nat, T # {} PROVE \E x \in T : \A y \in T : x <= y
<1>1. IsWellFoundedOn(Less, Nat)
  BY NatLessThanWellFounded, Zenon DEF OpToRel, Less
<1>2. PICK x \in T : \A y \in T : ~(<<y, x>> \in Less)
  BY <1>1, WFMin
<1>3. \A y \in T : x \in Nat /\ y \in Nat /\ ~(y < x)
  BY <1>2 DEF Less
<1> QED
  BY <1>3

LEMMA RangeAppend ==
    ASSUME NEW S, NEW s \in Seq(S), NEW x \in S
    PROVE  Append(s, x) \in Seq(S) /\ Range(Append(s, x)) = Range(s) \cup {x}
<1>1. Append(s, x) \in Seq(S) /\ DOMAIN Append(s, x) = 1 .. Len(s) + 1 /\ DOMAIN s = 1 .. Len(s)
      /\ Append(s, x)[Len(s) + 1] = x /\ (\A i \in 1 .. Len(s) : Append(s, x)[i] = s[i])
      /\ Len(s) \in Nat
  OBVIOUS
<1>2. \A i \in 1 .. Len(s) + 1 : i = Len(s) + 1 \/ i \in 1 .. Len(s)
  BY <1>1
<1>3. \A i \in 1 .. Len(s) : i \in 1 .. Len(s) + 1
  BY <1>1
<1>4. Len(s) + 1 \in 1 .. Len(s) + 1
  BY <1>1
<1> HIDE DEF Range
<1>5. ASSUME NEW y \in Range(Append(s, x)) PROVE y \in Range(s) \cup {x}
  BY <1>1, <1>2 DEF Range
<1>6. ASSUME NEW y \in Range(s) \cup {x} PROVE y \in Range(Append(s, x))
  BY <1>1, <1>3, <1>4 DEF Range
<1> QED
  BY <1>1, <1>5, <1>6

\* RemoveAt takes one place out and leaves the others.
LEMMA RangeRemoveAt ==
    ASSUME NEW S, NEW s \in Seq(S), NEW k \in 1 .. Len(s)
    PROVE  /\ RemoveAt(s, k) \in Seq(S)
           /\ Range(RemoveAt(s, k)) \subseteq Range(s)
           /\ \A x \in Range(s) : x # s[k] => x \in Range(RemoveAt(s, k))
<1> DEFINE m == k + 1
           a == SubSeq(s, 1, k - 1)
           b == SubSeq(s, m, Len(s))
<1>1. Len(s) \in Nat /\ DOMAIN s = 1 .. Len(s) /\ k \in Nat /\ 1 <= k /\ k <= Len(s)
      /\ \A i \in 1 .. Len(s) : s[i] \in S
  OBVIOUS
<1>2. /\ a \in Seq(S) /\ Len(a) = k - 1 /\ \A i \in 1 .. k - 1 : a[i] = s[i]
  BY <1>1
<1>3. /\ b \in Seq(S) /\ Len(b) = Len(s) - k /\ \A i \in 1 .. Len(s) - k : b[i] = s[i + k]
  <2>1. m \in Int /\ Len(s) \in Int
    BY <1>1
  <2>4. \A i \in m .. Len(s) : s[i] \in S
    <3>1. \A i \in m .. Len(s) : i \in 1 .. Len(s)
      BY <1>1
    <3> QED
      BY <1>1, <3>1
  <2> HIDE DEF m
  <2>2. /\ b \in Seq(S) /\ Len(b) = (IF m <= Len(s) THEN Len(s) - m + 1 ELSE 0)
        /\ \A i \in 1 .. Len(s) - m + 1 : b[i] = s[m + i - 1]
    <3> DEFINE n == Len(s)
    <3> HIDE DEF n
    <3>1. n \in Int /\ \A i \in m .. n : s[i] \in S
      BY <2>1, <2>4, Zenon DEF n
    <3>2. /\ SubSeq(s, m, n) \in Seq(S) /\ Len(SubSeq(s, m, n)) = (IF m <= n THEN n - m + 1 ELSE 0)
          /\ \A i \in 1 .. n - m + 1 : SubSeq(s, m, n)[i] = s[m + i - 1]
      BY <2>1, <3>1, SubSeqProperties
    <3> QED
      BY <3>2 DEF b, n
  <2>3. Len(s) \in Nat /\ k \in Nat /\ k <= Len(s)
    BY <1>1
  <2> HIDE DEF b
  <2> QED
    BY <2>2, <2>3 DEF m
<1> HIDE DEF a, b
<1>4. /\ a \o b \in Seq(S) /\ Len(a \o b) = Len(s) - 1
      /\ \A i \in 1 .. Len(s) - 1 : (a \o b)[i] = IF i <= k - 1 THEN a[i] ELSE b[i - (k - 1)]
  <2>1. /\ a \o b \in Seq(S) /\ Len(a \o b) = Len(a) + Len(b)
        /\ \A i \in 1 .. Len(a) + Len(b) :
              (a \o b)[i] = IF i <= Len(a) THEN a[i] ELSE b[i - Len(a)]
    BY <1>2, <1>3, ConcatProperties
  <2>2. Len(a) + Len(b) = Len(s) - 1
    BY <1>1, <1>2, <1>3
  <2> QED
    BY <1>2, <2>1, <2>2
<1>5. DOMAIN (a \o b) = 1 .. Len(s) - 1
  BY <1>4, LenProperties
<1>6. \A i \in 1 .. Len(s) - 1 : (a \o b)[i] = IF i < k THEN s[i] ELSE s[i + 1]
  <2> SUFFICES ASSUME NEW i \in 1 .. Len(s) - 1
               PROVE  (a \o b)[i] = IF i < k THEN s[i] ELSE s[i + 1]
    OBVIOUS
  <2>1. CASE i < k
    BY <1>1, <1>2, <1>4, <2>1
  <2>2. CASE ~(i < k)
    <3>1. i - (k - 1) \in 1 .. Len(s) - k /\ i - (k - 1) + k = i + 1 /\ ~(i <= k - 1)
      BY <1>1, <2>2
    <3> QED
      BY <1>3, <1>4, <2>2, <3>1
  <2> QED
    BY <2>1, <2>2
<1>7. ASSUME NEW x \in Range(a \o b) PROVE x \in Range(s)
  <2>1. PICK i \in 1 .. Len(s) - 1 : x = (a \o b)[i]
    BY <1>5 DEF Range
  <2>2. i \in 1 .. Len(s) /\ i + 1 \in 1 .. Len(s)
    BY <1>1
  <2> QED
    BY <1>1, <1>6, <2>1, <2>2 DEF Range
<1>8. ASSUME NEW x \in Range(s), x # s[k] PROVE x \in Range(a \o b)
  <2>1. PICK i \in 1 .. Len(s) : x = s[i] /\ i # k
    BY <1>1, <1>8 DEF Range
  <2>2. CASE i < k
    <3>1. i \in 1 .. Len(s) - 1
      BY <1>1, <2>2
    <3> QED
      BY <1>5, <1>6, <2>1, <2>2, <3>1 DEF Range
  <2>3. CASE i > k
    <3>1. i - 1 \in 1 .. Len(s) - 1 /\ ~(i - 1 < k) /\ (i - 1) + 1 = i
      BY <1>1, <2>3
    <3> QED
      BY <1>5, <1>6, <2>1, <3>1 DEF Range
  <2> QED
    BY <1>1, <2>1, <2>2, <2>3
<1> QED
  BY <1>4, <1>7, <1>8 DEF RemoveAt, a, b, m

(***************************************************************************)
(* Decisions                                                               *)
(***************************************************************************)
\* What a decision needs: the epochs of the object and of its target are known.
Familiar(a, h, o) ==
    /\ ~(Epoch[o] > a.seen) /\ HasState(a, Epoch[o])
    /\ Kind[o] # "message" => Target[o] \in Range(h) /\ HasState(a, Epoch[Target[o]])

LEMMA DecideFacts ==
    ASSUME NEW a, NEW h, NEW o
    PROVE  /\ Decide(a, h, o) = "accepted" => Familiar(a, h, o)
           /\ o \in Range(h) /\ Familiar(a, h, o) => Decide(a, h, o) = "accepted"
           /\ Decide(a, h, o) = "accepted" /\ o \notin Range(h) /\ Kind[o] = "message"
                 => Compatible(a, Epoch[o])
<1> DEFINE accepted == o \in Range(h)
           contextual == Kind[o] # "message"
<1>1. Decide(a, h, o) =
        IF Epoch[o] > a.seen \/ ~HasState(a, Epoch[o]) THEN "awaiting-proof"
        ELSE IF contextual /\ (Target[o] \notin Range(h) \/ ~HasState(a, Epoch[Target[o]]))
             THEN "invalid"
        ELSE IF accepted \/ Kind[o] \in {"delete", "delivery"} THEN "accepted"
        ELSE IF Status(a) # "active" \/ ~Compatible(a, Epoch[o]) THEN "quarantine"
        ELSE "accepted"
  BY DEF Decide
<1> QED
  BY <1>1 DEF Familiar

LEMMA OldestIsLeast ==
    ASSUME NEW S, S \subseteq Nat, S # {}
    PROVE  Oldest(S) \in S
<1>1. \E k \in S : \A j \in S : k <= j
  BY Least
<1> QED
  BY <1>1 DEF Oldest

\* What consider does to the history and to the holds, whatever it protects.
LEMMA ConsiderFacts ==
    ASSUME NEW o \in Objects, NEW protected, NEW full, history \in Seq(Objects)
    PROVE  LET c == Consider(o, protected, full)
           IN  /\ c.history \in Seq(Objects)
               /\ Range(c.history) \subseteq Range(history) \cup {o}
               /\ \A x \in Range(history) :
                     x \in protected \/ x = Target[o] => x \in Range(c.history)
               /\ o \in Range(c.history) \ Range(history) => c.accepted
               /\ c.accepted => /\ o \in Range(c.history) /\ c.held \subseteq held
                                /\ Decide(auth, history, o) = "accepted"
               /\ c.held \subseteq held \cup {o}
               /\ o \in Range(history) /\ Decide(auth, history, o) = "accepted"
                     => c.accepted /\ c.history = history
<1> DEFINE decision == Decide(auth, history, o)
           first == decision = "accepted" /\ o \notin Range(history)
           R == Retirable(history, o, protected)
           refused == first /\ (full \/ (Len(history) = MaxHistory /\ R = {}))
           kept == IF Len(history) = MaxHistory THEN RemoveAt(history, Oldest(R)) ELSE history
           hold == /\ decision \in {"quarantine", "awaiting-proof"} \/ refused
                   /\ RetainHeld(o, full)
           c == Consider(o, protected, full)
<1>1. c = [accepted |-> decision = "accepted" /\ ~refused,
           history |-> IF first /\ ~refused THEN Append(kept, o) ELSE history,
           held |-> IF hold THEN held \cup {o}
                    ELSE IF decision = "accepted" /\ ~refused THEN held \ {o} ELSE held]
  BY DEF Consider
<1> HIDE DEF c
<1>2. /\ c.accepted <=> decision = "accepted" /\ ~refused
      /\ c.history = IF first /\ ~refused THEN Append(kept, o) ELSE history
      /\ c.held = IF hold THEN held \cup {o}
                  ELSE IF decision = "accepted" /\ ~refused THEN held \ {o} ELSE held
  BY <1>1
<1>3. ASSUME first, ~refused
      PROVE  /\ kept \in Seq(Objects) /\ Range(kept) \subseteq Range(history)
             /\ \A x \in Range(history) : x \in protected \/ x = Target[o] => x \in Range(kept)
  <2>1. CASE Len(history) = MaxHistory
    <3>1. R # {} /\ DOMAIN history = 1 .. Len(history) /\ Len(history) \in Nat
      BY <1>3, <2>1, LenProperties
    <3>2. R \subseteq 1 .. Len(history) /\ R \subseteq Nat
      BY <3>1 DEF Retirable
    <3> DEFINE k == Oldest(R)
    <3>3. k \in R
      BY <3>1, <3>2, OldestIsLeast
    <3>4. k \in 1 .. Len(history) /\ history[k] \notin protected /\ history[k] # Target[o]
      BY <3>2, <3>3 DEF Retirable
    <3> HIDE DEF k
    <3>5. /\ RemoveAt(history, k) \in Seq(Objects)
          /\ Range(RemoveAt(history, k)) \subseteq Range(history)
          /\ \A x \in Range(history) : x # history[k] => x \in Range(RemoveAt(history, k))
      BY <3>4, RangeRemoveAt
    <3>6. kept = RemoveAt(history, k)
      BY <2>1 DEF k
    <3> QED
      BY <3>4, <3>5, <3>6
  <2>2. CASE Len(history) # MaxHistory
    BY <2>2
  <2> QED
    BY <2>1, <2>2
<1> HIDE DEF kept
<1>4. ASSUME first, ~refused
      PROVE  c.history \in Seq(Objects) /\ Range(c.history) = Range(kept) \cup {o}
  BY <1>2, <1>3, <1>4, RangeAppend
<1>5. ASSUME decision = "accepted", ~refused PROVE c.accepted /\ c.held = held \ {o}
  <2>1. ~hold
    BY <1>5
  <2> QED
    BY <1>2, <1>5, <2>1
<1>6. c.held \subseteq held \cup {o}
  BY <1>2
<1> HIDE DEF hold
<1>7. o \in Range(history) => ~first /\ ~refused
  OBVIOUS
<1>8. c.accepted => decision = "accepted" /\ ~refused
  BY <1>2
<1>9. first => decision = "accepted" /\ o \notin Range(history)
  OBVIOUS
<1>10. decision = "accepted" /\ ~first => o \in Range(history)
  OBVIOUS
<1> HIDE DEF first, refused, decision
<1>11. CASE first /\ ~refused
  <2>1. c.accepted /\ c.held \subseteq held /\ o \notin Range(history) /\ decision = "accepted"
    BY <1>5, <1>9, <1>11
  <2>2. /\ c.history \in Seq(Objects) /\ Range(c.history) = Range(kept) \cup {o}
        /\ Range(kept) \subseteq Range(history)
        /\ \A x \in Range(history) : x \in protected \/ x = Target[o] => x \in Range(kept)
    BY <1>3, <1>4, <1>11
  <2> QED
    BY <1>6, <2>1, <2>2 DEF c, decision
<1>12. CASE ~(first /\ ~refused)
  <2>1. c.history = history
    BY <1>2, <1>12
  <2>2. c.accepted => o \in Range(history) /\ c.held \subseteq held /\ decision = "accepted"
    BY <1>5, <1>8, <1>10, <1>12
  <2>3. o \in Range(history) /\ decision = "accepted" => c.accepted
    BY <1>5, <1>7
  <2> QED
    BY <1>6, <2>1, <2>2, <2>3 DEF c, decision
<1> QED
  BY <1>11, <1>12

(***************************************************************************)
(* Edits and deletions                                                     *)
(***************************************************************************)
Mutations == [Objects -> [event : Objects \cup {None}, rank : Nat, deleted : BOOLEAN]]
AppliedIn(m, o) == m[Target[o]].deleted \/ (Kind[o] = "edit" /\ Rank[o] <= m[Target[o]].rank)
Converged(m, h) == \A o \in Events \cap Range(h) : Author[o] # Me => AppliedIn(m, o)

\* An event that is taken in has been applied, and so is what was before.
LEMMA MutatedApplies ==
    ASSUME NEW m \in Mutations, NEW o \in Objects
    PROVE  /\ Mutated(m, o) \in Mutations
           /\ o \in Events => AppliedIn(Mutated(m, o), o)
           /\ \A x \in Events : AppliedIn(m, x) => AppliedIn(Mutated(m, o), x)
<1>1. CASE Kind[o] \notin {"edit", "delete"}
  BY <1>1 DEF Mutated, Events
<1>2. CASE Kind[o] \in {"edit", "delete"}
  <2> DEFINE t == Target[o]
             before == m[t]
             new == [event |-> o, rank |-> Rank[o], deleted |-> Kind[o] = "delete" \/ before.deleted]
             wins == Rank[o] > before.rank \/ (Kind[o] = "delete" /\ ~before.deleted)
  <2>1. t \in Objects /\ Rank[o] \in Nat /\ before \in [event : Objects \cup {None}, rank : Nat, deleted : BOOLEAN]
    BY <1>2, ContentAssumption DEF Mutations
  <2>2. Mutated(m, o) = IF wins THEN [m EXCEPT ![t] = new] ELSE m
    BY <1>2 DEF Mutated
  <2>3. before.rank \in Nat /\ before.deleted \in BOOLEAN
    BY <2>1
  <2>4. new \in [event : Objects \cup {None}, rank : Nat, deleted : BOOLEAN]
    BY <2>1, <2>3
  <2>5. \A x \in Events : Target[x] \in Objects /\ Rank[x] \in Nat
    BY ContentAssumption DEF Events
  <2>6. new.rank = Rank[o] /\ (new.deleted <=> Kind[o] = "delete" \/ before.deleted)
    OBVIOUS
  <2>7. CASE wins
    <3> DEFINE w == [m EXCEPT ![t] = new]
    <3>1. w \in Mutations /\ w[t] = new /\ \A x \in Objects : x # t => w[x] = m[x]
      BY <2>1, <2>4 DEF Mutations
    <3>2. Mutated(m, o) = w
      BY <2>2, <2>7
    <3> HIDE DEF w, new
    <3>3. o \in Events => AppliedIn(w, o)
      BY <1>2, <2>1, <2>6, <3>1 DEF AppliedIn
    <3>4. ASSUME NEW x \in Events, AppliedIn(m, x) PROVE AppliedIn(w, x)
      <4>1. CASE Target[x] # t
        BY <2>5, <3>1, <3>4, <4>1 DEF AppliedIn
      <4>2. CASE Target[x] = t
        BY <2>1, <2>3, <2>5, <2>6, <2>7, <3>1, <3>4, <4>2 DEF AppliedIn
      <4> QED
        BY <4>1, <4>2
    <3> QED
      BY <3>1, <3>2, <3>3, <3>4
  <2>8. CASE ~wins
    <3>1. Mutated(m, o) = m
      BY <2>2, <2>8
    <3>2. o \in Events => AppliedIn(m, o)
      BY <1>2, <2>1, <2>3, <2>8 DEF AppliedIn
    <3> QED
      BY <3>1, <3>2
  <2> QED
    BY <2>7, <2>8
<1> QED
  BY <1>1, <1>2

(***************************************************************************)
(* The state                                                               *)
(***************************************************************************)
Auths == [seen : Nat, states : SUBSET Nat, admitted : Nat, left : Nat, forked : BOOLEAN]
IsBox(box) == box = [o \in DOMAIN box |-> [phase |-> box[o].phase, waiting |-> box[o].waiting]]

Typed ==
    /\ auth \in Auths
    /\ history \in Seq(Objects) /\ stored \subseteq Objects /\ mutations \in Mutations
    /\ IsBox(outbox) /\ DOMAIN outbox \subseteq Own

\* No reader that the epoch of a message had was withdrawn since, as far as is known.
Timely(o) == \A k \in Epoch[o]..auth.seen : Members(Epoch[o]) \subseteq Members(k)

\* What an observation is about to commit is already protected, and right.
Soon(next) ==
    /\ next.history \in Seq(Objects) /\ next.mutations \in Mutations
    /\ IsBox(next.outbox) /\ DOMAIN next.outbox = DOMAIN outbox
    /\ next.held \subseteq stored
    /\ Wanted(next.outbox, stops, next.held) \cap stored \subseteq reserved
    /\ Range(history) \cap stored \subseteq Range(next.history)
    /\ \A o \in Range(next.history) \ Range(history) : Kind[o] = "message" => Timely(o)
    /\ Converged(next.mutations, next.history)

\* The operation under way: what is being put is admitted and can be decided.
Doing ==
    op # None =>
        /\ process = "up"
        /\ op.kind \in {"observe", "release", "put"} /\ op.object \in Objects
        /\ op.kind = "observe" => Soon(op)
        /\ op.kind = "put" => /\ op.object \in Range(history)
                              /\ op.object \in Own => op.object \in DOMAIN outbox
                              /\ op.object \in Events => Familiar(auth, history, op.object)

IInv ==
    /\ Typed /\ HeldIsReserved /\ Doing
    /\ held \subseteq stored
    /\ Own \cap stored \subseteq Range(history)
    /\ Converged(mutations, history)

\* What is compatible with the head has lost no reader on the way.
LEMMA CompatibleIsTimely ==
    ASSUME NEW o \in Objects, auth \in Auths, Compatible(auth, Epoch[o])
    PROVE  Timely(o)
<1> DEFINE n == Epoch[o]
           T == {k \in n..auth.seen : ~(Members(n) \subseteq Members(k))}
<1>1. n \in Nat /\ auth.seen \in Nat
  BY ContentAssumption DEF Auths
<1> SUFFICES ASSUME T # {} PROVE FALSE
  BY DEF Timely
<1>2. T \subseteq Nat
  BY <1>1
<1>3. PICK k \in T : \A j \in T : k <= j
  BY <1>2, Least
<1>4. k \in Nat /\ n <= k /\ k <= auth.seen /\ k # n /\ k - 1 \notin T
  BY <1>1, <1>2, <1>3
<1>5. k \in n + 1..auth.seen /\ k - 1 \in n..auth.seen
  BY <1>1, <1>4
<1>6. Members(k - 1) \subseteq Members(k)
  BY <1>5 DEF Compatible
<1>7. Members(n) \subseteq Members(k - 1)
  BY <1>4, <1>5
<1> QED
  BY <1>3, <1>6, <1>7

Phased(box, o, p) == [box EXCEPT ![o].phase = p]

\* A phase that changes and a confirmation leave an outbox an outbox.
LEMMA BoxPhase ==
    ASSUME NEW box, IsBox(box), NEW o \in DOMAIN box, NEW p
    PROVE  /\ IsBox(Phased(box, o, p)) /\ DOMAIN Phased(box, o, p) = DOMAIN box
           /\ \A x \in DOMAIN box :
                 /\ Phased(box, o, p)[x].waiting = box[x].waiting
                 /\ Phased(box, o, p)[x].phase = IF x = o THEN p ELSE box[x].phase
<1> DEFINE b == Phased(box, o, p)
<1>0. b = [box EXCEPT ![o].phase = p]
  BY DEF Phased
<1> HIDE DEF b
<1>1. \A x \in DOMAIN box : box[x] = [phase |-> box[x].phase, waiting |-> box[x].waiting]
  BY DEF IsBox
<1>2. \A x \in DOMAIN box : b[x] = IF x = o THEN [phase |-> p, waiting |-> box[x].waiting] ELSE box[x]
  BY <1>0, <1>1
<1>3. DOMAIN b = DOMAIN box /\ b = [x \in DOMAIN box |-> b[x]]
  BY <1>0
<1>4. \A x \in DOMAIN box : b[x] = [phase |-> b[x].phase, waiting |-> b[x].waiting]
  BY <1>1, <1>2
<1>5. IsBox(b)
  BY <1>3, <1>4 DEF IsBox
<1> QED
  BY <1>1, <1>2, <1>3, <1>5 DEF b

LEMMA BoxConfirmed ==
    ASSUME NEW box, IsBox(box), NEW o
    PROVE  /\ IsBox(Confirmed(box, o)) /\ DOMAIN Confirmed(box, o) = DOMAIN box
           /\ \A x \in DOMAIN box : /\ Confirmed(box, o)[x].phase = box[x].phase
                                    /\ Confirmed(box, o)[x].waiting \subseteq box[x].waiting
<1>1. CASE Kind[o] = "delivery" /\ Target[o] \in DOMAIN box
  <2> DEFINE t == Target[o]
             b == [box EXCEPT ![t].waiting = @ \ {Author[o]}]
  <2>1. \A x \in DOMAIN box : box[x] = [phase |-> box[x].phase, waiting |-> box[x].waiting]
    BY DEF IsBox
  <2>2. \A x \in DOMAIN box : b[x] = IF x = t THEN [phase |-> box[x].phase,
                                                    waiting |-> box[x].waiting \ {Author[o]}]
                                     ELSE box[x]
    <3> DEFINE rest == box[t].waiting \ {Author[o]}
    <3>1. b = [box EXCEPT ![t].waiting = rest] /\ t \in DOMAIN box
      BY <1>1
    <3> HIDE DEF b, rest, t
    <3>2. \A x \in DOMAIN box : b[x] = IF x = t THEN [phase |-> box[x].phase, waiting |-> rest]
                                       ELSE box[x]
      BY <2>1, <3>1
    <3> QED
      BY <3>2 DEF rest
  <2>3. DOMAIN b = DOMAIN box /\ b = [x \in DOMAIN box |-> b[x]]
    OBVIOUS
  <2>4. Confirmed(box, o) = b
    BY <1>1 DEF Confirmed
  <2> HIDE DEF b
  <2>5. \A x \in DOMAIN box : b[x] = [phase |-> b[x].phase, waiting |-> b[x].waiting]
    BY <2>1, <2>2
  <2>6. IsBox(b)
    BY <2>3, <2>5 DEF IsBox
  <2> QED
    BY <2>1, <2>2, <2>3, <2>4, <2>6
<1>2. CASE ~(Kind[o] = "delivery" /\ Target[o] \in DOMAIN box)
  BY <1>2 DEF Confirmed
<1> QED
  BY <1>1, <1>2

\* Fewer readers to wait for, and more stops, want no more.
LEMMA WantedShrinks ==
    ASSUME NEW box, NEW b, DOMAIN b = DOMAIN box, NEW st, NEW more, NEW hd,
           st \subseteq more,
           \A x \in DOMAIN box : /\ b[x].waiting \subseteq box[x].waiting
                                 /\ box[x].phase = "unavailable" => b[x].phase = "unavailable"
    PROVE  Wanted(b, more, hd) \subseteq Wanted(box, st, hd)
BY DEF Wanted, Unfinished

Observed(o, protected, full) == Observation(o, Consider(o, protected, full))

\* What an observation computes, of an object whose bytes are among "protected".
LEMMA ObservationFacts ==
    ASSUME NEW o \in Objects, NEW protected, NEW full,
           Typed, Converged(mutations, history)
    PROVE  LET next == Observed(o, protected, full)
           IN  /\ next.kind = "observe" /\ next.object = o
               /\ next.history \in Seq(Objects) /\ next.mutations \in Mutations
               /\ IsBox(next.outbox) /\ DOMAIN next.outbox = DOMAIN outbox
               /\ next.held \subseteq held \cup {o}
               /\ o \in Range(history) /\ Decide(auth, history, o) = "accepted"
                     => next.held \subseteq held
               /\ \A x \in DOMAIN outbox : /\ next.outbox[x].phase = outbox[x].phase
                                           /\ next.outbox[x].waiting \subseteq outbox[x].waiting
               /\ Range(history) \cap protected \subseteq Range(next.history)
               /\ \A x \in Range(next.history) \ Range(history) : Kind[x] = "message" => Timely(x)
               /\ Converged(next.mutations, next.history)
<1> DEFINE c == Consider(o, protected, full)
           next == Observed(o, protected, full)
<1>1. /\ next.kind = "observe" /\ next.object = o
      /\ next.history = c.history /\ next.held = c.held
      /\ next.mutations = (IF c.accepted THEN Mutated(mutations, o) ELSE mutations)
      /\ next.outbox = (IF c.accepted THEN Confirmed(outbox, o) ELSE outbox)
  BY DEF Observation, Observed
<1>2. /\ c.history \in Seq(Objects)
      /\ Range(c.history) \subseteq Range(history) \cup {o}
      /\ \A x \in Range(history) : x \in protected \/ x = Target[o] => x \in Range(c.history)
      /\ o \in Range(c.history) \ Range(history) => c.accepted
      /\ c.accepted => o \in Range(c.history) /\ c.held \subseteq held
                       /\ Decide(auth, history, o) = "accepted"
      /\ c.held \subseteq held \cup {o}
      /\ o \in Range(history) /\ Decide(auth, history, o) = "accepted"
            => c.accepted /\ c.history = history
  BY ConsiderFacts DEF Typed
<1> HIDE DEF c, next
<1>3. next.mutations \in Mutations
  BY <1>1, MutatedApplies DEF Typed
<1>4. /\ IsBox(next.outbox) /\ DOMAIN next.outbox = DOMAIN outbox
      /\ \A x \in DOMAIN outbox : /\ next.outbox[x].phase = outbox[x].phase
                                  /\ next.outbox[x].waiting \subseteq outbox[x].waiting
  BY <1>1, BoxConfirmed DEF Typed
<1>5. ASSUME NEW x \in Range(next.history) \ Range(history), Kind[x] = "message"
      PROVE  Timely(x)
  <2>1. x = o /\ Decide(auth, history, o) = "accepted" /\ o \notin Range(history)
    BY <1>1, <1>2, <1>5
  <2>2. Compatible(auth, Epoch[o])
    BY <1>5, <2>1, DecideFacts
  <2> QED
    BY <2>1, <2>2, CompatibleIsTimely DEF Typed
<1>6. ASSUME NEW x \in Events \cap Range(next.history), Author[x] # Me
      PROVE  AppliedIn(next.mutations, x)
  <2>1. CASE x \in Range(history)
    BY <1>1, <1>6, <2>1, MutatedApplies DEF Typed, Converged
  <2>2. CASE x \notin Range(history)
    <3>1. x = o /\ c.accepted
      BY <1>1, <1>2, <2>2
    <3> QED
      BY <1>1, <3>1, MutatedApplies DEF Typed
  <2> QED
    BY <2>1, <2>2
<1>7. Converged(next.mutations, next.history)
  BY <1>6 DEF Converged
<1> QED
  BY <1>1, <1>2, <1>3, <1>4, <1>5, <1>7 DEF next, c

\* What changes the authority of this node only adds to what it knows.
LEMMA AuthorityGrows ==
    ASSUME auth \in Auths,
           \/ adopt \/ leave \/ seeFork
           \/ \E n \in 1..auth.seen : learnState(n)
           \/ \E n \in 2..auth.seen : rejoin(n)
    PROVE  /\ Authority(auth') /\ auth' \in Auths
           /\ auth.seen <= auth'.seen /\ auth.states \subseteq auth'.states
<1>1. /\ auth.seen \in Nat /\ auth.states \subseteq Nat /\ auth.admitted \in Nat
      /\ auth.left \in Nat /\ auth.forked \in BOOLEAN
  BY DEF Auths
<1>0. auth = [seen |-> auth.seen, states |-> auth.states, admitted |-> auth.admitted,
              left |-> auth.left, forked |-> auth.forked]
  BY DEF Auths
<1>2. CASE adopt
  <2> DEFINE p == IF Me \in Members(auth.seen + 1) THEN auth.admitted ELSE 0
             a == [auth EXCEPT !.seen = @ + 1,
                               !.admitted = IF Me \in Members(auth.seen + 1) THEN @ ELSE 0]
  <2>1. Authority(a) /\ auth' = a
    BY <1>2 DEF adopt, Authority
  <2>2. p \in Nat
    BY <1>1
  <2>3. a = [auth EXCEPT !.seen = auth.seen + 1, !.admitted = p]
    OBVIOUS
  <2> HIDE DEF p, a
  <2>4. a = [seen |-> auth.seen + 1, states |-> auth.states, admitted |-> p,
             left |-> auth.left, forked |-> auth.forked]
    BY <1>0, <2>3
  <2>5. a \in Auths /\ a.seen = auth.seen + 1 /\ a.states = auth.states
    BY <1>1, <2>2, <2>4 DEF Auths
  <2> QED
    BY <1>1, <2>1, <2>5
<1>3. CASE leave
  <2> DEFINE a == [auth EXCEPT !.left = auth.seen, !.admitted = 0]
  <2>1. Authority(a) /\ auth' = a
    BY <1>3 DEF leave, Authority
  <2>2. a \in Auths /\ a.seen = auth.seen /\ a.states = auth.states
    BY <1>1 DEF Auths
  <2> QED
    BY <1>1, <2>1, <2>2
<1>4. CASE seeFork
  <2> DEFINE a == [auth EXCEPT !.forked = TRUE]
  <2>1. Authority(a) /\ auth' = a
    BY <1>4 DEF seeFork, Authority
  <2>2. a \in Auths /\ a.seen = auth.seen /\ a.states = auth.states
    BY <1>1 DEF Auths
  <2> QED
    BY <1>1, <2>1, <2>2
<1>5. ASSUME NEW n \in 1..auth.seen, learnState(n)
      PROVE  Authority(auth') /\ auth' \in Auths
             /\ auth.seen <= auth'.seen /\ auth.states \subseteq auth'.states
  <2> DEFINE a == [auth EXCEPT !.states = @ \cup {n}]
  <2>1. Authority(a) /\ auth' = a
    BY <1>5 DEF learnState, Authority
  <2>2. a \in Auths /\ a.seen = auth.seen /\ a.states = auth.states \cup {n}
    BY <1>1 DEF Auths
  <2> QED
    BY <1>1, <2>1, <2>2
<1>6. ASSUME NEW n \in 2..auth.seen, rejoin(n)
      PROVE  Authority(auth') /\ auth' \in Auths
             /\ auth.seen <= auth'.seen /\ auth.states \subseteq auth'.states
  <2> DEFINE a == [auth EXCEPT !.states = @ \cup {n}, !.admitted = n, !.left = 0]
  <2>1. Authority(a) /\ auth' = a
    BY <1>6 DEF rejoin, Authority
  <2>2. a \in Auths /\ a.seen = auth.seen /\ a.states = auth.states \cup {n}
    <3> DEFINE q == auth.states \cup {n}
    <3>0. a = [auth EXCEPT !.states = q, !.admitted = n, !.left = 0]
      OBVIOUS
    <3> HIDE DEF q, a
    <3>1. a = [seen |-> auth.seen, states |-> q, admitted |-> n,
               left |-> 0, forked |-> auth.forked]
      BY <1>0, <3>0
    <3>2. n \in Nat
      BY <1>1
    <3> QED
      BY <1>1, <3>1, <3>2 DEF Auths, q
  <2> QED
    BY <1>1, <2>1, <2>2
<1> QED
  BY <1>2, <1>3, <1>4, <1>5, <1>6

\* What restarts and changes of authority leave to protect.
LEMMA RestoredHolds ==
    ASSUME NEW a, NEW h, NEW hd, NEW box, NEW st, restoreGroupHolds(a, h, hd, box, st)
    PROVE  Wanted(box, st, hd) \cap stored \subseteq reserved'
BY DEF restoreGroupHolds

(***************************************************************************)
(* The invariant                                                           *)
(***************************************************************************)
LEMMA InitIInv == Init => IInv
<1> SUFFICES ASSUME Init PROVE IInv
  OBVIOUS
<1>1. auth \in Auths /\ history \in Seq(Objects) /\ Range(history) = {}
  BY EmptySeq DEF Init, Auths, Range
<1>2. mutations \in Mutations
  BY DEF Init, Mutations
<1>3. DOMAIN outbox = {} /\ IsBox(outbox)
  BY DEF Init, IsBox
<1>4. Wanted(outbox, stops, held) = {}
  BY <1>3 DEF Init, Wanted, Unfinished
<1> QED
  BY <1>1, <1>2, <1>3, <1>4 DEF Init, IInv, Typed, HeldIsReserved, Doing, Converged

\* A change of authority.
LEMMA AuthorityIInv ==
    ASSUME IInv, Authority(auth'), auth' \in Auths
    PROVE  IInv'
<1>1. /\ op' = None /\ restoreGroupHolds(auth', history, held, outbox, stops')
      /\ UNCHANGED <<history, held, outbox, mutations, stored>>
  BY DEF Authority, Ready
<1>2. HeldIsReserved'
  BY <1>1, RestoredHolds DEF HeldIsReserved
<1> QED
  BY <1>1, <1>2 DEF IInv, Typed, Doing

\* An object arrives, or is evicted.
LEMMA ReceiveIInv == ASSUME IInv, NEW o \in Objects, receive(o) PROVE IInv'
<1>1. /\ op = None /\ o \notin stored /\ Author[o] # Me /\ stored' = stored \cup {o}
      /\ UNCHANGED <<chain, db, reserved, queued, process, op>>
  BY DEF receive, Ready
<1>2. o \notin Own
  BY <1>1 DEF Own
<1>3. o \notin Wanted(outbox, stops, held)
  BY <1>1, <1>2 DEF Wanted, Unfinished, IInv, Typed
<1> QED
  BY <1>1, <1>2, <1>3 DEF IInv, Typed, Doing, HeldIsReserved, db

LEMMA EvictIInv == ASSUME IInv, NEW o \in Objects, evict(o) PROVE IInv'
<1>1. /\ op = None /\ o \notin reserved /\ stored' = stored \ {o}
      /\ UNCHANGED <<chain, db, reserved, queued, process, op>>
  BY DEF evict
<1>2. o \notin held
  BY <1>1 DEF IInv, HeldIsReserved, Wanted
<1> QED
  BY <1>1, <1>2 DEF IInv, Typed, Doing, HeldIsReserved, db

\* An observation begins: what it will commit is protected first.
LEMMA ObserveIInv ==
    ASSUME IInv, NEW o \in Objects, NEW full, observe(o, full) PROVE IInv'
<1> DEFINE next == Observed(o, stored \cup DOMAIN outbox, full)
<1>1. /\ o \in stored /\ op' = next /\ Protect(next) /\ UNCHANGED <<chain, db, stored>>
      /\ process' = "up"
  BY DEF observe, inspectGroups, Ready, Observed
<1>2. Typed /\ Converged(mutations, history) /\ held \subseteq stored /\ HeldIsReserved
      /\ Own \cap stored \subseteq Range(history)
  BY DEF IInv
<1>3. /\ next.kind = "observe" /\ next.object = o
      /\ next.history \in Seq(Objects) /\ next.mutations \in Mutations
      /\ IsBox(next.outbox) /\ DOMAIN next.outbox = DOMAIN outbox
      /\ next.held \subseteq held \cup {o}
      /\ Range(history) \cap (stored \cup DOMAIN outbox) \subseteq Range(next.history)
      /\ \A x \in Range(next.history) \ Range(history) : Kind[x] = "message" => Timely(x)
      /\ Converged(next.mutations, next.history)
  BY <1>2, ObservationFacts
<1> HIDE DEF next
<1>4. reserved' = reserved \cup (Wanted(next.outbox, stops, next.held) \cap stored)
  BY <1>1 DEF Protect
<1>5. Soon(op)'
  <2>1. UNCHANGED <<auth, history, stops, outbox, chain>>
    BY <1>1 DEF db
  <2> QED
    BY <1>1, <1>2, <1>3, <1>4, <2>1 DEF Soon, Timely, Members
<1>6. Doing'
  BY <1>1, <1>3, <1>5 DEF Doing
<1>7. HeldIsReserved'
  BY <1>1, <1>2, <1>4 DEF HeldIsReserved, db
<1> QED
  BY <1>1, <1>2, <1>6, <1>7 DEF IInv, Typed, db

\* ... and commits, or fails.
LEMMA ObserveCommitIInv == ASSUME IInv, observeCommit PROVE IInv'
<1>1. /\ op # None /\ op.kind = "observe" /\ UNCHANGED <<chain, auth, stops, stored>>
      /\ process' = "up"
  BY DEF observeCommit
<1>2. Soon(op) /\ op.object \in Objects
  BY <1>1 DEF IInv, Doing
<1>3. CASE /\ history' = op.history /\ held' = op.held
           /\ mutations' = op.mutations /\ outbox' = op.outbox
           /\ op' = [kind |-> "release", object |-> op.object]
           /\ UNCHANGED <<reserved, queued>>
  <2>1. op'.kind = "release" /\ op'.object = op.object
    BY <1>3
  <2>2. Doing'
    BY <1>1, <1>2, <2>1 DEF Doing
  <2>3. HeldIsReserved'
    BY <1>1, <1>2, <1>3 DEF HeldIsReserved, Soon
  <2> QED
    BY <1>1, <1>2, <1>3, <2>2, <2>3 DEF IInv, Typed, Soon
<1>4. CASE /\ op' = None /\ restoreGroupHolds(auth, history, held, outbox, stops)
           /\ UNCHANGED <<history, held, mutations, outbox>>
  <2>1. HeldIsReserved'
    BY <1>1, <1>4, RestoredHolds DEF HeldIsReserved
  <2> QED
    BY <1>1, <1>4, <2>1 DEF IInv, Typed, Doing
<1> QED
  BY <1>3, <1>4 DEF observeCommit

\* What only ends an operation, or none, and leaves the database.
LEMMA ReleaseIInv == ASSUME IInv, release PROVE IInv'
<1>1. /\ reserved' = Wanted(outbox, stops, held) \cap stored
      /\ op' = None /\ UNCHANGED <<chain, db, stored, process>>
  BY DEF release
<1> QED
  BY <1>1 DEF IInv, Typed, Doing, HeldIsReserved, db

LEMMA FlushIInv == ASSUME IInv, NEW o \in Objects, flush(o) PROVE IInv'
<1>1. op = None /\ UNCHANGED <<chain, db, stored, reserved, process, op>>
  BY DEF flush, Ready
<1> QED
  BY <1>1 DEF IInv, Typed, Doing, HeldIsReserved, db

LEMMA CrashIInv == ASSUME IInv, crash PROVE IInv'
<1>1. op' = None /\ UNCHANGED <<chain, db, stored, reserved>>
  BY DEF crash
<1> QED
  BY <1>1 DEF IInv, Typed, Doing, HeldIsReserved, db

\* The process starts again.
LEMMA RestartIInv == ASSUME IInv, restart PROVE IInv'
<1>1. /\ process = "down" /\ restoreGroupHolds(auth, history, held, outbox, stops')
      /\ UNCHANGED <<chain, auth, history, held, outbox, mutations, stored, op>>
  BY DEF restart
<1>2. op' = None
  BY <1>1 DEF IInv, Doing
<1>3. HeldIsReserved'
  BY <1>1, RestoredHolds DEF HeldIsReserved
<1> QED
  BY <1>1, <1>2, <1>3 DEF IInv, Typed, Doing

\* An unfinished intent is settled by whether its bytes are there.
LEMMA SettleIInv == ASSUME IInv, NEW o \in Objects, settle(o) PROVE IInv'
<1> DEFINE p == IF o \in stored THEN "ready" ELSE "unavailable"
<1>1. /\ op = None /\ o \in DOMAIN outbox /\ outbox' = [outbox EXCEPT ![o].phase = p]
      /\ reserved' = reserved \cup ({o} \cap stored)
      /\ UNCHANGED <<chain, auth, history, held, stops, mutations, stored, op>>
  BY DEF settle, Ready
<1> HIDE DEF p
<1>2. /\ IsBox(outbox') /\ DOMAIN outbox' = DOMAIN outbox
      /\ \A x \in DOMAIN outbox : /\ outbox'[x].waiting = outbox[x].waiting
                                  /\ x # o => outbox'[x].phase = outbox[x].phase
  <2>1. IsBox(outbox) /\ outbox' = Phased(outbox, o, p)
    BY <1>1 DEF IInv, Typed, Phased
  <2>3. o \in DOMAIN outbox
    BY <1>1
  <2>2. /\ IsBox(outbox') /\ DOMAIN outbox' = DOMAIN outbox
        /\ \A x \in DOMAIN outbox : /\ outbox'[x].waiting = outbox[x].waiting
                                    /\ outbox'[x].phase = IF x = o THEN p ELSE outbox[x].phase
    BY <2>1, <2>3, BoxPhase
  <2> QED
    BY <2>2
<1>3. Wanted(outbox', stops, held) \subseteq Wanted(outbox, stops, held) \cup {o}
  BY <1>2 DEF Wanted, Unfinished
<1>4. HeldIsReserved'
  BY <1>1, <1>3 DEF HeldIsReserved, IInv
<1> QED
  BY <1>1, <1>2, <1>4 DEF IInv, Typed, Doing

\* The content store refuses what was to be put.
LEMMA PutFailsIInv == ASSUME IInv, putFails PROVE IInv'
<1> DEFINE o == op.object
           box == IF o \in Own THEN [outbox EXCEPT ![o].phase = "unavailable"] ELSE outbox
<1>1. /\ op # None /\ op.kind = "put" /\ outbox' = box /\ op' = None
      /\ restoreGroupHolds(auth, history, held, box, stops)
      /\ UNCHANGED <<chain, auth, history, held, stops, mutations, stored>>
  BY DEF putFails
<1>2. o \in Own => o \in DOMAIN outbox
  BY <1>1 DEF IInv, Doing
<1>3. IsBox(box) /\ DOMAIN box = DOMAIN outbox
  BY <1>2, BoxPhase DEF IInv, Typed, Phased
<1> HIDE DEF box
<1>4. HeldIsReserved'
  BY <1>1, RestoredHolds DEF HeldIsReserved
<1> QED
  BY <1>1, <1>3, <1>4 DEF IInv, Typed, Doing

\* An own message is admitted and its intent kept, before its bytes are put.
LEMMA SendIInv ==
    ASSUME IInv, NEW o \in Objects, NEW full, send(o, full) PROVE IInv'
<1> DEFINE st == Reconciled(auth, outbox, stops)
           box(gone) == [x \in (DOMAIN outbox \ gone) \cup {o} |->
                           IF x = o THEN [phase |-> "preparing", waiting |-> Audience(o) \ {Me}]
                                    ELSE outbox[x]]
           c(gone) == Consider(o, stored \cup DOMAIN box(gone), full)
<1>1. PICK gone : /\ c(gone).accepted
                  /\ history' = c(gone).history /\ held' = c(gone).held
                  /\ outbox' = box(gone) /\ stops' = st \cap DOMAIN box(gone)
  BY DEF send, retireStops
<1>2. /\ op = None /\ process = "up" /\ o \in Own /\ o \notin Range(history)
      /\ op' = [kind |-> "put", object |-> o]
      /\ UNCHANGED <<chain, auth, mutations, stored, reserved, queued, process>>
  BY DEF send, Ready
<1>3. /\ Typed /\ HeldIsReserved /\ held \subseteq stored /\ Converged(mutations, history)
      /\ Own \cap stored \subseteq Range(history)
  BY DEF IInv
<1>4. stops \subseteq st
  BY DEF Reconciled
<1>5. /\ history' \in Seq(Objects) /\ o \in Range(history') /\ held' \subseteq held
      /\ Range(history') \subseteq Range(history) \cup {o}
      /\ Range(history) \cap stored \subseteq Range(history')
  <2> HIDE DEF box
  <2> QED
    BY <1>1, <1>3, ConsiderFacts DEF Typed
<1>6. /\ DOMAIN outbox' = (DOMAIN outbox \ gone) \cup {o}
      /\ outbox'[o] = [phase |-> "preparing", waiting |-> Audience(o) \ {Me}]
      /\ \A x \in DOMAIN outbox' : x # o => x \in DOMAIN outbox /\ outbox'[x] = outbox[x]
      /\ outbox' = [x \in DOMAIN outbox' |-> outbox'[x]]
      /\ stops' = st \cap DOMAIN outbox'
  BY <1>1
<1> HIDE DEF st, box, c
<1>7. \A x \in DOMAIN outbox' : outbox'[x] = [phase |-> outbox'[x].phase, waiting |-> outbox'[x].waiting]
  BY <1>3, <1>6 DEF Typed, IsBox
<1>8. IsBox(outbox') /\ DOMAIN outbox' \subseteq Own
  BY <1>2, <1>3, <1>6, <1>7 DEF IsBox, Typed
<1>9. Wanted(outbox', stops', held') \subseteq Wanted(outbox, stops, held) \cup {o}
  BY <1>4, <1>5, <1>6 DEF Wanted, Unfinished
<1>10. o \notin stored /\ o \notin Events
  BY <1>2, <1>3 DEF Own, Events
<1>11. HeldIsReserved'
  BY <1>2, <1>3, <1>9, <1>10 DEF HeldIsReserved
<1>12. Converged(mutations, history)'
  BY <1>2, <1>3, <1>5, <1>10 DEF Converged
<1>13. Doing'
  BY <1>2, <1>5, <1>6, <1>10 DEF Doing
<1> QED
  BY <1>2, <1>3, <1>5, <1>8, <1>11, <1>12, <1>13 DEF IInv, Typed

\* An event or a confirmation of one's own is admitted before its bytes are put.
LEMMA AboutIInv ==
    ASSUME IInv, NEW o \in Objects, NEW full, About(o, full), o \notin Own PROVE IInv'
<1> DEFINE c == Consider(o, stored, full)
<1>1. /\ op = None /\ process = "up" /\ Author[o] = Me
      /\ o \notin Range(history) /\ Target[o] \in Range(history)
      /\ c.accepted /\ history' = c.history /\ held' = c.held
      /\ op' = [kind |-> "put", object |-> o]
      /\ UNCHANGED <<chain, auth, stops, outbox, mutations, stored, reserved, process>>
  BY DEF About, Ready
<1>2. /\ Typed /\ HeldIsReserved /\ held \subseteq stored /\ Converged(mutations, history)
      /\ Own \cap stored \subseteq Range(history)
  BY DEF IInv
<1>3. /\ history' \in Seq(Objects) /\ o \in Range(history') /\ held' \subseteq held
      /\ Range(history') \subseteq Range(history) \cup {o}
      /\ Range(history) \cap stored \subseteq Range(history')
      /\ Target[o] \in Range(history')
      /\ Decide(auth, history, o) = "accepted"
  BY <1>1, <1>2, ConsiderFacts DEF Typed
<1> HIDE DEF c
<1>4. Familiar(auth, history, o)
  BY <1>3, DecideFacts
<1>5. Familiar(auth, history, o)'
  BY <1>1, <1>3, <1>4 DEF Familiar, HasState
<1>6. Wanted(outbox, stops, held') \subseteq Wanted(outbox, stops, held)
  BY <1>3 DEF Wanted
<1>7. HeldIsReserved'
  BY <1>1, <1>2, <1>6 DEF HeldIsReserved
<1>8. Converged(mutations, history)'
  BY <1>1, <1>2, <1>3 DEF Converged
<1>9. Doing'
  <2>1. op'.kind = "put" /\ op'.object = o
    BY <1>1
  <2> QED
    BY <1>1, <1>3, <1>5, <2>1 DEF Doing
<1> QED
  BY <1>1, <1>2, <1>3, <1>7, <1>8, <1>9 DEF IInv, Typed

\* The bytes are put: of a message, of an event, which is then observed, or of a
\* confirmation.
LEMMA PutReservedIInv == ASSUME IInv, putReserved PROVE IInv'
<1> DEFINE o == op.object
           full == FALSE
           next == Observed(o, stored \cup {o}, full)
<1>1. /\ op # None /\ op.kind = "put" /\ process = "up" /\ stored' = stored \cup {o}
      /\ UNCHANGED <<chain, auth, history, held, stops, mutations, process>>
  BY DEF putReserved
<1>2. /\ o \in Objects /\ o \in Range(history)
      /\ o \in Own => o \in DOMAIN outbox
      /\ o \in Events => Familiar(auth, history, o)
  BY <1>1 DEF IInv, Doing
<1>3. /\ Typed /\ HeldIsReserved /\ held \subseteq stored /\ Converged(mutations, history)
      /\ Own \cap stored \subseteq Range(history)
  BY DEF IInv
<1>4. stored' \subseteq Objects /\ held \subseteq stored' /\ Own \cap stored' \subseteq Range(history)
  BY <1>1, <1>2, <1>3 DEF Typed
<1>5. CASE o \in Own
  <2>0. o \notin Events
    BY <1>5 DEF Own, Events
  <2>1. reserved' = reserved \cup {o} /\ op' = None /\ outbox' = [outbox EXCEPT ![o].phase = "ready"]
    BY <1>5, <2>0 DEF putReserved
  <2> DEFINE b == outbox'
  <2> HIDE DEF o
  <2>9. b = Phased(outbox, o, "ready")
    BY <2>1 DEF Phased
  <2>2. /\ IsBox(b) /\ DOMAIN b = DOMAIN outbox
        /\ \A x \in DOMAIN outbox : /\ b[x].waiting = outbox[x].waiting
                                    /\ b[x].phase = IF x = o THEN "ready" ELSE outbox[x].phase
    BY <1>2, <1>3, <1>5, <2>9, BoxPhase DEF Typed
  <2>3. Wanted(b, stops, held) \subseteq Wanted(outbox, stops, held) \cup {o}
    BY <2>2 DEF Wanted, Unfinished
  <2>4. HeldIsReserved'
    BY <1>1, <1>3, <2>1, <2>3 DEF HeldIsReserved
  <2> QED
    BY <1>1, <1>3, <1>4, <2>1, <2>2, <2>4 DEF IInv, Typed, Doing
<1>6. CASE o \notin Own /\ o \in Events
  <2>1. op' = next /\ Protect(next) /\ outbox' = outbox
    BY <1>6 DEF putReserved, Observed
  <2>2. Decide(auth, history, o) = "accepted"
    BY <1>2, <1>6, DecideFacts
  <2> HIDE DEF o
  <2> HIDE DEF full
  <2>9. o \in Objects /\ o \in Range(history) /\ Typed /\ Converged(mutations, history)
    BY <1>2, <1>3
  <2>3. /\ next.kind = "observe" /\ next.object = o
        /\ next.history \in Seq(Objects) /\ next.mutations \in Mutations
        /\ IsBox(next.outbox) /\ DOMAIN next.outbox = DOMAIN outbox
        /\ next.held \subseteq held
        /\ Range(history) \cap (stored \cup {o}) \subseteq Range(next.history)
        /\ \A x \in Range(next.history) \ Range(history) : Kind[x] = "message" => Timely(x)
        /\ Converged(next.mutations, next.history)
    BY <2>2, <2>9, ObservationFacts
  <2> HIDE DEF next
  <2>4. reserved' = reserved \cup (Wanted(next.outbox, stops, next.held) \cap stored)
    BY <2>1 DEF Protect
  <2>5. /\ o \notin DOMAIN outbox
        /\ \A x : x \in Wanted(next.outbox, stops, next.held) =>
                     x \in held \/ x \in DOMAIN outbox
        /\ \A x : x \in Wanted(outbox, stops, held) => x \in held \/ x \in DOMAIN outbox
    BY <1>3, <1>6, <2>3 DEF Wanted, Unfinished, Typed
  <2>6. Soon(op)'
    <3>1. Wanted(next.outbox, stops, next.held) \cap stored' \subseteq reserved'
      BY <1>1, <1>3, <2>4, <2>5
    <3> QED
      BY <1>1, <1>3, <2>1, <2>3, <3>1 DEF Soon, Timely, Members
  <2>7. Doing'
    BY <1>1, <1>2, <2>1, <2>3, <2>6 DEF Doing
  <2>8. HeldIsReserved'
    BY <1>1, <1>3, <2>1, <2>4, <2>5 DEF HeldIsReserved
  <2> QED
    BY <1>1, <1>3, <1>4, <2>1, <2>7, <2>8 DEF IInv, Typed
<1>7. CASE o \notin Own /\ o \notin Events
  <2>1. op' = None /\ UNCHANGED <<reserved, outbox>>
    BY <1>7 DEF putReserved
  <2>2. o \notin DOMAIN outbox
    BY <1>3, <1>7 DEF Typed
  <2> HIDE DEF o
  <2>3. HeldIsReserved'
    BY <1>1, <1>3, <2>1, <2>2 DEF HeldIsReserved, Wanted, Unfinished
  <2> QED
    BY <1>1, <1>3, <1>4, <2>1, <2>3 DEF IInv, Typed, Doing
<1> QED
  BY <1>5, <1>6, <1>7

LEMMA NextIInv == IInv /\ [Next]_vars => IInv'
<1> SUFFICES ASSUME IInv, [Next]_vars PROVE IInv'
  OBVIOUS
<1>1. CASE \/ adopt \/ leave \/ seeFork
           \/ \E n \in 1..auth.seen : learnState(n)
           \/ \E n \in 2..auth.seen : rejoin(n)
  BY <1>1, AuthorityGrows, AuthorityIInv DEF IInv, Typed
<1>2. ASSUME NEW o \in Objects, receive(o) \/ evict(o) \/ settle(o) \/ flush(o) PROVE IInv'
  BY <1>2, ReceiveIInv, EvictIInv, SettleIInv, FlushIInv
<1>3. ASSUME NEW o \in Objects, NEW full \in MayFill,
             \/ observe(o, full) \/ send(o, full)
             \/ commitGroupEvent(o, full) \/ commitGroupConfirmation(o, full)
      PROVE  IInv'
  <2>1. CASE observe(o, full)
    BY <2>1, ObserveIInv
  <2>2. CASE send(o, full)
    BY <2>2, SendIInv
  <2>3. CASE commitGroupEvent(o, full) \/ commitGroupConfirmation(o, full)
    <3>1. About(o, full) /\ o \notin Own
      BY <2>3 DEF commitGroupEvent, commitGroupConfirmation, Events, Own
    <3> QED
      BY <3>1, AboutIInv
  <2> QED
    BY <1>3, <2>1, <2>2, <2>3
<1>4. CASE observeCommit \/ release \/ putReserved \/ putFails \/ crash \/ restart
  BY <1>4, ObserveCommitIInv, ReleaseIInv, PutReservedIInv, PutFailsIInv, CrashIInv, RestartIInv
<1>5. CASE UNCHANGED vars
  BY <1>5 DEF vars, db, IInv, Typed, HeldIsReserved, Doing, Soon, Timely, Members, Familiar, HasState
<1> QED
  BY <1>1, <1>2, <1>3, <1>4, <1>5 DEF Next

(***************************************************************************)
(* Theorems                                                                *)
(***************************************************************************)
\* The invariant holds of every execution: among what it says, the database stays
\* well formed, nothing is held back whose bytes are gone, and own messages that
\* are stored are admitted.
THEOREM Invariant == Spec => []IInv
BY InitIInv, NextIInv, PTL DEF Spec

\* restoreGroupHolds and groupOutboxReservations: what is held back, and what is
\* still to be delivered, cannot be evicted.
THEOREM HeldReserved == Spec => []HeldIsReserved
<1>1. IInv => HeldIsReserved
  BY DEF IInv
<1> QED
  BY Invariant, <1>1, PTL

\* observeGroupObject: of the events of others, the same is shown whatever the
\* order they came in.
THEOREM Converges == Spec => []EditsConverge
<1>1. IInv => EditsConverge
  BY DEF IInv, Converged, EditsConverge, AppliedIn, Applied
<1> QED
  BY Invariant, <1>1, PTL

\* decide: what comes after a reader was withdrawn is never admitted.
THEOREM LateNever == Spec => LateIsNeverShown
<1>1. ASSUME IInv, [Next]_vars, NEW o \in Objects, Kind[o] = "message",
             o \in Range(history') \ Range(history)
      PROVE  Timely(o)
  <2>1. ASSUME NEW x \in Objects, NEW full, send(x, full) PROVE Timely(o)
    <3> DEFINE box(gone) == [y \in (DOMAIN outbox \ gone) \cup {x} |->
                               IF y = x THEN [phase |-> "preparing", waiting |-> Audience(x) \ {Me}]
                                        ELSE outbox[y]]
    <3>1. PICK gone : history' = Consider(x, stored \cup DOMAIN box(gone), full).history
      BY <2>1 DEF send
    <3> HIDE DEF box
    <3>2. o = x
      BY <1>1, <3>1, ConsiderFacts DEF IInv, Typed
    <3>3. auth.seen = Epoch[x] /\ Epoch[x] \in Nat
      BY <2>1, ContentAssumption DEF send
    <3>4. \A k \in Epoch[x]..auth.seen : k = Epoch[x]
      BY <3>3
    <3> QED
      BY <3>2, <3>4 DEF Timely
  <2>2. ASSUME NEW x \in Objects, NEW full,
               commitGroupEvent(x, full) \/ commitGroupConfirmation(x, full)
        PROVE  FALSE
    <3>1. Kind[x] # "message" /\ history' = Consider(x, stored, full).history
      BY <2>2 DEF commitGroupEvent, commitGroupConfirmation, About, Events
    <3>2. o = x
      BY <1>1, <3>1, ConsiderFacts DEF IInv, Typed
    <3> QED
      BY <1>1, <3>1, <3>2
  <2>3. CASE observeCommit
    <3>1. history' = op.history \/ history' = history
      BY <2>3 DEF observeCommit
    <3>2. op # None /\ op.kind = "observe"
      BY <2>3 DEF observeCommit
    <3>3. Soon(op)
      BY <1>1, <3>2 DEF IInv, Doing
    <3> QED
      BY <1>1, <3>1, <3>3 DEF Soon
  <2>4. ASSUME NEW x \in Objects, receive(x) \/ evict(x) \/ settle(x) \/ flush(x) PROVE FALSE
    BY <1>1, <2>4 DEF receive, evict, settle, flush, db
  <2>5. ASSUME NEW x \in Objects, NEW full, observe(x, full) PROVE FALSE
    BY <1>1, <2>5 DEF observe, db
  <2>6. CASE \/ adopt \/ leave \/ seeFork
             \/ \E n \in 1..auth.seen : learnState(n)
             \/ \E n \in 2..auth.seen : rejoin(n)
    BY <1>1, <2>6, AuthorityGrows DEF Authority, IInv, Typed
  <2>7. CASE release \/ putReserved \/ putFails \/ crash \/ restart \/ UNCHANGED vars
    BY <1>1, <2>7 DEF release, putReserved, putFails, crash, restart, db, vars
  <2> QED
    BY <1>1, <2>1, <2>2, <2>3, <2>4, <2>5, <2>6, <2>7 DEF Next
<1>2. IInv /\ [Next]_vars =>
        [\A o \in Objects : Kind[o] = "message" /\ o \in Range(history') \ Range(history)
            => \A n \in Epoch[o]..auth.seen : Members(Epoch[o]) \subseteq Members(n)]_vars
  BY <1>1 DEF Timely
<1> QED
  BY Invariant, <1>2, PTL DEF Spec, LateIsNeverShown

\* decide and consider: a message that is shown stays shown while its bytes are
\* here, since no step retires what is stored and none takes knowledge back.
THEOREM ShownStays == Spec => ShownStaysShown
<1>1. ASSUME IInv, [Next]_vars
      PROVE  Range(history) \cap stored \subseteq Range(history')
  <2>1. ASSUME NEW x \in Objects, NEW full, send(x, full)
        PROVE  Range(history) \cap stored \subseteq Range(history')
    <3> DEFINE box(gone) == [y \in (DOMAIN outbox \ gone) \cup {x} |->
                               IF y = x THEN [phase |-> "preparing", waiting |-> Audience(x) \ {Me}]
                                        ELSE outbox[y]]
    <3>1. PICK gone : history' = Consider(x, stored \cup DOMAIN box(gone), full).history
      BY <2>1 DEF send
    <3> HIDE DEF box
    <3> QED
      BY <1>1, <3>1, ConsiderFacts DEF IInv, Typed
  <2>2. ASSUME NEW x \in Objects, NEW full,
               commitGroupEvent(x, full) \/ commitGroupConfirmation(x, full)
        PROVE  Range(history) \cap stored \subseteq Range(history')
    <3>1. history' = Consider(x, stored, full).history
      BY <2>2 DEF commitGroupEvent, commitGroupConfirmation, About
    <3> QED
      BY <1>1, <3>1, ConsiderFacts DEF IInv, Typed
  <2>3. CASE observeCommit
    <3>1. history' = op.history \/ history' = history
      BY <2>3 DEF observeCommit
    <3>2. op # None /\ op.kind = "observe"
      BY <2>3 DEF observeCommit
    <3>3. Soon(op)
      BY <1>1, <3>2 DEF IInv, Doing
    <3> QED
      BY <3>1, <3>3 DEF Soon
  <2>4. ASSUME NEW x \in Objects, receive(x) \/ evict(x) \/ settle(x) \/ flush(x)
        PROVE  history' = history
    BY <2>4 DEF receive, evict, settle, flush, db
  <2>5. ASSUME NEW x \in Objects, NEW full, observe(x, full) PROVE history' = history
    BY <2>5 DEF observe, db
  <2>6. CASE \/ adopt \/ leave \/ seeFork
             \/ \E n \in 1..auth.seen : learnState(n)
             \/ \E n \in 2..auth.seen : rejoin(n)
    BY <1>1, <2>6, AuthorityGrows DEF Authority, IInv, Typed
  <2>7. CASE release \/ putReserved \/ putFails \/ crash \/ restart \/ UNCHANGED vars
    BY <2>7 DEF release, putReserved, putFails, crash, restart, db, vars
  <2> QED
    BY <1>1, <2>1, <2>2, <2>3, <2>4, <2>5, <2>6, <2>7 DEF Next
<1>2. ASSUME IInv, [Next]_vars
      PROVE  /\ auth.seen \in Nat /\ auth'.seen \in Nat /\ auth.seen <= auth'.seen
             /\ auth.states \subseteq auth'.states
  <2>0. auth \in Auths /\ auth.seen \in Nat
    BY <1>2 DEF IInv, Typed, Auths
  <2>1. CASE \/ adopt \/ leave \/ seeFork
             \/ \E n \in 1..auth.seen : learnState(n)
             \/ \E n \in 2..auth.seen : rejoin(n)
    BY <2>0, <2>1, AuthorityGrows DEF Auths
  <2>2. ASSUME NEW x \in Objects, NEW full,
               \/ receive(x) \/ evict(x) \/ settle(x) \/ flush(x) \/ observe(x, full)
               \/ send(x, full) \/ commitGroupEvent(x, full) \/ commitGroupConfirmation(x, full)
        PROVE  auth' = auth
    BY <2>2 DEF receive, evict, settle, flush, observe, send, commitGroupEvent,
                commitGroupConfirmation, About, db
  <2>3. CASE \/ observeCommit \/ release \/ putReserved \/ putFails \/ crash \/ restart
             \/ UNCHANGED vars
    <3>1. ASSUME observeCommit PROVE auth' = auth
      BY <3>1 DEF observeCommit
    <3>2. ASSUME putReserved PROVE auth' = auth
      BY <3>2 DEF putReserved
    <3>3. ASSUME release \/ putFails \/ crash \/ restart \/ UNCHANGED vars PROVE auth' = auth
      BY <3>3 DEF release, putFails, crash, restart, db, vars
    <3>4. auth' = auth
      BY <2>3, <3>1, <3>2, <3>3
    <3> QED
      BY <2>0, <3>4
  <2> QED
    BY <1>2, <2>0, <2>1, <2>2, <2>3 DEF Next
<1>3. ASSUME IInv, [Next]_vars, NEW o \in Objects,
             Kind[o] = "message", Decide(auth, history, o) = "accepted",
             o \in Range(history), o \in stored
      PROVE  Decide(auth', history', o) = "accepted"
  <2>1. o \in Range(history')
    BY <1>1, <1>3
  <2>2. ~(Epoch[o] > auth.seen) /\ HasState(auth, Epoch[o]) /\ Epoch[o] \in Nat
    BY <1>3, DecideFacts, ContentAssumption DEF Familiar
  <2>3. ~(Epoch[o] > auth'.seen) /\ HasState(auth', Epoch[o])
    BY <1>2, <1>3, <2>2 DEF HasState
  <2>4. Familiar(auth', history', o)
    BY <1>3, <2>3 DEF Familiar
  <2> QED
    BY <2>1, <2>4, DecideFacts
<1>4. IInv /\ [Next]_vars =>
        [\A o \in Objects :
           Kind[o] = "message" /\ Decide(auth, history, o) = "accepted" /\ o \in Range(history)
              /\ o \in stored
           => Decide(auth', history', o) = "accepted"]_vars
  BY <1>3
<1> QED
  BY Invariant, <1>4, PTL DEF Spec, ShownStaysShown

(***************************************************************************)
(* How the nodes of a group learn of its epochs: module GroupSync, with    *)
(* its own chain of epochs, any nodes and any limits.                      *)
(***************************************************************************)
CONSTANTS Relays, Blocks, MaxNet, Leavers, MaxDeferred, MaxInbox
VARIABLES offered, inbox, blocked, net, deferred

Sync == INSTANCE GroupSync WITH outbox <- offered

LEMMA LeastIs == ASSUME NEW T, T \subseteq Nat, T # {} PROVE Min(T) \in T /\ \A y \in T : Min(T) <= y
<1>1. \E x \in T : \A y \in T : x <= y
  BY Least
<1> QED
  BY <1>1 DEF Min

LEMMA GreatestIs ==
    ASSUME NEW b \in Nat, NEW T, T \subseteq 0..b, T # {}
    PROVE  Max(T) \in T /\ \A y \in T : y <= Max(T)
<1> DEFINE Above == {z \in Nat : \A y \in T : y <= z}
<1>1. b \in Above /\ Above \subseteq Nat
  OBVIOUS
<1>2. \A z \in Nat : z \in Above <=> \A y \in T : y <= z
  OBVIOUS
<1> HIDE DEF Above
<1>3. PICK x \in Above : \A z \in Above : x <= z
  BY <1>1, Least
<1>4. x \in Nat /\ \A y \in T : y \in Nat /\ y <= x
  BY <1>1, <1>2, <1>3
<1>5. x \in T
  <2> SUFFICES ASSUME x \notin T PROVE FALSE
    OBVIOUS
  <2>1. \A y \in T : y <= x - 1
    BY <1>4
  <2>2. PICK y \in T : TRUE
    OBVIOUS
  <2>3. x - 1 \in Nat
    BY <1>4, <2>1, <2>2
  <2>4. x - 1 \in Above
    BY <1>2, <2>1, <2>3
  <2> QED
    BY <1>3, <1>4, <2>4
<1> QED
  BY <1>4, <1>5 DEF Max

\* The instance has the operators of GroupChain.
LEMMA SameChain ==
    /\ Sync!Final = Final /\ \A k : Sync!M(k) = M(k)
    /\ \A from, end : Sync!proofs(from, end) = proofs(from, end)
    /\ \A T : Sync!Max(T) = Max(T) /\ Sync!Min(T) = Min(T)
<1>1. \A T : Sync!Max(T) = Max(T) /\ Sync!Min(T) = Min(T)
  BY Zenon DEF Sync!Max, Sync!Min, Max, Min
<1>2. \A from, end : Sync!proofs(from, end) = proofs(from, end)
  BY <1>1 DEF Sync!proofs, proofs
<1> QED
  BY <1>1, <1>2 DEF Sync!Final, Sync!M, Final, M

LEMMA ChainFacts ==
    /\ Final \in Nat /\ Final >= 1 /\ Creator \in Nodes /\ Page \in Nat /\ Page >= 1
    /\ \A k \in 1..Final : M(k) \in SUBSET Nodes /\ Creator \in M(k)
<1>1. Final \in Nat /\ Final >= 1 /\ Page \in Nat /\ Page >= 1
  BY ChainAssumption DEF Final
<1> DEFINE Epochs == [members : SUBSET Nodes, closed : BOOLEAN]
<1>2. \A k \in 1..Final : Chain[k] \in Epochs
  <2> HIDE DEF Epochs
  <2>1. Chain \in Seq(Epochs)
    BY ChainAssumption DEF Epochs
  <2> QED
    BY <2>1 DEF Final
<1>3. \A k \in 1..Final : M(k) \in SUBSET Nodes
  BY <1>2 DEF M
<1>4. \A k \in 1..Final : Creator \in M(k)
  BY ChainAssumption
<1>5. 1 \in 1..Final
  BY <1>1
<1> QED
  BY <1>1, <1>3, <1>4, <1>5

\* n is invited in epoch j, or was, or may be; n may know that there is epoch k.
\* c is the last epoch there is.
Invited(c, n, j) == j \in 1..c /\ j < Final /\ n \in M(j + 1) \ M(j)
MayKnow(c, n, k) == n \in M(k - 1) \/ \E j \in k - 1..c : j < Final /\ n \in M(j + 1) \ M(j)

LEMMA MemberMayKnow ==
    ASSUME NEW c \in 1..Final, NEW k \in 2..c, NEW n, n \in M(k)
    PROVE  MayKnow(c, n, k)
<1>1. k - 1 \in k - 1..c /\ k - 1 < Final /\ k - 1 + 1 = k
  BY ChainFacts
<1> QED
  BY <1>1 DEF MayKnow

LEMMA InvitedMayKnow ==
    ASSUME NEW c \in 1..Final, NEW n, NEW j, Invited(c, n, j), NEW k \in 2..j + 1
    PROVE  MayKnow(c, n, k)
<1>1. j \in k - 1..c
  BY ChainFacts DEF Invited
<1> QED
  BY <1>1 DEF MayKnow, Invited

\* What is true with c epochs stays true with more.
LEMMA Later ==
    ASSUME NEW c \in 1..Final, NEW d \in c..Final, NEW n
    PROVE  /\ \A j : Invited(c, n, j) => Invited(d, n, j)
           /\ \A k \in Nat : MayKnow(c, n, k) => MayKnow(d, n, k)
<1>1. \A j : j \in 1..c => j \in 1..d
  BY ChainFacts
<1>2. \A k \in Nat : \A j : j \in k - 1..c => j \in k - 1..d
  BY ChainFacts
<1> QED
  BY <1>1, <1>2 DEF Invited, MayKnow

(***************************************************************************)
(* Records of nodes                                                        *)
(***************************************************************************)
Fields == {"known", "head", "states", "admitted", "checked", "joined", "invited", "consent",
           "left", "leftAt"}
IsRecord(r) == DOMAIN r = Fields /\ r = [x \in Fields |-> r[x]]

GoodRecord(c, n, r) ==
    /\ IsRecord(r)
    /\ r.head \in 0..c /\ \A k \in 2..r.head : MayKnow(c, n, k)
    /\ r.invited # 0 => Invited(c, n, r.invited)
    /\ r.consent \in 0..c /\ r.leftAt \in 0..c

\* A record, and one that follows it.
Grows(c, n, r, s) == GoodRecord(c, n, s) /\ s.head >= r.head /\ (r.known => s.known)

LEMMA GrowsTwice ==
    ASSUME NEW c \in 1..Final, NEW n, NEW r, NEW s, NEW t,
           GoodRecord(c, n, r), Grows(c, n, r, s), Grows(c, n, s, t)
    PROVE  Grows(c, n, r, t)
<1>1. r.head \in Nat /\ s.head \in Nat /\ t.head \in Nat
  BY DEF GoodRecord, Grows
<1> QED
  BY <1>1 DEF Grows

LEMMA LearnGrows ==
    ASSUME NEW c \in 1..Final, NEW n, NEW r, GoodRecord(c, n, r), NEW first \in Nat, NEW last \in 0..c,
           \A k \in first..last : k >= 2 => MayKnow(c, n, k)
    PROVE  Grows(c, n, r, Sync!Learn(n, r, first, last))
<1> DEFINE top == IF first <= r.head + 1 /\ last > r.head THEN last ELSE r.head
           out == \E k \in r.head + 1..top : n \notin Sync!M(k)
           s == [r EXCEPT !.head = top, !.admitted = IF out THEN 0 ELSE @,
                          !.checked = IF out THEN 0 ELSE @]
<1>1. CASE ~r.known
  BY <1>1 DEF Sync!Learn, Grows, GoodRecord
<1>2. CASE r.known
  <2>1. Sync!Learn(n, r, first, last) = s
    BY <1>2 DEF Sync!Learn
  <2>2. r.head \in 0..c /\ IsRecord(r)
    BY DEF GoodRecord
  <2>3. top \in r.head..c /\ \A k \in 2..top : k \in 2..r.head \/ k \in first..last
    BY <2>2, ChainFacts
  <2> HIDE DEF out, top
  <2>4. /\ IsRecord(s) /\ s.head = top /\ s.known = r.known /\ s.invited = r.invited
        /\ s.consent = r.consent /\ s.leftAt = r.leftAt
    BY <2>2 DEF IsRecord, Fields
  <2> HIDE DEF s
  <2>5. \A k \in 2..top : MayKnow(c, n, k)
    BY <2>3 DEF GoodRecord
  <2>6. GoodRecord(c, n, s)
    BY <2>2, <2>3, <2>4, <2>5 DEF GoodRecord
  <2> QED
    BY <2>1, <2>2, <2>3, <2>4, <2>6 DEF Grows
<1> QED
  BY <1>1, <1>2

LEMMA AdoptGrows ==
    ASSUME NEW c \in 1..Final, NEW n, NEW r, GoodRecord(c, n, r), NEW k
    PROVE  Grows(c, n, r, Sync!Adopt(n, r, k))
<1> DEFINE kept == [r EXCEPT !.states = @ \cup {Sync!StateOf(k)}]
           mine == [kept EXCEPT !.admitted = k, !.checked = k, !.joined = TRUE,
                                !.left = FALSE, !.invited = 0, !.consent = 0]
           joins == /\ r.consent # 0 /\ k = r.consent + 1
                    /\ \A j \in k..r.head : n \in Sync!M(j)
           own == IF joins THEN mine ELSE kept
           through(j) == \A i \in own.checked + 1..j : Sync!StateOf(i) \in own.states
           checked == Sync!Max({j \in own.checked..own.head : through(j)})
           full == [own EXCEPT !.checked = checked]
<1>1. Sync!Adopt(n, r, k) = IF own.admitted = 0 THEN own ELSE full
  BY DEF Sync!Adopt
<1>2. IsRecord(r) /\ r.head \in Nat
  BY DEF GoodRecord
<1>3. /\ IsRecord(kept) /\ kept.head = r.head /\ kept.known = r.known /\ kept.invited = r.invited
      /\ kept.consent = r.consent /\ kept.leftAt = r.leftAt
  BY <1>2 DEF IsRecord, Fields
<1> HIDE DEF kept
<1>4. /\ IsRecord(mine) /\ mine.head = kept.head /\ mine.known = kept.known /\ mine.invited = 0
      /\ mine.consent = 0 /\ mine.leftAt = kept.leftAt
  BY <1>3 DEF IsRecord, Fields
<1> HIDE DEF mine, joins
<1>5. IsRecord(own) /\ own.head = r.head /\ own.known = r.known
      /\ own.invited \in {0, r.invited} /\ own.consent \in {0, r.consent} /\ own.leftAt = r.leftAt
  BY <1>3, <1>4
<1> HIDE DEF own, checked
<1>6. IsRecord(full) /\ full.head = own.head /\ full.known = own.known
      /\ full.invited = own.invited /\ full.consent = own.consent /\ full.leftAt = own.leftAt
  BY <1>5 DEF IsRecord, Fields
<1> HIDE DEF full
<1> QED
  BY <1>1, <1>2, <1>5, <1>6 DEF Grows, GoodRecord

LEMMA ObservedGrows ==
    ASSUME NEW c \in 1..Final, NEW n, NEW r, GoodRecord(c, n, r), NEW k \in 1..c, n \in M(k)
    PROVE  /\ Grows(c, n, r, Sync!Observed(n, r, k))
           /\ Grows(c, n, r, Sync!Learn(n, r, k, k))
<1> DEFINE s == Sync!Learn(n, r, k, k)
<1>1. \A i \in k..k : i >= 2 => MayKnow(c, n, i)
  <2>1. \A i \in k..k : i = k
    BY ChainFacts
  <2> QED
    BY <2>1, MemberMayKnow, ChainFacts
<1>2. Grows(c, n, r, s)
  <2>1. k \in Nat /\ k \in 0..c
    BY ChainFacts
  <2> QED
    BY <1>1, <2>1, LearnGrows
<1> HIDE DEF s
<1>3. GoodRecord(c, n, s)
  BY <1>2 DEF Grows
<1>4. Grows(c, n, s, Sync!Adopt(n, s, k))
  BY <1>3, AdoptGrows
<1>5. Grows(c, n, r, Sync!Adopt(n, s, k))
  BY <1>2, <1>3, <1>4, GrowsTwice
<1>6. Sync!Observed(n, r, k) \in {s, Sync!Adopt(n, s, k)}
  BY DEF Sync!Observed, s
<1>7. Grows(c, n, r, Sync!Observed(n, r, k))
  BY <1>2, <1>5, <1>6
<1> QED
  BY <1>2, <1>7 DEF s

(***************************************************************************)
(* What is under way                                                       *)
(***************************************************************************)
GoodHeaders(c, m) ==
    /\ m.first \in Nat /\ m.last \in 0..c /\ m.end \in 1..c
    /\ \A k \in m.first..m.last : k >= 2 => MayKnow(c, m.to, k)
    /\ m.end >= 2 => MayKnow(c, m.to, m.end)
GoodRequest(c, m) ==
    /\ m.from \in Nat /\ m.auth \in 1..c
    /\ IF m.invited THEN Invited(c, m.by, m.auth) ELSE m.from > m.auth
GoodNotice(c, m) ==
    /\ m.parent \in 1..c /\ (m.parent >= 2 => MayKnow(c, m.to, m.parent))
    /\ m.what = "invitation" => Invited(c, m.to, m.parent)
GoodCarrier(c, m) ==
    /\ m.kind = "headers" => GoodHeaders(c, m)
    /\ m.kind = "headers-request" => GoodRequest(c, m)
    /\ m.kind = "snapshot" => m.epoch \in 1..c /\ m.to \in M(m.epoch)
    /\ m.kind = "notice" => GoodNotice(c, m)

LEMMA LaterCarriers ==
    ASSUME NEW c \in 1..Final, NEW d \in c..Final, NEW m, GoodCarrier(c, m)
    PROVE  GoodCarrier(d, m)
<1>1. \A k : k \in 1..c => k \in 1..d
  BY ChainFacts
<1>2. \A k : k \in 0..c => k \in 0..d
  BY ChainFacts
<1>3. m.kind = "headers" => GoodHeaders(d, m)
  <2> SUFFICES ASSUME GoodHeaders(c, m) PROVE GoodHeaders(d, m)
    BY DEF GoodCarrier
  <2>1. m.first \in Nat /\ m.last \in 0..d /\ m.end \in 1..d /\ m.end \in Nat
    BY <1>1, <1>2 DEF GoodHeaders
  <2>2. \A k \in m.first..m.last : k \in Nat
    BY <2>1
  <2>3. \A k \in m.first..m.last : k >= 2 => MayKnow(d, m.to, k)
    BY <2>2, Later DEF GoodHeaders
  <2>4. m.end >= 2 => MayKnow(d, m.to, m.end)
    BY <2>1, Later DEF GoodHeaders
  <2> QED
    BY <2>1, <2>3, <2>4 DEF GoodHeaders
<1>4. m.kind = "headers-request" => GoodRequest(d, m)
  BY <1>1, Later DEF GoodCarrier, GoodRequest
<1>5. m.kind = "snapshot" => m.epoch \in 1..d /\ m.to \in M(m.epoch)
  BY <1>1 DEF GoodCarrier
<1>6. m.kind = "notice" => GoodNotice(d, m)
  <2> SUFFICES ASSUME GoodNotice(c, m) PROVE GoodNotice(d, m)
    BY DEF GoodCarrier
  <2>1. m.parent \in 1..d /\ m.parent \in Nat
    BY <1>1 DEF GoodNotice
  <2> QED
    BY <2>1, Later DEF GoodNotice
<1> QED
  BY <1>3, <1>4, <1>5, <1>6 DEF GoodCarrier

LEMMA LaterNotices ==
    ASSUME NEW c \in 1..Final, NEW d \in c..Final, NEW m, GoodNotice(c, m)
    PROVE  GoodNotice(d, m)
<1>1. \A k : k \in 1..c => k \in 1..d
  BY ChainFacts
<1>2. m.parent \in 1..d /\ m.parent \in Nat
  BY <1>1 DEF GoodNotice
<1> QED
  BY <1>2, Later DEF GoodNotice

LEMMA LaterRecords ==
    ASSUME NEW c \in 1..Final, NEW d \in c..Final, NEW n, NEW r, GoodRecord(c, n, r)
    PROVE  GoodRecord(d, n, r)
<1>1. \A k : k \in 0..c => k \in 0..d
  BY ChainFacts
<1>2. \A k \in 2..r.head : k \in Nat
  BY DEF GoodRecord
<1> QED
  BY <1>1, <1>2, Later DEF GoodRecord

\* The epoch a request is authorised by: the invitation's, or one that n knows.
LEMMA AuthorizationIs ==
    ASSUME NEW c \in 1..Final, NEW n, NEW r, GoodRecord(c, n, r), Sync!Authorization(n, r) # 0
    PROVE  IF r.invited # 0 THEN Sync!Authorization(n, r) = r.invited
                            ELSE Sync!Authorization(n, r) \in 1..r.head
<1>1. CASE r.invited # 0
  BY <1>1 DEF Sync!Authorization
<1>2. CASE r.invited = 0
  <2> DEFINE mine == {k \in 1..r.head : n \in Sync!M(k)}
  <2>1. mine # {} /\ Sync!Authorization(n, r) = Max(mine)
    BY <1>2, SameChain DEF Sync!Authorization
  <2>2. r.head \in Nat /\ mine \subseteq 1..r.head
    BY DEF GoodRecord
  <2> HIDE DEF mine
  <2>3. mine \subseteq 0..r.head
    BY <2>2
  <2> QED
    BY <1>2, <2>1, <2>2, <2>3, GreatestIs
<1> QED
  BY <1>1, <1>2

LEMMA BoundaryIs ==
    ASSUME NEW c \in 1..Final, NEW r, r.head \in 1..c, NEW j \in 1..r.head, NEW n, n \in M(j)
    PROVE  /\ Sync!Boundary(r, n, j) \in j..r.head
           /\ \A k \in j..Sync!Boundary(r, n, j) : k >= 2 => MayKnow(c, n, k)
<1> DEFINE ends == {k \in j..r.head : Chain[k].closed \/ n \notin Sync!M(k)}
           end == Sync!Boundary(r, n, j)
<1>1. end = IF ends = {} THEN r.head ELSE Min(ends)
  BY SameChain DEF Sync!Boundary
<1>2. ends \subseteq j..r.head /\ ends \subseteq Nat
  BY ChainFacts
<1>3. \A k \in j..r.head : k \notin ends => n \in M(k)
  BY SameChain
<1> HIDE DEF ends, end
<1>4. ends # {} => end \in ends /\ \A k \in ends : end <= k
  BY <1>1, <1>2, LeastIs
<1>5. end \in j..r.head
  <2>1. r.head \in j..r.head
    BY ChainFacts
  <2>2. CASE ends = {}
    BY <1>1, <2>1, <2>2
  <2>3. CASE ends # {}
    BY <1>2, <1>4, <2>3
  <2> QED
    BY <2>2, <2>3
<1>6. \A k \in j..end : k < end => k \notin ends
  BY <1>1, <1>2, <1>4, <1>5, ChainFacts
<1>7. \A k \in j..end : k < end => n \in M(k)
  BY <1>3, <1>5, <1>6, ChainFacts
<1>8. ASSUME NEW k \in j..end, k >= 2 PROVE MayKnow(c, n, k)
  <2>1. CASE k = j
    BY <1>5, <1>8, <2>1, MemberMayKnow, ChainFacts
  <2>2. CASE k # j
    <3>1. k - 1 \in j..end /\ k - 1 < end
      BY <1>5, <1>8, <2>2, ChainFacts
    <3> QED
      BY <1>7, <3>1 DEF MayKnow
  <2> QED
    BY <2>1, <2>2
<1> QED
  BY <1>5, <1>8 DEF end

LEMMA MinOfTwo ==
    ASSUME NEW a \in Nat, NEW b \in Nat
    PROVE  Min({a, b}) \in Nat /\ Min({a, b}) \in {a, b} /\ Min({a, b}) <= a /\ Min({a, b}) <= b
  BY LeastIs

LEMMA AnswerIsGood ==
    ASSUME NEW c \in 1..Final, NEW n, NEW r, GoodRecord(c, n, r), NEW q, GoodRequest(c, q),
           Sync!Authorized(r, q)
    PROVE  GoodCarrier(c, Sync!requestedHeaders(r, n, q))
<1> DEFINE end == IF q.invited THEN Min({q.auth + 1, r.head})
                               ELSE Sync!Boundary(r, q.by, q.auth)
           last == proofs(q.from, end)
           m == [kind |-> "headers", by |-> n, to |-> q.by, first |-> q.from,
                 last |-> last, end |-> end]
<1>1. Sync!requestedHeaders(r, n, q) = m
  BY SameChain DEF Sync!requestedHeaders
<1>2. /\ c \in Nat /\ r.head \in 0..c /\ r.head \in Nat /\ q.from \in Nat
      /\ q.auth \in 1..r.head /\ q.auth \in Nat
  BY ChainFacts DEF GoodRecord, GoodRequest, Sync!Authorized
<1>3. CASE q.invited
  <2>1. end \in Nat /\ end \in {q.auth + 1, r.head} /\ end <= q.auth + 1 /\ end <= r.head
    BY <1>2, <1>3, MinOfTwo
  <2> HIDE DEF end
  <2>2. end \in 1..c
    BY <1>2, <2>1
  <2>3. last \in Nat /\ last <= end
    BY <1>2, <2>1, MinOfTwo, ChainFacts DEF proofs
  <2> HIDE DEF last
  <2>4. Invited(c, q.by, q.auth)
    BY <1>3 DEF GoodRequest
  <2>5. \A k \in 2..q.auth + 1 : MayKnow(c, q.by, k)
    BY <2>4, InvitedMayKnow
  <2>6. \A k \in q.from..last : k >= 2 => k \in 2..q.auth + 1
    BY <1>2, <2>1, <2>3
  <2>7. end >= 2 => end \in 2..q.auth + 1
    BY <1>2, <2>1
  <2>8. last \in 0..c
    BY <2>2, <2>3, <1>2
  <2> QED
    BY <1>1, <1>2, <2>2, <2>5, <2>6, <2>7, <2>8 DEF GoodCarrier, GoodHeaders
<1>4. CASE ~q.invited
  <2>1. q.by \in M(q.auth) /\ q.from > q.auth
    BY <1>4, SameChain DEF Sync!Authorized, GoodRequest
  <2>2. end = Sync!Boundary(r, q.by, q.auth)
    BY <1>4
  <2> HIDE DEF end
  <2>3. r.head \in 1..c
    BY <1>2
  <2>4. end \in q.auth..r.head /\ \A k \in q.auth..end : k >= 2 => MayKnow(c, q.by, k)
    BY <1>2, <2>1, <2>2, <2>3, BoundaryIs
  <2>5. end \in Nat /\ end \in 1..c
    BY <1>2, <2>4
  <2>6. last \in Nat /\ last <= end
    BY <1>2, <2>5, MinOfTwo, ChainFacts DEF proofs
  <2> HIDE DEF last
  <2>7. last \in 0..c
    BY <1>2, <2>5, <2>6
  <2>8. \A k \in q.from..last : k \in q.auth..end
    BY <1>2, <2>1, <2>5, <2>6
  <2>9. end \in q.auth..end
    BY <1>2, <2>4, <2>5
  <2> QED
    BY <1>1, <1>2, <2>4, <2>5, <2>7, <2>8, <2>9 DEF GoodCarrier, GoodHeaders
<1> QED
  BY <1>3, <1>4

LEMMA BroadcastIsGood ==
    ASSUME NEW c \in 1..Final, NEW n, NEW k \in 1..c, NEW m \in Sync!Broadcast(n, k)
    PROVE  GoodCarrier(c, m)
<1>1. PICK x \in M(k) : m = [kind |-> "snapshot", by |-> n, to |-> x, epoch |-> k]
  BY SameChain DEF Sync!Broadcast, Sync!snapshotMaterial
<1> QED
  BY <1>1 DEF GoodCarrier

LEMMA ControlIsGood ==
    ASSUME NEW c \in 1..Final, NEW n, NEW r, GoodRecord(c, n, r), NEW m \in Sync!ControlOutputs(n, r)
    PROVE  GoodCarrier(c, m)
<1>1. r.head \in 0..c /\ r.head \in Nat /\ c \in Nat
  BY ChainFacts DEF GoodRecord
<1>2. Sync!Authorization(n, r) # 0
  BY DEF Sync!ControlOutputs
<1>3. \/ \E k \in 1..r.head : m \in Sync!Broadcast(n, k)
      \/ \E p : m = [kind |-> "headers-request", by |-> n, to |-> p, from |-> r.head + 1,
                     auth |-> Sync!Authorization(n, r), invited |-> r.invited # 0]
      \/ \E p, k : m = [kind |-> "snapshot-request", by |-> n, to |-> p, epoch |-> k]
  <2>1. m \in Sync!Shared(n, r) \/ \E p : m = Sync!Question(n, r, p)
    BY DEF Sync!ControlOutputs
  <2>2. m \in Sync!Shared(n, r) => \E k \in 1..r.head : m \in Sync!Broadcast(n, k)
    BY DEF Sync!Shared
  <2>3. ASSUME NEW p, m = Sync!Question(n, r, p), Sync!Wanted(n, r) = 0
        PROVE  m = [kind |-> "headers-request", by |-> n, to |-> p, from |-> r.head + 1,
                    auth |-> Sync!Authorization(n, r), invited |-> r.invited # 0]
    BY <2>3 DEF Sync!Question
  <2>4. ASSUME NEW p, m = Sync!Question(n, r, p), Sync!Wanted(n, r) # 0
        PROVE  \E k : m = [kind |-> "snapshot-request", by |-> n, to |-> p, epoch |-> k]
    BY <2>4 DEF Sync!Question
  <2> QED
    BY <2>1, <2>2, <2>3, <2>4, Zenon
<1>4. ASSUME NEW k \in 1..r.head, m \in Sync!Broadcast(n, k) PROVE GoodCarrier(c, m)
  <2>1. k \in 1..c
    BY <1>1
  <2> QED
    BY <1>4, <2>1, BroadcastIsGood
<1>5. ASSUME NEW p, m = [kind |-> "headers-request", by |-> n, to |-> p, from |-> r.head + 1,
                         auth |-> Sync!Authorization(n, r), invited |-> r.invited # 0]
      PROVE  GoodCarrier(c, m)
  <2> DEFINE by == Sync!Authorization(n, r)
             asked == r.invited # 0
  <2>1. m = [kind |-> "headers-request", by |-> n, to |-> p, from |-> r.head + 1,
             auth |-> by, invited |-> asked]
    BY <1>5
  <2>2. IF asked THEN by = r.invited ELSE by \in 1..r.head
    BY <1>2, AuthorizationIs
  <2>3. asked => Invited(c, n, r.invited)
    BY DEF GoodRecord
  <2> HIDE DEF by, asked
  <2>4. m.kind = "headers-request" /\ m.by = n /\ m.from = r.head + 1 /\ m.auth = by
        /\ m.invited = asked
    BY <2>1
  <2>5. m.auth \in 1..c
    BY <1>1, <2>2, <2>3, <2>4 DEF Invited
  <2>6. IF m.invited THEN Invited(c, m.by, m.auth) ELSE m.from > m.auth
    BY <1>1, <2>2, <2>3, <2>4
  <2>7. GoodRequest(c, m)
    BY <1>1, <2>4, <2>5, <2>6 DEF GoodRequest
  <2> QED
    BY <2>4, <2>7 DEF GoodCarrier
<1>6. ASSUME NEW p, NEW k, m = [kind |-> "snapshot-request", by |-> n, to |-> p, epoch |-> k]
      PROVE  GoodCarrier(c, m)
  BY <1>6 DEF GoodCarrier
<1> QED
  BY <1>3, <1>4, <1>5, <1>6

LEMMA NoticeIsGood ==
    ASSUME NEW c \in 1..Final, NEW n, NEW r, GoodRecord(c, n, r), NEW m \in Sync!NoticeOutputs(n, r),
           \A v \in offered : Invited(c, v.member, v.parent)
    PROVE  GoodCarrier(c, m)
<1>1. Sync!MayPublish(n, r, m.what, m.parent)
  BY DEF Sync!NoticeOutputs
<1>2. CASE \E v \in offered : m = Sync!Notice(n, v.member, "invitation", v.parent)
  <2>1. PICK v \in offered : m = [kind |-> "notice", by |-> n, to |-> v.member,
                                  what |-> "invitation", parent |-> v.parent]
    BY <1>2 DEF Sync!Notice
  <2>2. Invited(c, m.to, m.parent) /\ m.kind = "notice"
    BY <2>1
  <2>3. m.parent \in 1..c /\ m.parent >= 2 => MayKnow(c, m.to, m.parent)
    BY <2>2, InvitedMayKnow, ChainFacts DEF Invited
  <2> QED
    BY <2>2, <2>3 DEF GoodCarrier, GoodNotice, Invited
<1>3. CASE \/ m = Sync!Notice(n, Creator, "consent", r.consent)
           \/ m = Sync!Notice(n, Creator, "leave", r.leftAt)
  <2>1. /\ m.kind = "notice" /\ m.to = Creator
        /\ \/ m.what = "consent" /\ m.parent = r.consent
           \/ m.what = "leave" /\ m.parent = r.leftAt
    BY <1>3 DEF Sync!Notice
  <2>2. m.parent # 0
    BY <1>1, <2>1 DEF Sync!MayPublish
  <2>3. m.parent \in 1..c
    BY <2>1, <2>2, ChainFacts DEF GoodRecord
  <2>4. m.parent >= 2 => MayKnow(c, Creator, m.parent)
    BY <2>3, MemberMayKnow, ChainFacts
  <2> QED
    BY <2>1, <2>3, <2>4 DEF GoodCarrier, GoodNotice
<1> QED
  BY <1>2, <1>3 DEF Sync!NoticeOutputs

(***************************************************************************)
(* The invariant, with c epochs.                                           *)
(***************************************************************************)
Followed(c) ==
    /\ rec = [n \in Nodes |-> rec[n]] /\ rec[Creator].head = c /\ rec[Creator].known
    /\ \A n \in Nodes : GoodRecord(c, n, rec[n])
Carried(c) == \A m \in net : GoodCarrier(c, m)
Offered(c) == \A v \in offered : Invited(c, v.member, v.parent)
Received(c) ==
    /\ inbox = [n \in Nodes |-> inbox[n]]
    /\ \A n \in Nodes : \A m \in inbox[n] : m.to = n /\ GoodNotice(c, m)
Deferred(c) ==
    /\ deferred = [n \in Nodes |-> deferred[n]]
    /\ \A n \in Nodes : \A k \in deferred[n] : k \in 1..c /\ n \in M(k)
Follows(c) == Followed(c) /\ Carried(c) /\ Offered(c) /\ Received(c) /\ Deferred(c)

LEMMA KeepFollowed ==
    ASSUME NEW c \in 1..Final, Followed(c), NEW n \in Nodes, NEW s, Grows(c, n, rec[n], s),
           Sync!Keep(n, s)
    PROVE  Followed(c)'
<1>1. rec' = [rec EXCEPT ![n] = s]
  BY DEF Sync!Keep
<1>2. s.head \in Nat /\ s.head <= c /\ GoodRecord(c, n, s) /\ c \in Nat
  BY ChainFacts DEF Grows, GoodRecord
<1>3. n = Creator => s.head = c /\ s.known
  BY <1>2 DEF Grows, Followed
<1>4. rec' = [x \in Nodes |-> rec'[x]] /\ \A x \in Nodes : rec'[x] = IF x = n THEN s ELSE rec[x]
  BY <1>1 DEF Followed
<1>5. rec'[Creator].head = c /\ rec'[Creator].known
  BY <1>3, <1>4, ChainFacts DEF Followed
<1>6. \A x \in Nodes : GoodRecord(c, x, rec'[x])
  BY <1>2, <1>4 DEF Followed
<1> QED
  BY <1>4, <1>5, <1>6 DEF Followed

LEMMA FewerCarriers ==
    ASSUME NEW c \in 1..Final, NEW n, Carried(c), Sync!cancelStaleNotices(n, net)
    PROVE  Carried(c)'
  BY DEF Carried, Sync!cancelStaleNotices

(***************************************************************************)
(* Steps                                                                   *)
(***************************************************************************)
LEMMA InviteFollows ==
    ASSUME NEW c \in 1..Final, Follows(c), NEW b \in Nodes, Sync!invite(b)
    PROVE  Follows(c)'
<1>1. /\ c < Final /\ b \in M(c + 1) \ M(c)
      /\ offered' = offered \cup {[member |-> b, parent |-> c]}
      /\ UNCHANGED <<rec, inbox, blocked, net, deferred>>
  BY SameChain DEF Sync!invite, Follows, Followed
<1>2. Invited(c, b, c)
  BY <1>1, ChainFacts DEF Invited
<1>3. Offered(c)'
  BY <1>1, <1>2 DEF Follows, Offered
<1> QED
  BY <1>1, <1>3 DEF Follows, Followed, Carried, Received, Deferred

LEMMA OpenFollows ==
    ASSUME NEW c \in 1..Final, Follows(c), NEW n \in Nodes, NEW v \in inbox[n], Sync!open(n, v)
    PROVE  Follows(c)'
<1> DEFINE known == [rec[n] EXCEPT !.known = TRUE, !.invited = v.parent, !.consent = 0]
<1>1. /\ v.what = "invitation" /\ Sync!Keep(n, Sync!Learn(n, known, v.parent, v.parent))
      /\ Sync!cancelStaleNotices(n, net) /\ UNCHANGED <<offered, inbox, blocked, deferred>>
  BY DEF Sync!open
<1>2. v.to = n /\ GoodNotice(c, v) /\ GoodRecord(c, n, rec[n])
  BY DEF Follows, Received, Followed
<1>3. /\ IsRecord(known) /\ known.known /\ known.head = rec[n].head /\ known.invited = v.parent
      /\ known.consent = 0 /\ known.leftAt = rec[n].leftAt
  BY <1>2 DEF GoodRecord, IsRecord, Fields
<1> HIDE DEF known
<1>4. Invited(c, n, v.parent) /\ v.parent \in 1..c /\ v.parent >= 2 => MayKnow(c, n, v.parent)
  BY <1>1, <1>2 DEF GoodNotice
<1>5. Grows(c, n, rec[n], known)
  <2>1. known.head >= rec[n].head /\ 0 \in 0..c
    BY <1>2, <1>3, ChainFacts DEF GoodRecord
  <2>2. Invited(c, n, known.invited)
    BY <1>1, <1>2, <1>3 DEF GoodNotice
  <2> QED
    BY <1>2, <1>3, <2>1, <2>2 DEF Grows, GoodRecord
<1>6. Grows(c, n, known, Sync!Learn(n, known, v.parent, v.parent))
  <2>1. v.parent \in Nat /\ v.parent \in 0..c /\ \A k \in v.parent..v.parent : k = v.parent
    BY <1>2, ChainFacts DEF GoodNotice
  <2>2. \A k \in v.parent..v.parent : k >= 2 => MayKnow(c, n, k)
    BY <2>1, <1>2 DEF GoodNotice
  <2> QED
    BY <1>5, <2>1, <2>2, LearnGrows DEF Grows
<1>7. Followed(c)'
  BY <1>1, <1>2, <1>5, <1>6, GrowsTwice, KeepFollowed DEF Follows
<1> QED
  BY <1>1, <1>7, FewerCarriers DEF Follows, Offered, Received, Deferred

LEMMA AcceptFollows ==
    ASSUME NEW c \in 1..Final, Follows(c), NEW n \in Nodes, Sync!accept(n)
    PROVE  Follows(c)'
<1> DEFINE r == rec[n]
           s == [r EXCEPT !.consent = r.invited]
<1>1. /\ r.head = r.invited /\ Sync!Keep(n, s)
      /\ Sync!cancelStaleNotices(n, net) /\ UNCHANGED <<offered, inbox, blocked, deferred>>
  BY DEF Sync!accept
<1>2. GoodRecord(c, n, r)
  BY DEF Follows, Followed
<1>3. /\ IsRecord(s) /\ s.known = r.known /\ s.head = r.head /\ s.invited = r.invited
      /\ s.consent = r.head /\ s.leftAt = r.leftAt
  BY <1>1, <1>2 DEF GoodRecord, IsRecord, Fields
<1> HIDE DEF s
<1>4. Grows(c, n, r, s)
  BY <1>2, <1>3 DEF Grows, GoodRecord
<1>5. Followed(c)'
  BY <1>1, <1>4, KeepFollowed DEF Follows
<1> QED
  BY <1>1, <1>5, FewerCarriers DEF Follows, Offered, Received, Deferred

LEMMA LeaveFollows ==
    ASSUME NEW c \in 1..Final, Follows(c), NEW n \in Nodes, Sync!leave(n)
    PROVE  Follows(c)'
<1> DEFINE r == rec[n]
           s == [r EXCEPT !.left = TRUE, !.leftAt = r.head, !.admitted = 0, !.checked = 0,
                          !.invited = 0, !.consent = 0]
<1>1. /\ Sync!Keep(n, s)
      /\ Sync!cancelStaleNotices(n, net) /\ UNCHANGED <<offered, inbox, blocked, deferred>>
  BY DEF Sync!leave
<1>2. GoodRecord(c, n, r)
  BY DEF Follows, Followed
<1>3. /\ IsRecord(s) /\ s.known = r.known /\ s.head = r.head /\ s.invited = 0
      /\ s.consent = 0 /\ s.leftAt = r.head
  BY <1>2 DEF GoodRecord, IsRecord, Fields
<1> HIDE DEF s
<1>4. Grows(c, n, r, s)
  BY <1>2, <1>3, ChainFacts DEF Grows, GoodRecord
<1>5. Followed(c)'
  BY <1>1, <1>4, KeepFollowed DEF Follows
<1> QED
  BY <1>1, <1>5, FewerCarriers DEF Follows, Offered, Received, Deferred

LEMMA LoseFollows ==
    ASSUME NEW c \in 1..Final, Follows(c), NEW m, Sync!lose(m)
    PROVE  Follows(c)'
  BY DEF Follows, Followed, Carried, Offered, Received, Deferred, Sync!lose

LEMMA CrashFollows ==
    ASSUME NEW c \in 1..Final, Follows(c), NEW n \in Nodes, Sync!crash(n)
    PROVE  Follows(c)'
<1>1. Deferred(c)'
  BY DEF Follows, Deferred, Sync!crash
<1> QED
  BY <1>1 DEF Follows, Followed, Carried, Offered, Received, Sync!crash

LEMMA TickFollows ==
    ASSUME NEW c \in 1..Final, Follows(c), NEW n \in Nodes, NEW s \in Sync!Retries(n),
           NEW new, new \subseteq Sync!Outputs(n, s), Sync!tick(n, s, new)
    PROVE  Follows(c)'
<1>1. /\ Sync!Keep(n, Sync!Retried(n, s)) /\ UNCHANGED <<offered, inbox, blocked>>
      /\ deferred' = [deferred EXCEPT ![n] = Sync!Waiting(n, s)]
      /\ net' \subseteq net \cup new
  BY DEF Sync!tick, Sync!output
<1>2. GoodRecord(c, n, rec[n])
  BY DEF Follows, Followed
<1>3. \A i \in DOMAIN s : s[i] \in deferred[n]
  BY DEF Sync!Retries
<1>4. \A i \in DOMAIN s : s[i] \in 1..c /\ n \in M(s[i])
  BY <1>3 DEF Follows, Deferred
<1>5. Grows(c, n, rec[n], rec[n])
  BY <1>2, ChainFacts DEF Grows, GoodRecord
<1>6. Grows(c, n, rec[n], Sync!Once(n, s))
  <2>1. CASE 1 \in DOMAIN s
    <3>1. s[1] \in 1..c /\ n \in M(s[1])
      BY <1>4, <2>1
    <3>2. Grows(c, n, rec[n], Sync!Observed(n, rec[n], s[1]))
      BY <1>2, <3>1, ObservedGrows
    <3> QED
      BY <2>1, <3>2 DEF Sync!Once
  <2>2. CASE 1 \notin DOMAIN s
    BY <1>5, <2>2 DEF Sync!Once
  <2> QED
    BY <2>1, <2>2
<1>7. Grows(c, n, rec[n], Sync!Retried(n, s))
  <2> DEFINE once == Sync!Once(n, s)
  <2>1. CASE 2 \in DOMAIN s
    <3>1. s[2] \in 1..c /\ n \in M(s[2]) /\ GoodRecord(c, n, once)
      BY <1>4, <1>6, <2>1 DEF Grows
    <3>2. Sync!Retried(n, s) = Sync!Observed(n, once, s[2])
      BY <2>1 DEF Sync!Retried
    <3> HIDE DEF once
    <3>3. Grows(c, n, once, Sync!Observed(n, once, s[2]))
      BY <3>1, ObservedGrows
    <3>4. Grows(c, n, rec[n], once)
      BY <1>6 DEF once
    <3> QED
      BY <1>2, <3>2, <3>3, <3>4, GrowsTwice
  <2>2. CASE 2 \notin DOMAIN s
    BY <1>6, <2>2 DEF Sync!Retried
  <2> QED
    BY <2>1, <2>2
<1>8. Followed(c)'
  BY <1>1, <1>7, KeepFollowed DEF Follows
<1>9. Carried(c)'
  <2>1. GoodRecord(c, n, Sync!Retried(n, s))
    BY <1>7 DEF Grows
  <2>2. \A v \in offered : Invited(c, v.member, v.parent)
    BY DEF Follows, Offered
  <2>3. ASSUME NEW m \in new PROVE GoodCarrier(c, m)
    <3>1. m \in Sync!ControlOutputs(n, Sync!Retried(n, s))
          \/ m \in Sync!NoticeOutputs(n, Sync!Retried(n, s))
      BY <2>3 DEF Sync!Outputs
    <3> QED
      BY <2>1, <2>2, <3>1, ControlIsGood, NoticeIsGood
  <2> QED
    BY <1>1, <2>3 DEF Follows, Carried
<1>10. Deferred(c)'
  <2>1. Sync!Waiting(n, s) \subseteq deferred[n]
    BY DEF Sync!Waiting
  <2> QED
    BY <1>1, <2>1 DEF Follows, Deferred
<1> QED
  BY <1>1, <1>8, <1>9, <1>10 DEF Follows, Offered, Received

LEMMA RequestFollows ==
    ASSUME NEW c \in 1..Final, Follows(c), NEW n \in Nodes, NEW m, Sync!receiveRequest(n, m)
    PROVE  Follows(c)'
<1> DEFINE r == rec[n]
           headers == Sync!requestedHeaders(r, n, m)
           snapshot == Sync!snapshotMaterial(n, m.epoch, m.by)
<1>1. /\ m \in net /\ m.kind \in Sync!Requests /\ UNCHANGED <<rec, offered, inbox, blocked, deferred>>
      /\ \/ net' = net \ {m}
         \/ /\ m.kind = "headers-request" /\ Sync!Authorized(r, m)
            /\ net' = (net \ {m}) \cup {headers}
         \/ /\ m.kind = "snapshot-request" /\ Sync!Provides(n, r, m.epoch, m.by)
            /\ net' = (net \ {m}) \cup {snapshot}
  <2> DEFINE asked == m.kind = "headers-request"
             allowed == /\ r.known /\ <<n, m.by>> \notin blocked /\ (n = Creator \/ n \in Relays)
                        /\ IF asked THEN Sync!Authorized(r, m)
                                    ELSE Sync!Provides(n, r, m.epoch, m.by)
             answer == IF asked THEN headers ELSE snapshot
  <2>1. net' = IF allowed THEN (net \ {m}) \cup {answer} ELSE net \ {m}
    BY DEF Sync!receiveRequest
  <2>2. /\ m \in net /\ m.kind \in Sync!Requests
        /\ UNCHANGED <<rec, offered, inbox, blocked, deferred>>
    BY DEF Sync!receiveRequest, Sync!OpenedControl
  <2>3. m.kind \in {"headers-request", "snapshot-request"}
    BY <2>2 DEF Sync!Requests
  <2> HIDE DEF headers, snapshot
  <2>4. CASE m.kind = "headers-request"
    BY <2>1, <2>2, <2>4
  <2>5. CASE m.kind = "snapshot-request"
    BY <2>1, <2>2, <2>5
  <2> QED
    BY <2>3, <2>4, <2>5
<1>2. GoodRecord(c, n, r) /\ GoodCarrier(c, m)
  BY <1>1 DEF Follows, Followed, Carried
<1>3. m.kind = "headers-request" /\ Sync!Authorized(r, m) => GoodCarrier(c, headers)
  BY <1>2, AnswerIsGood DEF GoodCarrier
<1>4. Sync!Provides(n, r, m.epoch, m.by) => GoodCarrier(c, snapshot)
  <2> SUFFICES ASSUME Sync!Provides(n, r, m.epoch, m.by) PROVE GoodCarrier(c, snapshot)
    OBVIOUS
  <2>1. m.epoch \in 1..c /\ m.by \in M(m.epoch)
    BY <1>2, SameChain, ChainFacts DEF Sync!Provides, GoodRecord
  <2> QED
    BY <2>1 DEF GoodCarrier, Sync!snapshotMaterial
<1> HIDE DEF headers, snapshot
<1>5. Carried(c)'
  BY <1>1, <1>3, <1>4 DEF Follows, Carried
<1> QED
  BY <1>1, <1>5 DEF Follows, Followed, Offered, Received, Deferred

LEMMA HeadersFollow ==
    ASSUME NEW c \in 1..Final, Follows(c), NEW n \in Nodes, NEW m, Sync!receiveHeaders(n, m)
    PROVE  Follows(c)'
<1> DEFINE page == IF m.first <= m.last THEN Sync!Learn(n, rec[n], m.first, m.last) ELSE rec[n]
<1>1. /\ m \in net /\ m.to = n /\ m.kind = "headers" /\ Sync!Keep(n, Sync!Learn(n, page, m.end, m.end))
      /\ net' = net \ {m} /\ UNCHANGED <<offered, inbox, blocked, deferred>>
  BY DEF Sync!receiveHeaders, Sync!OpenedControl
<1>2. GoodRecord(c, n, rec[n]) /\ GoodHeaders(c, m)
  BY <1>1 DEF Follows, Followed, Carried, GoodCarrier
<1>3. Grows(c, n, rec[n], page)
  <2>1. Grows(c, n, rec[n], rec[n])
    BY <1>2, ChainFacts DEF Grows, GoodRecord
  <2>2. Grows(c, n, rec[n], Sync!Learn(n, rec[n], m.first, m.last))
    BY <1>1, <1>2, LearnGrows DEF GoodHeaders
  <2> QED
    BY <2>1, <2>2
<1> HIDE DEF page
<1>4. Grows(c, n, page, Sync!Learn(n, page, m.end, m.end))
  <2>1. m.end \in Nat /\ m.end \in 0..c /\ \A k \in m.end..m.end : k = m.end
    BY <1>2, ChainFacts DEF GoodHeaders
  <2>2. \A k \in m.end..m.end : k >= 2 => MayKnow(c, n, k)
    BY <1>1, <1>2, <2>1 DEF GoodHeaders
  <2> QED
    BY <1>3, <2>1, <2>2, LearnGrows DEF Grows
<1>5. Followed(c)'
  BY <1>1, <1>2, <1>3, <1>4, GrowsTwice, KeepFollowed DEF Follows
<1> QED
  BY <1>1, <1>5 DEF Follows, Carried, Offered, Received, Deferred

LEMMA SnapshotFollows ==
    ASSUME NEW c \in 1..Final, Follows(c), NEW n \in Nodes, NEW m, Sync!receiveSnapshot(n, m)
    PROVE  Follows(c)'
<1> DEFINE r == rec[n]
           k == m.epoch
<1>1. /\ m \in net /\ m.to = n /\ m.kind = "snapshot" /\ net' = net \ {m}
      /\ UNCHANGED <<offered, inbox, blocked>>
      /\ Sync!Keep(n, Sync!Observed(n, r, k)) \/ Sync!Keep(n, Sync!Learn(n, r, k, k))
      /\ \E new : new \subseteq {k} /\ deferred' = [deferred EXCEPT ![n] = @ \cup new]
  <2> DEFINE heard == <<n, m.by>> \notin blocked
             waits == heard /\ Sync!Waits(n, r, k) /\ Sync!Cardinality(deferred[n]) < MaxDeferred
  <2>1. /\ m \in net /\ m.to = n /\ m.kind = "snapshot" /\ net' = net \ {m}
        /\ UNCHANGED <<offered, inbox, blocked>>
        /\ Sync!Keep(n, IF heard THEN Sync!Observed(n, r, k) ELSE Sync!Learn(n, r, k, k))
        /\ deferred' = [deferred EXCEPT ![n] =
             IF heard /\ Sync!Waits(n, r, k) /\ Sync!Cardinality(@) < MaxDeferred
             THEN @ \cup {k} ELSE @]
    BY DEF Sync!receiveSnapshot, Sync!OpenedControl
  <2>2. Sync!Keep(n, Sync!Observed(n, r, k)) \/ Sync!Keep(n, Sync!Learn(n, r, k, k))
    BY <2>1
  <2>3. deferred' = [deferred EXCEPT ![n] = IF waits THEN @ \cup {k} ELSE @ \cup {}]
    BY <2>1
  <2> HIDE DEF waits
  <2>4. \E new : new \subseteq {k} /\ deferred' = [deferred EXCEPT ![n] = @ \cup new]
    <3>1. CASE waits
      BY <2>3, <3>1
    <3>2. CASE ~waits
      BY <2>3, <3>2
    <3> QED
      BY <3>1, <3>2
  <2> QED
    BY <2>1, <2>2, <2>4
<1>2. GoodRecord(c, n, r) /\ k \in 1..c /\ n \in M(k)
  BY <1>1 DEF Follows, Followed, Carried, GoodCarrier
<1>3. Followed(c)'
  BY <1>1, <1>2, ObservedGrows, KeepFollowed DEF Follows
<1>4. Deferred(c)'
  BY <1>1, <1>2 DEF Follows, Deferred
<1> QED
  BY <1>1, <1>3, <1>4 DEF Follows, Carried, Offered, Received

LEMMA NoticeFollows ==
    ASSUME NEW c \in 1..Final, Follows(c), NEW n \in Nodes, NEW m, Sync!receiveNotice(n, m)
    PROVE  Follows(c)'
<1> DEFINE r == Sync!Learn(n, rec[n], m.parent, m.parent)
<1>1. /\ m \in net /\ m.to = n /\ m.kind = "notice" /\ net' = net \ {m} /\ Sync!Keep(n, r)
      /\ UNCHANGED <<offered, blocked, deferred>>
      /\ \E new : new \subseteq inbox[n] \cup {m} /\ inbox' = [inbox EXCEPT ![n] = new]
  <2> DEFINE stale == r.known /\ (Sync!Status(r) = "closed" \/ r.head > m.parent)
             taken == <<n, m.by>> \notin blocked /\ (m.what = "invitation" \/ r.known) /\ ~stale
  <2>1. /\ m \in net /\ m.to = n /\ m.kind = "notice" /\ net' = net \ {m} /\ Sync!Keep(n, r)
        /\ UNCHANGED <<offered, blocked, deferred>>
        /\ inbox' = [inbox EXCEPT ![n] = IF taken THEN Sync!save(n, m) ELSE @]
    BY DEF Sync!receiveNotice, Sync!OpenedNotice
  <2> HIDE DEF taken
  <2>2. (IF taken THEN Sync!save(n, m) ELSE inbox[n]) \subseteq inbox[n] \cup {m}
    BY DEF Sync!save
  <2> QED
    BY <2>1, <2>2
<1>2. GoodRecord(c, n, rec[n]) /\ GoodNotice(c, m)
  BY <1>1 DEF Follows, Followed, Carried, GoodCarrier
<1>3. Grows(c, n, rec[n], r)
  <2>1. m.parent \in Nat /\ m.parent \in 0..c /\ \A k \in m.parent..m.parent : k = m.parent
    BY <1>2, ChainFacts DEF GoodNotice
  <2>2. \A k \in m.parent..m.parent : k >= 2 => MayKnow(c, n, k)
    BY <1>1, <1>2, <2>1 DEF GoodNotice
  <2> QED
    BY <1>2, <2>1, <2>2, LearnGrows
<1> HIDE DEF r
<1>4. Followed(c)'
  BY <1>1, <1>3, KeepFollowed DEF Follows
<1>5. Received(c)'
  <2>1. PICK new : new \subseteq inbox[n] \cup {m} /\ inbox' = [inbox EXCEPT ![n] = new]
    BY <1>1
  <2>2. inbox = [x \in Nodes |-> inbox[x]]
        /\ \A x \in Nodes : \A o \in inbox[x] : o.to = x /\ GoodNotice(c, o)
    BY DEF Follows, Received
  <2>3. \A x \in Nodes : \A o \in inbox'[x] : o.to = x /\ GoodNotice(c, o)
    BY <1>1, <1>2, <2>1, <2>2
  <2>4. inbox' = [x \in Nodes |-> inbox'[x]]
    BY <2>1, <2>2
  <2> QED
    BY <2>3, <2>4 DEF Received
<1> QED
  BY <1>1, <1>4, <1>5 DEF Follows, Carried, Offered, Deferred

LEMMA CommitFollows ==
    ASSUME NEW c \in 1..Final, Follows(c), Sync!commit
    PROVE  c < Final /\ Follows(c + 1)'
<1> DEFINE r == rec[Creator]
           d == c + 1
           learnt == Sync!Learn(Creator, r, d, d)
           snapshot == IF \E x \in Sync!M(d) : <<Creator, x>> \in blocked THEN {}
                       ELSE Sync!Broadcast(Creator, d)
<1>1. r.head = c /\ r.known /\ GoodRecord(c, Creator, r)
  BY ChainFacts DEF Follows, Followed
<1>2. /\ c < Final /\ Sync!Keep(Creator, Sync!Adopt(Creator, learnt, d))
      /\ offered' \subseteq offered /\ UNCHANGED <<inbox, blocked, deferred>>
      /\ \E sent \in Sync!retain(net, snapshot \cup Sync!Fences(d)) :
           Sync!cancelStaleNotices(Creator, sent)
  BY <1>1, SameChain DEF Sync!commit
<1>3. d \in c..Final /\ d \in 2..Final /\ d \in 1..Final /\ d - 1 = c /\ d \in Nat
      /\ \A k \in d..d : k = d
  BY <1>2, ChainFacts
<1>4. learnt.head = d /\ learnt.known /\ Grows(d, Creator, r, learnt)
  <2>1. GoodRecord(d, Creator, r)
    BY <1>1, <1>3, LaterRecords
  <2>2. Creator \in M(d) /\ d \in 2..d /\ d \in 0..d
    BY <1>3, ChainFacts
  <2>3. MayKnow(d, Creator, d)
    BY <1>3, <2>2, MemberMayKnow
  <2>4. Grows(d, Creator, r, learnt)
    BY <1>3, <2>1, <2>2, <2>3, LearnGrows
  <2>5. learnt.head = d
    <3> DEFINE out == \E k \in r.head + 1..d : Creator \notin Sync!M(k)
    <3>1. d <= r.head + 1 /\ d > r.head
      BY <1>1, <1>3
    <3>2. learnt = [r EXCEPT !.head = d, !.admitted = IF out THEN 0 ELSE @,
                             !.checked = IF out THEN 0 ELSE @]
      BY <1>1, <3>1 DEF Sync!Learn
    <3>3. IsRecord(r)
      BY <1>1 DEF GoodRecord
    <3> HIDE DEF out, learnt
    <3> QED
      BY <3>2, <3>3 DEF IsRecord, Fields
  <2> QED
    BY <1>1, <2>4, <2>5 DEF Grows
<1> HIDE DEF learnt
<1>5. Grows(d, Creator, learnt, Sync!Adopt(Creator, learnt, d))
  BY <1>3, <1>4, AdoptGrows DEF Grows
<1> DEFINE s == Sync!Adopt(Creator, learnt, d)
<1>6. GoodRecord(d, Creator, s) /\ s.head = d /\ s.known
  <2>1. GoodRecord(d, Creator, s) /\ s.head >= d /\ s.known
    BY <1>4, <1>5 DEF Grows
  <2> HIDE DEF s
  <2>2. s.head \in 0..d
    BY <2>1 DEF GoodRecord
  <2> QED
    BY <1>3, <2>1, <2>2
<1>7. rec' = [rec EXCEPT ![Creator] = s]
  BY <1>2 DEF Sync!Keep
<1> HIDE DEF s, snapshot
<1>8. Followed(d)'
  <2>1. rec' = [x \in Nodes |-> rec'[x]]
        /\ \A x \in Nodes : rec'[x] = IF x = Creator THEN s ELSE rec[x]
    BY <1>7 DEF Follows, Followed
  <2>2. \A x \in Nodes : GoodRecord(d, x, rec[x])
    BY <1>3, LaterRecords DEF Follows, Followed
  <2>3. \A x \in Nodes : GoodRecord(d, x, rec'[x])
    BY <1>6, <2>1, <2>2
  <2>4. rec'[Creator] = s
    BY <2>1, ChainFacts
  <2> QED
    BY <1>6, <2>1, <2>3, <2>4 DEF Followed
<1>9. Carried(d)'
  <2>1. net' \subseteq net \cup snapshot \cup Sync!Fences(d)
    BY <1>2 DEF Sync!retain, Sync!cancelStaleNotices
  <2>2. \A m \in net : GoodCarrier(d, m)
    BY <1>3, LaterCarriers DEF Follows, Carried
  <2>3. ASSUME NEW m \in snapshot PROVE GoodCarrier(d, m)
    <3>1. m \in Sync!Broadcast(Creator, d) /\ d \in 1..d
      BY <1>3 DEF snapshot
    <3> QED
      BY <1>3, <3>1, BroadcastIsGood
  <2>4. ASSUME NEW m \in Sync!Fences(d) PROVE GoodCarrier(d, m)
    <3>1. PICK x \in M(c) : m = [kind |-> "headers", by |-> Creator, to |-> x, first |-> d,
                                 last |-> d, end |-> d]
      BY <1>3, SameChain DEF Sync!Fences
    <3>2. MayKnow(d, m.to, d)
      BY <1>3, <3>1 DEF MayKnow
    <3> QED
      BY <1>3, <3>1, <3>2 DEF GoodCarrier, GoodHeaders
  <2> QED
    BY <2>1, <2>2, <2>3, <2>4 DEF Carried
<1>10. Offered(d)'
  BY <1>2, <1>3, Later DEF Follows, Offered
<1>11. Received(d)'
  <2>1. \A n \in Nodes : \A m \in inbox[n] : m.to = n /\ GoodNotice(d, m)
    BY <1>3, LaterNotices DEF Follows, Received
  <2> QED
    BY <1>2, <2>1 DEF Follows, Received
<1>12. Deferred(d)'
  <2>1. \A k : k \in 1..c => k \in 1..d
    BY <1>3
  <2> QED
    BY <1>2, <2>1 DEF Follows, Deferred
<1> QED
  BY <1>2, <1>8, <1>9, <1>10, <1>11, <1>12 DEF Follows

(***************************************************************************)
(* The theorem                                                             *)
(***************************************************************************)
AllFollow == \E c \in 1..Final : Follows(c)

LEMMA FollowsInit == Sync!Init => AllFollow
<1> SUFFICES ASSUME Sync!Init PROVE AllFollow
  OBVIOUS
<1> DEFINE member == [known |-> TRUE, head |-> 1, states |-> {1}, admitted |-> 1, checked |-> 1,
                      joined |-> TRUE, invited |-> 0, consent |-> 0, left |-> FALSE, leftAt |-> 0]
           other == [known |-> FALSE, head |-> 0, states |-> {}, admitted |-> 0, checked |-> 0,
                     joined |-> FALSE, invited |-> 0, consent |-> 0, left |-> FALSE, leftAt |-> 0]
<1>1. /\ rec = [n \in Nodes |-> IF n \in Known THEN member ELSE other]
      /\ offered = {} /\ net = {} /\ inbox = [n \in Nodes |-> {}] /\ deferred = [n \in Nodes |-> {}]
  BY DEF Sync!Init
<1>2. IsRecord(member) /\ member.known /\ member.head = 1 /\ member.invited = 0
      /\ member.consent = 0 /\ member.leftAt = 0
  BY DEF IsRecord, Fields
<1>3. IsRecord(other) /\ other.head = 0 /\ other.invited = 0 /\ other.consent = 0 /\ other.leftAt = 0
  BY DEF IsRecord, Fields
<1> HIDE DEF member, other
<1>4. Creator \in Nodes /\ Creator \in Known /\ 1 \in 1..Final
  BY ChainFacts, ChainAssumption
<1>5. \A n \in Nodes : GoodRecord(1, n, member) /\ GoodRecord(1, n, other)
  BY <1>2, <1>3 DEF GoodRecord
<1>6. Followed(1)
  BY <1>1, <1>2, <1>4, <1>5 DEF Followed
<1>7. Carried(1) /\ Offered(1) /\ Received(1) /\ Deferred(1)
  BY <1>1 DEF Carried, Offered, Received, Deferred
<1> QED
  BY <1>4, <1>6, <1>7 DEF AllFollow, Follows

LEMMA FollowsStep == AllFollow /\ [Sync!Next]_Sync!vars => AllFollow'
<1> SUFFICES ASSUME AllFollow, [Sync!Next]_Sync!vars PROVE AllFollow'
  OBVIOUS
<1>1. PICK c \in 1..Final : Follows(c)
  BY DEF AllFollow
<1>2. c + 1 \in 1..Final \/ ~(c < Final)
  BY ChainFacts
<1>3. CASE Sync!commit
  BY <1>1, <1>2, <1>3, CommitFollows DEF AllFollow
<1>4. ASSUME NEW n \in Nodes, Sync!User(n) PROVE AllFollow'
  BY <1>1, <1>4, InviteFollows, OpenFollows, AcceptFollows, LeaveFollows DEF AllFollow, Sync!User
<1>5. ASSUME NEW n \in Nodes, Sync!crash(n) PROVE AllFollow'
  BY <1>1, <1>5, CrashFollows DEF AllFollow
<1>6. ASSUME NEW n \in Nodes, NEW s \in Sync!Retries(n),
             Sync!tick(n, s, {}) \/ \E o \in Sync!Outputs(n, s) : Sync!tick(n, s, {o})
      PROVE  AllFollow'
  <2>1. PICK new : new \subseteq Sync!Outputs(n, s) /\ Sync!tick(n, s, new)
    BY <1>6
  <2> QED
    BY <1>1, <2>1, TickFollows DEF AllFollow
<1>7. ASSUME NEW n \in Nodes, NEW m \in net, Sync!Receive(n, m) PROVE AllFollow'
  BY <1>1, <1>7, RequestFollows, HeadersFollow, SnapshotFollows, NoticeFollows
     DEF AllFollow, Sync!Receive
<1>8. ASSUME NEW m \in net, Sync!lose(m) PROVE AllFollow'
  BY <1>1, <1>8, LoseFollows DEF AllFollow
<1>9. CASE UNCHANGED Sync!vars
  BY <1>1, <1>9 DEF AllFollow, Follows, Followed, Carried, Offered, Received, Deferred, Sync!vars
<1> QED
  BY <1>3, <1>4, <1>5, <1>6, <1>7, <1>8, <1>9 DEF Sync!Next

LEMMA FollowsShow == AllFollow => NothingPastRemoval
<1> SUFFICES ASSUME NEW c \in 1..Final, Follows(c) PROVE NothingPastRemoval
  BY DEF AllFollow
<1>1. rec[Creator].head = c /\ \A n \in Nodes : \A k \in 2..rec[n].head : MayKnow(c, n, k)
  BY DEF Follows, Followed, GoodRecord
<1> QED
  BY <1>1 DEF NothingPastRemoval, Entitled, MayKnow

\* NothingPastRemoval, of every group and every chain of epochs: no carrier, whoever
\* answers it and in whatever order it comes, shows a node what the group became
\* after the epoch that removed the node, unless the node was invited again.
THEOREM RemovalShown == Sync!Spec => []NothingPastRemoval
  BY FollowsInit, FollowsStep, FollowsShow, PTL DEF Sync!Spec
=============================================================================
