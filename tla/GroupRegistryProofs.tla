------------------------- MODULE GroupRegistryProofs -------------------------
(***************************************************************************)
(* Proofs about module GroupRegistry, for any installations, any number of *)
(* epochs and certificates: one installation signs one chain, the creator  *)
(* can always close it, a fork is seen and stops for good, and members are *)
(* admitted by the consent they gave.                                      *)
(***************************************************************************)
EXTENDS GroupRegistry, SequenceTheorems, WellFoundedInduction, TLAPS

(***************************************************************************)
(* Epochs are sequences all of whose prefixes verify.                      *)
(***************************************************************************)
Bodies(e) == {e[n] : n \in 1..Len(e)}
IsEpoch(e) == e \in Seq(Bodies(e)) /\ Len(e) > 0
Body(b) == b \in [state : {b.state}, members : {b.members}, joins : {b.joins}, salt : {b.salt}]
Sound(e) == IsEpoch(e) /\ \A f \in Chain(e) : VerifyEpoch(f) /\ Body(Last(f))

LEMMA SeqIsEpoch == ASSUME NEW S, NEW e \in Seq(S), Len(e) > 0 PROVE IsEpoch(e)
<1>1. Len(e) \in Nat /\ e \in [1..Len(e) -> S]
  BY LenProperties
<1>2. e \in [1..Len(e) -> Bodies(e)]
  BY <1>1 DEF Bodies
<1>3. e \in Seq(Bodies(e))
  BY <1>1, <1>2, SeqDef
<1> QED
  BY <1>3 DEF IsEpoch

LEMMA EpochFacts ==
    ASSUME NEW e, IsEpoch(e)
    PROVE  /\ Len(e) \in Nat \ {0} /\ e # NoEpoch /\ e \in [1..Len(e) -> Bodies(e)]
<1>1. e \in Seq(Bodies(e)) /\ Len(e) > 0
  BY DEF IsEpoch
<1>2. Len(e) \in Nat /\ e \in [1..Len(e) -> Bodies(e)]
  BY <1>1, LenProperties
<1>3. Len(<<>>) = 0
  BY EmptySeq
<1> QED
  BY <1>1, <1>2, <1>3 DEF NoEpoch

LEMMA Prefix ==
    ASSUME NEW e, IsEpoch(e), NEW n \in 1..Len(e)
    PROVE  /\ IsEpoch(SubSeq(e, 1, n)) /\ Len(SubSeq(e, 1, n)) = n
           /\ \A k \in 1..n : SubSeq(e, 1, n)[k] = e[k]
<1>1. Len(e) \in Nat /\ \A k \in 1..n : e[k] \in Bodies(e)
  BY EpochFacts DEF Bodies
<1>2. /\ SubSeq(e, 1, n) \in Seq(Bodies(e)) /\ Len(SubSeq(e, 1, n)) = n
      /\ \A k \in 1..n : SubSeq(e, 1, n)[k] = e[k]
  <2>1. n \in Int /\ 1 \in Int /\ 1 <= n /\ n - 1 + 1 = n /\ \A k \in 1..n : 1 + k - 1 = k
    BY <1>1
  <2> QED
    BY <1>1, <2>1, SubSeqProperties
<1> DEFINE f == SubSeq(e, 1, n)
           S == Bodies(e)
<1>3. f \in Seq(S) /\ Len(f) = n /\ n > 0
  BY <1>1, <1>2
<1> HIDE DEF f, S
<1>4. IsEpoch(f)
  BY <1>3, SeqIsEpoch
<1> QED
  BY <1>2, <1>4 DEF f

\* Epochs with the same bodies are the same.
LEMMA SameBodies ==
    ASSUME NEW e, NEW f, IsEpoch(e), IsEpoch(f), Len(e) = Len(f),
           \A k \in 1..Len(e) : e[k] = f[k]
    PROVE  e = f
<1>1. Bodies(e) = Bodies(f)
  BY DEF Bodies
<1>2. e \in Seq(Bodies(e)) /\ f \in Seq(Bodies(f))
  BY DEF IsEpoch
<1> DEFINE S == Bodies(e)
<1>3. e \in Seq(S) /\ f \in Seq(S)
  BY <1>1, <1>2
<1> HIDE DEF S
<1> QED
  BY <1>3, SeqEqual

LEMMA ChainFacts ==
    ASSUME NEW e, IsEpoch(e)
    PROVE  /\ e \in Chain(e)
           /\ \A f \in Chain(e) : /\ IsEpoch(f) /\ Len(f) \in 1..Len(e)
                                  /\ f = SubSeq(e, 1, Len(f))
                                  /\ \A k \in 1..Len(f) : f[k] = e[k]
           /\ \A f \in Chain(e) : Chain(f) \subseteq Chain(e)
           /\ \A f, g \in Chain(e) : Len(f) = Len(g) => f = g
<1>1. Len(e) \in Nat \ {0}
  BY EpochFacts
<1>2. e = SubSeq(e, 1, Len(e))
  <2>1. Len(e) \in 1..Len(e)
    BY <1>1
  <2>2. /\ IsEpoch(SubSeq(e, 1, Len(e))) /\ Len(SubSeq(e, 1, Len(e))) = Len(e)
        /\ \A k \in 1..Len(e) : SubSeq(e, 1, Len(e))[k] = e[k]
    BY <2>1, Prefix
  <2> QED
    BY <2>2, SameBodies
<1>3. e \in Chain(e)
  <2>1. Len(e) \in 1..Len(e)
    BY <1>1
  <2> DEFINE g == SubSeq(e, 1, Len(e))
  <2>2. g \in Chain(e)
    BY <2>1 DEF Chain
  <2> HIDE DEF g
  <2> QED
    BY <1>2, <2>2 DEF g
<1>4. \A f \in Chain(e) : /\ IsEpoch(f) /\ Len(f) \in 1..Len(e)
                          /\ f = SubSeq(e, 1, Len(f))
                          /\ \A k \in 1..Len(f) : f[k] = e[k]
  <2> SUFFICES ASSUME NEW n \in 1..Len(e)
               PROVE  LET f == SubSeq(e, 1, n)
                      IN  /\ IsEpoch(f) /\ Len(f) = n
                          /\ \A k \in 1..n : f[k] = e[k]
    BY DEF Chain
  <2> QED
    BY Prefix
<1>5. ASSUME NEW f \in Chain(e), NEW n \in 1..Len(f)
      PROVE  SubSeq(f, 1, n) = SubSeq(e, 1, n)
  <2>1. Len(f) \in 1..Len(e) /\ n \in 1..Len(e)
    BY <1>1, <1>4
  <2>2. /\ IsEpoch(SubSeq(f, 1, n)) /\ Len(SubSeq(f, 1, n)) = n
        /\ \A k \in 1..n : SubSeq(f, 1, n)[k] = f[k]
    BY <1>4, Prefix
  <2>3. /\ IsEpoch(SubSeq(e, 1, n)) /\ Len(SubSeq(e, 1, n)) = n
        /\ \A k \in 1..n : SubSeq(e, 1, n)[k] = e[k]
    BY <2>1, Prefix
  <2>4. \A k \in 1..n : f[k] = e[k]
    BY <1>1, <1>4, <2>1
  <2> QED
    BY <2>2, <2>3, <2>4, SameBodies
<1>6. \A f \in Chain(e) : Chain(f) \subseteq Chain(e)
  <2> SUFFICES ASSUME NEW f \in Chain(e), NEW n \in 1..Len(f)
               PROVE  SubSeq(f, 1, n) \in Chain(e)
    BY DEF Chain
  <2>1. n \in 1..Len(e)
    BY <1>1, <1>4
  <2> QED
    BY <1>5, <2>1 DEF Chain
<1> QED
  BY <1>3, <1>4, <1>6

\* A successor: its predecessor, and one body more.
LEMMA LinkFacts ==
    ASSUME NEW h, NEW e, IsEpoch(h), IsEpoch(e), Len(e) = Len(h) + 1, Front(e) = h
    PROVE  Chain(e) = Chain(h) \cup {e} /\ h \in Chain(e)
<1>1. Len(h) \in Nat \ {0} /\ Len(e) - 1 = Len(h) /\ Len(h) \in 1..Len(e)
  BY EpochFacts
<1>2. h = SubSeq(e, 1, Len(h))
  BY <1>1 DEF Front
<1>3. h \in Chain(e)
  BY <1>1, <1>2 DEF Chain
<1>4. Chain(h) \subseteq Chain(e) /\ e \in Chain(e)
  BY <1>3, ChainFacts
<1>5. ASSUME NEW f \in Chain(e) PROVE f \in Chain(h) \cup {e}
  <2>1. f = SubSeq(e, 1, Len(f)) /\ Len(f) \in 1..Len(e)
    BY ChainFacts
  <2>2. CASE Len(f) = Len(e)
    BY <2>2, <1>4, ChainFacts
  <2>3. CASE Len(f) \in 1..Len(h)
    <3>1. SubSeq(h, 1, Len(f)) \in Chain(h)
      BY <2>3 DEF Chain
    <3> DEFINE g == SubSeq(h, 1, Len(f))
    <3>2. g \in Chain(e) /\ Len(g) = Len(f)
      BY <1>4, <2>3, <3>1, Prefix
    <3> HIDE DEF g
    <3>3. g = f
      BY <3>2, ChainFacts
    <3> QED
      BY <3>1, <3>3 DEF g
  <2>4. Len(f) = Len(e) \/ Len(f) \in 1..Len(h)
    <3> DEFINE x == Len(e)  y == Len(h)  z == Len(f)
    <3>1. y \in Nat /\ x \in Nat /\ x - 1 = y /\ z \in 1..x
      BY <1>1, <2>1, EpochFacts
    <3> HIDE DEF x, y, z
    <3>2. z = x \/ z \in 1..y
      BY <3>1
    <3> QED
      BY <3>2 DEF x, y, z
  <2> QED
    BY <2>2, <2>3, <2>4
<1> QED
  BY <1>3, <1>4, <1>5

LEMMA SoundFacts ==
    ASSUME NEW e, Sound(e)
    PROVE  IsEpoch(e) /\ VerifyEpoch(e) /\ Body(Last(e)) /\ \A f \in Chain(e) : Sound(f)
  BY ChainFacts DEF Sound

LEMMA SoundSuccessor ==
    ASSUME NEW h, NEW e, Sound(h), IsEpoch(e), Len(e) = Len(h) + 1, Front(e) = h, VerifyEpoch(e),
           Body(Last(e))
    PROVE  Sound(e)
  BY LinkFacts DEF Sound

\* An epoch is its predecessor with a body appended.
LEMMA AppendFacts ==
    ASSUME NEW h, IsEpoch(h), NEW b
    PROVE  /\ IsEpoch(Append(h, b)) /\ Len(Append(h, b)) = Len(h) + 1
           /\ Front(Append(h, b)) = h /\ Last(Append(h, b)) = b
<1> DEFINE e == Append(h, b)
           S == Bodies(h) \cup {b}
<1>1. h \in Seq(S) /\ b \in S /\ Len(h) \in Nat \ {0}
  BY SeqMonotonic, EpochFacts DEF IsEpoch
<1>2. /\ e \in Seq(S) /\ Len(e) = Len(h) + 1
      /\ \A k \in 1..Len(h) : e[k] = h[k]
      /\ e[Len(h) + 1] = b
  BY <1>1, AppendProperties
<1> HIDE DEF e, S
<1>3. IsEpoch(e)
  BY <1>1, <1>2, SeqIsEpoch
<1>4. Front(e) = h
  <2>1. Len(h) \in 1..Len(e) /\ Len(e) - 1 = Len(h)
    BY <1>1, <1>2
  <2>2. /\ IsEpoch(SubSeq(e, 1, Len(h))) /\ Len(SubSeq(e, 1, Len(h))) = Len(h)
        /\ \A k \in 1..Len(h) : SubSeq(e, 1, Len(h))[k] = e[k]
    BY <1>3, <2>1, Prefix
  <2>3. SubSeq(e, 1, Len(h)) = h
    BY <1>2, <2>2, SameBodies
  <2> QED
    BY <2>1, <2>3 DEF Front
<1>5. Last(e) = b
  BY <1>2 DEF Last
<1> QED
  BY <1>2, <1>3, <1>4, <1>5 DEF e

LEMMA GenesisSound ==
    Sound(Genesis) /\ Len(Genesis) = 1 /\ Chain(Genesis) = {Genesis}
<1> DEFINE b == [state |-> "open", members |-> {<<Creator, 1>>}, joins |-> {}, salt |-> None]
<1>1. Genesis = <<b>> /\ <<b>> \in Seq({b}) /\ Len(<<b>>) = 1 /\ <<b>>[1] = b
  BY DEF Genesis
<1>2. b.members = {<<Creator, 1>>} /\ b.state = "open"
  OBVIOUS
<1> HIDE DEF b
<1>3. IsEpoch(Genesis) /\ Len(Genesis) = 1 /\ Last(Genesis) = b
  <2>1. Genesis \in Seq({b}) /\ Len(Genesis) = 1 /\ Genesis[1] = b
    BY <1>1
  <2>2. IsEpoch(Genesis)
    BY <2>1, SeqIsEpoch
  <2> QED
    BY <2>1, <2>2 DEF Last
<1>4. Chain(Genesis) = {Genesis}
  <2>1. \A f \in Chain(Genesis) : Len(f) = 1
    BY <1>3, ChainFacts
  <2> QED
    BY <1>3, <2>1, ChainFacts
<1>5. VerifyEpoch(Genesis)
  <2>1. Members(Genesis) = {<<Creator, 1>>} /\ <<Creator, 1>>[1] = Creator
    BY <1>2, <1>3 DEF Members
  <2>2. Number(Genesis) = 0 /\ 0 < MaxEpochs /\ 0 # MaxEpochs - 1
    BY <1>3, RegistryAssumption DEF Number
  <2> QED
    BY <2>1, <2>2 DEF VerifyEpoch
<1>6. Body(Last(Genesis))
  <2>1. Body(b)
    BY DEF Body, b
  <2> QED
    BY <1>3, <2>1
<1> QED
  BY <1>3, <1>4, <1>5, <1>6 DEF Sound

-----------------------------------------------------------------------------
(* The checkpoint.                                                            *)

Checkpoint(r) ==
    r \in [known : {TRUE}, head : {r.head}, everJoined : {r.everJoined},
           admitted : {r.admitted}, checked : {r.checked}, invitation : {r.invitation},
           consent : {r.consent}, left : {r.left}, frozen : {r.frozen}, states : {r.states}]

\* What stopped an installation, if anything did.
Stop(r) ==
    \/ r.frozen = Thawed
    \/ r.frozen.reason = "forked"
    \/ /\ r.frozen.reason = "header" /\ r.head # NoEpoch /\ Sound(r.frozen.observed)
       /\ Len(r.frozen.observed) = Len(r.head) + 1 /\ Front(r.frozen.observed) = r.head
    \/ r.frozen.reason = "snapshot" /\ r.frozen.observed \in Chain(r.head)

\* A member takes part by a consent it is willing to, in every later epoch.
Consented(r, willingly) ==
    /\ r.consent # None => r.consent \in willingly
    /\ r.admitted # None =>
         /\ r.admitted.epoch = Genesis \/ Joins(r.admitted.epoch) \cap willingly # {}
         /\ \A e \in Chain(r.head) :
              Len(e) >= Len(r.admitted.epoch) => r.admitted.card \in Members(e)

Good(r, willingly) ==
    /\ Checkpoint(r) /\ (r.head = NoEpoch \/ Sound(r.head))
    /\ Stop(r) /\ Consented(r, willingly)

\* A later checkpoint of one installation has the chain of an earlier one, and
\* stays stopped by a fork.
Extends(r, s) == Chain(r.head) \subseteq Chain(s.head) /\ (Forked(r) => Forked(s))

LEMMA NoChain == Chain(NoEpoch) = {} /\ Len(NoEpoch) = 0
<1>1. Len(<<>>) = 0
  BY EmptySeq
<1> QED
  BY <1>1 DEF Chain, NoEpoch

LEMMA HeadFacts ==
    ASSUME NEW r, NEW w, Good(r, w)
    PROVE  /\ r.head = NoEpoch <=> Len(r.head) = 0
           /\ Len(r.head) \in Nat
           /\ \A e \in Chain(r.head) : Sound(e)
           /\ r.head # NoEpoch => Sound(r.head)
  BY NoChain, SoundFacts, EpochFacts DEF Good

\* Some fields changed.
LEMMA NewFrozen ==
    ASSUME NEW r, Checkpoint(r), NEW f
    PROVE  LET s == [r EXCEPT !.frozen = f]
           IN  Checkpoint(s) /\ s.frozen = f /\ s.head = r.head /\ s.admitted = r.admitted
               /\ s.consent = r.consent
  BY DEF Checkpoint

LEMMA NewChecked ==
    ASSUME NEW r, Checkpoint(r), NEW c
    PROVE  LET s == [r EXCEPT !.checked = c]
           IN  Checkpoint(s) /\ s.frozen = r.frozen /\ s.head = r.head
               /\ s.admitted = r.admitted /\ s.consent = r.consent
  BY DEF Checkpoint

\* append keeps a checkpoint good: an epoch that is adopted succeeds the head,
\* and one that is not leaves the chain as it was.
LEMMA AppendGood ==
    ASSUME NEW r, NEW w, Good(r, w), NEW e, Sound(e), NEW full \in BOOLEAN
    PROVE  LET s == AppendEpoch(r, e, full).r
           IN  Good(s, w) /\ Extends(r, s) /\ AppendEpoch(r, e, full).go \in BOOLEAN
<1> DEFINE out == AppendEpoch(r, e, full)
           same == SameNumber(r, e)
           stays == r.admitted # None /\ r.admitted.card \in Members(e)
           forked == [r EXCEPT !.frozen = [reason |-> "forked", first |-> same, second |-> e]]
           full1 == [r EXCEPT !.frozen = [reason |-> "header", observed |-> e]]
           member == IF stays THEN r.admitted ELSE None
           through == IF stays THEN r.checked ELSE None
           next == [r EXCEPT !.head = e, !.admitted = member, !.checked = through]
           fits == IF r.head = NoEpoch THEN Number(e) = 0 ELSE VerifyLink(r.head, e)
<1>0. Checkpoint(r)
  BY DEF Good
<1>1. /\ out.go \in BOOLEAN
      /\ \/ out.r = r
         \/ out.r = forked
         \/ out.r = full1 /\ ~Frozen(r) /\ fits /\ r.head # NoEpoch
         \/ out.r = next /\ ~Frozen(r) /\ fits
  BY DEF AppendEpoch
<1>2. Good(r, w) /\ Extends(r, r)
  BY DEF Extends
<1>3. Good(forked, w) /\ Extends(r, forked)
  <2>1. /\ Checkpoint(forked) /\ forked.head = r.head /\ forked.admitted = r.admitted
        /\ forked.consent = r.consent
        /\ forked.frozen = [reason |-> "forked", first |-> same, second |-> e]
    BY <1>0, NewFrozen
  <2>2. forked.frozen.reason = "forked"
    BY <2>1
  <2> HIDE DEF forked
  <2> QED
    BY <2>1, <2>2 DEF Good, Stop, Consented, Extends, Forked
<1>4. ASSUME ~Frozen(r), fits, r.head # NoEpoch PROVE Good(full1, w) /\ Extends(r, full1)
  <2>1. /\ Checkpoint(full1) /\ full1.head = r.head /\ full1.admitted = r.admitted
        /\ full1.consent = r.consent /\ full1.frozen = [reason |-> "header", observed |-> e]
    BY <1>0, NewFrozen
  <2>2. full1.frozen.reason = "header" /\ full1.frozen.observed = e
    BY <2>1
  <2>3. Len(e) = Len(r.head) + 1 /\ Front(e) = r.head
    BY <1>4 DEF VerifyLink
  <2>4. ~Forked(r)
    BY <1>4 DEF Frozen, Forked, Thawed
  <2> HIDE DEF full1
  <2> QED
    BY <1>4, <2>1, <2>2, <2>3, <2>4 DEF Good, Stop, Consented, Extends
<1>5. ASSUME ~Frozen(r), fits PROVE Good(next, w) /\ Extends(r, next)
  <2>1. /\ Checkpoint(next) /\ next.head = e /\ next.consent = r.consent
        /\ next.frozen = r.frozen /\ next.admitted = member
    <3> HIDE DEF member, through
    <3> QED
      BY <1>0 DEF Checkpoint
  <2> HIDE DEF next
  <2>2. Chain(e) = Chain(r.head) \cup {e}
    <3>1. CASE r.head = NoEpoch
      <4>1. Len(e) = 1
        BY <1>5, <3>1, SoundFacts, EpochFacts DEF Number
      <4>2. Chain(e) = {e}
        BY <4>1, SoundFacts, ChainFacts
      <4> QED
        BY <3>1, <4>2, NoChain
    <3>2. CASE r.head # NoEpoch
      <4>1. Len(e) = Len(r.head) + 1 /\ Front(e) = r.head
        BY <1>5, <3>2 DEF VerifyLink
      <4> QED
        BY <3>2, <4>1, HeadFacts, SoundFacts, LinkFacts
    <3> QED
      BY <3>1, <3>2
  <2>3. next.frozen = Thawed
    BY <1>5, <2>1 DEF Frozen
  <2>4. Consented(next, w)
    <3>1. r.consent # None => r.consent \in w
      BY DEF Good, Consented
    <3>2. CASE stays
      <4>1. next.admitted = r.admitted
        BY <2>1, <3>2
      <4>2. /\ r.admitted.epoch = Genesis \/ Joins(r.admitted.epoch) \cap w # {}
            /\ \A f \in Chain(r.head) :
                 Len(f) >= Len(r.admitted.epoch) => r.admitted.card \in Members(f)
            /\ r.admitted.card \in Members(e)
        BY <3>2 DEF Good, Consented
      <4> QED
        BY <2>1, <2>2, <3>1, <4>1, <4>2 DEF Consented
    <3>3. CASE ~stays
      BY <2>1, <3>1, <3>3 DEF Consented
    <3> QED
      BY <3>2, <3>3
  <2> QED
    BY <1>5, <2>1, <2>2, <2>3, <2>4 DEF Good, Stop, Extends, Forked, Frozen
<1> HIDE DEF forked, full1, next, same, fits, out
<1>6. Good(out.r, w) /\ Extends(r, out.r) /\ out.go \in BOOLEAN
  BY <1>1, <1>2, <1>3, <1>4, <1>5
<1> QED
  BY <1>6 DEF out

-----------------------------------------------------------------------------
(* A page of headers: what holds of each checkpoint on the way.               *)

Less == {p \in Nat \X Nat : p[1] < p[2]}

LEMMA LessFounded == IsWellFoundedOn(Less, Nat)
  BY NatLessThanWellFounded, Zenon DEF OpToRel, Less

LEMMA Least == ASSUME NEW T, T \subseteq Nat, T # {} PROVE \E x \in T : \A y \in T : x <= y
<1>1. PICK x \in T : \A y \in T : ~(<<y, x>> \in Less)
  BY WFMin, LessFounded
<1>2. \A y \in T : x \in Nat /\ y \in Nat /\ ~(y < x)
  BY <1>1 DEF Less
<1> QED
  BY <1>2

\* Induction, on the members of a set.
LEMMA Induction ==
    ASSUME NEW m \in Nat, NEW T, m \in T, \A n \in Nat : n >= m /\ n \in T => n + 1 \in T
    PROVE  \A n \in Nat : n >= m => n \in T
<1> DEFINE Out == {n \in Nat : n >= m /\ n \notin T}
<1> SUFFICES ASSUME Out # {} PROVE FALSE
  OBVIOUS
<1>1. PICK x \in Out : \A y \in Out : x <= y
  BY Least
<1>2. x \in Nat /\ x > m /\ x \notin T
  BY <1>1
<1>3. x - 1 \in Nat /\ x - 1 >= m /\ x - 1 + 1 = x
  BY <1>2
<1>4. x - 1 \notin Out
  BY <1>1, <1>2, <1>3
<1> QED
  BY <1>2, <1>3, <1>4

\* Shown is what the last of a sequence of checkpoints is, each after one header.
After(r, e, from, full, f) ==
    f = [n \in from..Len(e) |->
          IF n = from THEN [go |-> TRUE, r |-> r]
          ELSE IF f[n - 1].go THEN AppendEpoch(f[n - 1].r, SubSeq(e, 1, n), full)
          ELSE f[n - 1]]

LEMMA ShownIsLast ==
    ASSUME NEW r, NEW e, NEW full, NEW from \in Nat, Len(e) \in Nat, from <= Len(e)
    PROVE  \E f : After(r, e, from, full, f) /\ Shown(r, e, from, full) = f[Len(e)].r
<1> DEFINE step(acc, n) == IF acc.go THEN AppendEpoch(acc.r, SubSeq(e, 1, n), full) ELSE acc
           start == [go |-> TRUE, r |-> r]
           Is(m, f) == f = [n \in from..m |-> IF n = from THEN start ELSE step(f[n - 1], n)]
           T == {m \in Nat : \E f : Is(m, f)}
<1> HIDE DEF step, start
<1>1. from \in T
  <2> DEFINE f == [n \in from..from |-> start]
  <2>1. Is(from, f)
    OBVIOUS
  <2> HIDE DEF Is
  <2> QED
    BY <2>1
<1>2. ASSUME NEW m \in Nat, m >= from, m \in T PROVE m + 1 \in T
  <2>1. PICK f : Is(m, f)
    BY <1>2
  <2> DEFINE g == [n \in from..(m + 1) |-> IF n = m + 1 THEN step(f[m], n) ELSE f[n]]
  <2>2. ASSUME NEW n \in from..(m + 1)
        PROVE  g[n] = IF n = from THEN start ELSE step(g[n - 1], n)
    <3>1. CASE n = m + 1
      BY <1>2, <3>1
    <3>2. CASE n # m + 1
      <4>1. n \in from..m /\ (n # from => n - 1 \in from..m /\ n - 1 # m + 1)
        BY <1>2, <3>2
      <4>2. f[n] = IF n = from THEN start ELSE step(f[n - 1], n)
        BY <2>1, <4>1
      <4> QED
        BY <1>2, <3>2, <4>1, <4>2
    <3> QED
      BY <3>1, <3>2
  <2>3. Is(m + 1, g)
    BY <2>2
  <2> HIDE DEF Is, g
  <2> QED
    BY <2>3
<1>3. Len(e) \in T
  <2> HIDE DEF T
  <2> QED
    BY <1>1, <1>2, Induction
<1>4. \E f : Is(Len(e), f)
  BY <1>3
<1> QED
  BY <1>4 DEF Shown, After, step, start

\* What holds of a checkpoint and is kept by append holds of each on the way.
LEMMA ShownGood ==
    ASSUME NEW r, NEW w, Good(r, w), NEW e, Sound(e), NEW from \in 0..(Len(e) - 1),
           NEW full \in BOOLEAN
    PROVE  Good(Shown(r, e, from, full), w) /\ Extends(r, Shown(r, e, from, full))
<1>1. Len(e) \in Nat /\ from \in Nat /\ from <= Len(e) /\ from # Len(e)
  BY SoundFacts, EpochFacts
<1>2. PICK f : After(r, e, from, full, f) /\ Shown(r, e, from, full) = f[Len(e)].r
  BY <1>1, ShownIsLast
<1> DEFINE Fine(n) == Good(f[n].r, w) /\ Extends(r, f[n].r) /\ f[n].go \in BOOLEAN
           T == {n \in Nat : n > Len(e) \/ Fine(n)}
<1>3. from \in T
  <2>1. f[from] = [go |-> TRUE, r |-> r]
    BY <1>1, <1>2 DEF After
  <2>2. f[from].r = r /\ f[from].go = TRUE
    BY <2>1
  <2> QED
    BY <1>1, <2>2 DEF Extends
<1>4. ASSUME NEW n \in Nat, n >= from, n \in T PROVE n + 1 \in T
  <2>1. CASE n + 1 > Len(e)
    BY <2>1
  <2>2. CASE n + 1 <= Len(e)
    <3>1. n + 1 \in from..Len(e) /\ n + 1 # from /\ n + 1 - 1 = n /\ n + 1 \in 1..Len(e)
          /\ ~(n > Len(e))
      BY <1>1, <1>4, <2>2
    <3> DEFINE g == SubSeq(e, 1, n + 1)
    <3>2. g \in Chain(e)
      BY <3>1 DEF Chain
    <3> HIDE DEF g
    <3>3. Sound(g)
      BY <3>2, SoundFacts
    <3>4. f[n + 1] = IF f[n].go THEN AppendEpoch(f[n].r, g, full) ELSE f[n]
      BY <1>2, <3>1 DEF After, g
    <3>5. Fine(n)
      BY <1>4, <3>1
    <3>6. CASE f[n].go
      <4>1. f[n + 1] = AppendEpoch(f[n].r, g, full)
        BY <3>4, <3>6
      <4>2. Good(f[n + 1].r, w) /\ Extends(f[n].r, f[n + 1].r) /\ f[n + 1].go \in BOOLEAN
        BY <3>3, <3>5, <4>1, AppendGood
      <4> QED
        BY <3>5, <4>2 DEF Extends
    <3>7. CASE ~f[n].go
      BY <3>4, <3>5, <3>7
    <3> QED
      BY <3>6, <3>7
  <2> QED
    BY <1>1, <2>1, <2>2
<1>5. Len(e) \in T
  <2> HIDE DEF T
  <2> QED
    BY <1>1, <1>3, <1>4, Induction
<1>6. Fine(Len(e))
  BY <1>1, <1>5
<1> QED
  BY <1>2, <1>6

-----------------------------------------------------------------------------
(* The other steps that change a checkpoint.                                  *)

\* The local member joins by the consent it gave, which the epoch lists.
LEMMA ConsentGood ==
    ASSUME NEW i, NEW r, NEW w, Good(r, w), NEW e
    PROVE  LET s == ApplyOwnConsent(i, r, e)
           IN  Good(s, w) /\ s.head = r.head /\ s.frozen = r.frozen
<1> DEFINE a == [card |-> Card(i), epoch |-> e]
           s == [r EXCEPT !.admitted = a, !.checked = Number(e), !.everJoined = TRUE,
                          !.left = None, !.invitation = None, !.consent = None]
<1>1. CASE /\ Answers(r, e)
           /\ \A f \in Chain(r.head) : Len(f) >= Len(e) => Card(i) \in Members(f)
  <2>1. a.card = Card(i) /\ a.epoch = e
    OBVIOUS
  <2> HIDE DEF a
  <2>2. /\ Checkpoint(s) /\ s.head = r.head /\ s.frozen = r.frozen /\ s.admitted = a
        /\ s.consent = None
    BY DEF Good, Checkpoint
  <2>3. ApplyOwnConsent(i, r, e) = s
    BY <1>1 DEF ApplyOwnConsent, a
  <2> HIDE DEF s
  <2>4. r.consent \in Joins(e) /\ r.consent \in w
    BY <1>1 DEF Answers, Good, Consented
  <2>5. Consented(s, w)
    BY <1>1, <2>1, <2>2, <2>4 DEF Consented
  <2> QED
    BY <2>2, <2>3, <2>5 DEF Good, Stop
<1>2. CASE ~(/\ Answers(r, e)
             /\ \A f \in Chain(r.head) : Len(f) >= Len(e) => Card(i) \in Members(f))
  BY <1>2 DEF ApplyOwnConsent
<1> QED
  BY <1>1, <1>2

LEMMA CheckedGood ==
    ASSUME NEW r, NEW w, Good(r, w)
    PROVE  LET s == AdvanceChecked(r)
           IN  Good(s, w) /\ s.head = r.head /\ s.frozen = r.frozen
<1>1. \E c : AdvanceChecked(r) = r \/ AdvanceChecked(r) = [r EXCEPT !.checked = c]
  BY DEF AdvanceChecked
<1>2. PICK c : AdvanceChecked(r) = r \/ AdvanceChecked(r) = [r EXCEPT !.checked = c]
  BY <1>1
<1> DEFINE s == [r EXCEPT !.checked = c]
<1>3. /\ Checkpoint(s) /\ s.frozen = r.frozen /\ s.head = r.head
      /\ s.admitted = r.admitted /\ s.consent = r.consent
  BY NewChecked DEF Good
<1> HIDE DEF s
<1>4. Good(s, w)
  BY <1>3 DEF Good, Stop, Consented
<1>5. AdvanceChecked(r) = r \/ AdvanceChecked(r) = s
  BY <1>2 DEF s
<1> QED
  BY <1>3, <1>4, <1>5

-----------------------------------------------------------------------------
(* The inductive invariant.                                                   *)

Functions == /\ rec = [i \in Installations |-> rec[i]]
             /\ willing = [i \in Installations |-> willing[i]]
             /\ signer = [e \in signed |-> signer[e]]
Checkpoints == \A i \in Installations : rec[i] = Absent \/ Good(rec[i], willing[i])

\* An installation has every epoch it signed in the chain it keeps.
SignedIsKept ==
    \A e \in signed : /\ Sound(e) /\ signer[e] \in Installations
                      /\ e \in Chain(rec[signer[e]].head)
NoneSigned ==
    signed = {} => \A i \in Installations : rec[i].head = NoEpoch /\ rec[i].frozen = Thawed

IInv == Functions /\ Checkpoints /\ SignedIsKept /\ NoneSigned

\* What a step leaves of installation j: a good checkpoint that extends the one
\* it had, with every epoch of E that it signs.
Step(j, s, w, E) ==
    /\ rec' = [rec EXCEPT ![j] = s] /\ willing' = [willing EXCEPT ![j] = w]
    /\ Good(s, w) /\ Extends(rec[j], s)
    /\ signed' = signed \cup E
    /\ signer' = [e \in DOMAIN signer \cup E |-> IF e \in DOMAIN signer THEN signer[e] ELSE j]
    /\ \A e \in E : Sound(e) /\ e \in Chain(s.head)
    /\ E # {} => ~Forked(rec[j])
    /\ signed \cup E = {} => s.head = NoEpoch /\ s.frozen = Thawed

LEMMA StepFields ==
    ASSUME IInv, NEW j \in Installations, NEW s, NEW w, NEW E, Step(j, s, w, E)
    PROVE  /\ rec' = [i \in Installations |-> rec'[i]] /\ rec'[j] = s
           /\ willing' = [i \in Installations |-> willing'[i]] /\ willing'[j] = w
           /\ \A i \in Installations \ {j} : rec'[i] = rec[i] /\ willing'[i] = willing[i]
           /\ \A i \in Installations : Extends(rec[i], rec'[i])
           /\ signer' = [e \in signed' |-> signer'[e]]
           /\ \A e \in signed : signer'[e] = signer[e]
           /\ \A e \in E \ signed : signer'[e] = j
<1>1. /\ rec = [i \in Installations |-> rec[i]]
      /\ willing = [i \in Installations |-> willing[i]] /\ DOMAIN signer = signed
  BY DEF IInv, Functions
<1>2. /\ rec' = [i \in Installations |-> rec'[i]] /\ rec'[j] = s
      /\ \A i \in Installations \ {j} : rec'[i] = rec[i]
  BY <1>1 DEF Step
<1>3. /\ willing' = [i \in Installations |-> willing'[i]] /\ willing'[j] = w
      /\ \A i \in Installations \ {j} : willing'[i] = willing[i]
  BY <1>1 DEF Step
<1>4. \A i \in Installations : Extends(rec[i], rec'[i])
  <2>1. Extends(rec[j], s) /\ \A i \in Installations : Extends(rec[i], rec[i])
    BY DEF Step, Extends
  <2> QED
    BY <1>2, <2>1
<1>5. /\ signed' = signed \cup E
      /\ signer' = [e \in signed \cup E |-> IF e \in signed THEN signer[e] ELSE j]
  BY <1>1 DEF Step
<1> QED
  BY <1>2, <1>3, <1>4, <1>5

LEMMA StepKeeps ==
    ASSUME IInv, NEW j \in Installations, NEW s, NEW w, NEW E, Step(j, s, w, E)
    PROVE  IInv'
<1>1. Functions'
  BY StepFields DEF Functions
<1>2. Checkpoints'
  <2>1. Good(s, w)
    BY DEF Step
  <2> SUFFICES ASSUME NEW i \in Installations
               PROVE  rec'[i] = Absent \/ Good(rec'[i], willing'[i])
    BY DEF Checkpoints
  <2> QED
    BY <2>1, StepFields DEF IInv, Checkpoints
<1>3. SignedIsKept'
  <2>1. signed' = signed \cup E /\ \A e \in E : Sound(e) /\ e \in Chain(s.head)
    BY DEF Step
  <2>2. ASSUME NEW e \in signed
        PROVE  Sound(e) /\ signer'[e] \in Installations /\ e \in Chain(rec'[signer'[e]].head)
    <3>1. Sound(e) /\ signer[e] \in Installations /\ e \in Chain(rec[signer[e]].head)
      BY DEF IInv, SignedIsKept
    <3>2. Extends(rec[signer[e]], rec'[signer[e]]) /\ signer'[e] = signer[e]
      BY <3>1, StepFields
    <3> QED
      BY <3>1, <3>2 DEF Extends
  <2>3. ASSUME NEW e \in E \ signed
        PROVE  Sound(e) /\ signer'[e] \in Installations /\ e \in Chain(rec'[signer'[e]].head)
    <3>1. signer'[e] = j /\ rec'[j] = s
      BY StepFields
    <3> QED
      BY <2>1, <3>1
  <2>4. \A e \in signed' :
          Sound(e) /\ signer'[e] \in Installations /\ e \in Chain(rec'[signer'[e]].head)
    BY <2>1, <2>2, <2>3
  <2> QED
    BY <2>4 DEF SignedIsKept
<1>4. NoneSigned'
  <2> SUFFICES ASSUME signed' = {}, NEW i \in Installations
               PROVE  rec'[i].head = NoEpoch /\ rec'[i].frozen = Thawed
    BY DEF NoneSigned
  <2>1. signed \cup E = {}
    BY DEF Step
  <2>2. CASE i = j
    <3>1. rec'[j] = s
      BY StepFields
    <3>2. s.head = NoEpoch /\ s.frozen = Thawed
      BY <2>1 DEF Step
    <3> QED
      BY <2>2, <3>1, <3>2
  <2>3. CASE i # j
    BY <2>1, <2>3, StepFields DEF IInv, NoneSigned
  <2> QED
    BY <2>2, <2>3
<1> QED
  BY <1>1, <1>2, <1>3, <1>4 DEF IInv

\* A step in which nothing is signed.
LEMMA Unsigned ==
    ASSUME IInv, NEW j \in Installations, NEW s, NEW w,
           Save(j, s), willing' = [willing EXCEPT ![j] = w], signed' = signed, signer' = signer,
           Good(s, w), Extends(rec[j], s),
           signed = {} => s.head = NoEpoch /\ s.frozen = Thawed
    PROVE  Step(j, s, w, {})
<1>1. signer = [e \in signed |-> signer[e]]
  BY DEF IInv, Functions
<1>2. signer' = [e \in DOMAIN signer \cup {} |->
                    IF e \in DOMAIN signer THEN signer[e] ELSE j]
  BY <1>1
<1> QED
  BY <1>2 DEF Step, Save

\* ... and nothing is agreed.
LEMMA Kept ==
    ASSUME IInv, NEW j \in Installations, NEW s, Save(j, s), UNCHANGED <<willing, signed, signer>>,
           Good(s, willing[j]), Extends(rec[j], s),
           signed = {} => s.head = NoEpoch /\ s.frozen = Thawed
    PROVE  Step(j, s, willing[j], {})
<1>1. willing' = [willing EXCEPT ![j] = willing[j]]
  BY DEF IInv, Functions
<1> QED
  BY <1>1, Unsigned

\* A step in which an epoch is signed.
LEMMA Signing ==
    ASSUME IInv, NEW j \in Installations, NEW s, NEW e, Save(j, s), Sign(j, e),
           willing' = willing, Good(s, willing[j]), Extends(rec[j], s), Sound(e), s.head = e,
           ~Forked(rec[j])
    PROVE  Step(j, s, willing[j], {e})
<1>1. willing' = [willing EXCEPT ![j] = willing[j]]
  BY DEF IInv, Functions
<1>2. e \in Chain(s.head)
  BY ChainFacts, SoundFacts
<1> QED
  BY <1>1, <1>2 DEF Step, Save, Sign

-----------------------------------------------------------------------------
(* Each action is a step.                                                     *)

LEMMA Known ==
    ASSUME IInv, NEW i \in Installations
    PROVE  /\ rec[i].known => Good(rec[i], willing[i])
           /\ ~rec[i].known => rec[i] = Absent
           /\ Absent.head = NoEpoch /\ Absent.frozen = Thawed /\ ~Forked(Absent)
<1>1. rec[i] = Absent \/ Good(rec[i], willing[i])
  BY DEF IInv, Checkpoints
<1>2. ~Absent.known /\ Absent.head = NoEpoch /\ Absent.frozen = Thawed
  BY DEF Absent
<1>3. Good(rec[i], willing[i]) => rec[i].known
  <2>1. ASSUME NEW r, Checkpoint(r) PROVE r.known
    BY <2>1 DEF Checkpoint
  <2> QED
    BY <2>1 DEF Good
<1>4. ~Forked(Absent)
  BY <1>2 DEF Forked, Thawed
<1> QED
  BY <1>1, <1>2, <1>3, <1>4

LEMMA EmptyGood ==
    ASSUME NEW w
    PROVE  /\ Good(Empty, w) /\ Empty.head = NoEpoch /\ Empty.frozen = Thawed
           /\ Empty.consent = None
<1>1. Absent \in [known : {FALSE}, head : {NoEpoch}, everJoined : {FALSE}, admitted : {None},
                  checked : {None}, invitation : {None}, consent : {None}, left : {None},
                  frozen : {Thawed}, states : {{}}]
  BY DEF Absent
<1> DEFINE s == [Absent EXCEPT !.known = TRUE]
<1>2. /\ Checkpoint(s) /\ s.head = NoEpoch /\ s.frozen = Thawed /\ s.admitted = None
      /\ s.consent = None
  BY <1>1 DEF Checkpoint
<1> HIDE DEF s
<1>3. Good(s, w)
  BY <1>2 DEF Good, Stop, Consented
<1> QED
  BY <1>2, <1>3 DEF Empty, s

LEMMA Creates ==
    ASSUME IInv, NEW i \in Installations, create(i)
    PROVE  \E s, w, E : Step(i, s, w, E)
<1> DEFINE a == [card |-> Card(i), epoch |-> Genesis]
           s == [Empty EXCEPT !.head = Genesis, !.everJoined = TRUE, !.checked = 0,
                              !.admitted = a, !.states = {Genesis}]
<1>1. a.card = <<Creator, 1>> /\ a.epoch = Genesis
  BY DEF create, Card
<1> HIDE DEF a
<1>2. Checkpoint(Empty) /\ Empty.frozen = Thawed /\ Empty.consent = None
  BY EmptyGood DEF Good
<1>3. Save(i, s)
  BY DEF create, a
<1>4. /\ Checkpoint(s) /\ s.head = Genesis /\ s.admitted = a /\ s.consent = None
      /\ s.frozen = Thawed
  BY <1>2 DEF Checkpoint
<1> HIDE DEF s
<1>5. Members(Genesis) = {<<Creator, 1>>}
  <2>1. Last(Genesis) = Genesis[1]
    BY GenesisSound DEF Last
  <2> QED
    BY <2>1 DEF Genesis, Members
<1>6. Good(s, willing[i])
  <2>1. Consented(s, willing[i])
    BY <1>1, <1>4, <1>5, GenesisSound DEF Consented
  <2> QED
    BY <1>4, <2>1, GenesisSound DEF Good, Stop
<1>7. rec[i].head = NoEpoch /\ rec[i].frozen = Thawed
  BY DEF create, IInv, NoneSigned
<1>8. Extends(rec[i], s) /\ ~Forked(rec[i])
  BY <1>7, NoChain DEF Extends, Forked, Thawed
<1>9. Step(i, s, willing[i], {Genesis})
  BY <1>3, <1>4, <1>6, <1>8, GenesisSound, Signing DEF create
<1> QED
  BY <1>9

LEMMA Remembers ==
    ASSUME IInv, NEW i \in Installations, NEW v, rememberInvitation(i, v)
    PROVE  \E s, w, E : Step(i, s, w, E)
<1> DEFINE r == IF rec[i].known THEN rec[i] ELSE Empty
           s == [r EXCEPT !.invitation = v, !.consent = None]
<1>1. Good(r, willing[i]) /\ r.head = rec[i].head /\ r.frozen = rec[i].frozen
  BY Known, EmptyGood
<1>2. Save(i, s)
  BY DEF rememberInvitation
<1> HIDE DEF r
<1>3. /\ Checkpoint(s) /\ s.head = r.head /\ s.frozen = r.frozen
      /\ s.admitted = r.admitted /\ s.consent = None
  BY <1>1 DEF Good, Checkpoint
<1> HIDE DEF s
<1>4. Good(s, willing[i])
  BY <1>1, <1>3 DEF Good, Stop, Consented
<1>5. Extends(rec[i], s)
  BY <1>1, <1>3 DEF Extends, Forked
<1>6. signed = {} => s.head = NoEpoch /\ s.frozen = Thawed
  BY <1>1, <1>3 DEF IInv, NoneSigned
<1>7. Step(i, s, willing[i], {})
  BY <1>2, <1>4, <1>5, <1>6, Kept DEF rememberInvitation
<1> QED
  BY <1>7

LEMMA Accepts ==
    ASSUME IInv, NEW i \in Installations, accept(i)
    PROVE  \E s, w, E : Step(i, s, w, E)
<1> DEFINE r == rec[i]
<1>1. Good(r, willing[i])
  BY Known DEF accept, Reads, ReadRecord
<1>2. PICK k : /\ willing' = [willing EXCEPT ![i] = @ \cup {k}]
               /\ Save(i, [r EXCEPT !.consent = k])
  BY DEF accept
<1> DEFINE s == [r EXCEPT !.consent = k]
           w == willing[i] \cup {k}
<1>3. /\ Checkpoint(s) /\ s.head = r.head /\ s.frozen = r.frozen
      /\ s.admitted = r.admitted /\ s.consent = k
  BY <1>1 DEF Good, Checkpoint
<1>4. Save(i, s) /\ willing' = [willing EXCEPT ![i] = w]
  BY <1>2
<1>5. signed = {} => r.head = NoEpoch /\ r.frozen = Thawed
  BY DEF IInv, NoneSigned
<1>6. signed' = signed /\ signer' = signer
  BY DEF accept
<1> HIDE DEF r, s
<1>7. Good(s, w)
  BY <1>1, <1>3 DEF Good, Stop, Consented
<1>8. Extends(rec[i], s)
  BY <1>3 DEF Extends, Forked, r
<1> HIDE DEF w
<1>9. Step(i, s, w, {})
  BY <1>3, <1>4, <1>5, <1>6, <1>7, <1>8, Unsigned
<1> QED
  BY <1>9

LEMMA Leaves ==
    ASSUME IInv, NEW i \in Installations, leave(i)
    PROVE  \E s, w, E : Step(i, s, w, E)
<1> DEFINE r == rec[i]
           d == IF r.left = None THEN Departure(r, Card(i)) ELSE r.left
           s == [r EXCEPT !.left = d, !.admitted = None, !.checked = None,
                          !.invitation = None, !.consent = None]
<1>1. Good(r, willing[i])
  BY Known DEF leave, Reads, ReadRecord
<1>2. Save(i, s) /\ willing' = [willing EXCEPT ![i] = {}]
  BY DEF leave
<1>3. signed = {} => r.head = NoEpoch /\ r.frozen = Thawed
  BY DEF IInv, NoneSigned
<1>4. signed' = signed /\ signer' = signer
  BY DEF leave
<1> HIDE DEF r, d
<1>5. /\ Checkpoint(s) /\ s.head = r.head /\ s.frozen = r.frozen
      /\ s.admitted = None /\ s.consent = None
  BY <1>1 DEF Good, Checkpoint
<1> HIDE DEF s
<1>6. Good(s, {})
  BY <1>1, <1>5 DEF Good, Stop, Consented
<1>7. Extends(rec[i], s)
  BY <1>5 DEF Extends, Forked, r
<1>8. Step(i, s, {}, {})
  BY <1>2, <1>3, <1>4, <1>5, <1>6, <1>7, Unsigned
<1> QED
  BY <1>8

\* A successor of the head is adopted when nothing has stopped the installation.
LEMMA Adopts ==
    ASSUME NEW r, NEW w, Good(r, w), ~Frozen(r), r.head # NoEpoch, NEW e, Sound(e),
           VerifyLink(r.head, e)
    PROVE  LET s == AppendEpoch(r, e, FALSE).r
           IN  Good(s, w) /\ s.head = e /\ Extends(r, s) /\ s.frozen = r.frozen
<1>1. ~Forked(r)
  BY DEF Frozen, Forked, Thawed
<1>2. SameNumber(r, e) = NoEpoch
  <2>1. Len(e) = Len(r.head) + 1 /\ Len(r.head) \in Nat
    BY HeadFacts DEF VerifyLink
  <2> DEFINE x == Len(e)  y == Len(r.head)
  <2>2. ~(x <= y)
    <3>1. x = y + 1 /\ y \in Nat
      BY <2>1
    <3> HIDE DEF x, y
    <3> QED
      BY <3>1
  <2> QED
    BY <2>2 DEF SameNumber
<1> DEFINE stays == r.admitted # None /\ r.admitted.card \in Members(e)
           member == IF stays THEN r.admitted ELSE None
           through == IF stays THEN r.checked ELSE None
           next == [r EXCEPT !.head = e, !.admitted = member, !.checked = through]
<1>3. AppendEpoch(r, e, FALSE).r = next
  BY <1>1, <1>2 DEF AppendEpoch
<1>4. next.head = e /\ next.frozen = r.frozen
  <2> HIDE DEF member, through
  <2> QED
    BY DEF Good, Checkpoint
<1> HIDE DEF next
<1>5. Good(next, w) /\ Extends(r, next)
  BY <1>3, AppendGood
<1> QED
  BY <1>3, <1>4, <1>5

LEMMA OwnerFacts ==
    ASSUME IInv, NEW i \in Installations, Owner(i)
    PROVE  /\ Good(rec[i], willing[i]) /\ ~Frozen(rec[i]) /\ ~Forked(rec[i])
           /\ rec[i].head # NoEpoch /\ ~Closed(rec[i].head) /\ Sound(rec[i].head)
<1>1. rec[i].known /\ ~Frozen(rec[i]) /\ rec[i].head # NoEpoch /\ ~Closed(rec[i].head)
  BY DEF Owner, Reads, ReadRecord
<1>2. Good(rec[i], willing[i])
  BY <1>1, Known
<1>3. ~Forked(rec[i])
  BY <1>1 DEF Frozen, Forked, Thawed
<1> QED
  BY <1>1, <1>2, <1>3, HeadFacts

LEMMA Commits ==
    ASSUME IInv, NEW i \in Installations, NEW e \in Successors(rec[i].head, i), commit(i, e)
    PROVE  \E s, w, E : Step(i, s, w, E)
<1> DEFINE r == rec[i]
           h == rec[i].head
           next == AppendEpoch(r, e, FALSE).r
           kept == [next EXCEPT !.states = @ \cup {e}]
           joined == ApplyOwnConsent(i, kept, e)
           s == AdvanceChecked(joined)
<1>1. Owner(i) /\ Save(i, s) /\ Sign(i, e) /\ willing' = willing
  BY DEF commit
<1>2. /\ Good(r, willing[i]) /\ ~Frozen(r) /\ ~Forked(r) /\ h # NoEpoch /\ ~Closed(h)
      /\ Sound(h)
  BY <1>1, OwnerFacts
<1>3. Sound(e) /\ VerifyLink(h, e)
  <2>1. /\ VerifyEpoch(e) /\ VerifyTransition(h, e)
        /\ \E M, K : e = Append(h, [state |-> "open", members |-> M, joins |-> K, salt |-> i])
    BY DEF Successors
  <2>2. PICK M, K : e = Append(h, [state |-> "open", members |-> M, joins |-> K, salt |-> i])
    BY <2>1
  <2> DEFINE b == [state |-> "open", members |-> M, joins |-> K, salt |-> i]
  <2>3. Body(b)
    BY DEF Body
  <2>4. e = Append(h, b)
    BY <2>2
  <2> HIDE DEF b, h
  <2>5. IsEpoch(e) /\ Len(e) = Len(h) + 1 /\ Front(e) = h /\ Last(e) = b
    BY <1>2, <2>4, AppendFacts, SoundFacts
  <2>6. Sound(e)
    BY <1>2, <2>1, <2>3, <2>5, SoundSuccessor
  <2> QED
    BY <2>1, <2>6 DEF VerifyTransition
<1>4. /\ Good(next, willing[i]) /\ next.head = e /\ Extends(r, next)
      /\ next.frozen = r.frozen
  BY <1>2, <1>3, Adopts
<1> HIDE DEF next
<1> DEFINE states == next.states \cup {e}
<1>5. /\ Checkpoint(kept) /\ kept.head = e /\ kept.frozen = r.frozen
      /\ kept.admitted = next.admitted /\ kept.consent = next.consent
  <2>1. kept = [next EXCEPT !.states = states]
    OBVIOUS
  <2> HIDE DEF states, kept
  <2> QED
    BY <1>4, <2>1 DEF Good, Checkpoint
<1> HIDE DEF kept
<1>6. Good(kept, willing[i])
  BY <1>4, <1>5 DEF Good, Stop, Consented
<1>7. Good(joined, willing[i]) /\ joined.head = e /\ joined.frozen = r.frozen
  BY <1>5, <1>6, ConsentGood
<1> HIDE DEF joined
<1>8. Good(s, willing[i]) /\ s.head = e /\ s.frozen = r.frozen
  BY <1>7, CheckedGood
<1> HIDE DEF s
<1>9. Extends(r, s)
  BY <1>2, <1>4, <1>8 DEF Extends
<1>10. Step(i, s, willing[i], {e})
  BY <1>1, <1>2, <1>3, <1>8, <1>9, Signing
<1> QED
  BY <1>10

\* The epoch that closes a group.
LEMMA ClosedFacts ==
    ASSUME NEW h, Sound(h), ~Closed(h)
    PROVE  LET e == ClosedOf(h)
           IN  /\ IsEpoch(e) /\ Len(e) = Len(h) + 1 /\ Front(e) = h /\ VerifyLink(h, e)
               /\ Closed(e) /\ Body(Last(e)) /\ Members(e) = Members(h)
<1> DEFINE b == [Last(h) EXCEPT !.state = "closed"]
           e == Append(h, b)
<1>1. Body(b) /\ b.state = "closed" /\ b.members = Last(h).members
  BY SoundFacts DEF Body
<1>2. b = [Last(h) EXCEPT !.state = "closed"]
  OBVIOUS
<1>3. ClosedOf(h) = e
  BY DEF ClosedOf
<1> HIDE DEF b
<1>4. IsEpoch(e) /\ Len(e) = Len(h) + 1 /\ Front(e) = h /\ Last(e) = b
  BY SoundFacts, AppendFacts
<1> HIDE DEF e
<1>5. Closed(e) /\ Members(e) = Members(h)
  BY <1>1, <1>4 DEF Closed, Members
<1>6. VerifyLink(h, e)
  BY <1>2, <1>4 DEF VerifyLink
<1> QED
  BY <1>1, <1>3, <1>4, <1>5, <1>6

LEMMA Closes ==
    ASSUME IInv, NEW i \in Installations, close(i)
    PROVE  \E s, w, E : Step(i, s, w, E)
<1> DEFINE r == rec[i]
           h == rec[i].head
           e == ClosedOf(h)
           next == AppendEpoch(r, e, FALSE).r
           s == AdvanceChecked(next)
<1>1. Owner(i) /\ VerifyEpoch(e) /\ Save(i, s) /\ Sign(i, e) /\ willing' = willing
  BY DEF close
<1>2. /\ Good(r, willing[i]) /\ ~Frozen(r) /\ ~Forked(r) /\ h # NoEpoch /\ ~Closed(h)
      /\ Sound(h)
  BY <1>1, OwnerFacts
<1>3. Sound(e) /\ VerifyLink(h, e)
  BY <1>1, <1>2, ClosedFacts, SoundSuccessor
<1> HIDE DEF e
<1>4. /\ Good(next, willing[i]) /\ next.head = e /\ Extends(r, next)
      /\ next.frozen = r.frozen
  BY <1>2, <1>3, Adopts
<1> HIDE DEF next
<1>5. Good(s, willing[i]) /\ s.head = e /\ s.frozen = r.frozen
  BY <1>4, CheckedGood
<1> HIDE DEF s
<1>6. Extends(r, s)
  BY <1>2, <1>4, <1>5 DEF Extends
<1>7. Step(i, s, willing[i], {e})
  BY <1>1, <1>2, <1>3, <1>5, <1>6, Signing
<1> QED
  BY <1>7

LEMMA ObservesHeaders ==
    ASSUME IInv, NEW i \in Installations, NEW full \in MayFill, NEW e \in signed,
           NEW from \in 0..(Len(e) - 1), observeHeaders(i, e, from, full)
    PROVE  \E s, w, E : Step(i, s, w, E)
<1> DEFINE s == Shown(rec[i], e, from, full)
<1>1. Good(rec[i], willing[i]) /\ Sound(e) /\ full \in BOOLEAN
  BY Known, RegistryAssumption DEF observeHeaders, Reads, ReadRecord, IInv, SignedIsKept
<1>2. Good(s, willing[i]) /\ Extends(rec[i], s)
  BY <1>1, ShownGood
<1>3. Save(i, s) /\ UNCHANGED <<willing, signed, signer>>
  BY DEF observeHeaders
<1> HIDE DEF s
<1>4. Step(i, s, willing[i], {})
  BY <1>2, <1>3, Kept
<1> QED
  BY <1>4

LEMMA ObservesSnapshot ==
    ASSUME IInv, NEW i \in Installations, NEW full \in MayFill, NEW e \in signed,
           observeSnapshot(i, e, full)
    PROVE  \E s, w, E : Step(i, s, w, E)
<1> DEFINE r == rec[i]
           states == r.states \cup {StateOf(e)}
           kept == [r EXCEPT !.states = states, !.frozen = Thawed]
           joined == ApplyOwnConsent(i, kept, e)
           late == [r EXCEPT !.frozen = [reason |-> "snapshot", observed |-> e]]
<1>1. /\ Reads(i) /\ e \in Chain(r.head) /\ UNCHANGED <<willing, signed, signer>>
      /\ Frozen(r) => r.frozen.reason = "snapshot"
      /\ Save(i, late) \/ Save(i, AdvanceChecked(joined))
  BY DEF observeSnapshot
<1>2. Good(r, willing[i]) /\ ~Forked(r) /\ signed # {}
  BY <1>1, Known DEF Reads, ReadRecord, Forked, Frozen, Thawed
<1>3. /\ Good(late, willing[i]) /\ Extends(r, late)
  <2>1. /\ Checkpoint(late) /\ late.frozen = [reason |-> "snapshot", observed |-> e]
        /\ late.head = r.head /\ late.admitted = r.admitted /\ late.consent = r.consent
    BY <1>2, NewFrozen DEF Good
  <2>2. late.frozen.reason = "snapshot" /\ late.frozen.observed = e
    BY <2>1
  <2> HIDE DEF late
  <2> QED
    BY <1>1, <1>2, <2>1, <2>2 DEF Good, Stop, Consented, Extends
<1>4. /\ Checkpoint(kept) /\ kept.head = r.head /\ kept.frozen = Thawed
      /\ kept.admitted = r.admitted /\ kept.consent = r.consent
  <2> HIDE DEF states
  <2> QED
    BY <1>2 DEF Good, Checkpoint
<1> HIDE DEF kept, late
<1>5. Good(kept, willing[i])
  BY <1>2, <1>4 DEF Good, Stop, Consented
<1>6. Good(joined, willing[i]) /\ joined.head = r.head
  BY <1>4, <1>5, ConsentGood
<1> HIDE DEF joined
<1>7. /\ Good(AdvanceChecked(joined), willing[i]) /\ Extends(r, AdvanceChecked(joined))
  BY <1>2, <1>6, CheckedGood DEF Extends
<1>8. PICK s : Save(i, s) /\ Good(s, willing[i]) /\ Extends(r, s)
  BY <1>1, <1>3, <1>7
<1>9. Step(i, s, willing[i], {})
  BY <1>1, <1>2, <1>8, Kept
<1> QED
  BY <1>9

LEMMA Resumes ==
    ASSUME IInv, NEW i \in Installations, NEW full \in MayFill, resumeCapacity(i, full)
    PROVE  \E s, w, E : Step(i, s, w, E)
<1> DEFINE r == rec[i]
           e == r.frozen.observed
           thawed == [r EXCEPT !.frozen = Thawed]
           s == AppendEpoch(thawed, e, full).r
<1>1. /\ Reads(i) /\ r.frozen.reason = "header" /\ Save(i, s)
      /\ UNCHANGED <<willing, signed, signer>> /\ full \in BOOLEAN
  BY RegistryAssumption DEF resumeCapacity
<1>2. Good(r, willing[i]) /\ ~Forked(r) /\ r.frozen # Thawed
  BY <1>1, Known DEF Reads, ReadRecord, Forked, Thawed
<1>3. Sound(e) /\ signed # {}
  <2>1. Sound(e)
    BY <1>1, <1>2 DEF Good, Stop, Thawed
  <2>2. signed # {}
    BY <1>2 DEF IInv, NoneSigned
  <2> QED
    BY <2>1, <2>2
<1> HIDE DEF e
<1>4. /\ Checkpoint(thawed) /\ thawed.frozen = Thawed /\ thawed.head = r.head
      /\ thawed.admitted = r.admitted /\ thawed.consent = r.consent
  BY <1>2, NewFrozen DEF Good
<1> HIDE DEF thawed
<1>5. Good(thawed, willing[i]) /\ Extends(r, thawed)
  BY <1>2, <1>4 DEF Good, Stop, Consented, Extends
<1>6. Good(s, willing[i]) /\ Extends(thawed, s)
  BY <1>1, <1>3, <1>5, AppendGood
<1> HIDE DEF s
<1>7. Extends(r, s)
  BY <1>5, <1>6 DEF Extends
<1>8. Step(i, s, willing[i], {})
  BY <1>1, <1>3, <1>6, <1>7, Kept
<1> QED
  BY <1>8

LEMMA Restores ==
    ASSUME IInv, NEW i \in Installations, restore(i)
    PROVE  \E j \in Installations : \E s, w, E : Step(j, s, w, E)
<1>1. Twin \in Installations /\ Absent.head = NoEpoch
  BY RegistryAssumption, Known DEF restore
<1>2. /\ Save(Twin, rec[i]) /\ willing' = [willing EXCEPT ![Twin] = willing[i]]
      /\ signed' = signed /\ signer' = signer
  BY DEF restore
<1>3. Good(rec[i], willing[i])
  BY Known DEF restore
<1>4. Extends(rec[Twin], rec[i])
  <2>1. rec[Twin] = Absent /\ ~Forked(Absent)
    BY <1>1, Known DEF restore
  <2> QED
    BY <1>1, <2>1, NoChain DEF Extends
<1>5. signed = {} => rec[i].head = NoEpoch /\ rec[i].frozen = Thawed
  BY DEF IInv, NoneSigned
<1>6. Step(Twin, rec[i], willing[i], {})
  BY <1>1, <1>2, <1>3, <1>4, <1>5, Unsigned
<1> QED
  BY <1>1, <1>6

LEMMA ActSteps ==
    ASSUME IInv, NEW i \in Installations, Act(i)
    PROVE  \/ \E j \in Installations : \E s, w, E : Step(j, s, w, E)
           \/ UNCHANGED <<rec, signed, willing, signer>>
<1>1. CASE create(i)
  BY <1>1, Creates
<1>2. CASE \E c \in Cards : invite(i, c)
  BY <1>2 DEF invite
<1>3. CASE \E v \in invited : rememberInvitation(i, v)
  BY <1>3, Remembers
<1>4. CASE accept(i)
  BY <1>4, Accepts
<1>5. CASE \E e \in Successors(rec[i].head, i) : commit(i, e)
  BY <1>5, Commits
<1>6. CASE close(i)
  BY <1>6, Closes
<1>7. CASE leave(i)
  BY <1>7, Leaves
<1>8. CASE \E full \in MayFill : \E e \in signed : \E from \in 0..Len(e) - 1 :
             observeHeaders(i, e, from, full)
  BY <1>8, ObservesHeaders
<1>9. CASE \E full \in MayFill : \E e \in signed : observeSnapshot(i, e, full)
  BY <1>9, ObservesSnapshot
<1>10. CASE \E full \in MayFill : resumeCapacity(i, full)
  BY <1>10, Resumes
<1>11. CASE restore(i)
  BY <1>11, Restores
<1>12. CASE changeCard(i)
  BY <1>12 DEF changeCard
<1> QED
  BY <1>1, <1>2, <1>3, <1>4, <1>5, <1>6, <1>7, <1>8, <1>9, <1>10, <1>11, <1>12 DEF Act

LEMMA InitHolds == Init => IInv
<1> SUFFICES ASSUME Init PROVE IInv
  OBVIOUS
<1>1. \A i \in Installations : rec[i] = Absent
  BY DEF Init
<1>2. Absent.head = NoEpoch /\ Absent.frozen = Thawed
  BY DEF Absent
<1>3. Functions /\ signed = {}
  BY DEF Init, Functions
<1> QED
  BY <1>1, <1>2, <1>3 DEF IInv, Checkpoints, SignedIsKept, NoneSigned

LEMMA StutterKeeps ==
    ASSUME IInv, UNCHANGED <<rec, signed, willing, signer>> PROVE IInv'
  BY DEF IInv, Functions, Checkpoints, SignedIsKept, NoneSigned

LEMMA NextKeeps == IInv /\ [Next]_vars => IInv'
<1> SUFFICES ASSUME IInv, [Next]_vars PROVE IInv'
  OBVIOUS
<1>1. CASE UNCHANGED vars
  BY <1>1, StutterKeeps DEF vars
<1>2. CASE Next
  <2>1. PICK i \in Installations : Act(i)
    BY <1>2 DEF Next
  <2> QED
    BY <2>1, ActSteps, StepKeeps, StutterKeeps
<1> QED
  BY <1>1, <1>2

LEMMA Invariance == Spec => []IInv
<1> QED
  BY InitHolds, NextKeeps, PTL DEF Spec

-----------------------------------------------------------------------------
(* What the invariant gives.                                                  *)

\* commit and close append to the chain they save: an installation never signs
\* two successors of one epoch.
THEOREM SignsOneChain == Spec => []OneSignerOneChain
<1>1. IInv => OneSignerOneChain
  <2> SUFFICES ASSUME IInv, NEW e \in signed, NEW f \in signed, Siblings(e, f),
                      signer[e] = signer[f]
               PROVE  FALSE
    BY DEF OneSignerOneChain
  <2> DEFINE h == rec[signer[e]].head
  <2>1. signer[e] \in Installations /\ e \in Chain(h) /\ f \in Chain(h)
    BY DEF IInv, SignedIsKept
  <2>2. IsEpoch(h)
    <3>1. h # NoEpoch
      BY <2>1, NoChain
    <3>2. Good(rec[signer[e]], willing[signer[e]])
      BY <2>1, <3>1, Known
    <3> QED
      BY <3>1, <3>2, HeadFacts, SoundFacts
  <2> QED
    BY <2>1, <2>2, ChainFacts DEF Siblings
<1> QED
  BY <1>1, Invariance, PTL

\* verifyGroupEpoch refuses an open epoch under the last number, so the creator
\* of an open group always has a number to close it with.
THEOREM RoomLeft == Spec => []RoomToClose
<1>1. IInv => RoomToClose
  <2> SUFFICES ASSUME IInv, NEW i \in Installations, rec[i].head # NoEpoch, ~Closed(rec[i].head)
               PROVE  VerifyEpoch(ClosedOf(rec[i].head))
    BY DEF RoomToClose
  <2> DEFINE h == rec[i].head
             e == ClosedOf(h)
  <2>1. Sound(h) /\ ~Closed(h)
    BY Known, HeadFacts
  <2> HIDE DEF h
  <2>2. Len(e) = Len(h) + 1 /\ Closed(e) /\ Members(e) = Members(h)
    BY <2>1, ClosedFacts
  <2>3. VerifyEpoch(h) /\ Len(h) \in Nat \ {0}
    BY <2>1, SoundFacts, EpochFacts
  <2>4. /\ Len(h) - 1 < MaxEpochs /\ Len(h) - 1 # MaxEpochs - 1
        /\ \E c \in Members(h) : c[1] = Creator
    BY <2>1, <2>3 DEF VerifyEpoch, Number
  <2>5. Number(e) < MaxEpochs /\ Number(e) # 0
    <3> DEFINE x == Len(e)  y == Len(h)
    <3>1. /\ x = y + 1 /\ y \in Nat \ {0} /\ y - 1 < MaxEpochs /\ y - 1 # MaxEpochs - 1
          /\ MaxEpochs \in Nat
      BY <2>2, <2>3, <2>4, RegistryAssumption
    <3> HIDE DEF x, y
    <3>2. x - 1 < MaxEpochs /\ x - 1 # 0
      BY <3>1
    <3> QED
      BY <3>2 DEF x, Number
  <2> HIDE DEF e
  <2>6. VerifyEpoch(e)
    BY <2>2, <2>4, <2>5 DEF VerifyEpoch
  <2> QED
    BY <2>6 DEF e, h
<1> QED
  BY <1>1, Invariance, PTL

\* applyOwnConsent admits by the consent last given, leave discards it, and
\* append ends the admission when a later epoch leaves the member out.
THEOREM ConsentedAdmission == Spec => []AdmissionIsConsented
<1>1. IInv => AdmissionIsConsented
  <2> SUFFICES ASSUME IInv, NEW i \in Installations, rec[i].admitted # None
               PROVE  /\ \/ rec[i].admitted.epoch = Genesis
                         \/ Joins(rec[i].admitted.epoch) \cap willing[i] # {}
                      /\ \A e \in Chain(rec[i].head) :
                           Len(e) >= Len(rec[i].admitted.epoch) =>
                             rec[i].admitted.card \in Members(e)
    BY DEF AdmissionIsConsented
  <2>1. Absent.admitted = None
    BY DEF Absent
  <2>2. Good(rec[i], willing[i])
    BY <2>1 DEF IInv, Checkpoints
  <2> QED
    BY <2>2 DEF Good, Consented
<1> QED
  BY <1>1, Invariance, PTL

\* append and observeSnapshot leave the evidence of a fork in place, and owner
\* refuses to sign when there is any: an installation that has seen a fork stays
\* stopped.
THEOREM ForkStops == Spec => StopsForGood
<1>1. ASSUME IInv, [Next]_vars, NEW i \in Installations, Forked(rec[i])
      PROVE  Forked(rec'[i]) /\ \A e \in signed' \ signed : signer'[e] # i
  <2>1. CASE UNCHANGED <<rec, signed, willing, signer>>
    BY <1>1, <2>1
  <2>2. CASE \E j \in Installations : \E s, w, E : Step(j, s, w, E)
    <3>0. PICK j \in Installations : \E s, w, E : Step(j, s, w, E)
      BY <2>2
    <3>1. PICK s, w, E : Step(j, s, w, E)
      BY <3>0
    <3>2. Extends(rec[i], rec'[i]) /\ signed' = signed \cup E
          /\ \A e \in E \ signed : signer'[e] = j
      BY <1>1, <3>1, StepFields DEF Step
    <3>3. E # {} => ~Forked(rec[j])
      BY <3>1 DEF Step
    <3> QED
      BY <1>1, <3>2, <3>3 DEF Extends
  <2>3. CASE UNCHANGED vars
    BY <2>1, <2>3 DEF vars
  <2>4. CASE Next
    <3>1. PICK j \in Installations : Act(j)
      BY <2>4 DEF Next
    <3> QED
      BY <1>1, <2>1, <2>2, <3>1, ActSteps
  <2> QED
    BY <1>1, <2>3, <2>4
<1>2. IInv /\ [Next]_vars =>
        [\A i \in Installations : Forked(rec[i]) =>
            Forked(rec'[i]) /\ \A e \in signed' \ signed : signer'[e] # i]_vars
  BY <1>1
<1> QED
  BY <1>2, Invariance, PTL DEF Spec, StopsForGood

-----------------------------------------------------------------------------
(* A fork is seen.                                                            *)

\* The header an installation knows under the number of an epoch of its chain.
LEMMA SameNumberIs ==
    ASSUME NEW r, NEW w, Good(r, w), ~Forked(r), NEW g \in Chain(r.head), NEW e,
           Len(e) = Len(g)
    PROVE  SameNumber(r, e) = g
<1>1. IsEpoch(r.head)
  <2>1. r.head # NoEpoch
    BY NoChain
  <2> QED
    BY <2>1, HeadFacts, SoundFacts
<1>2. /\ Len(g) \in 1..Len(r.head) /\ g = SubSeq(r.head, 1, Len(g))
      /\ Len(r.head) \in Nat
  BY <1>1, ChainFacts, EpochFacts
<1>3. CASE Frozen(r) /\ Len(r.frozen.observed) = Len(e)
  <2>1. \/ Len(r.frozen.observed) = Len(r.head) + 1
        \/ r.frozen.observed \in Chain(r.head)
    BY <1>3 DEF Good, Stop, Frozen, Forked
  <2>2. Len(r.frozen.observed) # Len(r.head) + 1
    <3> DEFINE x == Len(r.frozen.observed)  y == Len(r.head)  z == Len(g)
    <3>1. x = z /\ z \in 1..y /\ y \in Nat
      BY <1>2, <1>3
    <3> HIDE DEF x, y, z
    <3>2. x # y + 1
      BY <3>1
    <3> QED
      BY <3>2 DEF x, y
  <2>3. r.frozen.observed = g
    BY <1>1, <1>3, <2>1, <2>2, ChainFacts
  <2> QED
    BY <1>3, <2>3 DEF SameNumber
<1>4. CASE ~(Frozen(r) /\ Len(r.frozen.observed) = Len(e))
  <2>1. Len(e) <= Len(r.head)
    <3> DEFINE x == Len(e)  y == Len(r.head)
    <3>1. x \in 1..y /\ y \in Nat
      BY <1>2
    <3> HIDE DEF x, y
    <3>2. x <= y
      BY <3>1
    <3> QED
      BY <3>2 DEF x, y
  <2>2. SameNumber(r, e) = SubSeq(r.head, 1, Len(e))
    BY <1>4, <2>1 DEF SameNumber
  <2> QED
    BY <1>2, <2>2
<1> QED
  BY <1>3, <1>4

\* Two siblings share what comes before them.
LEMMA SiblingFacts ==
    ASSUME NEW e, NEW f, IsEpoch(e), IsEpoch(f), Siblings(e, f)
    PROVE  /\ Len(e) = Len(f) /\ e # f /\ (Number(f) # 0 => Front(f) \in Chain(e))
           /\ \A n \in 1..(Len(f) - 1) : SubSeq(f, 1, n) \in Chain(e)
<1>1. Len(e) = Len(f) /\ e # f /\ Front(e) = Front(f) /\ Len(e) \in Nat \ {0}
  BY EpochFacts DEF Siblings
<1>2. CASE Len(e) = 1
  BY <1>1, <1>2 DEF Number
<1>3. CASE Len(e) # 1
  <2> DEFINE m == Len(e) - 1
             h == SubSeq(e, 1, m)
  <2>1. m \in 1..Len(e) /\ m \in 1..Len(f) /\ m = Len(f) - 1
    BY <1>1, <1>3
  <2>2. h \in Chain(e) /\ SubSeq(f, 1, m) \in Chain(f)
    BY <2>1 DEF Chain
  <2>3. Front(e) = h /\ Front(f) = SubSeq(f, 1, m)
    BY <1>1 DEF Front
  <2>4. Len(h) = m
    BY <2>1, Prefix
  <2> HIDE DEF m, h
  <2>5. h \in Chain(e) /\ h \in Chain(f) /\ Front(f) = h
    BY <1>1, <2>2, <2>3
  <2>6. ASSUME NEW n \in 1..m PROVE SubSeq(f, 1, n) \in Chain(e)
    <3> DEFINE g == SubSeq(h, 1, n)
               k == SubSeq(f, 1, n)
    <3>1. g \in Chain(h)
      BY <2>4 DEF Chain
    <3>2. k \in Chain(f) /\ Len(k) = n
      <4>1. n \in 1..Len(f)
        BY <1>1, <2>1
      <4> QED
        BY <4>1, Prefix DEF Chain
    <3>3. Len(g) = n
      BY <2>4, <2>5, ChainFacts, Prefix
    <3> HIDE DEF g, k
    <3>4. g \in Chain(e) /\ g \in Chain(f)
      BY <2>5, <3>1, ChainFacts
    <3>5. g = k
      BY <3>2, <3>3, <3>4, ChainFacts
    <3> QED
      BY <3>4, <3>5 DEF k
  <2> QED
    BY <1>1, <2>1, <2>5, <2>6
<1> QED
  BY <1>2, <1>3

\* append passes over what is in the chain, and stops at a sibling of it.
LEMMA AppendPasses ==
    ASSUME NEW r, NEW w, Good(r, w), ~Forked(r), NEW g \in Chain(r.head), NEW full
    PROVE  AppendEpoch(r, g, full) = [go |-> TRUE, r |-> r]
<1>1. SameNumber(r, g) = g
  BY SameNumberIs
<1>2. g # NoEpoch
  BY HeadFacts, SoundFacts, EpochFacts
<1> QED
  BY <1>1, <1>2 DEF AppendEpoch

LEMMA AppendStops ==
    ASSUME NEW r, NEW w, Good(r, w), ~Forked(r), NEW e \in Chain(r.head), NEW f, IsEpoch(f),
           Siblings(e, f), NEW full
    PROVE  Forked(AppendEpoch(r, f, full).r)
<1>1. IsEpoch(r.head) /\ IsEpoch(e) /\ e # NoEpoch
  <2>1. r.head # NoEpoch
    BY NoChain
  <2> QED
    BY <2>1, HeadFacts, SoundFacts, EpochFacts
<1>2. SameNumber(r, f) = e /\ e # f
  BY <1>1, SiblingFacts, SameNumberIs
<1>3. KnowsParent(r, f)
  BY <1>1, SiblingFacts, ChainFacts DEF KnowsParent
<1> DEFINE s == [r EXCEPT !.frozen = [reason |-> "forked", first |-> e, second |-> f]]
<1>4. AppendEpoch(r, f, full).r = s
  BY <1>1, <1>2, <1>3 DEF AppendEpoch
<1>5. s.frozen = [reason |-> "forked", first |-> e, second |-> f]
  BY DEF Good, Checkpoint
<1> HIDE DEF s
<1> QED
  BY <1>4, <1>5 DEF Forked

LEMMA ShownForks ==
    ASSUME NEW r, NEW w, Good(r, w), NEW e \in Chain(r.head), NEW f, Sound(f),
           Siblings(e, f), NEW full \in BOOLEAN
    PROVE  Forked(Shown(r, f, 0, full))
<1>1. /\ IsEpoch(f) /\ Len(f) \in Nat \ {0} /\ IsEpoch(e) /\ IsEpoch(r.head)
      /\ 0 \in 0..(Len(f) - 1)
  <2>1. r.head # NoEpoch
    BY NoChain
  <2>2. Len(f) \in Nat \ {0}
    BY SoundFacts, EpochFacts
  <2> QED
    BY <2>1, <2>2, HeadFacts, SoundFacts
<1>2. CASE Forked(r)
  BY <1>1, <1>2, ShownGood DEF Extends
<1>3. CASE ~Forked(r)
  <2>1. PICK a : After(r, f, 0, full, a) /\ Shown(r, f, 0, full) = a[Len(f)].r
    BY <1>1, ShownIsLast
  <2> DEFINE start == [go |-> TRUE, r |-> r]
             T == {n \in Nat : n >= Len(f) \/ a[n] = start}
  <2>2. start.go = TRUE /\ start.r = r
    OBVIOUS
  <2>3. \A n \in 1..Len(f) : a[n] = IF a[n - 1].go THEN AppendEpoch(a[n - 1].r, SubSeq(f, 1, n), full)
                                   ELSE a[n - 1]
    BY <1>1, <2>1 DEF After
  <2>4. 0 \in T
    BY <1>1, <2>1 DEF After
  <2> HIDE DEF start
  <2>5. ASSUME NEW n \in Nat, n >= 0, n \in T PROVE n + 1 \in T
    <3>1. CASE n + 1 >= Len(f)
      BY <3>1
    <3>2. CASE n + 1 < Len(f)
      <4>1. n + 1 \in 1..Len(f) /\ n + 1 \in 1..(Len(f) - 1) /\ n + 1 - 1 = n /\ ~(n >= Len(f))
        BY <1>1, <3>2
      <4>2. a[n] = start
        BY <2>5, <4>1
      <4> DEFINE g == SubSeq(f, 1, n + 1)
      <4>3. a[n + 1] = AppendEpoch(r, g, full)
        BY <2>2, <2>3, <4>1, <4>2
      <4>4. g \in Chain(e)
        BY <1>1, <4>1, SiblingFacts
      <4> HIDE DEF g
      <4>5. g \in Chain(r.head)
        BY <1>1, <4>4, ChainFacts
      <4>6. a[n + 1] = start
        BY <1>3, <4>3, <4>5, AppendPasses DEF start
      <4> QED
        BY <4>6
    <3> QED
      BY <1>1, <3>1, <3>2
  <2> DEFINE m == Len(f) - 1
  <2>6. m \in Nat /\ m >= 0 /\ ~(m >= Len(f)) /\ m + 1 = Len(f) /\ Len(f) \in 1..Len(f)
    BY <1>1
  <2>7. m \in T
    <3> HIDE DEF T, m
    <3> QED
      BY <2>4, <2>5, <2>6, Induction
  <2>8. a[m] = start
    BY <2>6, <2>7
  <2>9. a[Len(f)] = AppendEpoch(r, SubSeq(f, 1, Len(f)), full)
    BY <2>2, <2>3, <2>6, <2>8
  <2>10. SubSeq(f, 1, Len(f)) = f
    BY <1>1, ChainFacts
  <2>11. a[Len(f)] = AppendEpoch(r, f, full)
    <3> DEFINE g == SubSeq(f, 1, Len(f))
    <3>1. a[Len(f)] = AppendEpoch(r, g, full) /\ g = f
      BY <2>9, <2>10
    <3> HIDE DEF g
    <3> QED
      BY <3>1
  <2> QED
    BY <1>1, <1>3, <2>1, <2>11, AppendStops
<1> QED
  BY <1>2, <1>3

\* append compares an epoch with the header known under its number, stored or
\* suspended: the other branch of a fork stops whoever is shown it.
THEOREM ForkSeen == Spec => []ForksAreSeen
<1>1. IInv => ForksAreSeen
  <2> SUFFICES ASSUME IInv, NEW i \in Installations, NEW e \in Chain(rec[i].head),
                      NEW f \in signed, Siblings(e, f), NEW full \in MayFill
               PROVE  Forked(Shown(rec[i], f, 0, full))
    BY DEF ForksAreSeen
  <2>1. rec[i].known
    BY Known, NoChain
  <2>2. Good(rec[i], willing[i]) /\ Sound(f) /\ full \in BOOLEAN
    BY <2>1, Known, RegistryAssumption DEF IInv, SignedIsKept
  <2> QED
    BY <2>2, ShownForks
<1> QED
  BY <1>1, Invariance, PTL

=============================================================================
