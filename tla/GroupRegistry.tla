--------------------------- MODULE GroupRegistry ---------------------------
(***************************************************************************)
(* The authority of one group (packages/groups/src/registry.ts, class      *)
(* GroupRegistry, over the certificates of certificate-protocol.ts): the   *)
(* creator signs a chain of epochs, members consent to join and may leave, *)
(* and every installation keeps a checkpoint of what it has verified.      *)
(*                                                                         *)
(* Certificates travel in any order, any number of times, or never: what   *)
(* was signed stays in a set from which installations observe.  The same   *)
(* identity can run in two installations, after a backup is restored; that *)
(* is how a chain forks.  Every operation is one transaction of the store  *)
(* (module Profile), so a crash leaves a checkpoint as it was before or    *)
(* after an action.                                                        *)
(***************************************************************************)
EXTENDS Naturals, Sequences, FiniteSets, SequencesExt

CONSTANTS
    Installations,  \* installations of the program
    Identity,       \* [Installations -> identities]
    Creator,        \* the identity the anchor of the group names
    Twin,           \* installation a backup is restored to, or None
    MaxEpochs,      \* GROUP_LIMITS.epochs, 1024 in the code
    MaxNonces,      \* bound of the model on the certificates of each kind
    MaxCards,       \* bounds of the model on the cards of each installation
    MayFill,        \* whether ordinary data may be refused for capacity
    None

ASSUME RegistryAssumption ==
    /\ Installations \subseteq DOMAIN Identity
    /\ Creator \in {Identity[i] : i \in Installations}
    /\ Twin = None \/ (Twin \in Installations /\ Identity[Twin] = Creator)
    /\ MaxEpochs \in Nat \ {0, 1} /\ MaxNonces \in Nat
    /\ \A i \in Installations : MaxCards[i] \in Nat \ {0}
    /\ MayFill \subseteq BOOLEAN /\ FALSE \in MayFill

VARIABLES
    rec,        \* [Installations -> checkpoint], what the registry keeps
    card,       \* [Installations -> version of the card it runs with]
    signed,     \* epochs signed with the creator's key
    invited,    \* invitations signed by the creator
    agreed,     \* consents signed by members
    willing,    \* consents given since the last departure, for the properties
    signer      \* [epoch -> installation that signed it], for the properties

vars == <<rec, card, signed, invited, agreed, willing, signer>>

(***************************************************************************)
(* Certificates.  An epoch is the sequence of the bodies of its chain: its *)
(* identifier covers its predecessor's, so two epochs are the same exactly *)
(* when their chains are.  A body lists the cards of the members and the   *)
(* consents in the private state that the header commits to; its salt      *)
(* makes the states of two installations differ.  The empty sequence stands *)
(* for no epoch.                                                           *)
(***************************************************************************)
Number(e) == Len(e) - 1
Closed(e) == Last(e).state = "closed"
Members(e) == Last(e).members
Joins(e) == Last(e).joins
NoEpoch == <<>>
Chain(e) == {SubSeq(e, 1, n) : n \in 1..Len(e)}

\* memberCardHash of the card an installation runs with.
Card(i) == <<Identity[i], card[i]>>

Genesis == << [state |-> "open", members |-> {<<Creator, 1>>}, joins |-> {}, salt |-> None] >>

\* The private state of a closed epoch is its predecessor's.
StateOf(e) == IF Closed(e) THEN Front(e) ELSE e

\* mutant: the last number may be taken by an open epoch
VerifyEpoch_NoReserve(e) ==
    /\ Number(e) < MaxEpochs
    /\ \E c \in Members(e) : c[1] = Creator
    /\ Number(e) = 0 => e = Genesis
\* verifyGroupEpoch: an open epoch never takes the last number.
VerifyEpoch(e) ==
    /\ Number(e) < MaxEpochs /\ (Number(e) = MaxEpochs - 1 => Closed(e))
    /\ \E c \in Members(e) : c[1] = Creator
    /\ Number(e) = 0 => e = Genesis

\* verifyGroupEpochLink.
VerifyLink(parent, e) ==
    /\ ~Closed(parent) /\ Len(e) = Len(parent) + 1 /\ Front(e) = parent
    /\ Closed(e) => Last(e) = [Last(parent) EXCEPT !.state = "closed"]

\* verifyGroupSnapshotTransition: exactly the consents of the new cards, each
\* given for the parent epoch.
VerifyTransition(parent, e) ==
    /\ VerifyLink(parent, e)
    /\ ~Closed(e) =>
         LET changed == Members(e) \ Members(parent)
         IN  /\ Cardinality(Joins(e)) = Cardinality(changed)
             /\ \A c \in changed : \E k \in Joins(e) : k.card = c /\ k.parent = parent

\* createGroupSuccessor and makeSnapshot: one card of an identity, the creator
\* among them.
Successors(parent, by) ==
    LET bodies(K) == {[state |-> "open", members |-> M, joins |-> K, salt |-> by] :
                        M \in {N \in SUBSET (Members(parent) \cup {k.card : k \in K}) :
                                 \A x, y \in N : x[1] = y[1] => x = y}}
    IN  {e \in {Append(parent, b) : b \in UNION {bodies(K) : K \in SUBSET agreed}} :
            VerifyEpoch(e) /\ VerifyTransition(parent, e)}

\* createGroupInvitation and acceptGroupInvitation: a card is invited to join
\* after one epoch, and agrees to that.
Invitation(parent, c, n) == [parent |-> parent, card |-> c, nonce |-> n]
Consent(v, n) == [parent |-> v.parent, card |-> v.card, invitation |-> v.nonce, nonce |-> n]

\* createGroupLeave: only a member of an open group can ask to be taken out.
Departure(r, c) ==
    LET request == r.head # NoEpoch /\ ~Closed(r.head) /\ c \in Members(r.head)
    IN  [epoch |-> r.head, request |-> request, card |-> IF request THEN c ELSE None]

\* closeAnchoredGroup.
ClosedOf(parent) == Append(parent, [Last(parent) EXCEPT !.state = "closed"])

(***************************************************************************)
(* The checkpoint                                                          *)
(***************************************************************************)
\* empty: the group is known by its anchor.  "states" are the private states
\* stored; the headers stored are the chain of "head".
Thawed == [reason |-> "none"]
Absent == [known |-> FALSE, head |-> NoEpoch, everJoined |-> FALSE, admitted |-> None,
           checked |-> None, invitation |-> None, consent |-> None, left |-> None,
           frozen |-> Thawed, states |-> {}]
Empty == [Absent EXCEPT !.known = TRUE]

Frozen(r) == r.frozen # Thawed
Forked(r) == r.frozen.reason = "forked"
HasState(r, e) == StateOf(e) \in r.states

\* verifyGroupInvitation, verifyGroupConsent and verifyGroupLeave.
VerifyInvitation(i, v) == v.card[1] = Identity[i] /\ ~Closed(v.parent)
VerifyConsent(v, k) == /\ v # None /\ k.invitation = v.nonce
                       /\ k.parent = v.parent /\ k.card = v.card
VerifyLeave(i, r, l) ==
    /\ l.epoch \in Chain(r.head) /\ ~Closed(l.epoch)
    /\ l.card \in Members(l.epoch) /\ l.card[1] = Identity[i]

\* readRecord: what must hold of a checkpoint for it to be read back; otherwise
\* the store is poisoned.
ReadRecord(i, r) ==
    /\ r.known
    /\ r.head # NoEpoch =>
         /\ VerifyEpoch(r.head)
         /\ Closed(r.head) => VerifyLink(Front(r.head), r.head)
    /\ IF r.admitted = None THEN r.checked = None
       ELSE /\ r.everJoined /\ r.head # NoEpoch
            /\ r.checked \in 0..Number(r.head)
            /\ LET e == SubSeq(r.head, 1, r.checked + 1)
               IN  r.admitted.card \in Members(e) /\ r.admitted.card[1] = Identity[i]
                   /\ HasState(r, e)
                   /\ (Number(e) > 0 => VerifyTransition(Front(e), e))
    /\ r.invitation # None => VerifyInvitation(i, r.invitation)
    /\ r.consent # None => VerifyConsent(r.invitation, r.consent)
    /\ r.left # None => r.admitted = None /\ (r.left.request => VerifyLeave(i, r, r.left))
    /\ Frozen(r) =>
         CASE r.frozen.reason = "forked" ->
                r.frozen.first # r.frozen.second /\ Front(r.frozen.first) = Front(r.frozen.second)
           [] r.frozen.reason = "header" -> r.head # NoEpoch /\ VerifyLink(r.head, r.frozen.observed)
           [] OTHER -> r.frozen.observed \in Chain(r.head)

\* view: the status a user and the other components see.
Status(i) ==
    LET r == rec[i]
    IN  IF Frozen(r) THEN (IF Forked(r) THEN "forked" ELSE "capacity")
        ELSE IF r.head # NoEpoch /\ Closed(r.head) THEN "closed"
        ELSE IF r.left # None THEN "left"
        ELSE IF r.head = NoEpoch THEN "awaiting-proof"
        ELSE IF r.admitted = None
             THEN (IF r.consent # None \/ ~r.everJoined THEN "joining" ELSE "removed")
        ELSE IF r.admitted.card # Card(i) THEN "card-changed"
        ELSE IF r.checked = Number(r.head) /\ HasState(r, r.head) THEN "active"
        ELSE "awaiting-snapshot"

(***************************************************************************)
(* Epochs observed                                                         *)
(***************************************************************************)
\* mutant: only the head is compared
SameNumber_HeadOnly(r, e) ==
    IF Len(e) > Len(r.head) THEN NoEpoch
    ELSE IF Len(e) = Len(r.head) THEN r.head ELSE e
\* The header stored, or suspended for capacity, under the number of an epoch.
SameNumber(r, e) ==
    IF Frozen(r) /\ ~Forked(r) /\ Len(r.frozen.observed) = Len(e) THEN r.frozen.observed
    ELSE IF Len(e) <= Len(r.head) THEN SubSeq(r.head, 1, Len(e))
    ELSE NoEpoch
KnowsParent(r, e) == Number(e) = 0 \/ Front(e) \in Chain(r.head)

\* append: whether the page goes on, and the checkpoint after it.  An epoch with
\* the number of another one is a fork when both succeed the same parent.  A
\* closed header is part of the checkpoint and needs no ordinary storage.
AppendEpoch(r, e, full) ==
    LET same == SameNumber(r, e)
        stop(c) == [go |-> FALSE, r |-> c]
    IN  IF Forked(r) THEN stop(r)
        ELSE IF same # NoEpoch
             THEN IF same = e THEN [go |-> TRUE, r |-> r]
                  ELSE IF ~KnowsParent(r, e) THEN stop(r)
                  ELSE stop([r EXCEPT !.frozen =
                               [reason |-> "forked", first |-> same, second |-> e]])
        ELSE IF Frozen(r) THEN stop(r)
        ELSE IF ~(IF r.head = NoEpoch THEN Number(e) = 0 ELSE VerifyLink(r.head, e)) THEN stop(r)
        ELSE IF full /\ ~Closed(e) /\ r.head # NoEpoch
             THEN stop([r EXCEPT !.frozen = [reason |-> "header", observed |-> e]])
        ELSE LET stays == r.admitted # None /\ r.admitted.card \in Members(e)
             IN  [go |-> TRUE,
                  r |-> [r EXCEPT !.head = e,
                                  !.admitted = IF stays THEN r.admitted ELSE None,
                                  !.checked = IF stays THEN r.checked ELSE None]]

\* applyOwnConsent: the local member joins when the state of an epoch holds the
\* consent it last gave and no later epoch has removed it.
Answers(r, e) == r.consent # None /\ r.consent \in Joins(e)
ConsentMatches(i, r, e) ==
    Answers(r, e) => Card(i) \in Members(e) /\ ~Closed(e) /\ r.consent.card = Card(i)
ApplyOwnConsent(i, r, e) ==
    IF Answers(r, e) /\ \A f \in Chain(r.head) : Len(f) >= Len(e) => Card(i) \in Members(f)
    THEN [r EXCEPT !.admitted = [card |-> Card(i), epoch |-> e], !.checked = Number(e),
                   !.everJoined = TRUE, !.left = None, !.invitation = None, !.consent = None]
    ELSE r

\* advanceChecked: as far as the private states go without a gap.
AdvanceChecked(r) ==
    IF r.admitted = None THEN r
    ELSE LET through(n) == \A m \in r.checked + 1..n : HasState(r, SubSeq(r.head, 1, m + 1))
         IN  [r EXCEPT !.checked = CHOOSE n \in r.checked..Number(r.head) :
                /\ through(n)
                /\ n < Number(r.head) => ~through(n + 1)]

(***************************************************************************)
(* Operations                                                              *)
(***************************************************************************)
Reads(i) == ReadRecord(i, rec[i])
Save(i, r) == rec' = [rec EXCEPT ![i] = r]
Sign(i, e) == /\ signed' = signed \cup {e}
              /\ signer' = [x \in DOMAIN signer \cup {e} |->
                              IF x \in DOMAIN signer THEN signer[x] ELSE i]

create(i) ==
    /\ Identity[i] = Creator /\ i # Twin /\ signed = {}
    /\ Save(i, [Empty EXCEPT !.head = Genesis, !.everJoined = TRUE, !.checked = 0,
                             !.admitted = [card |-> Card(i), epoch |-> Genesis],
                             !.states = {Genesis}])
    /\ card[i] = 1 /\ Sign(i, Genesis)
    /\ UNCHANGED <<card, invited, agreed, willing>>

\* owner: the creator acts on the epoch it believes current.
Owner(i) == /\ Reads(i) /\ Identity[i] = Creator /\ ~Frozen(rec[i])
            /\ rec[i].head # NoEpoch /\ ~Closed(rec[i].head)
Checked(i) == rec[i].checked = Number(rec[i].head)

\* invite, of a card that is not in the epoch.
invite(i, c) ==
    /\ Owner(i) /\ Checked(i) /\ c \notin Members(rec[i].head)
    /\ \E n \in 1..MaxNonces :
         LET v == Invitation(rec[i].head, c, n)
         IN  v \notin invited /\ invited' = invited \cup {v}
    /\ UNCHANGED <<rec, card, signed, agreed, willing, signer>>

\* rememberInvitation: a newer invitation replaces the consent to an older one.
rememberInvitation(i, v) ==
    LET r == IF rec[i].known THEN rec[i] ELSE Empty
    IN  /\ v.card = Card(i) /\ ReadRecord(i, r)
        /\ ~Frozen(r) /\ ~(r.head # NoEpoch /\ Closed(r.head))
        /\ Save(i, [r EXCEPT !.invitation = v, !.consent = None])
        /\ UNCHANGED <<card, signed, invited, agreed, willing, signer>>

accept(i) ==
    LET r == rec[i]
    IN  /\ Reads(i) /\ ~Frozen(r) /\ r.head # NoEpoch /\ ~Closed(r.head)
        /\ r.invitation # None /\ r.invitation.parent = r.head /\ r.invitation.card = Card(i)
        /\ Card(i) \notin Members(r.head)
        /\ \E n \in 1..MaxNonces :
             LET k == Consent(r.invitation, n)
             IN  /\ k \notin agreed /\ agreed' = agreed \cup {k}
                 /\ willing' = [willing EXCEPT ![i] = @ \cup {k}]
                 /\ Save(i, [r EXCEPT !.consent = k])
        /\ UNCHANGED <<card, signed, invited, signer>>

\* mutant: the epoch is published although the checkpoint was not saved
commit_Unsaved(i, e) ==
    /\ Owner(i) /\ Checked(i) /\ HasState(rec[i], rec[i].head)
    /\ Sign(i, e) /\ UNCHANGED <<rec, card, invited, agreed, willing>>
\* commit: a successor whose header does not fit is not published.
commit(i, e) ==
    LET r == rec[i]
        next == AppendEpoch(r, e, FALSE).r
        kept == [next EXCEPT !.states = @ \cup {e}]
    IN  /\ Owner(i) /\ Checked(i) /\ HasState(r, r.head)
        /\ ConsentMatches(i, kept, e)
        /\ Save(i, AdvanceChecked(ApplyOwnConsent(i, kept, e)))
        /\ Sign(i, e)
        /\ UNCHANGED <<card, invited, agreed, willing>>

\* close: allowed before every private state is checked, and with storage full.
close(i) ==
    LET e == ClosedOf(rec[i].head)
    IN  /\ Owner(i) /\ VerifyEpoch(e)
        /\ Save(i, AdvanceChecked(AppendEpoch(rec[i], e, FALSE).r))
        /\ Sign(i, e)
        /\ UNCHANGED <<card, invited, agreed, willing>>

\* mutant: the consent under way survives the departure
leave_KeepsConsent(i) ==
    LET r == rec[i]
    IN  /\ Reads(i) /\ Identity[i] # Creator
        /\ Save(i, [r EXCEPT !.left = IF r.left = None THEN Departure(r, Card(i)) ELSE r.left,
                             !.admitted = None, !.checked = None])
        /\ willing' = [willing EXCEPT ![i] = {}]
        /\ UNCHANGED <<card, signed, invited, agreed, signer>>
\* leave: takes effect locally at once; the signed request asks the creator for
\* a successor without the member.
leave(i) ==
    LET r == rec[i]
    IN  /\ Reads(i) /\ Identity[i] # Creator
        /\ Save(i, [r EXCEPT !.left = IF r.left = None THEN Departure(r, Card(i)) ELSE r.left,
                             !.admitted = None, !.checked = None,
                             !.invitation = None, !.consent = None])
        /\ willing' = [willing EXCEPT ![i] = {}]
        /\ UNCHANGED <<card, signed, invited, agreed, signer>>

\* observeHeaders: a page of the chain of e from a number on.  What was appended
\* before an entry that is refused, or cannot be verified, is kept.
Shown(r, e, from, full) ==
    LET after[n \in from..Len(e)] ==
          IF n = from THEN [go |-> TRUE, r |-> r]
          ELSE IF after[n - 1].go THEN AppendEpoch(after[n - 1].r, SubSeq(e, 1, n), full)
          ELSE after[n - 1]
    IN  after[Len(e)].r
observeHeaders(i, e, from, full) ==
    /\ Reads(i) /\ Save(i, Shown(rec[i], e, from, full))
    /\ UNCHANGED <<card, signed, invited, agreed, willing, signer>>

\* observeSnapshot: also the way out of a suspension for want of room for it.
observeSnapshot(i, e, full) ==
    LET r == rec[i]
        kept == [r EXCEPT !.states = @ \cup {StateOf(e)}, !.frozen = Thawed]
    IN  /\ Reads(i) /\ e \in Chain(r.head)
        /\ Frozen(r) => r.frozen.reason = "snapshot" /\ r.frozen.observed = e
        /\ Card(i) \in Members(e) /\ (r.admitted # None \/ r.consent # None)
        /\ IF full /\ ~HasState(r, e)
           THEN Save(i, [r EXCEPT !.frozen = [reason |-> "snapshot", observed |-> e]])
           ELSE /\ ConsentMatches(i, kept, e)
                /\ Save(i, AdvanceChecked(ApplyOwnConsent(i, kept, e)))
        /\ UNCHANGED <<card, signed, invited, agreed, willing, signer>>

\* resumeCapacity, of a suspension for want of room for a header.
resumeCapacity(i, full) ==
    LET r == rec[i]
    IN  /\ Reads(i) /\ r.frozen.reason = "header"
        /\ Save(i, AppendEpoch([r EXCEPT !.frozen = Thawed], r.frozen.observed, full).r)
        /\ UNCHANGED <<card, signed, invited, agreed, willing, signer>>

(***************************************************************************)
(* Around the registry                                                     *)
(***************************************************************************)
\* A backup of the creator's profile is restored elsewhere: its checkpoint is a
\* past one, and nothing in it says so.
restore(i) ==
    /\ Twin # None /\ i # Twin /\ Identity[i] = Creator
    /\ rec[i].known /\ ~rec[Twin].known
    /\ Save(Twin, rec[i]) /\ card' = [card EXCEPT ![Twin] = card[i]]
    /\ willing' = [willing EXCEPT ![Twin] = willing[i]]
    /\ UNCHANGED <<signed, invited, agreed, signer>>

\* The registry is opened again with another card of the same identity.
changeCard(i) ==
    /\ card[i] < MaxCards[i] /\ (i = Twin => rec[i].known)
    /\ card' = [card EXCEPT ![i] = @ + 1]
    /\ UNCHANGED <<rec, signed, invited, agreed, willing, signer>>

Init ==
    /\ rec = [i \in Installations |-> Absent] /\ card = [i \in Installations |-> 1]
    /\ signed = {} /\ invited = {} /\ agreed = {}
    /\ willing = [i \in Installations |-> {}] /\ signer = [e \in {} |-> None]

Cards == {<<Identity[i], card[i]>> : i \in Installations}
Act(i) ==
    \/ create(i)
    \/ \E c \in Cards : invite(i, c)
    \/ \E v \in invited : rememberInvitation(i, v)
    \/ accept(i)
    \/ /\ rec[i].head # NoEpoch /\ ~Closed(rec[i].head)
       /\ \/ \E e \in Successors(rec[i].head, i) : commit(i, e)
          \/ close(i)
    \/ leave(i)
    \/ \E full \in MayFill :
         \/ \E e \in signed : \E from \in 0..Len(e) - 1 : observeHeaders(i, e, from, full)
         \/ \E e \in signed : observeSnapshot(i, e, full)
         \/ resumeCapacity(i, full)
    \/ restore(i)
    \/ changeCard(i)
Next == \E i \in Installations : Act(i)

Spec == Init /\ [][Next]_vars

(***************************************************************************)
(* Properties                                                              *)
(***************************************************************************)
\* Whatever operations, certificates and capacity failures come in whatever
\* order, the checkpoint a transaction leaves passes the checks readRecord makes
\* of it: a checkpoint that does not poisons the store for good.
CheckpointsRead == \A i \in Installations : rec[i].known => Reads(i)

\* A member takes part only on the strength of a consent it gave after it last
\* left, and its card is in every epoch from the one that admitted it to the
\* head: a stale consent or snapshot never brings a member back.
AdmissionIsConsented ==
    \A i \in Installations :
        LET r == rec[i]
        IN  r.admitted # None =>
              /\ r.admitted.epoch = Genesis \/ Joins(r.admitted.epoch) \cap willing[i] # {}
              /\ \A e \in Chain(r.head) :
                   Len(e) >= Len(r.admitted.epoch) => r.admitted.card \in Members(e)

\* One installation never signs two successors of an epoch, whatever fails
\* between signing one and remembering it: a fork takes a second installation.
Siblings(e, f) == e # f /\ Len(e) = Len(f) /\ Front(e) = Front(f)
OneSignerOneChain ==
    \A e, f \in signed : Siblings(e, f) => signer[e] # signer[f]

\* The creator of an open group can still close it: the last number is kept for
\* that, on every branch and in every installation.
RoomToClose ==
    \A i \in Installations :
        rec[i].head # NoEpoch /\ ~Closed(rec[i].head) => VerifyEpoch(ClosedOf(rec[i].head))

\* An installation on one branch of a forked chain, at its head or below, before
\* or after it closed, with room in its storage or without, stops when it is
\* shown the other branch.
ForksAreSeen ==
    \A i \in Installations : \A e \in Chain(rec[i].head), f \in signed :
        Siblings(e, f) => \A full \in MayFill : Forked(Shown(rec[i], f, 0, full))

\* ... and stays stopped: nothing it does or observes later lets it act again.
StopsForGood ==
    [][\A i \in Installations : Forked(rec[i]) =>
          Forked(rec'[i]) /\ \A e \in signed' \ signed : signer'[e] # i]_vars
=============================================================================
