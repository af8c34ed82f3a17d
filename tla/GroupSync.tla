----------------------------- MODULE GroupSync ------------------------------
(***************************************************************************)
(* How the nodes of a group learn of each other's changes: the sealed      *)
(* carriers of headers and private states (packages/groups/src/carriers.ts,*)
(* apps/node/src/group-sync.ts) and the notices of invitations, consents   *)
(* and departures (packages/groups/src/notices.ts,                         *)
(* apps/node/src/group-notice-sync.ts).                                    *)
(*                                                                         *)
(* The creator signs the epochs of "Chain" one after the other.  The       *)
(* registry of each node is what GroupRegistry makes it, with epochs as    *)
(* numbers: there is one chain here, forks are that module's.  "net" has   *)
(* what is on its way to one reader, in any order; a carrier is lost when  *)
(* quotas, expiry or the network drop it, and comes again when its author  *)
(* publishes it again.  A reader takes a sealed carrier once ("seen"); the *)
(* same content is taken again under a new seal, an hour later at most.    *)
(* An output that a cooldown or the budget of the minute holds back is an  *)
(* output not made yet.                                                    *)
(***************************************************************************)
EXTENDS GroupChain, FiniteSets

CONSTANTS
    Relays,         \* nodes that relay what others wrote
    Blocks,         \* sets of pairs <<n, m>>: n blocks m
    MaxNet,         \* carriers on their way at a time
    Leavers,        \* members whose users leave the group
    MaxDeferred,    \* deferred, 128 in the code
    MaxInbox        \* NOTICE_LIMITS.inbox, 64 in the code

ASSUME SyncAssumption == MaxNet \in Nat \ {0}

VARIABLES
    outbox,     \* invitations the creator has still to deliver
    inbox,      \* notices received and not yet dismissed, by node
    blocked,    \* who blocks whom
    net,        \* carriers on their way, each to the reader in "to"
    deferred    \* private states a node could not take yet

vars == <<rec, outbox, inbox, blocked, net, deferred>>

\* The private state of a closed epoch is its predecessor's.
StateOf(k) == IF Chain[k].closed THEN k - 1 ELSE k

(***************************************************************************)
(* The registry of a node: the epochs it has headers of are 1..head.       *)
(***************************************************************************)
Status(r) ==
    IF r.head # 0 /\ Chain[r.head].closed THEN "closed"
    ELSE IF r.left THEN "left"
    ELSE IF r.head = 0 THEN "awaiting-proof"
    ELSE IF r.admitted = 0 THEN (IF r.consent # 0 \/ ~r.joined THEN "joining" ELSE "removed")
    ELSE IF r.checked = r.head /\ StateOf(r.head) \in r.states THEN "active"
    ELSE "awaiting-snapshot"

\* observeHeaders, of the headers first..last.
Learn(n, r, first, last) ==
    LET top == IF first <= r.head + 1 /\ last > r.head THEN last ELSE r.head
        out == \E k \in r.head + 1..top : n \notin M(k)
    IN  IF ~r.known THEN r
        ELSE [r EXCEPT !.head = top, !.admitted = IF out THEN 0 ELSE @,
                       !.checked = IF out THEN 0 ELSE @]

\* A private state that is part of the checked history is not looked at again.
AlreadyApplied(r, k) ==
    Status(r) = "active" /\ k <= r.checked /\ StateOf(k) \in r.states

\* observeSnapshot, of the private state of epoch k.
Takes(n, r, k) == r.known /\ k <= r.head /\ n \in M(k) /\ (r.admitted # 0 \/ r.consent # 0)
Adopt(n, r, k) ==
    LET joins == /\ r.consent # 0 /\ k = r.consent + 1
                 /\ \A j \in k..r.head : n \in M(j)
        kept == [r EXCEPT !.states = @ \cup {StateOf(k)}]
        own == IF joins THEN [kept EXCEPT !.admitted = k, !.checked = k, !.joined = TRUE,
                                          !.left = FALSE, !.invited = 0, !.consent = 0]
               ELSE kept
        through(j) == \A i \in own.checked + 1..j : StateOf(i) \in own.states
    IN  IF own.admitted = 0 THEN own
        ELSE [own EXCEPT !.checked = Max({j \in own.checked..own.head : through(j)})]

\* What a node makes of a private state that comes, or comes again: its header
\* applies in any case; a state that cannot be taken yet is kept for later.
Observed(n, r, k) ==
    LET s == Learn(n, r, k, k)
    IN  IF ~AlreadyApplied(r, k) /\ Takes(n, s, k) THEN Adopt(n, s, k) ELSE s
Waits(n, r, k) == r.known /\ ~AlreadyApplied(r, k) /\ ~Takes(n, Learn(n, r, k, k), k)

(***************************************************************************)
(* Carriers                                                                *)
(***************************************************************************)
\* mutant: an old membership shows the chain to its end
Boundary_Open(r, n, auth) == r.head
\* requestedHeaders: an answer ends with the epoch that removed the requester, or
\* closed the group.
Boundary(r, n, auth) ==
    LET stops == {k \in auth..r.head : Chain[k].closed \/ n \notin M(k)}
    IN  IF stops = {} THEN r.head ELSE Min(stops)
requestedHeaders(r, by, q) ==
    LET end == IF q.invited THEN Min({q.auth + 1, r.head}) ELSE Boundary(r, q.by, q.auth)
    IN  [kind |-> "headers", by |-> by, to |-> q.by, first |-> q.from,
         last |-> proofs(q.from, end), end |-> end]
\* An invitation is for somebody who is not in the epoch it was written in.
Authorized(r, q) == q.auth \in 1..r.head /\ (q.invited \/ q.by \in M(q.auth))

snapshotMaterial(by, k, to) == [kind |-> "snapshot", by |-> by, to |-> to, epoch |-> k]
\* requestedSnapshot.
Provides(n, r, k, to) == k \in 1..r.head /\ {n, to} \subseteq M(k) /\ StateOf(k) \in r.states

\* sealGroupControl, snapshotPreview and sealGroupNotice: a broadcast is read by
\* the members of its epoch, anything else by the one it is addressed to.
Broadcast(n, k) == {snapshotMaterial(n, k, x) : x \in M(k) \ {n}}
\* output: what does not fit in the budget is not sent.
output(s, new) == IF Cardinality(s) < MaxNet THEN s \cup new ELSE s
\* retain, of what a change of one's own calls for: it may replace older carriers,
\* and what does not fit in the quota is not sent.
retain(s, new) == {t \in SUBSET (s \cup new) : Cardinality(t) <= MaxNet}

(***************************************************************************)
(* What a node does on its own                                             *)
(***************************************************************************)
\* The epoch a request is authorised by: the invitation's, or the last one the
\* node was a member of.
Authorization(n, r) ==
    IF r.invited # 0 THEN r.invited
    ELSE LET mine == {k \in 1..r.head : n \in M(k)}
         IN  IF mine = {} THEN 0 ELSE Max(mine)

\* mutant: the state that would admit the node is not asked for
Wanted_Admitted(n, r) ==
    LET k == IF r.admitted # 0 /\ Status(r) # "closed" /\ r.checked < r.head
             THEN r.checked + 1 ELSE 0
    IN  IF k \in 1..r.head /\ n \in M(k) THEN k ELSE 0
\* The private state a node lacks most.
Wanted(n, r) ==
    LET k == IF r.consent # 0 /\ r.admitted = 0 THEN r.consent + 1
             ELSE IF r.admitted # 0 /\ Status(r) # "closed" /\ r.checked < r.head
                  THEN r.checked + 1
             ELSE IF r.head # 0 /\ StateOf(r.head) \notin r.states THEN r.head ELSE 0
    IN  IF k \in 1..r.head /\ n \in M(k) THEN k ELSE 0

\* tick of GroupSynchronizer: the nodes it may ask (those that sent it a private
\* state before are left out) ...
Providers(n, r) ==
    {p \in Nodes \ {n} :
        /\ <<n, p>> \notin blocked
        /\ p = Creator \/ p \in M(Authorization(n, r))}
\* ... and what it publishes: the private state of the head, the creator also
\* those before ...
Shares(n, r, k) == /\ n \in M(k) /\ StateOf(k) \in r.states
                   /\ Status(r) \in {"active", "closed"}
                   /\ \A x \in M(k) : <<n, x>> \notin blocked
                   /\ n = Creator \/ (n \in Relays /\ k = r.head)
Shared(n, r) == UNION {Broadcast(n, k) : k \in {k \in 1..r.head : Shares(n, r, k)}}
\* ... and a question to one of them.
Question(n, r, p) ==
    IF Wanted(n, r) = 0
    THEN [kind |-> "headers-request", by |-> n, to |-> p, from |-> r.head + 1,
          auth |-> Authorization(n, r), invited |-> r.invited # 0]
    ELSE [kind |-> "snapshot-request", by |-> n, to |-> p, epoch |-> Wanted(n, r)]
ControlOutputs(n, r) ==
    IF ~r.known \/ Authorization(n, r) = 0 THEN {}
    ELSE Shared(n, r) \cup {Question(n, r, p) : p \in Providers(n, r)}

\* mayPublish: a notice is sent, and served again, only while it is current.
MayPublish(n, r, what, parent) ==
    /\ r.known /\ Status(r) # "closed"
    /\ CASE what = "invitation" -> n = Creator /\ Status(r) = "active" /\ parent = r.head
         [] what = "consent" -> /\ r.admitted = 0 /\ ~r.left /\ r.consent = parent
                                /\ r.head = parent /\ parent # 0
         [] what = "leave" -> r.left /\ r.leftAt # 0 /\ n \in M(r.leftAt) /\ n \in M(r.head)
\* tick of NoticeSynchronizer.
Notice(n, to, what, parent) ==
    [kind |-> "notice", by |-> n, to |-> to, what |-> what, parent |-> parent]
NoticeOutputs(n, r) ==
    {o \in (IF n = Creator
            THEN {Notice(n, v.member, "invitation", v.parent) : v \in outbox}
            ELSE {Notice(n, Creator, "consent", r.consent), Notice(n, Creator, "leave", r.leftAt)}) :
        MayPublish(n, r, o.what, o.parent) /\ <<n, o.to>> \notin blocked}

(***************************************************************************)
(* Steps                                                                   *)
(***************************************************************************)
Keep(n, r) == rec' = [rec EXCEPT ![n] = r]

\* The first two of the states deferred, in the order they came, which is left
\* open here; a retry is a receipt.
Retries(n) ==
    {s \in [1..Min({2, Cardinality(deferred[n])}) -> deferred[n]] :
        \A i, j \in DOMAIN s : s[i] = s[j] => i = j}
Once(n, s) == IF 1 \in DOMAIN s THEN Observed(n, rec[n], s[1]) ELSE rec[n]
Retried(n, s) == IF 2 \in DOMAIN s THEN Observed(n, Once(n, s), s[2]) ELSE Once(n, s)
Waiting(n, s) ==
    {k \in deferred[n] : /\ 1 \in DOMAIN s /\ k = s[1] => Waits(n, rec[n], k)
                         /\ 2 \in DOMAIN s /\ k = s[2] => Waits(n, Once(n, s), k)}

\* tick: after that one of the outputs is made, or none.
Outputs(n, s) == ControlOutputs(n, Retried(n, s)) \cup NoticeOutputs(n, Retried(n, s))
tick(n, s, new) ==
    /\ rec[n].known /\ Keep(n, Retried(n, s))
    /\ deferred' = [deferred EXCEPT ![n] = Waiting(n, s)]
    /\ net' = output(net, new)
    /\ UNCHANGED <<outbox, inbox, blocked>>

\* openGroupControl and openGroupNotice: a carrier is read by the one it is for.
OpenedControl(n, m) == m \in net /\ m.to = n /\ m.kind # "notice"
OpenedNotice(n, m) == m \in net /\ m.to = n /\ m.kind = "notice"

Requests == {"headers-request", "snapshot-request"}
\* receive of a request, which the creator answers, or a node that relays.
receiveRequest(n, m) ==
    LET r == rec[n]
        allowed == /\ r.known /\ <<n, m.by>> \notin blocked /\ (n = Creator \/ n \in Relays)
                   /\ IF m.kind = "headers-request" THEN Authorized(r, m)
                      ELSE Provides(n, r, m.epoch, m.by)
        answer == IF m.kind = "headers-request" THEN requestedHeaders(r, n, m)
                  ELSE snapshotMaterial(n, m.epoch, m.by)
    IN  /\ OpenedControl(n, m) /\ m.kind \in Requests
        /\ net' = IF allowed THEN (net \ {m}) \cup {answer} ELSE net \ {m}
        /\ UNCHANGED <<rec, outbox, inbox, blocked, deferred>>

\* receive of headers: the page, and then the last header, which alone may be
\* the next one.
receiveHeaders(n, m) ==
    LET page == IF m.first <= m.last THEN Learn(n, rec[n], m.first, m.last) ELSE rec[n]
    IN  /\ OpenedControl(n, m) /\ m.kind = "headers"
        /\ Keep(n, Learn(n, page, m.end, m.end)) /\ net' = net \ {m}
        /\ UNCHANGED <<outbox, inbox, blocked, deferred>>

\* receive of a private state; of somebody who is blocked only the header counts.
receiveSnapshot(n, m) ==
    LET heard == <<n, m.by>> \notin blocked
    IN  /\ OpenedControl(n, m) /\ m.kind = "snapshot" /\ net' = net \ {m}
        /\ Keep(n, IF heard THEN Observed(n, rec[n], m.epoch)
                   ELSE Learn(n, rec[n], m.epoch, m.epoch))
        /\ deferred' = [deferred EXCEPT ![n] =
             IF heard /\ Waits(n, rec[n], m.epoch) /\ Cardinality(@) < MaxDeferred
             THEN @ \cup {m.epoch} ELSE @]
        /\ UNCHANGED <<outbox, inbox, blocked>>

\* save, unless the inbox is full; a notice that is there stays as it is.
save(n, m) == IF Cardinality(inbox[n]) < MaxInbox THEN inbox[n] \cup {m} ELSE inbox[n]

\* receive of a notice: the header in it applies whoever sent it; then it is
\* saved, unless the group has moved on.
receiveNotice(n, m) ==
    LET r == Learn(n, rec[n], m.parent, m.parent)
        stale == r.known /\ (Status(r) = "closed" \/ r.head > m.parent)
        taken == <<n, m.by>> \notin blocked /\ (m.what = "invitation" \/ r.known) /\ ~stale
    IN  /\ OpenedNotice(n, m) /\ net' = net \ {m}
        /\ Keep(n, r)
        /\ inbox' = [inbox EXCEPT ![n] = IF taken THEN save(n, m) ELSE @]
        /\ UNCHANGED <<outbox, blocked, deferred>>

(***************************************************************************)
(* What the users do                                                       *)
(***************************************************************************)
\* cancelStaleNotices: after a change the notices it outdates leave the router of
\* the node; those that other nodes have already go on.
cancelStaleNotices(n, sent) ==
    LET stale == {m \in sent : /\ m.kind = "notice" /\ m.by = n
                               /\ ~MayPublish(n, rec'[n], m.what, m.parent)}
    IN  \E gone \in SUBSET stale : net' = sent \ gone

\* invite: the invitation and its notice are one transaction.
invite(b) ==
    LET r == rec[Creator]
        v == [member |-> b, parent |-> r.head]
    IN  /\ Status(r) = "active" /\ r.head < Final
        /\ b \in M(r.head + 1) \ M(r.head) /\ v \notin outbox
        /\ outbox' = outbox \cup {v}
        /\ UNCHANGED <<rec, inbox, blocked, net, deferred>>

\* notice-open: the group becomes known; the birth header needs no ancestry.
open(n, v) ==
    LET r == rec[n]
    IN  /\ v \in inbox[n] /\ v.what = "invitation" /\ r.admitted = 0
        /\ ~(r.consent # 0 /\ r.invited = v.parent) /\ r.head <= v.parent /\ r.invited # v.parent
        /\ Keep(n, Learn(n, [r EXCEPT !.known = TRUE, !.invited = v.parent, !.consent = 0],
                         v.parent, v.parent))
        /\ cancelStaleNotices(n, net)
        /\ UNCHANGED <<outbox, inbox, blocked, deferred>>
accept(n) ==
    LET r == rec[n]
    IN  /\ r.invited # 0 /\ r.head = r.invited /\ r.consent = 0 /\ n \notin M(r.head)
        /\ Keep(n, [r EXCEPT !.consent = r.invited])
        /\ cancelStaleNotices(n, net)
        /\ UNCHANGED <<outbox, inbox, blocked, deferred>>
leave(n) ==
    LET r == rec[n]
    IN  /\ n \in Leavers /\ r.known /\ ~r.left
        /\ Keep(n, [r EXCEPT !.left = TRUE, !.leftAt = r.head, !.admitted = 0, !.checked = 0,
                             !.invited = 0, !.consent = 0])
        /\ cancelStaleNotices(n, net)
        /\ UNCHANGED <<outbox, inbox, blocked, deferred>>

\* record: the private state for the members, the header for those removed.
Fences(k) ==
    {[kind |-> "headers", by |-> Creator, to |-> x, first |-> k, last |-> k, end |-> k] :
        x \in {x \in M(k - 1) \ M(k) : <<Creator, x>> \notin blocked}}
\* record: the invitations of an old epoch, or of a closed group, are retired.
Current(r, v) == Status(r) = "active" /\ v.parent = r.head
\* commit and close: the change is committed, then cached with priority.
commit ==
    LET r == rec[Creator]
        k == r.head + 1
        snapshot == IF \E x \in M(k) : <<Creator, x>> \in blocked THEN {}
                    ELSE Broadcast(Creator, k)
    IN  /\ r.head < Final /\ (Status(r) = "active" \/ Chain[k].closed)
        /\ \A x \in M(k) \ M(r.head) :
             Notice(x, Creator, "consent", r.head) \in inbox[Creator]
        /\ Keep(Creator, Adopt(Creator, Learn(Creator, r, k, k), k))
        /\ outbox' = {v \in outbox : Current(rec'[Creator], v)}
        /\ \E sent \in retain(net, snapshot \cup Fences(k)) :
             cancelStaleNotices(Creator, sent)
        /\ UNCHANGED <<inbox, blocked, deferred>>

(***************************************************************************)
(* Faults                                                                  *)
(***************************************************************************)
\* A carrier is dropped, or expires.
lose(m) == net' = net \ {m} /\ UNCHANGED <<rec, outbox, inbox, blocked, deferred>>
\* reset and recover: the registry and the notices are in the database, the rest is
\* in memory; what the store still has of the carriers is taken in again.
crash(n) ==
    /\ \E stored \in SUBSET deferred[n] : stored # deferred[n]
                                       /\ deferred' = [deferred EXCEPT ![n] = stored]
    /\ UNCHANGED <<rec, outbox, inbox, blocked, net>>

Init ==
    /\ rec = [n \in Nodes |->
         IF n \in Known
         THEN [known |-> TRUE, head |-> 1, states |-> {1}, admitted |-> 1, checked |-> 1,
               joined |-> TRUE, invited |-> 0, consent |-> 0, left |-> FALSE, leftAt |-> 0]
         ELSE [known |-> FALSE, head |-> 0, states |-> {}, admitted |-> 0, checked |-> 0,
               joined |-> FALSE, invited |-> 0, consent |-> 0, left |-> FALSE, leftAt |-> 0]]
    /\ outbox = {} /\ inbox = [n \in Nodes |-> {}] /\ blocked \in Blocks
    /\ net = {} /\ deferred = [n \in Nodes |-> {}]

Receive(n, m) == \/ receiveRequest(n, m) \/ receiveHeaders(n, m)
                 \/ receiveSnapshot(n, m) \/ receiveNotice(n, m)
User(n) == invite(n) \/ (\E v \in inbox[n] : open(n, v)) \/ accept(n) \/ leave(n)
Next == \/ commit
        \/ \E n \in Nodes : User(n) \/ crash(n)
        \/ \E n \in Nodes : \E s \in Retries(n) :
               tick(n, s, {}) \/ \E o \in Outputs(n, s) : tick(n, s, {o})
        \/ \E n \in Nodes, m \in net : Receive(n, m)
        \/ \E m \in net : lose(m)

\* Fairness, of the scheduler and of the network.  tick turns over the providers,
\* and a cooldown or a full minute ends, so what stays to be asked of the creator
\* is asked; carriers sent again and again arrive.  Users owe nothing.
Asks(n) == /\ net = {}
           /\ \E s \in Retries(n) : \E o \in Outputs(n, s) :
                  o.to = Creator /\ o.kind \in Requests /\ tick(n, s, {o})
Answered(n) == \E m \in net : m.by = n /\ receiveRequest(Creator, m)
News(n, m) == \/ m.kind = "headers" /\ m.end > rec[n].head /\ m.first <= rec[n].head + 1
              \/ m.kind = "snapshot" /\ \/ m.epoch = rec[n].head + 1
                                        \/ /\ Takes(n, rec[n], m.epoch)
                                           /\ StateOf(m.epoch) \notin rec[n].states
Told(n) == \E m \in net : News(n, m) /\ Receive(n, m)
Fairness == /\ WF_vars(\E n \in Nodes, m \in net : Receive(n, m))
            /\ \A n \in Nodes \ {Creator} :
                 /\ WF_vars(\E s \in Retries(n) : tick(n, s, {}))
                 /\ SF_vars(Asks(n)) /\ SF_vars(Answered(n)) /\ SF_vars(Told(n))
Spec == Init /\ [][Next]_vars /\ Fairness

(***************************************************************************)
(* Properties                                                              *)
(***************************************************************************)
\* Once the creator makes no more changes, every member ends up with the header
\* and the private state of the last epoch, the one that joined by invitation too,
\* and a member that was removed ends up knowing it: although carriers are lost
\* and come in any order, states come before they can be taken, and nodes crash.
Settled(n) ==
    LET r == rec[n]
        k == rec[Creator].head
    IN  IF n \in M(k) THEN r.left \/ (r.head = k /\ StateOf(k) \in r.states)
        ELSE r.admitted = 0
EverybodyLearns == <>[](\A n \in Nodes : Settled(n))
=============================================================================
