------------------------------ MODULE Messages ------------------------------
(***************************************************************************)
(* Ordinary content between nodes: what is published, asked for, served,   *)
(* shown, edited, deleted and confirmed.  A node is either the native one  *)
(* (apps/node/src/node.ts), whose handlers are synchronous, or a browser   *)
(* (browser/src/mesh.ts over browser/src/application.ts), whose handlers   *)
(* await but are drained one after the other; WebApp has the interleavings *)
(* inside a browser.                                                       *)
(*                                                                         *)
(* Messages travel on links between every two nodes (Router has the mesh,  *)
(* Link the links); a link is a box per receiver.  ContentStore has the    *)
(* store, of which only the loss of an object matters here, and Outbox the *)
(* journal, of which only the confirmations do.                            *)
(***************************************************************************)
EXTENDS Mutations, FiniteSets, FiniteSetsExt, SequencesExt

CONSTANTS
    Kinds,          \* the sets of nodes that may be the browsers
    Unconfirmable,  \* messages whose confirmation is refused (commitGroupConfirmation)
    Window,         \* identifiers in one inventory of a native node
    WebWindow,      \* identifiers in one inventory of a browser
    AskLimit,       \* identifiers asked for, or served, at once
    IssueLimit,     \* deliveries tried by one sync
    MaxMarks,       \* entries of the table of requests
    Sought,         \* objects whose address a user may have
    Losing,         \* nodes that may lose what they hold
    MaxMishaps      \* bound on losses, restarts and changes of settings

VARIABLES
    web,            \* the browsers
    held,           \* objects in the store
    marks,          \* requests: what was asked for or served lately
    cursor,         \* a browser's place in its inventory
    locked,         \* nodes whose identity is locked
    relays,         \* nodes whose settings say relay
    blocked,        \* authors each node blocks
    net,            \* what is under way to each node
    mishaps

content == <<held, mutations, confirmed, told>>
exchange == <<marks, cursor, net>>
settings == <<locked, relays, blocked>>
vars == <<web, content, exchange, settings, mishaps>>

Quiet == [bundles |-> {}, inventory |-> <<>>, request |-> <<>>]

ASSUME MessagesAssumption ==
    /\ {Window, WebWindow, AskLimit, IssueLimit, MaxMarks} \subseteq Nat \ {0}
    /\ MaxMishaps \in Nat

TypeOK ==
    /\ web \in Kinds
    /\ held \in [Nodes -> SUBSET Objects]
    /\ \A n \in Nodes, m \in Messages :
           mutations[n][m] \in [rank : {0} \cup {Rank[e] : e \in Mutating}, deleted : BOOLEAN]
    /\ confirmed \in SUBSET (Messages \X Nodes)
    /\ marks \in [Nodes -> SUBSET ({"ask", "serve", "user"} \X Objects)]
    /\ cursor \in [Nodes -> Nat]
    /\ locked \subseteq Nodes /\ relays \subseteq Nodes
    /\ blocked \in [Nodes -> SUBSET Nodes]
    /\ \A n \in Nodes : net[n].bundles \subseteq Objects
    /\ told \in [Nodes -> SUBSET Messages]
    /\ mishaps \in 0..MaxMishaps

\* Every node is set up, unlocked and relaying; native ones hold the carriers
\* their groups gave them.
Init ==
    /\ web \in Kinds
    /\ held = [n \in Nodes |-> {c \in Carriers : By[c] = n /\ n \notin web}]
    /\ mutations = [n \in Nodes |-> [m \in Messages |-> Unchanged]]
    /\ confirmed = {}
    /\ marks = [n \in Nodes |-> {}]
    /\ cursor = [n \in Nodes |-> 0]
    /\ locked = {} /\ relays = Nodes
    /\ blocked = [n \in Nodes |-> {}]
    /\ net = [n \in Nodes |-> Quiet]
    /\ told = [n \in Nodes |-> {}]
    /\ mishaps = 0

Mishap == mishaps < MaxMishaps /\ mishaps' = mishaps + 1

-----------------------------------------------------------------------------
(* Reading: what is authorised and what becomes of it.                      *)

\* Without a target in sight, or about another's content, an event says nothing.
Authorized(o, all) ==
    o \in Events =>
        /\ Target[o] \in all
        /\ o \in Mutating => By[o] = By[Target[o]]
        /\ o \in Confirmations => By[o] # By[Target[o]]

\* display: what is stored and can be read as content.
Displayed(store) == store \ Carriers

\* What objects() returns of a store, deletions included.
Accepted(n, store) ==
    LET all == {o \in Displayed(store) : By[o] \notin blocked[n]}
    IN  {o \in all : Authorized(o, all)}

Listing(S) == SelectSeq(Listed, LAMBDA o : o \in S)

\* objects(): a browser only reads, and a locked node shows nothing.
Snapshot(n) ==
    IF n \in locked \cup web THEN LooksAway
    ELSE Look(n, Accepted(n, held[n]))

Shown(n) == IF n \in locked THEN {} ELSE Accepted(n, held[n])

-----------------------------------------------------------------------------
(* The links.                                                               *)

Peers(n) == Nodes \ {n}

\* Nobody is connected to a browser that is locked.
Deaf == locked \cap web

\* What is under way after n took from its box, leaving `rest`, and sent bundles.
Carried(n, rest, bundles) ==
    [x \in Nodes |-> IF x = n THEN rest
                     ELSE IF x \in Deaf THEN net[x]
                     ELSE [net[x] EXCEPT !.bundles = @ \cup bundles]]

\* The same for a request, which takes the place of an older one.
Asked(n, rest, ids) ==
    [x \in Nodes |-> IF x = n THEN rest
                     ELSE IF x \in Deaf \/ ids = <<>> THEN net[x]
                     ELSE [net[x] EXCEPT !.request = ids]]

Taken(n, o) == [net[n] EXCEPT !.bundles = @ \ {o}]
First(k, s) == SubSeq(s, 1, Min({k, Len(s)}))

\* The tables after `ids` were marked.  A full one is emptied by the native node
\* and loses its oldest entry in a browser.
Marked(n, kind, ids) ==
    LET new == ({kind} \X ids)
        all == marks[n] \cup new
    IN  IF Cardinality(all) <= MaxMarks THEN {all}
        ELSE IF n \in web THEN {s \in SUBSET all : Cardinality(s) = MaxMarks}
        ELSE {s \in SUBSET new : s # {}}

Recent(n, kind, o) == <<kind, o>> \in marks[n]

-----------------------------------------------------------------------------
(* Serving and storing.                                                     *)

\* MUTANT: confirmations are not offered to those who missed them.
maySeed_OwnOnly(n, o) == o \notin Confirmations

\* A native node that is locked cannot tell its own private messages apart, and
\* offers none.
maySeed(n, o) == n \in web \/ ~(o \in Messages /\ n \in locked)

\* The stores there may be when `o` was put: at the quota another object makes room.
Stored(n, o) ==
    {[objects |-> held[n] \cup {o}, cost |-> 0]} \cup
    {[objects |-> (held[n] \ {x}) \cup {o}, cost |-> 1] :
        x \in IF n \in Losing /\ o \notin held[n] /\ mishaps < MaxMishaps THEN held[n] ELSE {}}

Put(n, o) ==
    \E s \in Stored(n, o) :
        /\ held' = [held EXCEPT ![n] = s.objects]
        /\ mishaps' = mishaps + s.cost

\* A process that starts again remembers what it stored.
Restarted(n) ==
    /\ marks' = [marks EXCEPT ![n] = {}]
    /\ cursor' = [cursor EXCEPT ![n] = 0]
    /\ net' = [net EXCEPT ![n] = Quiet]
    /\ locked' = locked \cup {n}
    /\ UNCHANGED <<relays, blocked>>

-----------------------------------------------------------------------------
(* Publishing.                                                              *)

\* preparePublication: events are about content that is shown, edits and deletions
\* about the author's own.  In the instances a user does not publish while an
\* inventory or a request is under way.
MayPublish(n, o) ==
    /\ n \notin locked /\ By[o] = n
    /\ o \in Messages \cup Mutating /\ o \notin held[n]
    /\ blocked[n] = {}
    /\ \A x \in Nodes : net[x].inventory = <<>> /\ net[x].request = <<>>
    /\ Authorized(o, Shown(n) \cup {o})

\* commitPublication: the object is stored, then what it changes is written, then it
\* is sent.
publish(n, o) ==
    /\ n \notin web /\ MayPublish(n, o)
    /\ held' = [held EXCEPT ![n] = @ \cup {o}]
    /\ LookAt(n, Shown(n), o)
    /\ net' = Carried(n, net[n], {o})
    /\ UNCHANGED <<web, marks, cursor, settings, mishaps>>

\* The process dies when the object is stored and nothing else is.
publishCut(n, o) ==
    /\ n \notin web /\ MayPublish(n, o) /\ Mishap
    /\ held' = [held EXCEPT ![n] = @ \cup {o}]
    /\ Snapshot(n)
    /\ Restarted(n)
    /\ UNCHANGED web

\* A browser takes its own object in like any other, and then announces it.
publishWeb(n, o) ==
    /\ n \in web /\ MayPublish(n, o)
    /\ LookAt(n, {}, o)
    /\ Put(n, o)
    /\ net' = Carried(n, net[n], {o})
    /\ UNCHANGED <<web, marks, cursor, settings>>

\* The tab is closed when the change is written and the object is not stored.
publishWebCut(n, o) ==
    /\ n \in web /\ MayPublish(n, o) /\ Mishap
    /\ LookAt(n, {}, o)
    /\ Restarted(n)
    /\ UNCHANGED <<web, held>>

-----------------------------------------------------------------------------
(* Receiving.                                                               *)

\* What the node takes from an object before it stores it: an event is taken with
\* what is known; a browser takes nothing else.
TakeIn(n, o) ==
    LET known == Accepted(n, held[n])
        seen == IF n \in web THEN {} ELSE known
    IN  IF n \in locked \/ o \notin Events THEN LooksAway
        ELSE IF Authorized(o, known \cup {o}) THEN LookAt(n, seen, o)
        ELSE Look(n, seen)

\* MUTANT: the object is stored first, and then the events that are stored count.
receive_StoresFirst(n, o) ==
    /\ n \notin web /\ o \in net[n].bundles
    /\ net' = Carried(n, Taken(n, o), {})
    /\ UNCHANGED <<web, marks, cursor, settings>>
    /\ IF By[o] \in blocked[n] /\ o \notin Carriers THEN UNCHANGED <<content, mishaps>>
       ELSE /\ Put(n, o)
            /\ LET atHand == Accepted(n, held[n] \cup {o})
                   stored == Accepted(n, held'[n])
               IN  IF n \in locked \/ o \notin Events THEN LooksAway
                   ELSE /\ mutations' = [mutations EXCEPT ![n] = Materialized(@, stored)]
                        /\ confirmed' = confirmed \cup Answered(n, stored)
                        /\ told' = [told EXCEPT ![n] = @ \cup Deletions(atHand)]

receive(n, o) ==
    /\ n \notin web /\ o \in net[n].bundles
    /\ net' = Carried(n, Taken(n, o), {})
    /\ UNCHANGED <<web, marks, cursor, settings>>
    /\ IF By[o] \in blocked[n] /\ o \notin Carriers THEN UNCHANGED <<content, mishaps>>
       ELSE TakeIn(n, o) /\ Put(n, o)

\* The process dies when the change is written and the object is not stored.
receiveCut(n, o) ==
    /\ n \notin web \cup locked /\ o \in net[n].bundles \cap Events
    /\ By[o] \notin blocked[n] /\ Mishap
    /\ TakeIn(n, o)
    /\ Restarted(n)
    /\ UNCHANGED <<web, held>>

\* The delivery a node makes of a message.
Delivery(n, o) ==
    {c \in Deliveries : o \in Messages /\ By[c] = n /\ Target[c] = o}

\* A browser has no use for groups, nor for those it blocks.
validate(n, o) == o \notin Carriers /\ By[o] \notin blocked[n]

\* ingest: what is refused leaves no trace; a message of another is confirmed
\* every time it comes.
ingest(n, o) ==
    /\ n \in web \ locked /\ o \in net[n].bundles
    /\ UNCHANGED <<web, marks, cursor, settings>>
    /\ IF ~validate(n, o)
       THEN net' = Carried(n, Taken(n, o), {}) /\ UNCHANGED <<content, mishaps>>
       ELSE /\ TakeIn(n, o)
            /\ \E s \in Stored(n, o) :
                   /\ held' = [held EXCEPT ![n] = s.objects \cup Delivery(n, o)]
                   /\ mishaps' = mishaps + s.cost
            /\ net' = Carried(n, Taken(n, o), Delivery(n, o))

\* What is asked for of an inventory: a native node passes over what it asked for
\* lately and then counts; a browser counts first.
Missing(n, ids) ==
    LET unknown == SelectSeq(ids, LAMBDA o : o \notin held[n])
        Idle(o) == ~Recent(n, "ask", o)
    IN  IF n \in web THEN SelectSeq(First(AskLimit, unknown), Idle)
        ELSE First(AskLimit, SelectSeq(unknown, Idle))

receiveInventory(n) ==
    LET missing == Missing(n, net[n].inventory)
        rest == [net[n] EXCEPT !.inventory = <<>>]
    IN  /\ net[n].inventory # <<>>
        /\ IF n \in web \ relays \/ missing = <<>>
           THEN net' = [net EXCEPT ![n] = rest] /\ UNCHANGED marks
           ELSE /\ net' = Asked(n, rest, missing)
                /\ \E s \in Marked(n, "ask", ToSet(missing)) : marks' = [marks EXCEPT ![n] = s]
        /\ UNCHANGED <<web, content, cursor, settings, mishaps>>

\* What a browser serves of what it was asked for.
Served(n, ids) == {o \in ids \cap held[n] : By[o] \notin blocked[n]}

\* A native node marks what it holds and then looks whether it may serve it; a
\* browser marks what it is asked for and then looks whether it holds it.
receiveRequest(n) ==
    LET ids == {o \in ToSet(First(AskLimit, net[n].request)) :
                    (n \in web \/ o \in held[n]) /\ ~Recent(n, "serve", o)}
        served == IF n \in web THEN Served(n, ids) ELSE {o \in ids : maySeed(n, o)}
        rest == [net[n] EXCEPT !.request = <<>>]
    IN  /\ net[n].request # <<>>
        /\ IF n \notin relays \/ ids = {}
           THEN net' = [net EXCEPT ![n] = rest] /\ UNCHANGED marks
           ELSE /\ net' = Carried(n, rest, served)
                /\ \E s \in Marked(n, "serve", ids) : marks' = [marks EXCEPT ![n] = s]
        /\ UNCHANGED <<web, content, cursor, settings, mishaps>>

-----------------------------------------------------------------------------
(* What is done every 2200 ms.                                              *)

\* A confirmation goes to all the readers of a message, or to none: every node
\* reads every message here.
receiptReaders(n) == IF blocked[n] = {} THEN Nodes ELSE {}

\* Messages whose delivery is due, in the order they are shown.
Due(n, records) ==
    Listing({m \in Shown(n) \cap Messages :
                 /\ By[m] # n /\ ~records[m].deleted
                 /\ \A c \in Shown(n) \cap Confirmations : ~(Target[c] = m /\ By[c] = n)
                 /\ receiptReaders(n) # {}})

\* issueDeliveries: what is refused counts as tried.
Issued(n, records) ==
    UNION {Delivery(n, m) : m \in ToSet(First(IssueLimit, Due(n, records))) \ Unconfirmable}

\* Messages the author sends again until every reader confirmed.
Unanswered(n) ==
    {m \in held[n] \cap Messages : By[m] = n /\ \E x \in Peers(n) : <<m, x>> \notin confirmed}

AllPages == 0..((Cardinality(Objects) - 1) \div Window)
Page(list, k) == SubSeq(list, k * Window + 1, Min({(k + 1) * Window, Len(list)}))
Pages(list) == {k \in AllPages : k = 0 \/ k * Window < Len(list)}

\* The time scale: what is under way arrives or is lost within the 2200 ms between
\* two syncs, and before what was asked for may be asked for again.
Settled == \A x \in Nodes : net[x] = Quiet

\* What is under way after a sync.
Announced(n, bundles, page) ==
    [x \in Nodes |-> IF x = n \/ x \in Deaf THEN net[x]
                     ELSE [net[x] EXCEPT !.bundles = @ \cup bundles, !.inventory = page]]

\* sync of a native node; the page of its inventory follows the clock.
sync(n, k) ==
    LET records == Materialized(mutations[n], Shown(n))
        issued == Issued(n, records)
        offered == Listing({o \in held[n] \cup issued : maySeed(n, o)})
    IN  /\ n \notin web /\ Settled
        /\ k \in Pages(offered)
        /\ Snapshot(n)
        /\ held' = [held EXCEPT ![n] = @ \cup issued]
        /\ \E again \in IF n \in locked THEN {{}} ELSE {{}, Unanswered(n)} :
               net' = Announced(n, issued \cup again,
                                IF n \in relays THEN Page(offered, k) ELSE <<>>)
        /\ UNCHANGED <<web, marks, cursor, settings, mishaps>>

\* sync of a browser: the next identifiers of its sorted list.
syncWeb(n) ==
    LET list == Listing(held[n])
        page == SubSeq(list, cursor[n] + 1, Min({cursor[n] + WebWindow, Len(list)}))
        next == cursor[n] + WebWindow
    IN  /\ n \in (web \cap relays) \ locked /\ Settled
        /\ cursor' = [cursor EXCEPT ![n] = IF next >= Len(list) THEN 0 ELSE next]
        /\ net' = Announced(n, {}, SelectSeq(page, LAMBDA o : By[o] \notin blocked[n]))
        /\ UNCHANGED <<web, content, marks, settings, mishaps>>

\* The flush of a browser's outbox, a timer of its own.
flush(n) ==
    /\ n \in web \ locked /\ Unanswered(n) # {} /\ Settled
    /\ net' = Carried(n, net[n], Unanswered(n))
    /\ UNCHANGED <<web, content, marks, cursor, settings, mishaps>>

-----------------------------------------------------------------------------
(* The user.                                                                *)

\* state(): what is shown is taken in.
state(n) == Snapshot(n) /\ UNCHANGED <<web, held, exchange, settings, mishaps>>

\* Reading a message publishes a receipt; a browser sends an old one again.
view(n, m) ==
    LET seen == IF n \in web THEN {} ELSE Shown(n)
        receipt == {r \in Receipts : Target[r] = m /\ By[r] = n}
    IN  /\ m \in (Shown(n) \cap Messages) \ Unconfirmable /\ By[m] # n
        /\ ~Materialized(mutations[n], seen)[m].deleted
        /\ receiptReaders(n) # {}
        /\ receipt # {} /\ (n \in web \/ receipt \cap held[n] = {}) /\ Settled
        /\ Snapshot(n)
        /\ held' = [held EXCEPT ![n] = @ \cup receipt]
        /\ net' = Carried(n, net[n], receipt)
        /\ UNCHANGED <<web, marks, cursor, settings, mishaps>>

\* The user asks for an address, which somebody gave him, of what is not here.
retrieve(n, o) ==
    /\ n \notin locked /\ o \in Sought \ held[n] /\ Settled
    /\ \E x \in Nodes : o \in held[x]
    /\ ~Recent(n, "user", o)
    /\ \E s \in Marked(n, "user", {o}) : marks' = [marks EXCEPT ![n] = s]
    /\ net' = Asked(n, net[n], <<o>>)
    /\ UNCHANGED <<web, content, cursor, settings, mishaps>>

\* MUTANT: what was asked for once is never asked for again.
Elapsed_Never(n) == {x \in marks[n] : x[1] = "ask"}

\* The marks left when the longest time passed after which anything may be asked
\* for, or served, again.
Elapsed(n) == {}

elapse ==
    /\ Settled
    /\ marks # [n \in Nodes |-> {}]
    /\ marks' = [n \in Nodes |-> Elapsed(n)]
    /\ UNCHANGED <<web, content, cursor, net, settings, mishaps>>

\* lock: a browser's mesh is closed, a native node goes on relaying.
lock(n) ==
    /\ n \notin locked /\ Mishap
    /\ locked' = locked \cup {n}
    /\ IF n \in web
       THEN /\ marks' = [marks EXCEPT ![n] = {}]
            /\ cursor' = [cursor EXCEPT ![n] = 0]
            /\ net' = [net EXCEPT ![n] = Quiet]
       ELSE UNCHANGED exchange
    /\ UNCHANGED <<web, content, relays, blocked>>

unlock(n) ==
    /\ n \in locked /\ locked' = locked \ {n}
    /\ UNCHANGED <<web, content, exchange, relays, blocked, mishaps>>

restart(n) == Mishap /\ Restarted(n) /\ UNCHANGED <<web, content>>

\* localAction: what was taken from somebody who is blocked stays in the store.
block(n, x) ==
    /\ n \notin locked /\ x # n
    /\ IF x \in blocked[n] THEN blocked' = [blocked EXCEPT ![n] = @ \ {x}] /\ UNCHANGED mishaps
       ELSE blocked' = [blocked EXCEPT ![n] = @ \cup {x}] /\ Mishap
    /\ UNCHANGED <<web, content, marks, cursor, locked, relays>>

\* What is under way when the packets of n with objects of x, and with its own for
\* x, are taken out of its queues.
Withdrawn(n, x) ==
    [z \in Nodes |-> IF z = n THEN net[z]
                     ELSE [net[z] EXCEPT !.bundles = {o \in @ : By[o] \notin {n, x}}]]

\* setBlocked.
setBlocked(n, x) ==
    /\ n \in web /\ block(n, x)
    /\ \/ UNCHANGED net
       \/ x \notin blocked[n] /\ net' = Withdrawn(n, x)

setRelay(n) ==
    /\ n \notin locked
    /\ IF n \in relays THEN relays' = relays \ {n} /\ Mishap
       ELSE relays' = relays \cup {n} /\ UNCHANGED mishaps
    /\ UNCHANGED <<web, content, exchange, locked, blocked>>

-----------------------------------------------------------------------------
(* The surroundings.                                                        *)

\* Everything under way to a node is lost.
Lose(n) ==
    /\ net[n] # Quiet /\ Mishap
    /\ net' = [net EXCEPT ![n] = Quiet]
    /\ UNCHANGED <<web, content, marks, cursor, settings>>

\* An object leaves the store: evicted for something else, or found corrupt.
Evict(n, o) ==
    /\ n \in Losing /\ o \in held[n] /\ Mishap
    /\ held' = [held EXCEPT ![n] = @ \ {o}]
    /\ UNCHANGED <<web, mutations, confirmed, told, exchange, settings>>

Next ==
    \/ \E n \in Nodes, o \in Objects :
           \/ publish(n, o) \/ publishCut(n, o)
           \/ publishWeb(n, o) \/ publishWebCut(n, o)
           \/ receive(n, o) \/ receiveCut(n, o) \/ ingest(n, o)
           \/ retrieve(n, o) \/ Evict(n, o)
    \/ \E n \in Nodes, m \in Messages : view(n, m)
    \/ \E n \in Nodes, k \in AllPages : sync(n, k)
    \/ elapse
    \/ \E n, x \in Nodes : (n \notin web /\ block(n, x) /\ UNCHANGED net) \/ setBlocked(n, x)
    \/ \E n \in Nodes :
           \/ receiveInventory(n) \/ receiveRequest(n)
           \/ syncWeb(n) \/ flush(n) \/ state(n)
           \/ lock(n) \/ unlock(n) \/ restart(n) \/ setRelay(n)
           \/ Lose(n)

Spec == Init /\ [][Next]_vars

\* Something that is under way arrives.
Arrive ==
    \E n \in Nodes :
        \/ \E o \in Objects : receive(n, o) \/ ingest(n, o)
        \/ receiveInventory(n) \/ receiveRequest(n)

\* The timer of a node fires, and its inventory has a given page.
Tick(n, k) == sync(n, k) \/ (k = 0 /\ syncWeb(n))

\* Timers fire and time passes however often traffic resumes in between, the clock
\* comes to every page, and what is under way and not lost arrives.
Fairness ==
    /\ WF_vars(Arrive)
    /\ SF_vars(elapse)
    /\ \A n \in Nodes, k \in AllPages : SF_vars(Tick(n, k))

FairSpec == Spec /\ Fairness

-----------------------------------------------------------------------------
(* Properties.                                                              *)

\* The users keep their nodes unlocked, relaying and blocking nobody.
Steady == locked = {} /\ relays = Nodes /\ \A n \in Nodes : blocked[n] = {}

\* What the events its author holds make of a message.
Meant(m) ==
    Materialized([x \in Messages |-> Unchanged], held[By[m]])[m]

SameView(a, b) ==
    a.deleted = b.deleted /\ (a.deleted \/ a.rank = b.rank)

\* Replicas agree: nodes left to themselves come to hold every message and to show
\* it as its author's edits and deletions say, whatever order these came in and
\* whatever was lost, and stay with it (inventories, requests that are throttled,
\* and events that wait for their target).
Agreement ==
    <>[]Steady =>
        <>[](\A m \in Messages, n \in Nodes :
                (m \in held[By[m]] /\ n # By[m]) =>
                    (m \in held[n] /\ SameView(mutations[n][m], Meant(m))))

\* Every message is confirmed to its author by every reader, unless it was deleted:
\* deliveries are issued, lost, evicted, served and asked for again.
EachIsConfirmed ==
    <>[]Steady =>
        \A m \in Messages \ Unconfirmable, n \in Nodes :
            (m \in held[By[m]] /\ n # By[m])
                ~> (<<m, n>> \in confirmed \/ mutations[n][m].deleted)
=============================================================================
