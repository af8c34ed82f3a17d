----------------------------- MODULE WebRouter ------------------------------
(***************************************************************************)
(* Packets between two browsers: the router that keeps and forwards them   *)
(* (browser/src/router.ts), the channel that carries one in fragments over *)
(* a reliable ordered stream, WebRTC or WebSocket (browser/src/rtc.ts,      *)
(* websocket.ts), and the consent to relay kept by the mesh (mesh.ts).     *)
(*                                                                         *)
(* One browser sends, the other receives; they may be joined by several    *)
(* links, at once or one after another.  Every await is a place where a    *)
(* link may close, the packet may be cancelled or the consent withdrawn.   *)
(***************************************************************************)
EXTENDS Naturals, Sequences, FiniteSets

CONSTANTS
    Local,       \* packets the sender publishes itself
    Relayed,     \* packets it forwards for others, while it consents
    Links,       \* the links that will ever join the two, each used once
    NoPacket,
    Parts,       \* fragments of a packet
    Slots,       \* transmissions a link runs at once (4, or 2 in low power)
    Transfers,   \* RTC_LIMITS.transfers, at both ends
    MaxRequests  \* bound on the changes of consent

ASSUME WebRouterAssumption ==
    /\ Parts \in Nat \ {0} /\ MaxRequests \in Nat
    /\ NoPacket \notin Local \cup Relayed

VARIABLES
    relaying,    \* router.relay of the sender
    consent,     \* the mesh's settings: what was asked last, what waits in
                 \* #settingsTail, the sequence of the last revocation
    created,     \* packets published or accepted for relaying so far
    retained,    \* #retained of the sender
    link,        \* the state of each end of each link
    out,         \* where each packet is on the sender's side of each link
    pump,        \* the packet whose fragment the pump of a link is writing
    wire, acks,  \* frames in flight, each way
    asm,         \* fragments of each packet assembled by the receiver
    chain,       \* #receiveChain of the receiver, across its links
    seen,        \* #seen of the receiver
    got,         \* times the receiver's application took each packet
    sent         \* transmissions that resolved: the sender has its answer

sender == <<created, retained, out, pump>>
vars == <<relaying, consent, sender, link, wire, acks, asm, chain, seen, got, sent>>

Packets == Local \cup Relayed
Stages == {"none", "queued", "preparing", "pending"}
Sending(l) == {p \in Packets : out[l][p].at \in {"preparing", "pending"}}
At(l, stage) == {p \in Packets : out[l][p].at = stage}
Stage(stage) == [at |-> stage, next |-> 0]
OpenAt(end) == {l \in Links : link[l][end] = "open"}
Assembling(l) == {p \in Packets : asm[l][p] > 0}

TypeOK ==
    /\ relaying \in BOOLEAN
    /\ consent \in [asked : BOOLEAN, made : 0 .. MaxRequests,
                    revokedAt : 0 .. MaxRequests,
                    tail : Seq([on : BOOLEAN, seq : 1 .. MaxRequests])]
    /\ created \in SUBSET Packets /\ retained \in SUBSET created
    /\ link \in [Links -> [sender : {"new", "open", "closed"}, receiver : {"new", "open", "closed"}]]
    /\ out \in [Links -> [Packets -> [at : Stages, next : 0 .. Parts]]]
    /\ pump \in [Links -> Packets \cup {NoPacket}]
    /\ acks \in [Links -> SUBSET Packets]
    /\ asm \in [Links -> [Packets -> 0 .. Parts]]
    /\ seen \in SUBSET Packets
    /\ got \in [Packets -> Nat]
    /\ sent \in SUBSET (Links \X Packets)

Init ==
    /\ relaying = FALSE
    /\ consent = [asked |-> FALSE, made |-> 0, revokedAt |-> 0, tail |-> <<>>]
    /\ created = {} /\ retained = {}
    /\ link = [l \in Links |-> [sender |-> "new", receiver |-> "new"]]
    /\ out = [l \in Links |-> [p \in Packets |-> Stage("none")]]
    /\ pump = [l \in Links |-> NoPacket]
    /\ wire = [l \in Links |-> <<>>]
    /\ acks = [l \in Links |-> {}]
    /\ asm = [l \in Links |-> [p \in Packets |-> 0]]
    /\ chain = <<>>
    /\ seen = {}
    /\ got = [p \in Packets |-> 0]
    /\ sent = {}

Put(l, p, stage) == out' = [out EXCEPT ![l][p] = stage]

-----------------------------------------------------------------------------
(* Consent to relay.                                                        *)

\* remove(): a packet leaves #retained and the queues of all links.
Removed(gone) ==
    [l \in Links |-> [p \in Packets |->
        IF p \in gone /\ out[l][p].at = "queued" THEN Stage("none") ELSE out[l][p]]]

\* The setter router.relay: withdrawing the consent drops what is relayed.
SetRouter(on) ==
    LET gone == IF on THEN {} ELSE Relayed \cap retained
    IN  /\ relaying' = on
        /\ retained' = retained \ gone
        /\ out' = Removed(gone)

\* setRelay: a revocation counts at once, an authorisation once it is saved.
setRelay(on) ==
    /\ consent.made < MaxRequests
    /\ LET seq == consent.made + 1
       IN  consent' = [consent EXCEPT !.asked = on, !.made = seq,
                                      !.revokedAt = IF on THEN @ ELSE seq,
                                      !.tail = Append(@, [on |-> on, seq |-> seq])]
    /\ IF on THEN UNCHANGED <<relaying, retained, out>> ELSE SetRouter(FALSE)
    /\ UNCHANGED <<created, pump, link, wire, acks, asm, chain, seen, got, sent>>

\* MUTANT: an update takes effect as it was asked.
Effective_AsAsked(update) == update.on

\* What an update comes to once saved: not what a later revocation denied.
Effective(update) == update.on /\ update.seq >= consent.revokedAt

\* updateSettings: the oldest update has been saved in the profile.
Saved ==
    /\ consent.tail # <<>>
    /\ consent' = [consent EXCEPT !.tail = Tail(@)]
    /\ SetRouter(Effective(Head(consent.tail)))
    /\ UNCHANGED <<created, pump, link, wire, acks, asm, chain, seen, got, sent>>

-----------------------------------------------------------------------------
(* The sending router.                                                      *)

Queued(p) ==
    out' = [l \in Links |-> IF l \in OpenAt("sender") THEN [out[l] EXCEPT ![p] = Stage("queued")]
                            ELSE out[l]]

Retain(p) ==
    /\ p \notin created
    /\ created' = created \cup {p}
    /\ retained' = retained \cup {p}
    /\ Queued(p)
    /\ UNCHANGED <<relaying, consent, pump, link, wire, acks, asm, chain, seen, got, sent>>

broadcast(p) == p \in Local /\ Retain(p)

\* A packet accepted from a third browser is forwarded to the links but its own.
forward(p) == p \in Relayed /\ relaying /\ Retain(p)

\* cancel: the recipient or the author was blocked.
cancel(p) ==
    /\ p \in retained
    /\ retained' = retained \ {p}
    /\ out' = Removed({p})
    /\ UNCHANGED <<relaying, consent, created, pump, link, wire, acks, asm, chain, seen, got, sent>>

\* newPeer, connectWebSocket: a new link starts with everything retained.
newLink(l) ==
    /\ link[l].sender = "new"
    /\ link' = [link EXCEPT ![l] = [sender |-> "open", receiver |-> "open"]]
    /\ out' = [out EXCEPT ![l] = [p \in Packets |-> Stage(IF p \in retained THEN "queued" ELSE "none")]]
    /\ UNCHANGED <<relaying, consent, created, retained, pump, wire, acks, asm, chain, seen, got, sent>>

Permitted(p) == p \in retained /\ (p \in Relayed => relaying)

\* The transfers of a channel, with the ones still being prepared.
Room(l) == Cardinality(At(l, "pending") \cup At(l, "preparing")) < Transfers

\* RtcCapacityError: the packet goes back to the queue of its link.
NoRoom(p) == Stage("queued")

\* tick, transmit and the start of the channel's send: a transmission starts
\* while the link has a slot, and goes back to the queue without room.
transmit(l, p) ==
    /\ link[l].sender = "open"
    /\ out[l][p].at = "queued" /\ Permitted(p)
    /\ Cardinality(Sending(l)) < Slots
    /\ Put(l, p, IF Room(l) THEN Stage("preparing") ELSE NoRoom(p))
    /\ UNCHANGED <<relaying, consent, created, retained, pump, link, wire, acks, asm, chain, seen, got, sent>>

\* maySend was asked, the packet verified and encoded; the channel and the
\* permission are checked again.
prepared(l, p) ==
    /\ out[l][p].at = "preparing"
    /\ Put(l, p, Stage(IF Permitted(p) /\ link[l].sender = "open" THEN "pending" ELSE "none"))
    /\ UNCHANGED <<relaying, consent, created, retained, pump, link, wire, acks, asm, chain, seen, got, sent>>

\* pump: the next fragment is chosen, and waits while the stream is congested.
choose(l, p) ==
    /\ link[l].sender = "open" /\ pump[l] = NoPacket
    /\ out[l][p].at = "pending" /\ out[l][p].next < Parts
    /\ pump' = [pump EXCEPT ![l] = p]
    /\ UNCHANGED <<relaying, consent, created, retained, out, link, wire, acks, asm, chain, seen, got, sent>>

\* A transfer abandoned half way is announced.
Abandon(p) == <<[t |-> "drop", p |-> p, i |-> 0]>>

\* write: the permission counts when the fragment leaves, not when it waited.
write(l) ==
    /\ link[l].sender = "open" /\ pump[l] # NoPacket
    /\ LET p == pump[l]
           part == <<[t |-> "part", p |-> p, i |-> out[l][p].next]>>
       IN  IF Permitted(p)
           THEN /\ wire' = [wire EXCEPT ![l] = @ \o part]
                /\ out' = [out EXCEPT ![l][p].next = @ + 1]
           ELSE /\ wire' = [wire EXCEPT ![l] = @ \o Abandon(p)]
                /\ Put(l, p, Stage("none"))
    /\ pump' = [pump EXCEPT ![l] = NoPacket]
    /\ UNCHANGED <<relaying, consent, created, retained, link, acks, asm, chain, seen, got, sent>>

\* An ACK settles the transfer.
acknowledged(l, p) ==
    /\ link[l].sender = "open" /\ p \in acks[l]
    /\ acks' = [acks EXCEPT ![l] = @ \ {p}]
    /\ IF out[l][p].at = "pending"
       THEN Put(l, p, Stage("none")) /\ sent' = sent \cup {<<l, p>>}
       ELSE UNCHANGED <<out, sent>>
    /\ UNCHANGED <<relaying, consent, created, retained, pump, link, wire, asm, chain, seen, got>>

-----------------------------------------------------------------------------
(* The receiving channel and router.                                        *)

Waiting(l) == \E i \in DOMAIN chain : chain[i].l = l /\ ~chain[i].closed

\* close() at the receiver: assemblies go; what the router has, it keeps.
ReceiverCloses(l, rest) ==
    /\ link' = [link EXCEPT ![l].receiver = "closed"]
    /\ asm' = [asm EXCEPT ![l] = [p \in Packets |-> 0]]
    /\ wire' = [wire EXCEPT ![l] = <<>>]
    /\ chain' = [i \in DOMAIN rest |-> IF rest[i].l = l THEN [rest[i] EXCEPT !.closed = TRUE]
                                       ELSE rest[i]]

\* A fragment that starts an assembly beyond the limit, or is out of place.
Unacceptable(l, f) ==
    \/ asm[l][f.p] # f.i
    \/ f.i = 0 /\ Cardinality(Assembling(l)) >= Transfers

\* accept: frames are taken one at a time; a complete packet goes to the router,
\* and the frames behind it wait for the router's answer.
receive(l) ==
    /\ link[l].receiver = "open" /\ wire[l] # <<>> /\ ~Waiting(l)
    /\ LET f == Head(wire[l])
           whole == f.i + 1 = Parts
       IN  CASE f.t = "drop" ->
                  /\ asm' = [asm EXCEPT ![l][f.p] = 0]
                  /\ wire' = [wire EXCEPT ![l] = Tail(@)]
                  /\ UNCHANGED <<chain, link>>
             [] f.t = "part" /\ ~Unacceptable(l, f) ->
                  /\ asm' = [asm EXCEPT ![l][f.p] = IF whole THEN 0 ELSE f.i + 1]
                  /\ wire' = [wire EXCEPT ![l] = Tail(@)]
                  /\ chain' = IF whole
                              THEN Append(chain, [l |-> l, p |-> f.p, taken |-> FALSE, closed |-> FALSE])
                              ELSE chain
                  /\ UNCHANGED link
             [] OTHER -> ReceiverCloses(l, chain)
    /\ UNCHANGED <<relaying, consent, sender, acks, seen, got, sent>>

Without(i) == SubSeq(chain, 1, i - 1) \o SubSeq(chain, i + 1, Len(chain))

\* The ACK, unless the link closed while the router was busy.
Answered(i) ==
    acks' = [acks EXCEPT ![chain[i].l] = IF chain[i].closed THEN @ ELSE @ \cup {chain[i].p}]

\* MUTANT: packets are taken side by side.
Turn_Any(i) == i \in DOMAIN chain

\* #receiveChain: one packet at a time, in the order they arrived.
Turn(i) == i \in DOMAIN chain /\ i = 1

\* accept of the router: what was seen before is only confirmed.
duplicate(i) ==
    /\ Turn(i) /\ ~chain[i].taken
    /\ chain[i].p \in seen
    /\ chain' = Without(i) /\ Answered(i)
    /\ UNCHANGED <<relaying, consent, sender, link, wire, asm, seen, got, sent>>

\* Anything else is handed to the application, which takes its time.
deliver(i) ==
    /\ Turn(i) /\ ~chain[i].taken
    /\ chain[i].p \notin seen
    /\ chain' = [chain EXCEPT ![i].taken = TRUE]
    /\ UNCHANGED <<relaying, consent, sender, link, wire, acks, asm, seen, got, sent>>

taken(i) ==
    /\ Turn(i) /\ chain[i].taken
    /\ got' = [got EXCEPT ![chain[i].p] = @ + 1]
    /\ seen' = seen \cup {chain[i].p}
    /\ chain' = Without(i) /\ Answered(i)
    /\ UNCHANGED <<relaying, consent, sender, link, wire, asm, sent>>

\* MUTANT: a refusal of the application is confirmed all the same.
refused_Acknowledged(i) ==
    /\ Turn(i) /\ chain[i].taken
    /\ chain' = Without(i) /\ Answered(i)
    /\ UNCHANGED <<relaying, consent, sender, link, wire, asm, seen, got, sent>>

\* The application refuses: a blocked author, no space, a locked profile.  The
\* exception reaches the channel, which closes.
refused(i) ==
    /\ Turn(i) /\ chain[i].taken
    /\ ReceiverCloses(chain[i].l, Without(i))
    /\ UNCHANGED <<relaying, consent, sender, acks, seen, got, sent>>

-----------------------------------------------------------------------------
(* Links close.                                                             *)

\* close() at the sender: every pending transfer fails, the queue is dropped.
SenderCloses(l) ==
    /\ link' = [link EXCEPT ![l].sender = "closed"]
    /\ out' = [out EXCEPT ![l] = [p \in Packets |->
                  IF @[p].at \in {"queued", "pending"} THEN Stage("none") ELSE @[p]]]
    /\ pump' = [pump EXCEPT ![l] = NoPacket]
    /\ acks' = [acks EXCEPT ![l] = {}]
    /\ UNCHANGED <<relaying, consent, created, retained, wire, asm, chain, seen, got, sent>>

\* Disconnection, a missing heartbeat, receipt or fragment, an error: at the
\* sender or at the receiver first, and the other end is told.
closeSender(l) ==
    /\ link[l].sender = "open"
    /\ SenderCloses(l)

closeReceiver(l) ==
    /\ link[l].receiver = "open"
    /\ ReceiverCloses(l, chain)
    /\ UNCHANGED <<relaying, consent, sender, acks, seen, got, sent>>

Step(l) ==
    \/ write(l) \/ receive(l)
    \/ \E p \in Packets :
          transmit(l, p) \/ prepared(l, p) \/ choose(l, p) \/ acknowledged(l, p)

Chain == \E i \in DOMAIN chain : duplicate(i) \/ deliver(i) \/ taken(i) \/ refused(i)

Next ==
    \/ \E on \in BOOLEAN : setRelay(on)
    \/ Saved
    \/ \E p \in Packets : broadcast(p) \/ forward(p) \/ cancel(p)
    \/ \E l \in Links : newLink(l) \/ Step(l) \/ closeSender(l) \/ closeReceiver(l)
    \/ Chain

Spec == Init /\ [][Next]_vars

\* The timers tick, the streams move, the application answers, updates are
\* saved and the end of a link is noticed at the other end.
Fairness ==
    /\ WF_vars(Saved) /\ WF_vars(Chain)
    /\ \A l \in Links :
          /\ WF_vars(write(l)) /\ WF_vars(receive(l))
          /\ WF_vars(link[l].receiver = "closed" /\ closeSender(l))
          /\ WF_vars(link[l].sender = "closed" /\ closeReceiver(l))
          /\ \A p \in Packets :
                /\ SF_vars(transmit(l, p)) /\ WF_vars(prepared(l, p))
                /\ SF_vars(choose(l, p)) /\ WF_vars(acknowledged(l, p))

FairSpec == Spec /\ Fairness

-----------------------------------------------------------------------------
(* Properties.                                                              *)

\* The application takes a packet once, however many links bring it: the
\* packet is remembered only after the application answered, so two copies
\* must not be under way together.
TakenOnce == \A p \in Packets : got[p] <= 1

\* A transmission that resolved was taken by the other side's application,
\* although either end may close at any moment.
AnsweredIsTaken == \A lp \in sent : got[lp[2]] >= 1

\* The consent in force is never wider than what the user asked last, while
\* earlier requests are still being saved.
ConsentIsCurrent == relaying => consent.asked

\* On a link that stays open a packet retained gets through, or is cancelled.
NothingStalls ==
    \A l \in Links, p \in Packets :
        (link[l].sender = "open" /\ p \in retained)
            ~> (link[l].sender = "closed" \/ p \notin retained \/ got[p] > 0)

\* An assembly does not wait for the deadline that would cost the link: it is
\* completed, or dropped when the sender gives the packet up.
AssembliesEnd ==
    \A l \in Links, p \in Packets :
        asm[l][p] > 0 ~> (asm[l][p] = 0 \/ link[l].sender = "closed")

=============================================================================
