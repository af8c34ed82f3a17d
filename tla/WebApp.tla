------------------------------- MODULE WebApp -------------------------------
(***************************************************************************)
(* The application that runs in the dedicated worker of a browser           *)
(* (browser/src/application.ts) over its encrypted IndexedDB profile        *)
(* (browser/src/profile.ts), of which WebOutbox has the operations: its     *)
(* activities, and the session that lock() ends at any moment.              *)
(*                                                                          *)
(* Three activities interleave at every await: the queue of commands, the   *)
(* content the network hands over, and the periodic flush of the outbox.    *)
(* Each write waits its turn for one Web Lock, granted in order, and then   *)
(* reads and commits the whole state in one IndexedDB transaction.  What an *)
(* activity read before its turn may be stale when the turn comes, and the  *)
(* session may have been ended, or ended and opened again.                  *)
(***************************************************************************)
EXTENDS WebOutbox

CONSTANTS
    Perishable,    \* operations whose messages expire within the instance
    MaxLocks,      \* bound on the times the user locks
    MaxFaults      \* bound on aborted transactions and closed tabs

VARIABLES
    session,       \* there is a #session
    task,          \* what each activity is doing; `live` while the session it
                   \* started in has not been ended (its #generation is current)
    queue,         \* the activities waiting for the Web Lock, holder first
    net,           \* messages handed to the network at least once
    locks, faults

vars == <<session, quota, db, task, queue, net, expired, locks, faults>>

Activities == {"command", "ingest", "flush"}
Idle == [pc |-> "idle", live |-> FALSE, arg |-> None, ops |-> {}, release |-> {}]

TypeOK ==
    /\ session \in BOOLEAN
    /\ quota \in Quotas \cup {DefaultQuota}
    /\ db \in State /\ db.reserved \subseteq db.held
    /\ DOMAIN task = Activities
    /\ queue \in Seq(Activities)
    /\ net \in SUBSET Ops /\ expired \in SUBSET Ops

Init ==
    /\ session = FALSE
    /\ quota = DefaultQuota
    /\ db = [profile |-> "none", outbox |-> [o \in Ops |-> None], held |-> {}, reserved |-> {},
             receipts |-> {}, quota |-> DefaultQuota]
    /\ task = [t \in Activities |-> Idle]
    /\ queue = <<>>
    /\ net = {} /\ expired = {}
    /\ locks = 0 /\ faults = 0

-----------------------------------------------------------------------------
(* Sessions, turns and transactions.                                        *)

\* guard(generation) of the application, guard(session) of the profile.
Guard(t) == session /\ task[t].live

\* getBundle, of a session that is still the same.
Readable(t, id) == Guard(t) /\ id \in db.held

Opening(t) ==
    t = "command" /\ task[t].pc \in {"fill", "quota-open", "reconcile", "reconciling"}

Set(t, next) == task' = [task EXCEPT ![t] = next]
Go(t, pc) == [task[t] EXCEPT !.pc = pc]
Wait(t, next) == Set(t, next) /\ queue' = Append(queue, t)
Turn(t, pc) == queue # <<>> /\ Head(queue) = t /\ task[t].pc = pc

\* Every activity as lock() leaves it: its session is not the current one.
Ended(tasks) == [t \in Activities |-> [tasks[t] EXCEPT !.live = FALSE]]

\* MUTANT: an exception leaves #flushing set.
Thrown_Flushing(t) ==
    LET next == [task EXCEPT ![t] = IF t = "flush" THEN [Idle EXCEPT !.pc = "stuck"] ELSE Idle]
    IN  IF Opening(t) THEN session' = FALSE /\ task' = Ended(next)
        ELSE UNCHANGED session /\ task' = next

\* An exception ends the activity; one that escapes open() locks again.
Thrown(t) ==
    LET next == [task EXCEPT ![t] = Idle]
    IN  IF Opening(t) THEN session' = FALSE /\ task' = Ended(next)
        ELSE UNCHANGED session /\ task' = next

\* The quota that open() applies: the one saved with the application.
OpenQuota == db.quota

\* The holder of the Web Lock fails: nothing is written and the lock passes on.
Refused(t) ==
    /\ Thrown(t)
    /\ queue' = Tail(queue)
    /\ UNCHANGED <<quota, db, net, expired, locks, faults>>

\* The holder of the Web Lock commits `to`, hands the messages `out` to the
\* network and goes on as `next`, at the end of the line when `again`.  lock()
\* may come between the commit and the check of the session that follows it,
\* and the transaction may abort.
Commit(t, to, out, next, again) ==
    /\ \/ /\ db' = to
          /\ quota' = CASE task[t].pc = "quota" -> task[t].arg
                        [] task[t].pc = "quota-open" -> OpenQuota
                        [] OTHER -> quota
          /\ net' = net \cup out
          /\ Set(t, next)
          /\ queue' = IF again THEN Append(Tail(queue), t) ELSE Tail(queue)
          /\ session' = (session \/ task[t].pc = "creating")
          /\ UNCHANGED <<locks, faults>>
       \/ /\ locks < MaxLocks
          /\ locks' = locks + 1
          /\ db' = to
          /\ task' = Ended([task EXCEPT ![t] = Idle])
          /\ session' = FALSE
          /\ queue' = Tail(queue)
          /\ UNCHANGED <<quota, net, faults>>
       \/ /\ faults < MaxFaults
          /\ faults' = faults + 1
          /\ Thrown(t)
          /\ queue' = Tail(queue)
          /\ UNCHANGED <<db, quota, net, locks>>
    /\ UNCHANGED <<expired>>

\* mutation: the value is checked before the change and after it, and a write
\* that would break it is refused.
Mutate(t, to, out, next, again) ==
    IF Valid(db) /\ Valid(to) THEN Commit(t, to, out, next, again) ELSE Refused(t)

\* A step that neither writes nor takes its turn.
Local == UNCHANGED <<quota, db, net, expired, locks, faults>>

-----------------------------------------------------------------------------
(* Setting up and unlocking.                                                *)

Ready(t) == task[t].pc = "idle"

Start(pc, arg) == [Idle EXCEPT !.pc = pc, !.arg = arg, !.live = TRUE]

\* execute("setup"), which the page offers while there is no identity.
CallSetup ==
    /\ Ready("command") /\ db.profile = "none"
    /\ Wait("command", Start("setup", None))
    /\ UNCHANGED session /\ Local

\* The identity is made before anything is written ...
MakeIdentity ==
    /\ Turn("command", "setup")
    /\ IF db.profile = "none"
       THEN Set("command", Start("creating", None)) /\ UNCHANGED <<session, queue>> /\ Local
       ELSE Refused("command")

\* ... and vault and state are one transaction, unless lock() came meanwhile.
install ==
    /\ Turn("command", "creating")
    /\ IF task["command"].live
       THEN Commit("command", [db EXCEPT !.profile = "bare"], {}, Go("command", "fill"), TRUE)
       ELSE Refused("command")

\* open(), of a profile that has no application in it yet.
Fill ==
    /\ Turn("command", "fill")
    /\ IF session
       THEN Commit("command", [db EXCEPT !.profile = "ready"], {},
                   Go("command", "quota-open"), TRUE)
       ELSE Refused("command")

\* execute("unlock"): the Web Lock is held while the password is derived.
CallUnlock ==
    /\ Ready("command") /\ ~session /\ db.profile # "none"
    /\ Wait("command", Start("unlock", None))
    /\ UNCHANGED session /\ Local

Derive ==
    /\ Turn("command", "unlock")
    /\ Set("command", Start("deriving", None))
    /\ UNCHANGED <<session, queue>> /\ Local

unlock ==
    /\ Turn("command", "deriving")
    /\ IF task["command"].live
       THEN /\ session' = TRUE
            /\ Set("command", Start(IF db.profile = "bare" THEN "fill" ELSE "quota-open", None))
            /\ queue' = Append(Tail(queue), "command")
       ELSE /\ Thrown("command")
            /\ queue' = Tail(queue)
    /\ Local

\* changeQuota, from open() and from the settings.
changeQuota ==
    \E pc \in {"quota", "quota-open"} :
        /\ Turn("command", pc)
        /\ LET q == IF pc = "quota" THEN task["command"].arg ELSE OpenQuota
               saved == IF pc = "quota" THEN q ELSE db.quota
               next == IF pc = "quota" THEN Idle ELSE Go("command", "reconcile")
           IN  IF session /\ Shrunk(db, q) # {}
               THEN \E d \in Shrunk(db, q) :
                        Mutate("command", [d EXCEPT !.quota = saved], {}, next, FALSE)
               ELSE Refused("command")

CallQuota(q) ==
    /\ Ready("command") /\ session
    /\ Wait("command", Start("quota", q))
    /\ UNCHANGED session /\ Local

\* lock(): at once, whatever is going on.
lock ==
    /\ session \/ task["command"].pc \in {"deriving", "creating"}
    /\ locks < MaxLocks
    /\ locks' = locks + 1
    /\ session' = FALSE
    /\ task' = Ended(task)
    /\ UNCHANGED <<quota, db, queue, net, expired, faults>>

-----------------------------------------------------------------------------
(* Sending.                                                                 *)

\* send: the record of an operation already admitted answers for it.  An
\* identifier whose record was dropped is not used again.
CallSend(o) ==
    /\ Ready("command") /\ session
    /\ db.outbox[o] = None => o \notin db.held \cup net \cup expired
    /\ IF db.outbox[o] = None
       THEN Wait("command", Start("send", o))
       ELSE Set("command", Start("resend", o)) /\ UNCHANGED queue
    /\ UNCHANGED session /\ Local

send ==
    /\ Turn("command", "send")
    /\ LET o == task["command"].arg
           stored == PutBundle(db, o, TRUE)
           admitted == AdmitOutbox(db.outbox, o)
       IN  IF Guard("command") /\ stored # {} /\ admitted # {}
           THEN \E d \in stored, b \in admitted :
                    Mutate("command", [d EXCEPT !.outbox = b], {}, Idle, FALSE)
           ELSE Refused("command")

\* A retry of a send reads the content again and gives the record up without it.
resend ==
    /\ task["command"].pc = "resend"
    /\ LET o == task["command"].arg
       IN  IF Readable("command", o)
           THEN Set("command", Idle) /\ UNCHANGED queue
           ELSE Wait("command", Go("command", "spoil"))
    /\ UNCHANGED session /\ Local

\* view, of one's own message: the same bundle is stored again.
CallView(o) ==
    /\ Ready("command") /\ session /\ o \in db.held \ expired
    /\ Wait("command", Start("store", o))
    /\ UNCHANGED session /\ Local

-----------------------------------------------------------------------------
(* The outbox reconciled with the store, and its flush.                     *)

AfterReconcile(t) ==
    IF t = "flush" THEN [Idle EXCEPT !.pc = "scan"] ELSE Idle

\* reconcile: the records and the identifiers are read first ...
ReconcileRead(t) ==
    /\ task[t].pc = "reconcile" /\ session
    /\ LET missing == {o \in PresentOf(db.outbox) : /\ o \notin db.held
                                                    /\ db.outbox[o].phase # "unavailable"}
           release == PresentOf(db.outbox) \ PendingOf(db.outbox)
       IN  IF missing \cup release = {}
           THEN Set(t, AfterReconcile(t)) /\ UNCHANGED queue
           ELSE Wait(t, [Go(t, "reconciling") EXCEPT !.ops = missing, !.release = release])
    /\ UNCHANGED session /\ Local

\* ... and what they called for is written in its turn.
Reconcile(t) ==
    /\ Turn(t, "reconciling")
    /\ IF session
       THEN Mutate(t, Update(db, Unavailable(db.outbox, task[t].ops), task[t].release),
                   {}, AfterReconcile(t), FALSE)
       ELSE Refused(t)

\* outbox-retry: the next attempt of a pending send is made due, and then comes
\* a flush.
CallRetry(o) ==
    /\ Ready("command") /\ session /\ IsPending(db.outbox, o)
    /\ Wait("command", Start("retry", o))
    /\ UNCHANGED session /\ Local
retry ==
    /\ Turn("command", "retry")
    /\ IF session /\ db.outbox[task["command"].arg] # None
       THEN Mutate("command", db, {}, Idle, FALSE)
       ELSE Refused("command")

\* The timer that open() sets and lock() clears, or a retry.
StartFlush ==
    /\ Ready("flush") /\ session /\ task["command"].pc \notin {"fill", "quota-open"}
    /\ Set("flush", [Idle EXCEPT !.pc = "reconcile"])
    /\ UNCHANGED <<session, queue>> /\ Local

\* The next entry of the flush is read, in the session of the moment.
NextEntry(ops) ==
    IF ops = {} THEN {Idle}
    ELSE {[Idle EXCEPT !.pc = "load", !.arg = o, !.ops = ops \ {o}, !.live = TRUE] :
              o \in ops}

\* The entries that are due, of those still pending.
Scan(due) ==
    /\ task["flush"].pc = "scan" /\ session
    /\ \E next \in NextEntry(PendingOf(db.outbox) \cap due) : Set("flush", next)
    /\ UNCHANGED <<session, queue>> /\ Local

\* With no peer connected there is nothing to do.
NoPeers ==
    /\ task["flush"].pc = "scan" /\ session
    /\ Set("flush", Idle)
    /\ UNCHANGED <<session, queue>> /\ Local

\* Every failure to read is taken for content that is gone or corrupt.
Loaded ==
    /\ task["flush"].pc = "load"
    /\ Wait("flush", Go("flush", IF Readable("flush", task["flush"].arg)
                                THEN "attempt" ELSE "spoil"))
    /\ UNCHANGED session /\ Local

\* The attempt is recorded and the message handed to the network.
Attempt ==
    /\ Turn("flush", "attempt")
    /\ IF session
       THEN \E next \in NextEntry(task["flush"].ops) :
                Mutate("flush", db, {task["flush"].arg}, next, FALSE)
       ELSE Refused("flush")

\* The record is given up and its reservation released, by flush and by send.
Spoil(t) ==
    /\ Turn(t, "spoil")
    /\ LET o == task[t].arg
       IN  IF session
           THEN \E next \in NextEntry(task[t].ops) :
                    Mutate(t, Update(db, Unavailable(db.outbox, {o}), {o}), {}, next, FALSE)
           ELSE Refused(t)

-----------------------------------------------------------------------------
(* Content from the network.                                                *)

\* What peers may hand over: confirmations of what was published and messages
\* of others.
Offered == {a \in Acks : a[1] \in net} \cup Foreign

CallIngest(b) ==
    /\ Ready("ingest") /\ session
    /\ b \in Offered
    /\ IF b \in Acks
       THEN Set("ingest", Start("observe", b)) /\ UNCHANGED queue
       ELSE Wait("ingest", Start("store", b))
    /\ UNCHANGED session /\ Local

\* The records that are over once the confirmation counts.
ToRelease(ack) ==
    PresentOf(db.outbox) \ PendingOf(ApplyConfirmation(db.outbox, ack))

\* A confirmation counts only for a message that is held and readable.
Observe ==
    /\ task["ingest"].pc = "observe"
    /\ LET ack == task["ingest"].arg
           target == ack[1] \in db.held \ expired
       IN  IF ~Guard("ingest")
           THEN Thrown("ingest") /\ UNCHANGED queue
           ELSE /\ Wait("ingest", [Go("ingest", IF target THEN "apply" ELSE "store")
                                   EXCEPT !.release = IF target THEN ToRelease(ack) ELSE {}])
                /\ UNCHANGED session
    /\ Local

Apply ==
    /\ Turn("ingest", "apply")
    /\ IF session
       THEN LET to == Update(db, ApplyConfirmation(db.outbox, task["ingest"].arg),
                             task["ingest"].release)
                store == [Go("ingest", "store") EXCEPT !.release = {}]
            IN  IF task["ingest"].live
                THEN Mutate("ingest", to, {}, store, TRUE)
                ELSE Mutate("ingest", to, {}, Idle, FALSE)
       ELSE Refused("ingest")

\* putBundle, of ingest and of view; a message of another person is answered.
putBundle(t) ==
    /\ Turn(t, "store")
    /\ LET b == task[t].arg
           next == IF b \in Foreign THEN Go(t, "confirm") ELSE Idle
       IN  IF Guard(t) /\ PutBundle(db, b, FALSE) # {}
           THEN \E d \in PutBundle(db, b, FALSE) : Commit(t, d, {}, next, FALSE)
           ELSE Refused(t)

\* confirm: the confirmation already given is published again, if it is there.
confirm(t) ==
    /\ task[t].pc = "confirm"
    /\ LET said == Reply(task[t].arg)
       IN  IF Guard(t) /\ task[t].arg \in db.held
              /\ ~(said \in db.receipts /\ said \in db.held)
           THEN Wait(t, Go(t, "reply"))
           ELSE Set(t, Idle) /\ UNCHANGED queue
    /\ UNCHANGED session /\ Local

Answer(t) ==
    /\ Turn(t, "reply")
    /\ LET said == Reply(task[t].arg)
       IN  IF Guard(t) /\ PutBundle(db, said, FALSE) # {}
           THEN \E d \in PutBundle(db, said, FALSE) :
                    Mutate(t, [d EXCEPT !.receipts = @ \cup {said}], {}, Idle, FALSE)
           ELSE Refused(t)

-----------------------------------------------------------------------------
(* The environment.                                                         *)

\* The session ended under an activity that is between two reads.
Interrupted(t) ==
    /\ ~session
    /\ task[t].pc \in {"reconcile", "scan"}
    /\ Thrown(t)
    /\ UNCHANGED queue /\ Local

Expire(o) ==
    /\ o \in Perishable \cap (db.held \ expired)
    /\ expired' = expired \cup {o}
    /\ UNCHANGED <<session, quota, db, task, queue, net, locks, faults>>

\* The tab is closed and the page opened again.
Reload ==
    /\ faults < MaxFaults
    /\ faults' = faults + 1
    /\ session' = FALSE
    /\ quota' = DefaultQuota
    /\ task' = [t \in Activities |-> Idle]
    /\ queue' = <<>>
    /\ UNCHANGED <<db, net, expired, locks>>

Command ==
    \/ CallSetup \/ MakeIdentity \/ install \/ Fill
    \/ CallUnlock \/ Derive \/ unlock \/ changeQuota
    \/ \E q \in Quotas : CallQuota(q)
    \/ \E o \in Ops : CallSend(o) \/ CallView(o) \/ CallRetry(o)
    \/ send \/ resend \/ retry

Ingest == (\E b \in Bundles : CallIngest(b)) \/ Observe \/ Apply
Flush == StartFlush \/ (\E due \in SUBSET Ops : Scan(due)) \/ NoPeers \/ Loaded \/ Attempt

Shared(t) ==
    \/ ReconcileRead(t) \/ Reconcile(t) \/ Spoil(t) \/ putBundle(t)
    \/ confirm(t) \/ Answer(t) \/ Interrupted(t)

Environment ==
    \/ lock \/ Reload
    \/ \E o \in Ops : Expire(o)

Next == Command \/ Ingest \/ Flush \/ (\E t \in Activities : Shared(t)) \/ Environment

Spec == Init /\ [][Next]_vars

\* The activities run on; the user comes back and unlocks; the timer fires, a
\* peer is connected again and again, and a reader that got the message keeps
\* answering.
Fairness ==
    /\ WF_vars(CallUnlock)
    /\ WF_vars(MakeIdentity \/ install \/ Fill \/ Derive \/ unlock \/ changeQuota
               \/ send \/ resend \/ retry)
    /\ WF_vars(Observe \/ Apply)
    /\ WF_vars(StartFlush) /\ SF_vars(Scan(Ops)) /\ WF_vars(Loaded \/ Attempt)
    /\ \A t \in Activities : WF_vars(Shared(t))
    /\ \A a \in Acks : SF_vars(CallIngest(a))

FairSpec == Spec /\ Fairness

-----------------------------------------------------------------------------
(* Properties.                                                              *)

\* A record leaves the outbox only when it is over, and a confirmation once
\* recorded is never lost to a write prepared before it.
RecordsStand ==
    [][\A o \in Ops : db.outbox[o] # None =>
           \/ db'.outbox[o] = None /\ ~IsPending(db.outbox, o)
           \/ db'.outbox[o] # None /\ db.outbox[o].confirmed \subseteq db'.outbox[o].confirmed]_vars

\* A message that is pending is confirmed, given up or expires:
\* neither lock() nor an aborted write ends the flush for good.
Delivered ==
    \A o \in Ops : IsPending(db.outbox, o) ~> (~IsPending(db.outbox, o))

\* Locking invalidates the work in progress (docs/WEB-APPLICATION.md): a
\* message that is still held is never given up as unavailable.
LockInvalidates ==
    [][\A o \in PendingOf(db.outbox) :
           o \in db.held => ~(db'.outbox[o] # None /\ db'.outbox[o].phase = "unavailable")]_vars

=============================================================================
