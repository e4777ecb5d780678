------------------------- MODULE StorePersistence -------------------------
(***************************************************************************)
(* The local-persistence debt of a data store:                             *)
(* packages/data/src/store/persistence.ts, createPersistenceController,    *)
(* over the durable port of log.ts (synchronous SQLite) or browser.ts      *)
(* (asynchronous IndexedDB), and the disposal of the store that owns it    *)
(* (store.ts, asyncDispose).                                               *)
(*                                                                         *)
(* A port commits one batch atomically or refuses it.  The engine is       *)
(* abstracted to the sequence of operations it has committed, the mirror   *)
(* to the sequence it has absorbed: AccountReplica gives both a meaning.   *)
(***************************************************************************)
EXTENDS Sequences, Naturals

CONSTANTS
    Op,             \* durable operations (DurableOp)
    Batches,        \* the batches of operations a verb may enqueue at once
    Callers,        \* callers of persistence.flush()
    Drain,          \* the one caller of drain(): the store's disposal
    Ports,          \* kinds of durable port a session may be opened over
    MaxOps          \* bound: operations accepted in one session

ASSUME BatchesAssumption == Batches \subseteq Seq(Op) \ {<<>>}
ASSUME DrainAssumption == Drain \notin Callers
ASSUME PortsAssumption == Ports \subseteq {"synchronous", "asynchronous"}
ASSUME MaxOpsAssumption == MaxOps \in Nat

VARIABLES
    accepted,       \* history: everything this session accepted, in order
    engine,         \* what the durable engine has committed
    mirror,         \* what the controller has absorbed of it
    queue,          \* accepted and not handed to the port
    flying,         \* handed to an asynchronous port and not settled
    phase,          \* where that batch is: see Phase
    again,          \* work or a flush arrived while a batch was out
    settled,        \* flush() promises nobody has resolved yet
    told,           \* the status the subscribers were last told
    answered,       \* history: how the port last answered
    life,           \* the store: open, draining its last flush, closed
    port            \* the engine's: SQLite's commit() returns, IndexedDB's promises

vars == <<accepted, engine, mirror, queue, flying, phase, again, settled,
          told, answered, life, port>>

\* "landed" and "refused": the transaction ended, its promise has not been
\* observed; "handled": .then ran, .finally has not.
Phase == {"idle", "out", "landed", "refused", "handled"}
Waiter == [who : Callers \cup {Drain}, owes : Nat, tried : BOOLEAN]

InFlight == phase # "idle"
Synchronous == port = "synchronous"
Statuses == {"saved", "pending", "blocked"}
Status == IF InFlight \/ again THEN "pending"
          ELSE IF queue # <<>> THEN "blocked" ELSE "saved"

TypeOK ==
    /\ accepted \in Seq(Op) /\ engine \in Seq(Op) /\ mirror \in Seq(Op)
    /\ queue \in Seq(Op) /\ flying \in Seq(Op)
    /\ phase \in Phase
    /\ again \in BOOLEAN
    /\ settled \subseteq Waiter
    /\ told \in Statuses
    /\ answered \in {"none", "ok", "failed"}
    /\ life \in {"open", "draining", "closed"} /\ port \in Ports
    /\ (flying = <<>>) = (phase = "idle")
    /\ Synchronous => phase = "idle"

\* A session opened over what the engine holds (loadDurableSnapshot): the
\* mirror is the engine and nothing is owed.
Opened(held) ==
    /\ engine = held /\ accepted = held /\ mirror = held
    /\ queue = <<>> /\ flying = <<>> /\ phase = "idle" /\ again = FALSE
    /\ settled = {} /\ told = "saved" /\ answered = "none" /\ life = "open"

Init == Opened(<<>>) /\ port \in Ports

------------------------------------------------------------------------
(* The pieces of the controller. *)

\* settle(): nothing is out and nothing is asked for, so every waiter resolves.
Settle == settled' = {}

\* attempt() with nothing in flight, `pending` being the whole queue and
\* `waiting` the flush promises still open.
NothingToDo(pending, waiting) ==
    /\ pending = <<>>
    /\ queue' = <<>> /\ flying' = <<>> /\ phase' = "idle" /\ again' = FALSE
    /\ Settle
    /\ UNCHANGED <<engine, mirror, answered>>

Threw(pending, waiting) ==
    /\ Synchronous /\ pending # <<>>
    /\ queue' = pending /\ flying' = <<>> /\ phase' = "idle" /\ again' = FALSE
    /\ answered' = "failed"
    /\ Settle
    /\ UNCHANGED <<engine, mirror>>

CommittedInline(pending, waiting) ==
    /\ Synchronous /\ pending # <<>>
    /\ queue' = <<>> /\ flying' = <<>> /\ phase' = "idle" /\ again' = FALSE
    /\ engine' = engine \o pending /\ mirror' = mirror \o pending
    /\ answered' = "ok"
    /\ Settle

HandedOff(pending, waiting) ==
    /\ ~Synchronous /\ pending # <<>>
    /\ queue' = <<>> /\ flying' = pending /\ phase' = "out" /\ again' = FALSE
    /\ settled' = {[w EXCEPT !.tried = TRUE] : w \in waiting}
    /\ UNCHANGED <<engine, mirror, answered>>

Attempt(pending, waiting) ==
    /\ \/ NothingToDo(pending, waiting)
       \/ Threw(pending, waiting)
       \/ CommittedInline(pending, waiting)
       \/ HandedOff(pending, waiting)
    /\ told' = Status'

\* attempt() while a batch is out: only the request is remembered.
AskAgain(pending, waiting) ==
    /\ queue' = pending /\ again' = TRUE /\ settled' = waiting
    /\ UNCHANGED <<engine, mirror, flying, phase, told, answered>>

------------------------------------------------------------------------
(* The actions. *)

\* A row document's own edits still arrive while the store drains: only the
\* store's verbs are refused once it is disposed.
Enqueue(ops) ==
    /\ life # "closed"
    /\ Len(accepted) + Len(ops) <= MaxOps
    /\ accepted' = accepted \o ops
    /\ IF InFlight THEN AskAgain(queue \o ops, settled)
                   ELSE Attempt(queue \o ops, settled)
    /\ UNCHANGED <<life, port>>

\* Mistaken: a flush that finds a batch out waits for that batch alone.
JoinRequest(who) ==
    LET waiter == [who |-> who, owes |-> Len(accepted), tried |-> FALSE]
    IN  IF InFlight
        THEN /\ settled' = settled \cup {waiter}
             /\ UNCHANGED <<engine, mirror, queue, flying, phase, again, told,
                            answered>>
        ELSE Attempt(queue, settled \cup {waiter})

\* flush(): an attempt; its promise is left open only if a batch is now out.
Request(who) ==
    LET waiter == [who |-> who, owes |-> Len(accepted), tried |-> FALSE]
    IN  IF InFlight THEN AskAgain(queue, settled \cup {waiter})
                    ELSE Attempt(queue, settled \cup {waiter})

Awaiting(who) == \E w \in settled : w.who = who

Flush(caller) ==
    /\ life # "closed" /\ ~Awaiting(caller)
    /\ Request(caller)
    /\ UNCHANGED <<accepted, life, port>>

Dispose ==
    /\ life = "open"
    /\ life' = "draining"
    /\ Request(Drain)
    /\ UNCHANGED <<accepted, port>>

\* The drain resolved: documents and the port are let go.
Close ==
    /\ life = "draining" /\ ~Awaiting(Drain)
    /\ life' = "closed"
    /\ UNCHANGED <<accepted, engine, mirror, queue, flying, phase, again,
                   settled, told, answered, port>>

\* The port (external): the transaction commits, or aborts.
Land ==
    /\ phase = "out"
    /\ phase' = "landed" /\ engine' = engine \o flying
    /\ UNCHANGED <<accepted, mirror, queue, flying, again, settled, told,
                   answered, life, port>>

Refuse ==
    /\ phase = "out"
    /\ phase' = "refused"
    /\ UNCHANGED <<accepted, engine, mirror, queue, flying, again, settled,
                   told, answered, life, port>>

Succeeded ==
    /\ phase = "landed"
    /\ mirror' = mirror \o flying
    /\ phase' = "handled" /\ answered' = "ok"
    /\ UNCHANGED <<accepted, engine, queue, flying, again, settled, told, life, port>>

\* Mistaken: the refused batch goes behind what arrived since.
FailedAtTheBack ==
    /\ phase = "refused"
    /\ queue' = queue \o flying
    /\ phase' = "handled" /\ answered' = "failed"
    /\ UNCHANGED <<accepted, engine, mirror, flying, again, settled, told, life, port>>

\* Mistaken: the refused batch is dropped.
FailedForGood ==
    /\ phase = "refused"
    /\ phase' = "handled" /\ answered' = "failed"
    /\ UNCHANGED <<accepted, engine, mirror, queue, flying, again, settled, told,
                   life, port>>

Failed ==
    /\ phase = "refused"
    /\ queue' = flying \o queue
    /\ phase' = "handled" /\ answered' = "failed"
    /\ UNCHANGED <<accepted, engine, mirror, flying, again, settled, told, life, port>>

\* Mistaken: a refusal is retried at once, for as long as it takes.
FinallySpinning ==
    /\ phase = "handled"
    /\ IF again \/ queue # <<>>
       THEN Attempt(queue, settled)
       ELSE /\ phase' = "idle" /\ flying' = <<>>
            /\ Settle
            /\ UNCHANGED <<engine, mirror, queue, again, answered>>
            /\ told' = Status'
    /\ UNCHANGED <<accepted, life, port>>

Finally ==
    /\ phase = "handled"
    /\ IF again
       THEN Attempt(queue, settled)
       ELSE /\ phase' = "idle" /\ flying' = <<>>
            /\ Settle
            /\ UNCHANGED <<engine, mirror, queue, again, answered>>
            /\ told' = Status'
    /\ UNCHANGED <<accepted, life, port>>

\* The process dies, or the closed store is opened again.  A transaction that
\* was out and had not committed is gone.
Restart ==
    /\ accepted' = engine /\ mirror' = engine /\ UNCHANGED <<engine, port>>
    /\ queue' = <<>> /\ flying' = <<>> /\ phase' = "idle" /\ again' = FALSE
    /\ settled' = {} /\ told' = "saved" /\ answered' = "none" /\ life' = "open"

Next ==
    \/ \E ops \in Batches : Enqueue(ops)
    \/ \E caller \in Callers : Flush(caller)
    \/ Dispose \/ Close
    \/ Land \/ Refuse \/ Succeeded \/ Failed \/ Finally
    \/ Restart

\* A transaction ends one way or the other, and microtasks run.
Fairness ==
    /\ WF_vars(Land \/ Refuse)
    /\ WF_vars(Succeeded) /\ WF_vars(Failed) /\ WF_vars(Finally)
    /\ WF_vars(Close)

Spec == Init /\ [][Next]_vars /\ Fairness

------------------------------------------------------------------------
(* Properties. *)

\* What was accepted and is not in the engine, in order: the batch that is
\* out, unless it landed or came back to the queue, then the queue.
Outstanding ==
    IF phase = "out" \/ phase = "refused" THEN flying \o queue ELSE queue

\* Nothing is lost, duplicated or reordered: the engine followed by the
\* outstanding work is exactly what was accepted, through refusals, retries
\* and work that arrives while a batch is out.
Accounted == accepted = engine \o Outstanding

\* persistence.ts:96 `saved` means no accepted work remains only in memory.
SavedIsDurable == Status = "saved" => engine = accepted

\* persistence.ts:97-99 `blocked` means the latest flush failed: work is never
\* left waiting in the queue with nobody having tried to write it.
BlockedMeansFailed == Status = "blocked" => answered = "failed"

\* Whatever is in the queue will be tried, or was: while a batch is out it has
\* asked for another attempt, unless it is what the port just refused.
AttemptPromised ==
    /\ again => InFlight
    /\ InFlight /\ queue # <<>> => again \/ (phase = "handled" /\ answered = "failed")
    /\ ~InFlight /\ queue # <<>> => answered = "failed"

\* Subscribers are told of every change of the status, so what they were last
\* told is the status, at every point where other code can run.
ToldIsStatus == told = Status

\* The sender reads the mirror: it never holds what the engine has not
\* committed, and between flushes it holds all of it.
MirrorIsConfirmed ==
    engine = mirror \o (IF phase = "landed" THEN flying ELSE <<>>)

\* persistence.ts:106-108 flush() requests one attempt over everything
\* outstanding: when it resolves, what was accepted before the call is durable
\* or was refused by an attempt made after the call.
FlushIsHonest ==
    [][\A w \in settled :
          settled' = {} /\ ~Restart
              => w.tried \/ Len(engine) >= w.owes]_vars

\* store.ts:1780-1785 disposal makes one final attempt and never hangs on a
\* blocked engine.
DrainTerminates == life = "draining" ~> life # "draining"

\* What holds of every reachable state and is preserved by every step.
IInv ==
    /\ TypeOK /\ Accounted /\ MirrorIsConfirmed /\ AttemptPromised /\ ToldIsStatus

Log == INSTANCE DurableLog WITH durable <- engine

\* The controller implements the durable log.
ImplementsLog == Log!Spec
===========================================================================
