--------------------------- MODULE RowDocuments ---------------------------
(***************************************************************************)
(* The row documents of a store: packages/data/src/store/documents.ts      *)
(* (open, hydrate, release, acceptRemote, retire, states, destroy) over    *)
(* the queue of persistence.ts and an IndexedDB port.                      *)
(*                                                                         *)
(* IndexedDB (external) runs overlapping transactions in the order they    *)
(* were created: `transactions` is that order.  What a transaction's end   *)
(* sets off in promise callbacks runs before the next one ends, so it is   *)
(* part of the step that ends it.                                          *)
(***************************************************************************)
EXTENDS Naturals, FiniteSets, Sequences

CONSTANTS
    Rows,           \* addresses of row documents
    Openers,        \* callers that open a document and hold a handle
    Mine, Theirs,   \* updates authored here, and by other devices
    None

ASSUME UpdatesAssumption == Mine \cap Theirs = {} /\ None \notin Rows

Update == Mine \cup Theirs

\* A live document.
Document == [holds : SUBSET Update, references : Nat \ {0}]
ASSUME NoneAssumption == None \notin Document

VARIABLES
    live,           \* the live document of each address, or None
    hydration,      \* how the latest hydration of each address went
    retired,        \* addresses retired in this session or before it
    opener,         \* each caller: where its open() is, and of which address
    chain,          \* durable chain of each address
    queue, flying,  \* accepted operations: waiting, and in the open batch
    transactions,   \* IndexedDB transactions created and not ended
    snapshot,       \* the states() call under way
    taken,          \* history: updates made so far
    disposed

documents == <<live, hydration, retired, opener>>
port == <<chain, queue, flying, transactions>>
vars == <<documents, port, snapshot, taken, disposed>>

Append1(address, update) == [kind |-> "append", document |-> address, bytes |-> update]
RetireOp(address) == [kind |-> "retire", document |-> address]
Read(address) == [for |-> "hydrate", document |-> address]
Write == [for |-> "commit", document |-> None]

\* Where a batch appends to an address, or retires it, and the updates it appends.
OfKind(kind, address, ops) ==
    {i \in DOMAIN ops : ops[i].kind = kind /\ ops[i].document = address}
AppendsOf(address, ops) == {ops[i].bytes : i \in OfKind("append", address, ops)}
PendingAppends(address) == AppendsOf(address, flying) \cup AppendsOf(address, queue)
PendingDocuments ==
    {r \in Rows : PendingAppends(r) # {}}

Init ==
    /\ live = [r \in Rows |-> None] /\ hydration = [r \in Rows |-> "none"]
    /\ retired = {} /\ opener = [o \in Openers |-> [at |-> "idle", document |-> None]]
    /\ chain = [r \in Rows |-> {}] /\ queue = <<>> /\ flying = <<>>
    /\ transactions = <<>>
    /\ snapshot = [at |-> "idle", todo |-> {}, document |-> None, sections |-> {}]
    /\ taken = {} /\ disposed = FALSE

------------------------------------------------------------------------
(* The queue and the port. *)

\* enqueue(): handed to the port at once unless a batch is out.
Enqueue(op) ==
    IF flying = <<>>
    THEN /\ flying' = queue \o <<op>> /\ queue' = <<>>
         /\ transactions' = transactions \o <<Write>>
    ELSE /\ queue' = queue \o <<op>>
         /\ UNCHANGED <<flying, transactions>>

\* What a batch makes of an address's chain: a retirement deletes the rows there are by
\* then, and what is appended after it stays.
Applied(held, address, ops) ==
    LET retirements == OfKind("retire", address, ops)
        kept == {i \in OfKind("append", address, ops) : \A j \in retirements : j < i}
    IN  (IF retirements = {} THEN held ELSE {}) \cup {ops[i].bytes : i \in kept}

\* The batch ends, and what arrived meanwhile is the next one.
NextBatch(waiting, rest) ==
    IF waiting # <<>>
    THEN flying' = waiting /\ queue' = <<>> /\ transactions' = rest \o <<Write>>
    ELSE flying' = <<>> /\ queue' = <<>> /\ transactions' = rest

CommitLands ==
    /\ transactions # <<>> /\ Head(transactions) = Write
    /\ chain' = [r \in Rows |-> Applied(chain[r], r, flying)]
    /\ NextBatch(queue, Tail(transactions))
    /\ UNCHANGED <<documents, snapshot, taken, disposed>>

\* Mutant of CommitRefused: a refused batch is dropped when other work waits.
CommitRefusedDropped ==
    /\ transactions # <<>> /\ Head(transactions) = Write
    /\ IF queue # <<>> THEN NextBatch(queue, Tail(transactions))
       ELSE /\ flying' = <<>> /\ queue' = flying /\ transactions' = Tail(transactions)
    /\ UNCHANGED <<documents, chain, snapshot, taken, disposed>>

CommitRefused ==
    /\ transactions # <<>> /\ Head(transactions) = Write
    /\ IF queue # <<>> THEN NextBatch(flying \o queue, Tail(transactions))
       ELSE /\ flying' = <<>> /\ queue' = flying /\ transactions' = Tail(transactions)
    /\ UNCHANGED <<documents, chain, snapshot, taken, disposed>>

------------------------------------------------------------------------
(* Opening and closing. *)

\* open(), up to its await: one live document per address, held before the wait.
Open(o, r) ==
    /\ ~disposed /\ opener[o].at = "idle" /\ r \notin retired
    /\ opener' = [opener EXCEPT ![o] = [at |-> "waiting", document |-> r]]
    /\ IF live[r] = None
       THEN /\ live' = [live EXCEPT ![r] = [holds |-> {}, references |-> 1]]
            /\ hydration' = [hydration EXCEPT ![r] = "reading"]
            /\ transactions' = transactions \o <<Read(r)>>
       ELSE /\ live' = [live EXCEPT ![r].references = @ + 1]
            /\ UNCHANGED <<hydration, transactions>>
    /\ UNCHANGED <<retired, chain, queue, flying, snapshot, taken, disposed>>

\* Mutant of Hydrate: what is in the queue is not replayed.
HydrateFromChain ==
    /\ transactions # <<>> /\ Head(transactions).for = "hydrate"
    /\ LET r == Head(transactions).document
       IN  /\ hydration' = [hydration EXCEPT ![r] = "done"]
           /\ live' = IF live[r] = None THEN live
                      ELSE [live EXCEPT ![r].holds = @ \cup chain[r]]
    /\ transactions' = Tail(transactions)
    /\ UNCHANGED <<retired, opener, chain, queue, flying, snapshot, taken, disposed>>

\* hydrate(), after its await: the chain as it was read, and what is pending now.
Hydrate ==
    /\ transactions # <<>> /\ Head(transactions).for = "hydrate"
    /\ LET r == Head(transactions).document
           held == chain[r] \cup PendingAppends(r)
       IN  /\ hydration' = [hydration EXCEPT ![r] = "done"]
           /\ live' = IF live[r] = None THEN live
                      ELSE [live EXCEPT ![r].holds = @ \cup held]
    /\ transactions' = Tail(transactions)
    /\ UNCHANGED <<retired, opener, chain, queue, flying, snapshot, taken, disposed>>

HydrationFails ==
    /\ transactions # <<>> /\ Head(transactions).for = "hydrate"
    /\ hydration' = [hydration EXCEPT ![Head(transactions).document] = "failed"]
    /\ transactions' = Tail(transactions)
    /\ UNCHANGED <<live, retired, opener, chain, queue, flying, snapshot, taken, disposed>>

\* release(): the last hold unloads the live document.
Released(r) ==
    IF live[r] = None THEN live
    ELSE IF live[r].references > 1 THEN [live EXCEPT ![r].references = @ - 1]
    ELSE [live EXCEPT ![r] = None]

Idle(o) == opener' = [opener EXCEPT ![o] = [at |-> "idle", document |-> None]]

\* open(), after its await.
Concluded(o) == opener[o].at = "waiting" /\ hydration[opener[o].document] # "reading"

OpenFails(o) ==
    /\ Concluded(o)
    /\ hydration[opener[o].document] = "failed" \/ opener[o].document \in retired
    /\ live' = Released(opener[o].document) /\ Idle(o)
    /\ UNCHANGED <<hydration, retired, port, snapshot, taken, disposed>>

OpenSucceeds(o) ==
    /\ Concluded(o)
    /\ hydration[opener[o].document] = "done" /\ opener[o].document \notin retired
    /\ opener' = [opener EXCEPT ![o].at = "holding"]
    /\ UNCHANGED <<live, hydration, retired, port, snapshot, taken, disposed>>

Close(o) ==
    /\ opener[o].at = "holding"
    /\ live' = Released(opener[o].document) /\ Idle(o)
    /\ UNCHANGED <<hydration, retired, port, snapshot, taken, disposed>>

------------------------------------------------------------------------
(* Writing, receiving, retiring. *)

\* A handle's edit; through a revoked document it reaches nothing.
Write1(o, update) ==
    /\ opener[o].at = "holding" /\ update \in Mine \ taken
    /\ LET r == opener[o].document
       IN  IF live[r] = None THEN UNCHANGED <<live, queue, flying, transactions>>
           ELSE /\ live' = [live EXCEPT ![r].holds = @ \cup {update}]
                /\ Enqueue(Append1(r, update))
    /\ taken' = taken \cup {update}
    /\ UNCHANGED <<hydration, retired, opener, chain, snapshot, disposed>>

\* Mutant of AcceptRemote: a late update of a retired address is stored.
AcceptRemoteLate(r, update) ==
    /\ ~disposed /\ update \in Theirs \ taken
    /\ live' = IF live[r] = None THEN live
               ELSE [live EXCEPT ![r].holds = @ \cup {update}]
    /\ Enqueue(Append1(r, update))
    /\ taken' = taken \cup {update}
    /\ UNCHANGED <<hydration, retired, opener, chain, snapshot, disposed>>

AcceptRemote(r, update) ==
    /\ ~disposed /\ update \in Theirs \ taken
    /\ IF r \in retired THEN UNCHANGED <<live, queue, flying, transactions>>
       ELSE /\ live' = IF live[r] = None THEN live
                       ELSE [live EXCEPT ![r].holds = @ \cup {update}]
            /\ Enqueue(Append1(r, update))
    /\ taken' = taken \cup {update}
    /\ UNCHANGED <<hydration, retired, opener, chain, snapshot, disposed>>

Retire(r) ==
    /\ ~disposed /\ r \notin retired
    /\ retired' = retired \cup {r}
    /\ live' = [live EXCEPT ![r] = None]
    /\ Enqueue(RetireOp(r))
    /\ UNCHANGED <<hydration, opener, chain, snapshot, taken, disposed>>

\* The store is disposed: every live document is destroyed.
Destroy ==
    /\ ~disposed /\ disposed' = TRUE
    /\ live' = [r \in Rows |-> None]
    /\ UNCHANGED <<hydration, retired, opener, port, snapshot, taken>>

------------------------------------------------------------------------
(* states(): the snapshot's document half. *)

LiveKeys == {r \in Rows : live[r] # None}
Skipped(r) == r \in retired \/ live[r] # None
LiveSections(todo) ==
    {[document |-> r, bytes |-> live[r].holds] : r \in (todo \cap LiveKeys) \ retired}

SnapshotStarts ==
    /\ ~disposed /\ snapshot.at = "idle"
    /\ snapshot' = [at |-> "listing", todo |-> LiveKeys, document |-> None, sections |-> {}]
    /\ transactions' = transactions \o <<[for |-> "list", document |-> None]>>
    /\ UNCHANGED <<documents, chain, queue, flying, taken, disposed>>

\* The loop, up to its next await or its end: retired addresses are skipped, live
\* documents are encoded, the first stored one is asked for.
Walk(todo, sections, rest) ==
    \/ /\ \A r \in todo : Skipped(r)
       /\ snapshot' = [at |-> "idle", todo |-> {}, document |-> None,
                       sections |-> sections \cup LiveSections(todo)]
       /\ transactions' = rest
    \/ \E r \in todo, before \in SUBSET todo :
           /\ ~Skipped(r) /\ \A q \in before : Skipped(q)
           /\ snapshot' = [at |-> "reading", todo |-> todo \ (before \cup {r}),
                           document |-> r, sections |-> sections \cup LiveSections(before)]
           /\ transactions' = rest \o <<[for |-> "state", document |-> r]>>

\* listDocuments() answers, or fails and counts as an empty list (readAddresses);
\* the queue is looked at now.
SnapshotLists ==
    /\ transactions # <<>> /\ Head(transactions).for = "list"
    /\ \E listed \in {{r \in Rows : chain[r] # {}}, {}} :
           Walk(snapshot.todo \cup listed \cup PendingDocuments, {}, Tail(transactions))
    /\ UNCHANGED <<documents, chain, queue, flying, taken, disposed>>

\* Mutant of SnapshotReads: the section is what the chain held, without the queue.
SnapshotReadsChain ==
    /\ transactions # <<>> /\ Head(transactions).for = "state"
    /\ LET r == Head(transactions).document
           section == IF chain[r] = {} THEN {} ELSE {[document |-> r, bytes |-> chain[r]]}
       IN  Walk(snapshot.todo, snapshot.sections \cup section, Tail(transactions))
    /\ UNCHANGED <<documents, chain, queue, flying, taken, disposed>>

SnapshotReads ==
    /\ transactions # <<>> /\ Head(transactions).for = "state"
    /\ LET r == Head(transactions).document
           bytes == chain[r] \cup PendingAppends(r)
           section == IF bytes = {} THEN {} ELSE {[document |-> r, bytes |-> bytes]}
       IN  Walk(snapshot.todo, snapshot.sections \cup section, Tail(transactions))
    /\ UNCHANGED <<documents, chain, queue, flying, taken, disposed>>

\* readDocument() fails inside states(): the caller gets the error, no snapshot.
SnapshotFails ==
    /\ transactions # <<>> /\ Head(transactions).for = "state"
    /\ snapshot' = [at |-> "idle", todo |-> {}, document |-> None, sections |-> {}]
    /\ transactions' = Tail(transactions)
    /\ UNCHANGED <<documents, chain, queue, flying, taken, disposed>>

------------------------------------------------------------------------
Next ==
    \/ CommitLands \/ CommitRefused
    \/ \E o \in Openers, r \in Rows : Open(o, r)
    \/ Hydrate \/ HydrationFails
    \/ \E o \in Openers : OpenFails(o) \/ OpenSucceeds(o) \/ Close(o)
    \/ \E o \in Openers, update \in Mine : Write1(o, update)
    \/ \E r \in Rows, update \in Theirs : AcceptRemote(r, update)
    \/ \E r \in Rows : Retire(r)
    \/ Destroy
    \/ SnapshotStarts \/ SnapshotLists \/ SnapshotReads \/ SnapshotFails

\* Transactions end, and promise callbacks run.
Fairness ==
    /\ WF_vars(CommitLands \/ CommitRefused) /\ WF_vars(Hydrate \/ HydrationFails)
    /\ WF_vars(SnapshotLists) /\ WF_vars(SnapshotReads \/ SnapshotFails)
    /\ \A o \in Openers : WF_vars(OpenFails(o) \/ OpenSucceeds(o))

Spec == Init /\ [][Next]_vars /\ Fairness

------------------------------------------------------------------------
(* Properties. *)

Op == [kind : {"append"}, document : Rows, bytes : Update]
          \cup [kind : {"retire"}, document : Rows]
Transaction == [for : {"hydrate", "state"}, document : Rows]
                   \cup [for : {"commit", "list"}, document : {None}]
Section == [document : Rows, bytes : SUBSET Update]

TypeOK ==
    /\ live \in [Rows -> {None} \cup Document]
    /\ hydration \in [Rows -> {"none", "reading", "done", "failed"}]
    /\ retired \subseteq Rows
    /\ opener \in [Openers -> [at : {"idle"}, document : {None}]
                                 \cup [at : {"waiting", "holding"}, document : Rows]]
    /\ chain \in [Rows -> SUBSET Update] /\ queue \in Seq(Op) /\ flying \in Seq(Op)
    /\ transactions \in Seq(Transaction)
    /\ snapshot \in [at : {"idle", "listing", "reading"}, todo : SUBSET Rows,
                      document : Rows \cup {None}, sections : SUBSET Section]
    /\ taken \subseteq Update /\ disposed \in BOOLEAN

\* documents.ts:196-200 a document opened while a flush is out sees everything the
\* store accepted for it, whenever the read and the flush end.
HydratedIsComplete ==
    \A r \in Rows :
        live[r] # None /\ hydration[r] = "done"
            => chain[r] \cup PendingAppends(r) \subseteq live[r].holds

\* documents.ts:213-215 unloading a live document loses nothing: every byte it
\* holds is in the durable chain or in the queue.
UnloadingLosesNothing ==
    \A r \in Rows : live[r] # None => live[r].holds \subseteq chain[r] \cup PendingAppends(r)

\* What is still to be written, in order.
Outstanding == flying \o queue

\* documents.ts:299-302 after its retirement an address takes no byte: whatever is
\* still to be written for it comes before the retirement in the queue.
NothingAfterRetirement ==
    LET ops == Outstanding
    IN  \A i, j \in DOMAIN ops :
            (/\ ops[i].kind = "retire" /\ ops[j].kind = "append"
             /\ ops[i].document = ops[j].document) => j < i

\* An open() that waits for its hydration is answered.
OpenIsAnswered == \A o \in Openers : opener[o].at = "waiting" ~> opener[o].at # "waiting"

\* What the store accepted for an address and has not retired.
Accepted(r) == chain[r] \cup PendingAppends(r)

\* documents.ts:326-346 the section of a document that is not being opened holds all
\* the store accepted for its address at the moment it is taken, wherever the bytes
\* are by then.
StoredSectionsAreComplete ==
    [][\A section \in snapshot'.sections \ snapshot.sections :
           LET r == section.document
           IN  live[r] = None \/ hydration[r] = "done" => Accepted(r) \subseteq section.bytes]_vars

\* documents.ts:100-103 "Every live or stored document's complete state".
SectionsAreComplete ==
    [][\A section \in snapshot'.sections \ snapshot.sections :
           Accepted(section.document) \subseteq section.bytes]_vars

\* documents.ts:101-103 "Retired addresses are excluded".
RetiredAreExcluded ==
    [][\A section \in snapshot'.sections \ snapshot.sections :
           section.document \notin retired]_vars

------------------------------------------------------------------------
(* Why they hold. *)

\* A retired address is not live, and no address is retired in the queue that is not
\* retired in memory.
RetiredAreDead == \A r \in retired : live[r] = None
RetirementsAreKnown ==
    \A i \in DOMAIN Outstanding :
        Outstanding[i].kind = "retire" => Outstanding[i].document \in retired

\* One batch is out at most, and its transaction is there as long as it is.
OneBatchIsOut ==
    /\ (flying # <<>>) <=> (\E i \in DOMAIN transactions : transactions[i].for = "commit")
    /\ \A i, j \in DOMAIN transactions :
           transactions[i].for = "commit" /\ transactions[j].for = "commit" => i = j

RowIInv ==
    /\ TypeOK /\ RetiredAreDead /\ RetirementsAreKnown /\ OneBatchIsOut
    /\ HydratedIsComplete /\ UnloadingLosesNothing /\ NothingAfterRetirement
===========================================================================
