-------------------------- MODULE AccountReplica --------------------------
(***************************************************************************)
(* What a replica owes the authority and what it has read from it:         *)
(* packages/data/src/store/store.ts (commit, transact, delete, syncEngine, *)
(* createClientLog), the durable operations of log.ts, and the retirement  *)
(* half of documents.ts.                                                   *)
(*                                                                         *)
(* It stands on StorePersistence: each enqueue() is one member of `owed`,  *)
(* the port commits a prefix of them, atomically and in order, and `mirror`*)
(* follows `engine` when that is observed.  Documents hold sets of         *)
(* updates, because Yjs merges are unions.  The transport and the authority*)
(* are not in this repository: they deliver log entries in order, and may  *)
(* lose a push or an acknowledgement.                                      *)
(***************************************************************************)
EXTENDS Naturals, Sequences, FiniteSetsExt

CONSTANTS
    App,            \* the application document
    Rows,           \* the addresses of row documents, one per row
    Identities,     \* documents an authority may serve
    None,
    MaxEdits,       \* bound: edits of one row's document by one site
    MaxOwed,        \* bound: batches accepted and not committed
    MaxLog,         \* bound: entries of the authority's log
    MaxRestarts     \* bound: restarts

ASSUME DocumentsAssumption == App \notin Rows /\ IsFiniteSet(Rows)
ASSUME NoneAssumption == None \notin Identities
ASSUME BoundsAssumption == MaxEdits \in Nat \ {0} /\ {MaxOwed, MaxLog, MaxRestarts} \subseteq Nat

Documents == Rows \cup {App}
Sites == {"here", "there"}
RowUpdate == [verb : {"insert", "delete"}, row : Rows, by : Sites, n : {0}]
Edit == [verb : {"edit"}, row : Rows, by : Sites, n : 1 .. MaxEdits]
Update == RowUpdate \cup Edit

VARIABLES
    content,        \* what each live document has accepted
    retired,        \* addresses this session knows to be retired
    liveCursor, liveIdentity, ackedThrough, nextOutboxId,
    owed,           \* batches the engine has not committed, oldest first
    engine,         \* the durable store
    mirror,         \* what the controller has absorbed of it
    log,            \* the authority's log (external)
    pushes,         \* submissions on the wire (external)
    acks,           \* acknowledgements on the wire (external)
    restarts        \* how often this replica restarted

local == <<content, retired, liveCursor, liveIdentity, ackedThrough, nextOutboxId>>
storage == <<engine, mirror>>
wire == <<log, pushes, acks>>
vars == <<local, owed, storage, wire, restarts>>

------------------------------------------------------------------------
(* The durable store and its operations.  `outboxId` holds one id, or none. *)

Entry == [id : Nat \ {0}, document : Documents, bytes : SUBSET Update]

Store == [chain : [Documents -> SUBSET Update], outbox : SUBSET Entry,
          cursor : Nat, identity : Identities \cup {None}, tombstones : SUBSET Rows]

Empty == [chain |-> [d \in Documents |-> {}], outbox |-> {}, cursor |-> 0,
          identity |-> None, tombstones |-> {}]

AppendTo(document, bytes, outboxId) ==
    [kind |-> "append", document |-> document, bytes |-> bytes, outboxId |-> outboxId]
Cursor(seq) == [kind |-> "cursor", seq |-> seq]
Stamp(id) == [kind |-> "identity", id |-> id]
DropOutbox(throughId) == [kind |-> "dropOutbox", throughId |-> throughId]
ReplaceOutbox(document, throughId, merged) ==
    [kind |-> "replaceOutbox", document |-> document, throughId |-> throughId,
     merged |-> merged]
Retire(document) == [kind |-> "retire", document |-> document]

\* What an operation puts into the outbox, and what it takes out of it.
Inserts(op) ==
    IF op.kind = "append"
    THEN {[id |-> i, document |-> op.document, bytes |-> op.bytes] : i \in op.outboxId}
    ELSE IF op.kind = "replaceOutbox"
    THEN {[id |-> op.throughId, document |-> op.document, bytes |-> op.merged]}
    ELSE {}

Removes(op, e) ==
    \/ op.kind = "dropOutbox" /\ e.id <= op.throughId
    \/ op.kind = "replaceOutbox" /\ e.document = op.document /\ e.id <= op.throughId
    \/ op.kind = "retire" /\ e.document = op.document

\* A batch is a set: no two of its operations touch the same thing.
Inserted(batch) == UNION {Inserts(op) : op \in batch}
AppendedTo(batch, d) ==
    UNION {op.bytes : op \in {o \in batch : o.kind = "append" /\ o.document = d}}

\* What no batch after the k-th takes away.
Survives(e, k, batches) ==
    \A j \in DOMAIN batches : j > k => \A op \in batches[j] : ~Removes(op, e)
Lives(d, k, batches) == \A j \in DOMAIN batches : j > k => Retire(d) \notin batches[j]

ChainOf(d, store, batches) ==
    (IF Lives(d, 0, batches) THEN store.chain[d] ELSE {})
        \cup UNION {AppendedTo(batches[k], d) : k \in {i \in DOMAIN batches : Lives(d, i, batches)}}
OutboxOf(store, batches) ==
    {e \in store.outbox : Survives(e, 0, batches)}
        \cup UNION {{e \in Inserted(batches[k]) : Survives(e, k, batches)} : k \in DOMAIN batches}

\* The batches that hold an operation of a kind, and that operation of one.
Holding(kind, batches) == {k \in DOMAIN batches : \E op \in batches[k] : op.kind = kind}
Of(kind, batch) == CHOOSE op \in batch : op.kind = kind
CursorOf(store, batches) ==
    LET at == Holding("cursor", batches)
    IN  IF at = {} THEN store.cursor ELSE Of("cursor", batches[Max(at)]).seq
IdentityOf(store, batches) ==
    LET at == Holding("identity", batches)
    IN  IF at = {} \/ store.identity # None THEN store.identity
        ELSE Of("identity", batches[Min(at)]).id

\* The store after batches, one after the other.
Committed(store, batches) ==
    [chain |-> [d \in Documents |-> ChainOf(d, store, batches)],
     outbox |-> OutboxOf(store, batches),
     cursor |-> CursorOf(store, batches), identity |-> IdentityOf(store, batches),
     tombstones |-> store.tombstones \cup {r \in Rows : ~Lives(r, 0, batches)}]

------------------------------------------------------------------------
(* The authority's log, read by document. *)

Envelope == [Documents -> SUBSET Update]
Carried(sections) == {d \in Documents : sections[d] # {}}
Section(document, bytes) ==
    [d \in Documents |-> IF d = document THEN bytes ELSE {}]

AtAuthority(document, update) ==
    \E k \in DOMAIN log : update \in log[k].sections[document]

Known == UNION {log[k].sections[d] : k \in DOMAIN log, d \in Documents}
         \cup UNION {content[d] : d \in Documents}

HasRow(r) == /\ \E u \in content[App] : u.row = r /\ u.verb = "insert"
             /\ ~\E u \in content[App] : u.row = r /\ u.verb = "delete"

------------------------------------------------------------------------
(* Opening and enqueueing. *)

NextIdAfter(store) == 1 + Max({0} \cup {e.id : e \in store.outbox})

Opened(store) ==
    /\ content = store.chain /\ retired = store.tombstones
    /\ liveCursor = store.cursor /\ liveIdentity = store.identity
    /\ ackedThrough = 0 /\ nextOutboxId = NextIdAfter(store)
    /\ owed = <<>> /\ engine = store /\ mirror = store

Init == /\ Opened(Empty)
        /\ log = <<>> /\ pushes = {} /\ acks = {} /\ restarts = 0

\* controller.enqueue, once per batch.
Enqueue(batches) ==
    /\ Len(owed) + Len(batches) <= MaxOwed
    /\ owed' = owed \o batches

------------------------------------------------------------------------
(* Local verbs. *)

Insert(r) == [verb |-> "insert", row |-> r, by |-> "here", n |-> 0]
Delete(r) == [verb |-> "delete", row |-> r, by |-> "here", n |-> 0]

\* Mistaken: the retirement of a deleted row's document is a batch of its own.
CommitApart(created, deleted) ==
    /\ created \cup deleted # {}
    /\ \A r \in created : \A u \in Known : u.row # r
    /\ \A r \in deleted : HasRow(r) \/ r \in created
    /\ LET authored == {Insert(r) : r \in created} \cup {Delete(r) : r \in deleted}
       IN  /\ Enqueue(<<{AppendTo(App, authored, {nextOutboxId})}, {Retire(r) : r \in deleted}>>)
           /\ content' = [d \in Documents |->
                  IF d = App THEN content[App] \cup authored
                  ELSE IF d \in deleted THEN {} ELSE content[d]]
    /\ retired' = retired \cup deleted
    /\ nextOutboxId' = nextOutboxId + 1
    /\ UNCHANGED <<liveCursor, liveIdentity, ackedThrough, storage, wire, restarts>>

\* commit() and transact(): rows created and rows deleted in one transaction, its
\* bytes and the retirements of the deleted rows' documents in one batch.
Commit(created, deleted) ==
    /\ created \cup deleted # {}
    /\ \A r \in created : \A u \in Known : u.row # r
    /\ \A r \in deleted : HasRow(r) \/ r \in created
    /\ LET authored == {Insert(r) : r \in created} \cup {Delete(r) : r \in deleted}
       IN  /\ Enqueue(<<{AppendTo(App, authored, {nextOutboxId})} \cup {Retire(r) : r \in deleted}>>)
           /\ content' = [d \in Documents |->
                  IF d = App THEN content[App] \cup authored
                  ELSE IF d \in deleted THEN {} ELSE content[d]]
    /\ retired' = retired \cup deleted
    /\ nextOutboxId' = nextOutboxId + 1
    /\ UNCHANGED <<liveCursor, liveIdentity, ackedThrough, storage, wire, restarts>>

\* An application writes inside an open row document (documents.ts, attach).
EditDocument(r) ==
    /\ r \notin retired
    /\ \E u \in content[App] : u.row = r /\ u.verb = "insert"
    /\ \E n \in 1 .. MaxEdits :
          LET edit == [verb |-> "edit", row |-> r, by |-> "here", n |-> n]
          IN  /\ \A u \in Known : u # edit
              /\ content' = [content EXCEPT ![r] = @ \cup {edit}]
              /\ Enqueue(<<{AppendTo(r, {edit}, {nextOutboxId})}>>)
    /\ nextOutboxId' = nextOutboxId + 1
    /\ UNCHANGED <<retired, liveCursor, liveIdentity, ackedThrough, storage, wire,
                   restarts>>

------------------------------------------------------------------------
(* The sender's verbs. *)

\* Mistaken: accepted work is offered before it is durable.
OfferedLive == {e \in Committed(mirror, owed).outbox : e.id > ackedThrough}

Offered == {e \in mirror.outbox : e.id > ackedThrough}
OfferedOf(document) == {e \in Offered : e.document = document}
MergedOf(document) == UNION {e.bytes : e \in OfferedOf(document)}
LastOf(document) == Max({e.id : e \in OfferedOf(document)})
FirstOf(document) == Min({e.id : e \in OfferedOf(document)})

\* Mistaken: the submission names the latest id, not the latest it carries.
CoalesceThroughLatest ==
    /\ Offered # {} /\ pushes = {}
    /\ pushes' = {[id |-> nextOutboxId - 1,
                   sections |-> [d \in Documents |-> MergedOf(d)],
                   connected |-> TRUE]}
    /\ UNCHANGED <<local, owed, storage, log, acks, restarts>>

Coalesce ==
    /\ Offered # {} /\ pushes = {}
    /\ LET crowded == {d \in Documents : Cardinality(OfferedOf(d)) > 1}
       IN  \E order \in [1 .. Cardinality(crowded) -> crowded] :
              /\ \A i, j \in DOMAIN order : i < j => FirstOf(order[i]) < FirstOf(order[j])
              /\ Enqueue([i \in DOMAIN order |->
                     {ReplaceOutbox(order[i], LastOf(order[i]), MergedOf(order[i]))}])
    /\ pushes' = {[id |-> Max({e.id : e \in Offered}),
                   sections |-> [d \in Documents |-> MergedOf(d)],
                   connected |-> TRUE]}
    /\ UNCHANGED <<local, storage, log, acks, restarts>>

Acknowledge(throughId) ==
    /\ throughId \in acks
    /\ acks' = acks \ {throughId}
    /\ ackedThrough' = Max({ackedThrough, throughId})
    /\ Enqueue(<<{DropOutbox(throughId)}>>)
    /\ UNCHANGED <<content, retired, liveCursor, liveIdentity, nextOutboxId, storage,
                   log, pushes, restarts>>

HasAnyState == mirror # Empty \/ owed # <<>> \/ engine # mirror

AdoptDocumentIdentity(id) ==
    /\ liveIdentity = None
    /\ ~(HasAnyState \/ liveCursor > 0)
    /\ liveIdentity' = id
    /\ Enqueue(<<{Stamp(id)}>>)
    /\ UNCHANGED <<content, retired, liveCursor, ackedThrough, nextOutboxId, storage,
                   wire, restarts>>

------------------------------------------------------------------------
(* The receiver's verbs, driven with the entry after the live cursor. *)

Incoming == log[liveCursor + 1]

\* Mistaken: the cursor is written on its own, ahead of the bytes.
ApplyCursorFirst ==
    /\ liveCursor < Len(log) /\ Incoming.by = "there" /\ Incoming.broken = None
    /\ LET taken == Carried(Incoming.sections) \ retired
           appends == {AppendTo(d, Incoming.sections[d], {}) : d \in taken}
       IN  /\ content' = [d \in Documents |->
                  IF d \in taken THEN content[d] \cup Incoming.sections[d] ELSE content[d]]
           /\ Enqueue(<<{Cursor(liveCursor + 1)}, appends>>)
    /\ liveCursor' = liveCursor + 1
    /\ UNCHANGED <<retired, liveIdentity, ackedThrough, nextOutboxId, storage, wire,
                   restarts>>

\* Every section is applied and appended, but for retired addresses; the cursor
\* rides in the same batch.
ApplyRemote ==
    /\ liveCursor < Len(log) /\ Incoming.by = "there" /\ Incoming.broken = None
    /\ LET taken == Carried(Incoming.sections) \ retired
           appends == {AppendTo(d, Incoming.sections[d], {}) : d \in taken}
       IN  /\ content' = [d \in Documents |->
                  IF d \in taken THEN content[d] \cup Incoming.sections[d] ELSE content[d]]
           /\ Enqueue(<<appends \cup {Cursor(liveCursor + 1)}>>)
    /\ liveCursor' = liveCursor + 1
    /\ UNCHANGED <<retired, liveIdentity, ackedThrough, nextOutboxId, storage, wire,
                   restarts>>

\* A section that does not decode: those before it stay applied in memory, and
\* nothing is appended.
RefuseRemote ==
    /\ liveCursor < Len(log) /\ Incoming.by = "there" /\ Incoming.broken # None
    /\ \E before \in SUBSET (Carried(Incoming.sections) \ (retired \cup {Incoming.broken})) :
          content' = [d \in Documents |->
              IF d \in before THEN content[d] \cup Incoming.sections[d] ELSE content[d]]
    /\ UNCHANGED <<retired, liveCursor, liveIdentity, ackedThrough, nextOutboxId, owed,
                   storage, wire, restarts>>

\* This replica's own entry: nothing to apply.
Advance ==
    /\ liveCursor < Len(log) /\ Incoming.by = "here"
    /\ liveCursor' = liveCursor + 1
    /\ Enqueue(<<{Cursor(liveCursor + 1)}>>)
    /\ UNCHANGED <<content, retired, liveIdentity, ackedThrough, nextOutboxId, storage,
                   wire, restarts>>

------------------------------------------------------------------------
(* Storage: StorePersistence, seen from above. *)

Land ==
    /\ engine = mirror
    /\ \E n \in 1 .. Len(owed) :
          /\ engine' = Committed(engine, SubSeq(owed, 1, n))
          /\ owed' = SubSeq(owed, n + 1, Len(owed))
    /\ UNCHANGED <<local, mirror, wire, restarts>>

Observe ==
    /\ engine # mirror
    /\ mirror' = engine
    /\ UNCHANGED <<local, owed, engine, wire, restarts>>

\* The process dies and opens over what the engine holds.  A push that left may
\* still arrive; its acknowledgement has nobody to go to.
Restart ==
    /\ restarts < MaxRestarts
    /\ restarts' = restarts + 1
    /\ content' = engine.chain /\ retired' = engine.tombstones
    /\ liveCursor' = engine.cursor /\ liveIdentity' = engine.identity
    /\ ackedThrough' = 0 /\ nextOutboxId' = NextIdAfter(engine)
    /\ owed' = <<>> /\ mirror' = engine
    /\ pushes' = {[p EXCEPT !.connected = FALSE] : p \in pushes}
    /\ acks' = {}
    /\ UNCHANGED <<engine, log>>

------------------------------------------------------------------------
(* The wire, the authority and the other devices (external). *)

Receive(push) ==
    /\ Len(log) < MaxLog
    /\ log' = log \o <<[sections |-> push.sections, by |-> "here", broken |-> None]>>
    /\ pushes' = pushes \ {push}
    /\ acks' = acks \cup (IF push.connected THEN {push.id} ELSE {})
    /\ UNCHANGED <<local, owed, storage, restarts>>

LosePush(push) ==
    /\ pushes' = pushes \ {push}
    /\ UNCHANGED <<local, owed, storage, log, acks, restarts>>

LoseAck(throughId) ==
    /\ acks' = acks \ {throughId}
    /\ UNCHANGED <<local, owed, storage, log, pushes, restarts>>

\* Another device: creates a row, alone or with the first edit of its document,
\* deletes a row it knows of, or edits its document, whatever happened to the row
\* meanwhile.  A section may be one this replica cannot decode.
Theirs(verb, r, n) == [verb |-> verb, row |-> r, by |-> "there", n |-> n]

Publish(sections, broken) ==
    /\ Len(log) < MaxLog
    /\ log' = log \o <<[sections |-> sections, by |-> "there", broken |-> broken]>>
    /\ UNCHANGED <<local, owed, storage, pushes, acks, restarts>>

KnownThere(r) == \E u \in RowUpdate : u.verb = "insert" /\ u.row = r /\ AtAuthority(App, u)

ForeignCreate(r) ==
    /\ \A u \in Known : u.row # r
    /\ \E first \in SUBSET {Theirs("edit", r, 1)}, broken \in {None, r} :
          /\ broken = r => first # {}
          /\ Publish([d \in Documents |-> IF d = App THEN {Theirs("insert", r, 0)}
                                         ELSE IF d = r THEN first ELSE {}], broken)

ForeignDelete(r) ==
    /\ KnownThere(r) /\ Theirs("delete", r, 0) \notin Known
    /\ Publish(Section(App, {Theirs("delete", r, 0)}), None)

ForeignEdit(r) ==
    /\ KnownThere(r)
    /\ \E n \in 1 .. MaxEdits :
          /\ Theirs("edit", r, n) \notin Known
          /\ Publish(Section(r, {Theirs("edit", r, n)}), None)

Next ==
    \/ \E created, deleted \in SUBSET Rows : Commit(created, deleted)
    \/ \E r \in Rows : EditDocument(r)
    \/ Coalesce
    \/ \E throughId \in acks : Acknowledge(throughId)
    \/ \E id \in Identities : AdoptDocumentIdentity(id)
    \/ ApplyRemote \/ RefuseRemote \/ Advance
    \/ Land \/ Observe \/ Restart
    \/ \E push \in pushes : Receive(push) \/ LosePush(push)
    \/ \E throughId \in acks : LoseAck(throughId)
    \/ \E r \in Rows : ForeignCreate(r) \/ ForeignDelete(r) \/ ForeignEdit(r)

Spec == Init /\ [][Next]_vars

------------------------------------------------------------------------
(* Properties. *)

Push == [id : Nat, sections : Envelope, connected : BOOLEAN]
LogEntry == [sections : Envelope, by : Sites, broken : Rows \cup {None}]
Op ==
    [kind : {"append"}, document : Documents, bytes : SUBSET Update, outboxId : SUBSET (Nat \ {0})]
    \cup [kind : {"cursor"}, seq : Nat] \cup [kind : {"identity"}, id : Identities]
    \cup [kind : {"dropOutbox"}, throughId : Nat]
    \cup [kind : {"replaceOutbox"}, document : Documents, throughId : Nat \ {0},
          merged : SUBSET Update]
    \cup [kind : {"retire"}, document : Rows]

TypeOK ==
    /\ content \in Envelope /\ retired \subseteq Rows
    /\ liveCursor \in 0 .. Len(log) /\ liveIdentity \in Identities \cup {None}
    /\ ackedThrough \in Nat /\ nextOutboxId \in Nat \ {0}
    /\ owed \in Seq(SUBSET Op) /\ engine \in Store /\ mirror \in Store
    /\ log \in Seq(LogEntry) /\ pushes \subseteq Push /\ acks \subseteq Nat
    /\ restarts \in Nat

\* store.ts:1254-1260 durable state never holds a local write that is not owed:
\* every byte this device authored and holds durably is in the durable outbox, or
\* in the authority's log, or belongs to a retired document.
Owes(store) ==
    \A d \in Documents : \A u \in store.chain[d] :
        u.by = "here" =>
            \/ \E e \in store.outbox : e.document = d /\ u \in e.bytes
            \/ AtAuthority(d, u)
NothingUnowed == Owes(engine)

\* store.ts:1665-1671, log.ts:199-207 the durable cursor is never ahead of the
\* bytes it accounts for.
CursorBehindBytes ==
    \A k \in 1 .. engine.cursor : \A d \in Documents \ engine.tombstones :
        log[k].sections[d] \subseteq engine.chain[d]

\* store.ts:1797-1802 nothing is offered to the authority that a crash could
\* still take away from this device.
OnlyDurableLeaves ==
    \A p \in pushes : \A d \in Documents \ engine.tombstones :
        p.sections[d] \subseteq engine.chain[d]

\* store.ts:1072-1077 the store mints ids, so no commit ever inserts an outbox
\* entry over another one, in this session or after a restart.
IdsAreFresh ==
    /\ \A e, f \in engine.outbox : e.id = f.id => e = f
    /\ \A k \in DOMAIN owed : \A op \in owed[k] : op.kind = "append" =>
          \A i \in op.outboxId : i > ackedThrough /\ \A e \in engine.outbox : e.id < i

\* store.ts:1571-1575, log.ts:88-92 no crash point leaves a row this device deleted
\* with a live document, and no later byte revives a retired one: the removal and
\* the tombstone are durable together, and the tombstoned chain stays empty.
DeletionRetires ==
    /\ \A r \in Rows : Delete(r) \in engine.chain[App] => r \in engine.tombstones
    /\ \A r \in engine.tombstones : engine.chain[r] = {}

\* persistence.ts:36-39 `retire` deletes the document's outbox entries, so a late
\* write can never resurrect the address.
RetiredOwesNothing ==
    \A r \in engine.tombstones : \A e \in engine.outbox : e.document # r

\* store.ts:1914-1915 "a durable outbox entry structurally implies a durable
\* identity".
OutboxImpliesIdentity == engine.outbox # {} => engine.identity # None

------------------------------------------------------------------------
(* Why they hold. *)

Entries == engine.outbox \cup mirror.outbox \cup UNION {Inserted(owed[k]) : k \in DOMAIN owed}
Living == Documents \ engine.tombstones

\* The outbox holds what this device wrote, and what it appends without an entry, or
\* reads of another's, is another's.
EachItsOwn ==
    /\ \A e \in Entries : \A u \in e.bytes : u.by = "here"
    /\ \A k \in DOMAIN owed : \A op \in owed[k] :
          op.kind = "append" /\ op.outboxId = {} => \A u \in op.bytes : u.by = "there"
    /\ \A k \in DOMAIN log : log[k].by = "there" =>
          \A d \in Documents : \A u \in log[k].sections[d] : u.by = "there"

\* What is retired is durably so, or is owed to be, and no byte is owed to it afterwards.
RetirementsAreOwed ==
    /\ mirror.tombstones \subseteq engine.tombstones
    /\ retired = engine.tombstones \cup {r \in Rows : ~Lives(r, 0, owed)}
    /\ \A k \in DOMAIN owed : \A op \in owed[k] : op.kind = "append" =>
          /\ op.document \in Living
          /\ \A j \in DOMAIN owed : j <= k => Retire(op.document) \notin owed[j]
          /\ \A r \in Rows : Delete(r) \in op.bytes => Retire(r) \in owed[k]

\* What an entry holds is in the chain beside it, and the mirror is behind the engine.
Backed(store) == \A e \in store.outbox : e.document \in Living =>
                     e.bytes \subseteq store.chain[e.document]
MirrorIsBehind ==
    /\ \A d \in Living : mirror.chain[d] \subseteq engine.chain[d]
    /\ \A e \in engine.outbox : e.document \in Living =>
          \/ \A m \in mirror.outbox : m.id < e.id
          \/ e.bytes \subseteq mirror.chain[e.document]
    /\ \A k \in DOMAIN owed : \A op \in owed[k] :
          op.kind = "replaceOutbox" /\ op.document \in Living =>
              op.merged \subseteq mirror.chain[op.document]

\* Ids grow: an id that is owed is newer than all there is before it.
Newest(i, k) ==
    /\ i < nextOutboxId /\ ackedThrough < i /\ \A t \in acks : t < i
    /\ \A p \in pushes : p.connected => p.id < i
    /\ \A e \in engine.outbox \cup mirror.outbox : e.id < i
    /\ \A j \in DOMAIN owed : j < k => \A e \in Inserted(owed[j]) : e.id < i
IdsGrow ==
    /\ \A k \in DOMAIN owed : \A op \in owed[k] :
          /\ op.kind = "append" => \A i \in op.outboxId : Newest(i, k)
          /\ op.kind = "dropOutbox" => op.throughId < nextOutboxId
    /\ \A e \in Entries : e.id < nextOutboxId
    /\ ackedThrough < nextOutboxId /\ \A t \in acks : t < nextOutboxId
    /\ \A p \in pushes : p.connected => p.id < nextOutboxId

\* An id is of one document, and names one entry of the engine's outbox, or of a batch's.
IdsName ==
    /\ \A e, f \in Entries : e.id = f.id => e.document = f.document
    /\ \A e, f \in engine.outbox : e.id = f.id => e = f
    /\ \A k \in DOMAIN owed : \A e, f \in Inserted(owed[k]) : e.id = f.id => e = f

\* What is acknowledged is at the authority; what is on its way carries all up to its id.
ThereThrough(id) ==
    \A e \in Entries : e.id <= id /\ e.document \in Living =>
        \A u \in e.bytes : AtAuthority(e.document, u)
AcksAreTrue ==
    /\ ThereThrough(ackedThrough) /\ \A t \in acks : ThereThrough(t)
    /\ \A k \in DOMAIN owed : \A op \in owed[k] :
          op.kind = "dropOutbox" => ThereThrough(op.throughId)
PushesCarryAll ==
    \A p \in pushes : p.connected =>
        \A e \in Entries : e.id <= p.id /\ e.document \in Living =>
            \A u \in e.bytes : u \in p.sections[e.document] \/ AtAuthority(e.document, u)

\* A merged entry holds what it replaces.
Replaces(op, e) ==
    e.document = op.document /\ e.id <= op.throughId /\ e.document \in Living =>
        \A u \in e.bytes : u \in op.merged \/ AtAuthority(e.document, u)
MergesKeepAll ==
    \A k \in DOMAIN owed : \A op \in owed[k] : op.kind = "replaceOutbox" =>
        /\ \A e \in engine.outbox : Replaces(op, e)
        /\ \A j \in DOMAIN owed : j < k => \A e \in Inserted(owed[j]) : Replaces(op, e)

\* The cursors that are owed are those between the durable one and the live one, in order,
\* each with the bytes it accounts for.
CursorsAreOwed ==
    /\ engine.cursor <= liveCursor
    /\ \A s \in engine.cursor + 1 .. liveCursor : \E k \in DOMAIN owed : Cursor(s) \in owed[k]
    /\ \A k \in DOMAIN owed : \A op \in owed[k] : op.kind = "cursor" =>
          /\ engine.cursor < op.seq /\ op.seq <= liveCursor
          /\ \A j \in DOMAIN owed : \A o \in owed[j] :
                o.kind = "cursor" => (op.seq < o.seq <=> k < j) /\ (op.seq = o.seq => op = o)
          /\ log[op.seq].by = "there" => \A d \in Living :
                \/ log[op.seq].sections[d] \subseteq AppendedTo(owed[k], d)
                \/ \E j \in DOMAIN owed : j < k /\ Retire(d) \in owed[j]
OwnEntriesAreDurable ==
    \A k \in DOMAIN log : log[k].by = "here" =>
        \A d \in Living : log[k].sections[d] \subseteq engine.chain[d]

ReplicaIInv ==
    /\ TypeOK /\ EachItsOwn /\ RetirementsAreOwed /\ DeletionRetires
    /\ Backed(engine) /\ Backed(mirror) /\ MirrorIsBehind /\ IdsGrow
    /\ AcksAreTrue /\ PushesCarryAll /\ MergesKeepAll /\ Owes(engine) /\ Owes(mirror)
    /\ CursorsAreOwed /\ CursorBehindBytes /\ OwnEntriesAreDurable /\ OnlyDurableLeaves
===========================================================================
