------------------------ MODULE AccountReplica_proofs ------------------------
(***************************************************************************)
(* What a replica guarantees for every number of rows, identities, edits,  *)
(* batches, entries of the authority's log and restarts: what it authored  *)
(* is owed, its cursor is behind its bytes, only what is durable leaves.   *)
(***************************************************************************)
EXTENDS AccountReplica, WellFoundedInduction, FiniteSetTheorems, SequenceTheorems, TLAPS


------------------------------------------------------------------------
(* Numbers.  A set of naturals has a least one, and a greatest below a bound. *)

Below == {p \in Nat \X Nat : p[1] < p[2]}

LEMMA BelowIsWellFounded == IsWellFoundedOn(Below, Nat)
  BY NatLessThanWellFounded, Zenon DEF OpToRel, Below

LEMMA HasLeast ==
  ASSUME NEW S, S \subseteq Nat, S # {}
  PROVE  \E x \in S : \A y \in S : x <= y
<1>1. \E x \in S : \A y \in S : ~(<<y, x>> \in Below)
  BY BelowIsWellFounded, WFMin
<1>2. \A x, y \in Nat : ~(<<y, x>> \in Below) => x <= y
  BY DEF Below
<1>3. PICK x \in S : \A y \in S : ~(<<y, x>> \in Below)
  BY <1>1
<1> HIDE DEF Below
<1>4. ASSUME NEW y \in S  PROVE x <= y
  BY <1>2, <1>3
<1> QED BY <1>4

LEMMA HasGreatest ==
  ASSUME NEW S, S \subseteq Nat, NEW b \in Nat, S # {}, \A x \in S : x <= b
  PROVE  \E x \in S : \A y \in S : y <= x
<1> DEFINE T == {b - x : x \in S}
<1>1. \A x \in S : x \in Nat
  OBVIOUS
<1>2. T \subseteq Nat
  BY <1>1
<1>3. T # {}
  OBVIOUS
<1>4. PICK t \in T : \A y \in T : t <= y
  <2> HIDE DEF T
  <2> QED BY <1>2, <1>3, HasLeast
<1>5. PICK x \in S : t = b - x
  OBVIOUS
<1>6. \A y \in S : b - x <= b - y
  BY <1>4, <1>5
<1>7. \A y \in S : y <= x
  BY <1>1, <1>6
<1> QED BY <1>7

\* What Max and Min are for.
LEMMA MaxIs ==
  ASSUME NEW S, S \subseteq Nat, NEW b \in Nat, S # {}, \A x \in S : x <= b
  PROVE  Max(S) \in S /\ \A y \in S : y <= Max(S)
<1>1. PICK x \in S : \A y \in S : y <= x
  BY HasGreatest
<1>2. \E z \in S : \A y \in S : z >= y
  BY <1>1
<1>3. Max(S) \in S /\ \A y \in S : Max(S) >= y
  BY <1>2 DEF Max
<1> QED BY <1>3

LEMMA MinIs ==
  ASSUME NEW S, S \subseteq Nat, S # {}
  PROVE  Min(S) \in S
  BY HasLeast DEF Min

------------------------------------------------------------------------
(* Operations and stores. *)

\* The operations are operations.
LEMMA Operations ==
  /\ \A d \in Documents, b \in SUBSET Update, i \in SUBSET (Nat \ {0}) : AppendTo(d, b, i) \in Op
  /\ \A s \in Nat : Cursor(s) \in Op /\ DropOutbox(s) \in Op
  /\ \A id \in Identities : Stamp(id) \in Op
  /\ \A d \in Documents, t \in Nat \ {0}, b \in SUBSET Update : ReplaceOutbox(d, t, b) \in Op
  /\ \A r \in Rows : Retire(r) \in Op
<1>1. \A d \in Documents, b \in SUBSET Update, i \in SUBSET (Nat \ {0}) : AppendTo(d, b, i) \in Op
  BY DEF Op, AppendTo
<1>2. \A s \in Nat : Cursor(s) \in Op /\ DropOutbox(s) \in Op
  BY DEF Op, Cursor, DropOutbox
<1>3. \A id \in Identities : Stamp(id) \in Op
  BY DEF Op, Stamp
<1>4. \A d \in Documents, t \in Nat \ {0}, b \in SUBSET Update : ReplaceOutbox(d, t, b) \in Op
  BY DEF Op, ReplaceOutbox
<1>5. \A r \in Rows : Retire(r) \in Op
  BY DEF Op, Retire
<1> QED BY <1>1, <1>2, <1>3, <1>4, <1>5

\* What an operation of each kind holds.
LEMMA OperationFields ==
  ASSUME NEW op \in Op
  PROVE  /\ op.kind \in {"append", "cursor", "identity", "dropOutbox", "replaceOutbox", "retire"}
         /\ op.kind = "append" => op.document \in Documents /\ op.bytes \subseteq Update
                                  /\ op.outboxId \subseteq Nat \ {0}
         /\ op.kind = "cursor" => op.seq \in Nat /\ op = Cursor(op.seq)
         /\ op.kind = "identity" => op.id \in Identities
         /\ op.kind = "dropOutbox" => op.throughId \in Nat
         /\ op.kind = "replaceOutbox" => op.document \in Documents
               /\ op.throughId \in Nat \ {0} /\ op.merged \subseteq Update
         /\ op.kind = "retire" => op.document \in Rows /\ op = Retire(op.document)
  BY DEF Op, Cursor, Retire

\* What the outbox gets of an operation.
LEMMA InsertsAre ==
  ASSUME NEW op \in Op, NEW e \in Inserts(op)
  PROVE  /\ e \in Entry /\ op.kind \in {"append", "replaceOutbox"} /\ e.document = op.document
         /\ op.kind = "append" => e.id \in op.outboxId /\ e.bytes = op.bytes
         /\ op.kind = "replaceOutbox" => e.id = op.throughId /\ e.bytes = op.merged
<1>1. CASE op.kind = "append"
  BY <1>1, OperationFields DEF Inserts, Entry
<1>2. CASE op.kind = "replaceOutbox"
  BY <1>2, OperationFields DEF Inserts, Entry
<1> QED BY <1>1, <1>2 DEF Inserts

LEMMA EntryFields ==
  ASSUME NEW e \in Entry
  PROVE  e.id \in Nat \ {0} /\ e.document \in Documents /\ e.bytes \subseteq Update
  BY DEF Entry

LEMMA StoreFields ==
  ASSUME NEW store \in Store
  PROVE  /\ store.chain \in Envelope /\ \A d \in Documents : store.chain[d] \subseteq Update
         /\ store.outbox \subseteq Entry /\ store.cursor \in Nat
         /\ store.identity \in Identities \cup {None} /\ store.tombstones \subseteq Rows
  BY DEF Store, Envelope


------------------------------------------------------------------------
(* Accepted work: batches behind those that are there already. *)

Longer ==
  /\ owed' \in Seq(SUBSET Op) /\ Len(owed) <= Len(owed')
  /\ \A k \in DOMAIN owed : k \in DOMAIN owed' /\ owed'[k] = owed[k]
  /\ engine' = engine /\ mirror' = mirror /\ log' = log
Added == {k \in DOMAIN owed' : Len(owed) < k}

\* The batches that are owed hold operations, and are numbered.
LEMMA OwedFields ==
  ASSUME TypeOK
  PROVE  /\ owed \in Seq(SUBSET Op) /\ Len(owed) \in Nat /\ DOMAIN owed = 1 .. Len(owed)
         /\ \A k \in DOMAIN owed : k \in Nat \ {0} /\ owed[k] \subseteq Op
<1>1. owed \in Seq(SUBSET Op)
  BY DEF TypeOK
<1> QED BY <1>1

LEMMA LogFields ==
  ASSUME TypeOK, NEW k \in DOMAIN log
  PROVE  /\ log[k] \in LogEntry /\ log[k].sections \in Envelope /\ log[k].by \in Sites
         /\ \A d \in Documents : log[k].sections[d] \subseteq Update
<1>1. log \in Seq(LogEntry)
  BY DEF TypeOK
<1>2. log[k] \in LogEntry
  BY <1>1
<1>3. log[k].sections \in Envelope /\ log[k].by \in Sites
  BY <1>2 DEF LogEntry
<1> QED BY <1>2, <1>3 DEF Envelope

\* An enqueue puts its batches behind the others.
LEMMA EnqueueDoes ==
  ASSUME TypeOK, NEW more \in Seq(SUBSET Op), Enqueue(more), storage' = storage, log' = log
  PROVE  /\ Longer
         /\ \A k \in Added : k - Len(owed) \in DOMAIN more /\ owed'[k] = more[k - Len(owed)]
         /\ \A i \in DOMAIN more : Len(owed) + i \in Added /\ owed'[Len(owed) + i] = more[i]
<1>1. owed \in Seq(SUBSET Op) /\ owed' = owed \o more
  BY OwedFields DEF Enqueue
<1>2. owed' \in Seq(SUBSET Op) /\ Len(owed') = Len(owed) + Len(more)
  BY <1>1
<1>3. \A k \in 1 .. Len(owed') :
        owed'[k] = IF k <= Len(owed) THEN owed[k] ELSE more[k - Len(owed)]
  BY <1>1
<1>4. DOMAIN owed = 1 .. Len(owed) /\ DOMAIN more = 1 .. Len(more) /\ DOMAIN owed' = 1 .. Len(owed')
      /\ Len(owed) \in Nat /\ Len(more) \in Nat
  BY <1>1, <1>2
<1>5. engine' = engine /\ mirror' = mirror
  BY DEF storage
<1>6. \A k \in DOMAIN owed : k \in DOMAIN owed' /\ owed'[k] = owed[k]
  BY <1>2, <1>3, <1>4
<1>7. Longer
  BY <1>2, <1>4, <1>5, <1>6 DEF Longer
<1>8. \A k \in Added : k - Len(owed) \in DOMAIN more /\ owed'[k] = more[k - Len(owed)]
  BY <1>2, <1>3, <1>4 DEF Added
<1>9. ASSUME NEW i \in DOMAIN more
      PROVE  Len(owed) + i \in Added /\ owed'[Len(owed) + i] = more[i]
  <2>1. i \in Nat /\ 1 <= i /\ i <= Len(more) /\ Len(owed) + i - Len(owed) = i
    BY <1>4
  <2>2. Len(owed) + i \in DOMAIN owed' /\ Len(owed) < Len(owed) + i /\ ~(Len(owed) + i <= Len(owed))
    BY <1>2, <1>4, <2>1
  <2>3. owed'[Len(owed) + i] = more[i]
    BY <1>3, <1>4, <2>1, <2>2
  <2> QED BY <2>2, <2>3 DEF Added
<1> QED BY <1>7, <1>8, <1>9

LEMMA EnqueueOne ==
  ASSUME TypeOK, NEW batch \in SUBSET Op, Enqueue(<<batch>>), storage' = storage, log' = log
  PROVE  /\ Longer
         /\ \A k \in Added : k = Len(owed) + 1 /\ owed'[k] = batch
         /\ Len(owed) + 1 \in Added
<1> DEFINE one == <<batch>>
<1>1. one \in Seq(SUBSET Op) /\ DOMAIN one = {1} /\ one[1] = batch /\ Enqueue(one)
  OBVIOUS
<1> HIDE DEF one
<1>2. /\ Longer
      /\ \A k \in Added : k - Len(owed) \in DOMAIN one /\ owed'[k] = one[k - Len(owed)]
      /\ \A i \in DOMAIN one : Len(owed) + i \in Added /\ owed'[Len(owed) + i] = one[i]
  BY <1>1, EnqueueDoes
<1>3. Len(owed) \in Nat
  BY OwedFields
<1>4. \A k \in Added : k \in Nat
  BY <1>2 DEF Added, Longer
<1> QED BY <1>1, <1>2, <1>3, <1>4

\* A batch of those that are owed now was owed before, or was just added.
LEMMA LongerIs ==
  ASSUME TypeOK, Longer
  PROVE  /\ DOMAIN owed' = 1 .. Len(owed') /\ Len(owed') \in Nat /\ Len(owed) \in Nat
         /\ DOMAIN owed = 1 .. Len(owed)
         /\ \A k \in DOMAIN owed' : k \in Nat \ {0} /\ owed'[k] \subseteq Op
         /\ \A k \in DOMAIN owed' : k \in Added <=> k \notin DOMAIN owed
         /\ \A k \in Added : k \in DOMAIN owed' /\ \A j \in DOMAIN owed : j < k
         /\ \A k \in DOMAIN owed : k \in DOMAIN owed' /\ owed'[k] = owed[k]
         /\ \A k \in DOMAIN owed : \A j \in DOMAIN owed' : j <= k => j \in DOMAIN owed
<1>1. owed' \in Seq(SUBSET Op) /\ Len(owed) <= Len(owed') /\ \A k \in DOMAIN owed : k \in DOMAIN owed' /\ owed'[k] = owed[k]
  BY DEF Longer
<1>2. DOMAIN owed = 1 .. Len(owed) /\ Len(owed) \in Nat
  BY OwedFields
<1>3. DOMAIN owed' = 1 .. Len(owed') /\ Len(owed') \in Nat
  BY <1>1
<1>4. \A k \in DOMAIN owed' : k \in Nat \ {0} /\ owed'[k] \subseteq Op
  BY <1>1, <1>3
<1>5. \A k \in DOMAIN owed' : k \in Added <=> k \notin DOMAIN owed
  BY <1>2, <1>3 DEF Added
<1>6. \A k \in Added : k \in DOMAIN owed' /\ \A j \in DOMAIN owed : j < k
  BY <1>2, <1>3 DEF Added
<1>7. \A k \in DOMAIN owed : \A j \in DOMAIN owed' : j <= k => j \in DOMAIN owed
  BY <1>2, <1>3
<1> QED BY <1>1, <1>2, <1>3, <1>4, <1>5, <1>6, <1>7

LEMMA EntriesAre ==
  ASSUME TypeOK, NEW e \in Entries
  PROVE  /\ e \in Entry
         /\ \/ e \in engine.outbox
            \/ e \in mirror.outbox
            \/ \E k \in DOMAIN owed : \E op \in owed[k] : op \in Op /\ e \in Inserts(op)
<1>1. CASE e \in engine.outbox \cup mirror.outbox
  <2>1. engine \in Store /\ mirror \in Store
    BY DEF TypeOK
  <2> QED BY <1>1, <2>1, StoreFields
<1>2. CASE \E k \in DOMAIN owed : e \in Inserted(owed[k])
  <2>a. PICK k \in DOMAIN owed : e \in Inserted(owed[k])
    BY <1>2
  <2>1. PICK op \in owed[k] : e \in Inserts(op)
    BY <2>a DEF Inserted
  <2>2. op \in Op
    BY OwedFields
  <2>3. e \in Entry
    BY <2>1, <2>2, InsertsAre
  <2> QED BY <2>1, <2>2, <2>3
<1> QED BY <1>1, <1>2 DEF Entries

LEMMA EntriesGrow ==
  ASSUME TypeOK, Longer
  PROVE  /\ Entries \subseteq Entries'
         /\ \A e \in Entries' : \/ e \in Entries
                                \/ \E k \in Added : \E op \in owed'[k] : op \in Op /\ e \in Inserts(op)
<1>1. Entries \subseteq Entries'
  <2> SUFFICES ASSUME NEW e \in Entries  PROVE e \in Entries'
    OBVIOUS
  <2>1. CASE e \in engine.outbox \cup mirror.outbox
    BY <2>1 DEF Longer, Entries
  <2>2. CASE \E k \in DOMAIN owed : e \in Inserted(owed[k])
    <3>1. PICK k \in DOMAIN owed : e \in Inserted(owed[k])
      BY <2>2
    <3>2. k \in DOMAIN owed' /\ owed'[k] = owed[k]
      BY DEF Longer
    <3>3. e \in UNION {Inserted(owed'[j]) : j \in DOMAIN owed'}
      BY <3>1, <3>2
    <3> QED BY <3>3 DEF Entries
  <2> QED BY <2>1, <2>2 DEF Entries
<1>2. ASSUME NEW e \in Entries'
      PROVE  \/ e \in Entries
             \/ \E k \in Added : \E op \in owed'[k] : op \in Op /\ e \in Inserts(op)
  <2>1. CASE e \in engine'.outbox \cup mirror'.outbox
    BY <2>1 DEF Longer, Entries
  <2>2. CASE \E k \in DOMAIN owed' : e \in Inserted(owed'[k])
    <3>1. PICK k \in DOMAIN owed' : e \in Inserted(owed'[k])
      BY <2>2
    <3>2. CASE k \in DOMAIN owed
      <4>1. e \in Inserted(owed[k])
        BY <3>1, <3>2, LongerIs
      <4>2. e \in UNION {Inserted(owed[j]) : j \in DOMAIN owed}
        BY <3>2, <4>1
      <4> QED BY <4>2 DEF Entries
    <3>3. CASE k \in Added
      <4>1. PICK op \in owed'[k] : e \in Inserts(op)
        BY <3>1 DEF Inserted
      <4>2. op \in Op
        BY <3>1, LongerIs
      <4> QED BY <3>3, <4>1, <4>2
    <3> QED BY <3>2, <3>3, LongerIs
  <2> QED BY <2>1, <2>2 DEF Entries
<1> QED BY <1>1, <1>2

\* Only a row's document is ever retired.
LEMMA RetiredAreRows ==
  ASSUME NEW d, Retire(d) \in Op
  PROVE  d \in Rows
<1>1. Retire(d).kind = "retire" /\ Retire(d).document = d
  BY DEF Retire
<1> QED BY <1>1, OperationFields

LEMMA LivesIs ==
  ASSUME NEW batches \in Seq(SUBSET Op), NEW d
  PROVE  Lives(d, 0, batches) <=> \A j \in DOMAIN batches : Retire(d) \notin batches[j]
<1>1. \A j \in DOMAIN batches : j > 0
  OBVIOUS
<1> QED BY <1>1 DEF Lives

LEMMA TheAppLives ==
  ASSUME TypeOK
  PROVE  /\ App \in Living /\ App \in Documents
         /\ \A k \in DOMAIN owed : Retire(App) \notin owed[k]
<1>1. engine \in Store
  BY DEF TypeOK
<1>2. App \in Living /\ App \in Documents
  BY <1>1, DocumentsAssumption, StoreFields DEF Living, Documents
<1>3. \A k \in DOMAIN owed : Retire(App) \notin owed[k]
  BY DocumentsAssumption, OwedFields, RetiredAreRows
<1> QED BY <1>2, <1>3

------------------------------------------------------------------------
(* What an enqueue keeps, part by part. *)

LEMMA StorageKeeps ==
  ASSUME Longer
  PROVE  /\ DeletionRetires => DeletionRetires'
         /\ Backed(engine) => Backed(engine)'
         /\ Backed(mirror) => Backed(mirror)'
         /\ Owes(engine) => Owes(engine)'
         /\ Owes(mirror) => Owes(mirror)'
         /\ CursorBehindBytes => CursorBehindBytes'
         /\ OwnEntriesAreDurable => OwnEntriesAreDurable'
         /\ (OnlyDurableLeaves /\ pushes' = pushes) => OnlyDurableLeaves'
<1>1. engine' = engine /\ mirror' = mirror /\ log' = log
  BY DEF Longer
<1>2. Living' = Living
  BY <1>1 DEF Living
<1>3. DeletionRetires => DeletionRetires'
  BY <1>1 DEF DeletionRetires
<1>4. Backed(engine) => Backed(engine)'
  BY <1>1, <1>2 DEF Backed
<1>5. Backed(mirror) => Backed(mirror)'
  BY <1>1, <1>2 DEF Backed
<1>6. Owes(engine) => Owes(engine)'
  BY <1>1 DEF Owes, AtAuthority
<1>7. Owes(mirror) => Owes(mirror)'
  BY <1>1 DEF Owes, AtAuthority
<1>8. CursorBehindBytes => CursorBehindBytes'
  BY <1>1 DEF CursorBehindBytes
<1>9. OwnEntriesAreDurable => OwnEntriesAreDurable'
  BY <1>1, <1>2 DEF OwnEntriesAreDurable
<1>10. (OnlyDurableLeaves /\ pushes' = pushes) => OnlyDurableLeaves'
  BY <1>1 DEF OnlyDurableLeaves
<1> QED BY <1>3, <1>4, <1>5, <1>6, <1>7, <1>8, <1>9, <1>10

LEMMA OwnGrows ==
  ASSUME TypeOK, Longer, EachItsOwn,
         \A k \in Added : \A op \in owed'[k] :
            /\ \A e \in Inserts(op) : \A u \in e.bytes : u.by = "here"
            /\ op.kind = "append" /\ op.outboxId = {} => \A u \in op.bytes : u.by = "there"
  PROVE  EachItsOwn'
<1>1. \A e \in Entries' : \A u \in e.bytes : u.by = "here"
  BY EntriesGrow DEF EachItsOwn
<1>2. ASSUME NEW k \in DOMAIN owed', NEW op \in owed'[k], op.kind = "append", op.outboxId = {}
      PROVE  \A u \in op.bytes : u.by = "there"
  <2>1. CASE k \in DOMAIN owed
    BY <1>2, <2>1, LongerIs DEF EachItsOwn
  <2>2. CASE k \in Added
    BY <1>2, <2>2
  <2> QED BY <2>1, <2>2, LongerIs
<1>3. log' = log
  BY DEF Longer
<1>4. \A k \in DOMAIN log' : log'[k].by = "there" =>
          \A d \in Documents : \A u \in log'[k].sections[d] : u.by = "there"
  BY <1>3 DEF EachItsOwn
<1> QED BY <1>1, <1>2, <1>4 DEF EachItsOwn

LEMMA RetirementsGrow ==
  ASSUME TypeOK, Longer, RetirementsAreOwed,
         retired' = retired \cup {r \in Rows : \E k \in Added : Retire(r) \in owed'[k]},
         \A k \in Added : \A op \in owed'[k] : op.kind = "append" =>
            /\ op.document \in Documents \ retired
            /\ \A j \in Added : Retire(op.document) \notin owed'[j]
            /\ \A r \in Rows : Delete(r) \in op.bytes => Retire(r) \in owed'[k]
  PROVE  RetirementsAreOwed'
<1>1. engine' = engine /\ mirror' = mirror /\ Living' = Living
  BY DEF Longer, Living
<1>2. owed \in Seq(SUBSET Op) /\ owed' \in Seq(SUBSET Op)
  BY OwedFields DEF Longer
<1>3. \A r : Lives(r, 0, owed) <=> \A j \in DOMAIN owed : Retire(r) \notin owed[j]
  BY <1>2, LivesIs
<1>4. \A r : Lives(r, 0, owed') <=> \A j \in DOMAIN owed' : Retire(r) \notin owed'[j]
  BY <1>2, LivesIs
<1>5. \A r : Lives(r, 0, owed') <=> Lives(r, 0, owed) /\ \A j \in Added : Retire(r) \notin owed'[j]
  BY <1>3, <1>4, LongerIs
<1>6. retired = engine.tombstones \cup {r \in Rows : ~Lives(r, 0, owed)}
  BY DEF RetirementsAreOwed
<1>7. retired' = engine'.tombstones \cup {r \in Rows : ~Lives(r, 0, owed')}
  BY <1>1, <1>5, <1>6
<1>8. mirror'.tombstones \subseteq engine'.tombstones
  BY <1>1 DEF RetirementsAreOwed
<1>9. ASSUME NEW k \in DOMAIN owed', NEW op \in owed'[k], op.kind = "append"
      PROVE  /\ op.document \in Living
             /\ \A j \in DOMAIN owed' : j <= k => Retire(op.document) \notin owed'[j]
             /\ \A r \in Rows : Delete(r) \in op.bytes => Retire(r) \in owed'[k]
  <2>1. CASE k \in DOMAIN owed
    <3>1. op \in owed[k] /\ owed'[k] = owed[k]
      BY <2>1, LongerIs
    <3>2. /\ op.document \in Living
          /\ \A j \in DOMAIN owed : j <= k => Retire(op.document) \notin owed[j]
          /\ \A r \in Rows : Delete(r) \in op.bytes => Retire(r) \in owed[k]
      BY <1>9, <2>1, <3>1 DEF RetirementsAreOwed
    <3> QED BY <2>1, <3>1, <3>2, LongerIs
  <2>2. CASE k \in Added
    <3>1. /\ op.document \in Documents /\ op.document \notin retired
          /\ \A j \in Added : Retire(op.document) \notin owed'[j]
          /\ \A r \in Rows : Delete(r) \in op.bytes => Retire(r) \in owed'[k]
      BY <1>9, <2>2
    <3>2. op.document \in Living
      BY <1>6, <3>1 DEF Living
    <3>3. \A j \in DOMAIN owed : Retire(op.document) \notin owed[j]
      <4>1. CASE op.document \in Rows
        BY <1>3, <1>6, <3>1, <4>1
      <4>2. CASE op.document = App
        BY <4>2, TheAppLives
      <4> QED BY <3>1, <4>1, <4>2 DEF Documents
    <3> QED BY <3>1, <3>2, <3>3, LongerIs
  <2> QED BY <2>1, <2>2, LongerIs
<1>10. \A k \in DOMAIN owed' : \A op \in owed'[k] : op.kind = "append" =>
          /\ op.document \in Living'
          /\ \A j \in DOMAIN owed' : j <= k => Retire(op.document) \notin owed'[j]
          /\ \A r \in Rows : Delete(r) \in op.bytes => Retire(r) \in owed'[k]
  BY <1>1, <1>9
<1> QED BY <1>7, <1>8, <1>10 DEF RetirementsAreOwed

LEMMA MirrorGrows ==
  ASSUME TypeOK, Longer, MirrorIsBehind,
         \A k \in Added : \A op \in owed'[k] : op.kind = "replaceOutbox" /\ op.document \in Living =>
            op.merged \subseteq mirror.chain[op.document]
  PROVE  MirrorIsBehind'
<1>1. engine' = engine /\ mirror' = mirror /\ Living' = Living
  BY DEF Longer, Living
<1>2. ASSUME NEW k \in DOMAIN owed', NEW op \in owed'[k],
             op.kind = "replaceOutbox", op.document \in Living
      PROVE  op.merged \subseteq mirror.chain[op.document]
  <2>1. CASE k \in DOMAIN owed
    BY <1>2, <2>1, LongerIs DEF MirrorIsBehind
  <2>2. CASE k \in Added
    BY <1>2, <2>2
  <2> QED BY <2>1, <2>2, LongerIs
<1>3. \A d \in Living' : mirror'.chain[d] \subseteq engine'.chain[d]
  BY <1>1 DEF MirrorIsBehind
<1>4. \A e \in engine'.outbox : e.document \in Living' =>
          \/ \A m \in mirror'.outbox : m.id < e.id
          \/ e.bytes \subseteq mirror'.chain[e.document]
  BY <1>1 DEF MirrorIsBehind
<1>5. \A k \in DOMAIN owed' : \A op \in owed'[k] :
          op.kind = "replaceOutbox" /\ op.document \in Living' =>
              op.merged \subseteq mirror'.chain[op.document]
  BY <1>1, <1>2
<1> QED BY <1>3, <1>4, <1>5 DEF MirrorIsBehind

\* Ids that are owed stay newer than what is there before them.
LEMMA IdsGrowOn ==
  ASSUME TypeOK, Longer, IdsGrow,
         nextOutboxId' \in Nat, nextOutboxId <= nextOutboxId',
         ackedThrough' \in {ackedThrough} \cup acks, acks' \subseteq acks,
         \A p \in pushes' : p.connected => p \in pushes \/ \E m \in mirror.outbox : p.id = m.id,
         \A k \in Added : \A op \in owed'[k] :
            /\ op.kind = "append" => \A i \in op.outboxId :
                  i = nextOutboxId /\ nextOutboxId < nextOutboxId' /\ \A j \in Added : k <= j
            /\ op.kind = "dropOutbox" => op.throughId < nextOutboxId
            /\ op.kind = "replaceOutbox" => op.throughId < nextOutboxId
  PROVE  IdsGrow'
<1>1. engine' = engine /\ mirror' = mirror
  BY DEF Longer
<1>2. nextOutboxId \in Nat /\ ackedThrough \in Nat /\ acks \subseteq Nat
  BY DEF TypeOK
<1>3. engine.outbox \subseteq Entries /\ mirror.outbox \subseteq Entries
  BY DEF Entries
<1>4. /\ \A e \in Entries : e.id \in Nat /\ e.id < nextOutboxId
      /\ ackedThrough < nextOutboxId /\ \A t \in acks : t < nextOutboxId
      /\ \A p \in pushes : p.connected => p.id < nextOutboxId
  BY EntriesAre, EntryFields DEF IdsGrow
<1>5. ackedThrough' \in Nat /\ ackedThrough' < nextOutboxId /\ \A t \in acks' : t < nextOutboxId
  BY <1>2, <1>4
<1>6. \A p \in pushes' : p.connected => p.id < nextOutboxId
  BY <1>3, <1>4
<1>7. \A k \in DOMAIN owed : \A e \in Inserted(owed[k]) : e \in Entries
  BY DEF Entries
<1>8. ASSUME NEW k \in DOMAIN owed', NEW op \in owed'[k], op.kind = "append", NEW i \in op.outboxId
      PROVE  Newest(i, k)'
  <2>1. CASE k \in DOMAIN owed
    <3>1. op \in owed[k]
      BY <2>1, LongerIs
    <3>2. Newest(i, k)
      BY <1>8, <2>1, <3>1 DEF IdsGrow
    <3>3. op \in Op
      BY <2>1, <3>1, OwedFields
    <3>4. i \in Nat
      BY <1>8, <3>3, OperationFields
    <3>5. i < nextOutboxId'
      BY <1>2, <3>2, <3>4 DEF Newest
    <3>6. ackedThrough' < i /\ \A t \in acks' : t < i
      BY <3>2 DEF Newest
    <3>7. \A p \in pushes' : p.connected => p.id < i
      BY <3>2 DEF Newest
    <3>8. \A e \in engine'.outbox \cup mirror'.outbox : e.id < i
      BY <1>1, <3>2 DEF Newest
    <3>9. \A j \in DOMAIN owed' : j < k => \A e \in Inserted(owed'[j]) : e.id < i
      BY <2>1, <3>2, LongerIs DEF Newest
    <3> QED BY <3>5, <3>6, <3>7, <3>8, <3>9 DEF Newest
  <2>2. CASE k \in Added
    <3>1. i = nextOutboxId /\ nextOutboxId < nextOutboxId' /\ \A j \in Added : k <= j
      BY <1>8, <2>2
    <3>2. \A j \in DOMAIN owed' : j < k => j \in DOMAIN owed /\ owed'[j] = owed[j]
      BY <2>2, <3>1, LongerIs
    <3>3. \A j \in DOMAIN owed' : j < k => \A e \in Inserted(owed'[j]) : e.id < i
      BY <1>4, <1>7, <3>1, <3>2
    <3>4. \A e \in engine'.outbox \cup mirror'.outbox : e.id < i
      BY <1>1, <1>3, <1>4, <3>1
    <3> QED BY <1>5, <1>6, <3>1, <3>3, <3>4 DEF Newest
  <2> QED BY <2>1, <2>2, LongerIs
<1>9. ASSUME NEW k \in DOMAIN owed', NEW op \in owed'[k], op.kind = "dropOutbox"
      PROVE  op.throughId < nextOutboxId'
  <2>1. op \in Op
    BY LongerIs
  <2>2. op.throughId \in Nat
    BY <1>9, <2>1, OperationFields
  <2>3. op.throughId < nextOutboxId
    BY <1>9, LongerIs DEF IdsGrow
  <2> QED BY <1>2, <2>2, <2>3
<1>10. ASSUME NEW e \in Entries'
       PROVE  e.id < nextOutboxId'
  <2>1. CASE e \in Entries
    BY <1>2, <1>4, <2>1
  <2>2. CASE \E k \in Added : \E op \in owed'[k] : op \in Op /\ e \in Inserts(op)
    <3>1. PICK k \in Added : \E op \in owed'[k] : op \in Op /\ e \in Inserts(op)
      BY <2>2
    <3>2. PICK op \in owed'[k] : op \in Op /\ e \in Inserts(op)
      BY <3>1
    <3>3. CASE op.kind = "append"
      BY <3>2, <3>3, InsertsAre
    <3>4. CASE op.kind = "replaceOutbox"
      <4>1. e.id < nextOutboxId /\ e.id \in Nat
        BY <3>2, <3>4, InsertsAre, EntryFields
      <4> QED BY <1>2, <4>1
    <3> QED BY <3>2, <3>3, <3>4, InsertsAre
  <2> QED BY <2>1, <2>2, EntriesGrow
<1>11. ackedThrough' < nextOutboxId' /\ \A t \in acks' : t < nextOutboxId'
  BY <1>2, <1>5
<1>12. ASSUME NEW p \in pushes', p.connected
       PROVE  p.id < nextOutboxId'
  <2>1. CASE p \in pushes
    <3>1. p.id \in Nat
      BY <2>1 DEF TypeOK, Push
    <3> QED BY <1>2, <1>6, <1>12, <3>1
  <2>2. CASE \E m \in mirror.outbox : p.id = m.id
    <3>1. p.id \in Nat
      BY <1>3, <1>4, <2>2
    <3> QED BY <1>2, <1>6, <1>12, <3>1
  <2> QED BY <1>12, <2>1, <2>2
<1> QED BY <1>8, <1>9, <1>10, <1>11, <1>12 DEF IdsGrow

LEMMA AcksGrow ==
  ASSUME TypeOK, Longer, AcksAreTrue, IdsGrow,
         ackedThrough' \in {ackedThrough} \cup acks, acks' \subseteq acks,
         \A k \in Added : \A op \in owed'[k] :
            /\ op.kind = "dropOutbox" => op.throughId \in acks
            /\ \A e \in Inserts(op) :
                  \/ nextOutboxId <= e.id
                  \/ \A id \in Nat : ThereThrough(id) /\ e.id <= id /\ e.document \in Living =>
                        \A u \in e.bytes : AtAuthority(e.document, u)
  PROVE  AcksAreTrue'
<1>1. log' = log /\ Living' = Living
  BY DEF Longer, Living
<1>2. nextOutboxId \in Nat /\ ackedThrough \in Nat /\ acks \subseteq Nat
  BY DEF TypeOK
<1>3. ASSUME NEW id \in Nat, id < nextOutboxId, ThereThrough(id)
      PROVE  ThereThrough(id)'
  <2>1. ASSUME NEW e \in Entries', e.id <= id, e.document \in Living
        PROVE  \A u \in e.bytes : AtAuthority(e.document, u)
    <3>1. CASE e \in Entries
      BY <1>3, <2>1, <3>1 DEF ThereThrough
    <3>2. CASE \E k \in Added : \E op \in owed'[k] : op \in Op /\ e \in Inserts(op)
      <4>1. /\ e.id \in Nat
            /\ \/ nextOutboxId <= e.id
               \/ ThereThrough(id) /\ e.id <= id /\ e.document \in Living =>
                        \A u \in e.bytes : AtAuthority(e.document, u)
        BY <3>2, InsertsAre, EntryFields
      <4> QED BY <1>2, <1>3, <2>1, <4>1
    <3> QED BY <3>1, <3>2, EntriesGrow
  <2> QED BY <1>1, <2>1 DEF ThereThrough, AtAuthority
<1>4. ThereThrough(ackedThrough)' /\ \A t \in acks : ThereThrough(t)'
  <2>1. ASSUME NEW t \in acks  PROVE ThereThrough(t)'
    BY <1>2, <1>3 DEF AcksAreTrue, IdsGrow
  <2>2. \A id \in {ackedThrough} \cup acks : id \in Nat /\ id < nextOutboxId /\ ThereThrough(id)
    BY <1>2 DEF AcksAreTrue, IdsGrow
  <2>3. PICK id \in {ackedThrough} \cup acks : id = ackedThrough'
    OBVIOUS
  <2>4. ThereThrough(id)'
    BY <1>3, <2>2
  <2>5. ThereThrough(ackedThrough)'
    BY <2>3, <2>4 DEF ThereThrough
  <2> QED BY <2>1, <2>5
<1>5. ASSUME NEW k \in DOMAIN owed', NEW op \in owed'[k], op.kind = "dropOutbox"
      PROVE  ThereThrough(op.throughId)'
  <2>1. CASE k \in DOMAIN owed
    <3>1. op \in owed[k] /\ op \in Op
      BY <2>1, LongerIs
    <3>2. op.throughId \in Nat /\ op.throughId < nextOutboxId /\ ThereThrough(op.throughId)
      BY <1>5, <2>1, <3>1, OperationFields DEF AcksAreTrue, IdsGrow
    <3> QED BY <1>3, <3>2
  <2>2. CASE k \in Added
    <3>1. op.throughId \in acks
      BY <1>5, <2>2
    <3>2. op.throughId \in Nat /\ op.throughId < nextOutboxId /\ ThereThrough(op.throughId)
      BY <1>2, <3>1 DEF AcksAreTrue, IdsGrow
    <3> QED BY <1>3, <3>2
  <2> QED BY <2>1, <2>2, LongerIs
<1> QED BY <1>4, <1>5 DEF AcksAreTrue

\* What is new is above what is on its way.
LEMMA PushesGrow ==
  ASSUME TypeOK, Longer, IdsGrow, PushesCarryAll, pushes' = pushes,
         \A k \in Added : \A op \in owed'[k] : \A e \in Inserts(op) : nextOutboxId <= e.id
  PROVE  PushesCarryAll'
<1>1. log' = log /\ Living' = Living
  BY DEF Longer, Living
<1>2. ASSUME NEW p \in pushes, p.connected, NEW e \in Entries', e.id <= p.id, e.document \in Living
      PROVE  \A u \in e.bytes : u \in p.sections[e.document] \/ AtAuthority(e.document, u)
  <2>1. p.id < nextOutboxId /\ p.id \in Nat /\ nextOutboxId \in Nat
    BY <1>2 DEF IdsGrow, TypeOK, Push
  <2>2. CASE e \in Entries
    BY <1>2, <2>2 DEF PushesCarryAll
  <2>3. CASE \E k \in Added : \E op \in owed'[k] : op \in Op /\ e \in Inserts(op)
    <3>1. e.id \in Nat /\ nextOutboxId <= e.id
      BY <2>3, InsertsAre, EntryFields
    <3> QED BY <1>2, <2>1, <3>1
  <2> QED BY <2>2, <2>3, EntriesGrow
<1> QED BY <1>1, <1>2 DEF PushesCarryAll, AtAuthority

LEMMA MergesGrow ==
  ASSUME TypeOK, Longer, MergesKeepAll,
         \A k \in Added : \A op \in owed'[k] : op.kind = "replaceOutbox" =>
            /\ \A e \in engine.outbox : Replaces(op, e)
            /\ \A j \in DOMAIN owed' : j < k => \A e \in Inserted(owed'[j]) : Replaces(op, e)
  PROVE  MergesKeepAll'
<1>1. engine' = engine /\ log' = log /\ Living' = Living
  BY DEF Longer, Living
<1>2. ASSUME NEW k \in DOMAIN owed', NEW op \in owed'[k], op.kind = "replaceOutbox"
      PROVE  /\ \A e \in engine.outbox : Replaces(op, e)
             /\ \A j \in DOMAIN owed' : j < k => \A e \in Inserted(owed'[j]) : Replaces(op, e)
  <2>1. CASE k \in DOMAIN owed
    <3>1. op \in owed[k]
      BY <2>1, LongerIs
    <3>2. /\ \A e \in engine.outbox : Replaces(op, e)
          /\ \A j \in DOMAIN owed : j < k => \A e \in Inserted(owed[j]) : Replaces(op, e)
      BY <1>2, <2>1, <3>1 DEF MergesKeepAll
    <3>3. \A j \in DOMAIN owed' : j < k => j \in DOMAIN owed /\ owed'[j] = owed[j]
      BY <2>1, LongerIs
    <3> QED BY <3>2, <3>3
  <2>2. CASE k \in Added
    BY <1>2, <2>2
  <2> QED BY <2>1, <2>2, LongerIs
<1>3. \A op, e : Replaces(op, e) => Replaces(op, e)'
  BY <1>1 DEF Replaces, AtAuthority
<1> QED BY <1>1, <1>2, <1>3 DEF MergesKeepAll

\* A batch without a cursor leaves the cursors alone.
LEMMA CursorsStay ==
  ASSUME TypeOK, Longer, CursorsAreOwed, liveCursor' = liveCursor,
         \A k \in Added : \A op \in owed'[k] : op.kind # "cursor"
  PROVE  CursorsAreOwed'
<1>1. engine' = engine /\ log' = log /\ Living' = Living
  BY DEF Longer, Living
<1>2. \A s \in engine'.cursor + 1 .. liveCursor' : \E k \in DOMAIN owed' : Cursor(s) \in owed'[k]
  BY <1>1, LongerIs DEF CursorsAreOwed
<1>3. ASSUME NEW k \in DOMAIN owed', NEW op \in owed'[k], op.kind = "cursor"
      PROVE  /\ engine.cursor < op.seq /\ op.seq <= liveCursor
             /\ \A j \in DOMAIN owed' : \A o \in owed'[j] :
                   o.kind = "cursor" => (op.seq < o.seq <=> k < j) /\ (op.seq = o.seq => op = o)
             /\ log[op.seq].by = "there" => \A d \in Living :
                   \/ log[op.seq].sections[d] \subseteq AppendedTo(owed'[k], d)
                   \/ \E j \in DOMAIN owed' : j < k /\ Retire(d) \in owed'[j]
  <2>1. k \in DOMAIN owed /\ op \in owed[k] /\ owed'[k] = owed[k]
    BY <1>3, LongerIs
  <2>2. /\ engine.cursor < op.seq /\ op.seq <= liveCursor
        /\ \A j \in DOMAIN owed : \A o \in owed[j] :
              o.kind = "cursor" => (op.seq < o.seq <=> k < j) /\ (op.seq = o.seq => op = o)
        /\ log[op.seq].by = "there" => \A d \in Living :
              \/ log[op.seq].sections[d] \subseteq AppendedTo(owed[k], d)
              \/ \E j \in DOMAIN owed : j < k /\ Retire(d) \in owed[j]
    BY <1>3, <2>1 DEF CursorsAreOwed
  <2>3. \A j \in DOMAIN owed' : \A o \in owed'[j] :
           o.kind = "cursor" => j \in DOMAIN owed /\ o \in owed[j]
    BY LongerIs
  <2>4. log[op.seq].by = "there" => \A d \in Living :
              \/ log[op.seq].sections[d] \subseteq AppendedTo(owed'[k], d)
              \/ \E j \in DOMAIN owed' : j < k /\ Retire(d) \in owed'[j]
    BY <2>1, <2>2, LongerIs
  <2> QED BY <2>2, <2>3, <2>4
<1>4. engine'.cursor <= liveCursor'
  BY <1>1 DEF CursorsAreOwed
<1> QED BY <1>1, <1>2, <1>3, <1>4 DEF CursorsAreOwed

\* The next entry's cursor rides in one batch with the bytes it accounts for.
LEMMA CursorsGrow ==
  ASSUME TypeOK, Longer, CursorsAreOwed, liveCursor' = liveCursor + 1,
         NEW batch, NEW last \in Added,
         \A k \in Added : k = last, owed'[last] = batch,
         Cursor(liveCursor + 1) \in batch,
         \A op \in batch : op.kind = "cursor" => op = Cursor(liveCursor + 1),
         log[liveCursor + 1].by = "there" => \A d \in Living :
            \/ log[liveCursor + 1].sections[d] \subseteq AppendedTo(batch, d)
            \/ \E j \in DOMAIN owed : Retire(d) \in owed[j]
  PROVE  CursorsAreOwed'
<1>1. engine' = engine /\ log' = log /\ Living' = Living
  BY DEF Longer, Living
<1>2. liveCursor \in Nat /\ engine.cursor \in Nat /\ engine.cursor <= liveCursor
  <2>1. engine.cursor \in Nat
    BY StoreFields DEF TypeOK
  <2> QED BY <2>1 DEF TypeOK, CursorsAreOwed
<1>3. ASSUME NEW s \in engine'.cursor + 1 .. liveCursor'
      PROVE  \E k \in DOMAIN owed' : Cursor(s) \in owed'[k]
  <2>1. CASE s = liveCursor + 1
    BY <2>1, LongerIs
  <2>2. CASE s # liveCursor + 1
    <3>1. s \in engine.cursor + 1 .. liveCursor
      BY <1>1, <1>2, <2>2
    <3> QED BY <3>1, LongerIs DEF CursorsAreOwed
  <2> QED BY <2>1, <2>2
<1>4. \A k \in DOMAIN owed' : \A op \in owed'[k] : op.kind = "cursor" =>
         \/ k \in DOMAIN owed /\ op \in owed[k] /\ op.seq \in Nat
               /\ engine.cursor < op.seq /\ op.seq <= liveCursor
         \/ k = last /\ op = Cursor(liveCursor + 1) /\ op.seq = liveCursor + 1
  <2> SUFFICES ASSUME NEW k \in DOMAIN owed', NEW op \in owed'[k], op.kind = "cursor"
               PROVE  \/ k \in DOMAIN owed /\ op \in owed[k] /\ op.seq \in Nat
                            /\ engine.cursor < op.seq /\ op.seq <= liveCursor
                      \/ k = last /\ op = Cursor(liveCursor + 1) /\ op.seq = liveCursor + 1
    OBVIOUS
  <2>1. CASE k \in DOMAIN owed
    <3>1. op \in owed[k] /\ op \in Op
      BY <2>1, LongerIs
    <3> QED BY <2>1, <3>1, OperationFields DEF CursorsAreOwed
  <2>2. CASE k \in Added
    BY <2>2 DEF Cursor
  <2> QED BY <2>1, <2>2, LongerIs
<1>5. last \in Nat /\ \A j \in DOMAIN owed : j \in Nat /\ j < last /\ j # last
  BY LongerIs
<1>6. ASSUME NEW k \in DOMAIN owed', NEW op \in owed'[k], op.kind = "cursor",
             NEW j \in DOMAIN owed', NEW o \in owed'[j], o.kind = "cursor"
      PROVE  (op.seq < o.seq <=> k < j) /\ (op.seq = o.seq => op = o)
  <2>1. CASE k = last /\ op = Cursor(liveCursor + 1) /\ op.seq = liveCursor + 1
             /\ j = last /\ o = Cursor(liveCursor + 1) /\ o.seq = liveCursor + 1
    BY <1>2, <1>5, <2>1
  <2>2. CASE k = last /\ op.seq = liveCursor + 1
             /\ j \in DOMAIN owed /\ o.seq \in Nat /\ o.seq <= liveCursor
    BY <1>2, <1>5, <2>2
  <2>3. CASE j = last /\ o.seq = liveCursor + 1
             /\ k \in DOMAIN owed /\ op.seq \in Nat /\ op.seq <= liveCursor
    BY <1>2, <1>5, <2>3
  <2>4. CASE k \in DOMAIN owed /\ op \in owed[k] /\ j \in DOMAIN owed /\ o \in owed[j]
    BY <1>6, <2>4 DEF CursorsAreOwed
  <2> QED BY <1>4, <1>6, <2>1, <2>2, <2>3, <2>4
<1>7. ASSUME NEW k \in DOMAIN owed', NEW op \in owed'[k], op.kind = "cursor",
             log[op.seq].by = "there", NEW d \in Living
      PROVE  \/ log[op.seq].sections[d] \subseteq AppendedTo(owed'[k], d)
             \/ \E j \in DOMAIN owed' : j < k /\ Retire(d) \in owed'[j]
  <2>1. CASE k \in DOMAIN owed /\ op \in owed[k]
    <3>1. \/ log[op.seq].sections[d] \subseteq AppendedTo(owed[k], d)
          \/ \E j \in DOMAIN owed : j < k /\ Retire(d) \in owed[j]
      BY <1>7, <2>1 DEF CursorsAreOwed
    <3> QED BY <2>1, <3>1, LongerIs
  <2>2. CASE k = last /\ op.seq = liveCursor + 1
    <3>1. \/ log[op.seq].sections[d] \subseteq AppendedTo(batch, d)
          \/ \E j \in DOMAIN owed : Retire(d) \in owed[j]
      BY <1>7, <2>2
    <3>2. \A j \in DOMAIN owed : j \in DOMAIN owed' /\ owed'[j] = owed[j] /\ j < last
      BY LongerIs
    <3> QED BY <2>2, <3>1, <3>2
  <2> QED BY <1>4, <1>7, <2>1, <2>2
<1>8. \A k \in DOMAIN owed' : \A op \in owed'[k] : op.kind = "cursor" =>
         engine.cursor < op.seq /\ op.seq <= liveCursor + 1
  BY <1>2, <1>4
<1>9. engine.cursor <= liveCursor + 1
  BY <1>2
<1> QED BY <1>1, <1>3, <1>6, <1>7, <1>8, <1>9 DEF CursorsAreOwed

------------------------------------------------------------------------
(* The steps that enqueue. *)

\* A local verb: bytes of this device with an entry of their own, and the documents
\* they retire.
LEMMA AuthorKeeps ==
  ASSUME ReplicaIInv, TypeOK',
         NEW d \in Documents \ retired, NEW authored \in SUBSET Update, NEW gone \in SUBSET Rows,
         d \notin gone, \A u \in authored : u.by = "here",
         \A r \in Rows : Delete(r) \in authored => r \in gone,
         Enqueue(<<{AppendTo(d, authored, {nextOutboxId})} \cup {Retire(r) : r \in gone}>>),
         retired' = retired \cup gone, nextOutboxId' = nextOutboxId + 1,
         UNCHANGED <<liveCursor, ackedThrough, storage, wire>>
  PROVE  ReplicaIInv'
<1> DEFINE append == AppendTo(d, authored, {nextOutboxId})
           batch == {append} \cup {Retire(r) : r \in gone}
<1>1. TypeOK
  BY DEF ReplicaIInv
<1>2. nextOutboxId \in Nat \ {0}
  BY <1>1 DEF TypeOK
<1>3. append \in Op /\ \A r \in gone : Retire(r) \in Op
  BY <1>2, Operations
<1>4. batch \in SUBSET Op
  BY <1>3
<1>5. /\ append.kind = "append" /\ append.document = d /\ append.bytes = authored
      /\ append.outboxId = {nextOutboxId}
      /\ \A r \in gone : Retire(r).kind = "retire" /\ Retire(r).document = r
  BY DEF AppendTo, Retire
<1>6. \A op \in batch : op = append \/ \E r \in gone : op = Retire(r)
  OBVIOUS
<1>7. append \in batch /\ (\A r \in gone : Retire(r) \in batch) /\ Enqueue(<<batch>>)
  OBVIOUS
<1>8. storage' = storage /\ log' = log /\ pushes' = pushes /\ acks' = acks
  BY DEF wire
<1> HIDE DEF append, batch
<1>9. \A r \in Rows : Retire(r) \in batch => r \in gone
  BY <1>5, <1>6, RetiredAreRows DEF Retire
<1>10. /\ Longer
       /\ \A k \in Added : k = Len(owed) + 1 /\ owed'[k] = batch
       /\ Len(owed) + 1 \in Added
  BY <1>1, <1>4, <1>7, <1>8, EnqueueOne
<1>11. \A k \in Added : \A op \in owed'[k] : op \in Op /\ (op = append \/ op.kind = "retire")
  BY <1>3, <1>5, <1>6, <1>10
<1>12. \A e \in Inserts(append) : e.id = nextOutboxId /\ e.bytes = authored
  BY <1>3, <1>5, InsertsAre
<1>13. \A op : op.kind = "retire" => Inserts(op) = {}
  BY DEF Inserts
<1>14. EachItsOwn'
  <2>1. EachItsOwn
    BY DEF ReplicaIInv
  <2>2. \A k \in Added : \A op \in owed'[k] :
            /\ \A e \in Inserts(op) : \A u \in e.bytes : u.by = "here"
            /\ op.kind = "append" /\ op.outboxId = {} => \A u \in op.bytes : u.by = "there"
    BY <1>5, <1>11, <1>12, <1>13
  <2> QED BY <1>1, <1>10, <2>1, <2>2, OwnGrows
<1>15. RetirementsAreOwed'
  <2>1. RetirementsAreOwed
    BY DEF ReplicaIInv
  <2>2. retired' = retired \cup {r \in Rows : \E k \in Added : Retire(r) \in owed'[k]}
    BY <1>7, <1>9, <1>10
  <2>3. \A k \in Added : \A op \in owed'[k] : op.kind = "append" =>
            /\ op.document \in Documents \ retired
            /\ \A j \in Added : Retire(op.document) \notin owed'[j]
            /\ \A r \in Rows : Delete(r) \in op.bytes => Retire(r) \in owed'[k]
    <3>1. \A k \in Added : \A op \in owed'[k] : op.kind = "append" => op = append /\ owed'[k] = batch
      BY <1>10, <1>11
    <3>2. Retire(d) \notin batch
      BY <1>4, <1>9, RetiredAreRows
    <3>3. \A j \in Added : owed'[j] = batch
      BY <1>10
    <3> QED BY <1>5, <1>7, <3>1, <3>2, <3>3
  <2> QED BY <1>1, <1>10, <2>1, <2>2, <2>3, RetirementsGrow
<1>16. MirrorIsBehind'
  <2>1. MirrorIsBehind
    BY DEF ReplicaIInv
  <2>2. \A k \in Added : \A op \in owed'[k] : op.kind # "replaceOutbox"
    BY <1>5, <1>11
  <2> QED BY <1>1, <1>10, <2>1, <2>2, MirrorGrows
<1>17. IdsGrow'
  <2>1. IdsGrow
    BY DEF ReplicaIInv
  <2>2. \A k \in Added : \A op \in owed'[k] :
            /\ op.kind = "append" => \A i \in op.outboxId :
                  i = nextOutboxId /\ nextOutboxId < nextOutboxId' /\ \A j \in Added : k <= j
            /\ op.kind = "dropOutbox" => op.throughId < nextOutboxId
            /\ op.kind = "replaceOutbox" => op.throughId < nextOutboxId
    <3>1. nextOutboxId < nextOutboxId'
      BY <1>2
    <3>2. \A k, j \in Added : k <= j
      <4>1. Len(owed) \in Nat
        BY <1>1, OwedFields
      <4> QED BY <1>10, <4>1
    <3> QED BY <1>5, <1>11, <3>1, <3>2
  <2>3. nextOutboxId' \in Nat /\ nextOutboxId <= nextOutboxId'
    BY <1>2
  <2>4. \A p \in pushes' : p.connected => p \in pushes \/ \E m \in mirror.outbox : p.id = m.id
    BY <1>8
  <2> QED BY <1>1, <1>8, <1>10, <2>1, <2>2, <2>3, <2>4, IdsGrowOn
<1>18. \A k \in Added : \A op \in owed'[k] : \A e \in Inserts(op) : nextOutboxId <= e.id
  BY <1>2, <1>11, <1>12, <1>13
<1>19. AcksAreTrue'
  <2>1. AcksAreTrue /\ IdsGrow
    BY DEF ReplicaIInv
  <2>2. \A k \in Added : \A op \in owed'[k] :
            /\ op.kind = "dropOutbox" => op.throughId \in acks
            /\ \A e \in Inserts(op) :
                  \/ nextOutboxId <= e.id
                  \/ \A id \in Nat : ThereThrough(id) /\ e.id <= id /\ e.document \in Living =>
                        \A u \in e.bytes : AtAuthority(e.document, u)
    BY <1>5, <1>11, <1>18
  <2> QED BY <1>1, <1>8, <1>10, <2>1, <2>2, AcksGrow
<1>20. PushesCarryAll'
  <2>1. PushesCarryAll /\ IdsGrow
    BY DEF ReplicaIInv
  <2> QED BY <1>1, <1>8, <1>10, <1>18, <2>1, PushesGrow
<1>21. MergesKeepAll'
  <2>1. MergesKeepAll
    BY DEF ReplicaIInv
  <2>2. \A k \in Added : \A op \in owed'[k] : op.kind # "replaceOutbox"
    BY <1>5, <1>11
  <2> QED BY <1>1, <1>10, <2>1, <2>2, MergesGrow
<1>22. CursorsAreOwed'
  <2>1. CursorsAreOwed
    BY DEF ReplicaIInv
  <2>2. \A k \in Added : \A op \in owed'[k] : op.kind # "cursor"
    BY <1>5, <1>11
  <2> QED BY <1>1, <1>10, <2>1, <2>2, CursorsStay
<1> QED BY <1>8, <1>10, <1>14, <1>15, <1>16, <1>17, <1>19, <1>20, <1>21, <1>22, StorageKeeps
        DEF ReplicaIInv

\* A batch that inserts nothing, merges nothing and retires nothing.
LEMMA QuietKeeps ==
  ASSUME ReplicaIInv, TypeOK', CursorsAreOwed',
         NEW batch \in SUBSET Op, Enqueue(<<batch>>),
         \A op \in batch :
            /\ op.kind \notin {"replaceOutbox", "retire"}
            /\ op.kind = "dropOutbox" => op.throughId \in acks
            /\ op.kind = "append" => op.outboxId = {} /\ op.document \notin retired
                                     /\ \A u \in op.bytes : u.by = "there",
         ackedThrough' \in {ackedThrough} \cup acks, acks' \subseteq acks,
         UNCHANGED <<retired, nextOutboxId, storage, log, pushes>>
  PROVE  ReplicaIInv'
<1>1. TypeOK
  BY DEF ReplicaIInv
<1>2. nextOutboxId \in Nat \ {0}
  BY <1>1 DEF TypeOK
<1>3. /\ Longer
      /\ \A k \in Added : k = Len(owed) + 1 /\ owed'[k] = batch
      /\ Len(owed) + 1 \in Added
  BY <1>1, EnqueueOne
<1>4. \A k \in Added : \A op \in owed'[k] :
         /\ op \in Op /\ op \in batch
         /\ op.kind \notin {"replaceOutbox", "retire"}
         /\ op.kind = "dropOutbox" => op.throughId \in acks
         /\ op.kind = "append" => op.outboxId = {} /\ op.document \notin retired
                                  /\ \A u \in op.bytes : u.by = "there"
  BY <1>3
<1>5. \A k \in Added : \A op \in owed'[k] : Inserts(op) = {}
  BY <1>4 DEF Inserts
<1>6. EachItsOwn'
  <2>1. EachItsOwn
    BY DEF ReplicaIInv
  <2> QED BY <1>1, <1>3, <1>4, <1>5, <2>1, OwnGrows
<1>7. RetirementsAreOwed'
  <2>1. RetirementsAreOwed
    BY DEF ReplicaIInv
  <2>2. \A k \in Added : \A r : Retire(r) \notin owed'[k]
    BY <1>4 DEF Retire
  <2>3. \A k \in Added : \A op \in owed'[k] : op.kind = "append" =>
            \A r \in Rows : Delete(r) \notin op.bytes
    BY <1>4 DEF Delete
  <2>4. \A k \in Added : \A op \in owed'[k] : op.kind = "append" => op.document \in Documents \ retired
    BY <1>4, OperationFields
  <2> QED BY <1>1, <1>3, <2>1, <2>2, <2>3, <2>4, RetirementsGrow
<1>8. MirrorIsBehind'
  <2>1. MirrorIsBehind
    BY DEF ReplicaIInv
  <2> QED BY <1>1, <1>3, <1>4, <2>1, MirrorGrows
<1>9. IdsGrow'
  <2>1. IdsGrow
    BY DEF ReplicaIInv
  <2>2. \A k \in Added : \A op \in owed'[k] :
            /\ op.kind = "append" => \A i \in op.outboxId :
                  i = nextOutboxId /\ nextOutboxId < nextOutboxId' /\ \A j \in Added : k <= j
            /\ op.kind = "dropOutbox" => op.throughId < nextOutboxId
            /\ op.kind = "replaceOutbox" => op.throughId < nextOutboxId
    BY <1>4, <2>1 DEF IdsGrow
  <2>3. nextOutboxId' \in Nat /\ nextOutboxId <= nextOutboxId'
    BY <1>2
  <2> QED BY <1>1, <1>3, <2>1, <2>2, <2>3, IdsGrowOn
<1>10. AcksAreTrue'
  <2>1. AcksAreTrue /\ IdsGrow
    BY DEF ReplicaIInv
  <2> QED BY <1>1, <1>3, <1>4, <1>5, <2>1, AcksGrow
<1>11. PushesCarryAll'
  <2>1. PushesCarryAll /\ IdsGrow
    BY DEF ReplicaIInv
  <2> QED BY <1>1, <1>3, <1>5, <2>1, PushesGrow
<1>12. MergesKeepAll'
  <2>1. MergesKeepAll
    BY DEF ReplicaIInv
  <2> QED BY <1>1, <1>3, <1>4, <2>1, MergesGrow
<1> QED BY <1>3, <1>6, <1>7, <1>8, <1>9, <1>10, <1>11, <1>12, StorageKeeps DEF ReplicaIInv

------------------------------------------------------------------------
(* Coalesce. *)

\* What is offered holds all that the device wrote up to an id that is offered, or the
\* authority has it.
LEMMA OfferedHolds ==
  ASSUME ReplicaIInv, NEW m \in mirror.outbox, NEW e \in Entries, e.id <= m.id,
         e.document \in Living, NEW u \in e.bytes
  PROVE  u \in MergedOf(e.document) \/ AtAuthority(e.document, u)
<1> DEFINE d == e.document
<1>1. TypeOK /\ IdsGrow /\ AcksAreTrue /\ Owes(mirror) /\ EachItsOwn /\ MirrorIsBehind
  BY DEF ReplicaIInv
<1>2. m \in Entries /\ m.id \in Nat /\ e.id \in Nat /\ d \in Documents
  <2>1. m \in Entries
    BY DEF Entries
  <2> QED BY <1>1, <2>1, EntriesAre, EntryFields
<1>3. ASSUME NEW f \in mirror.outbox, f.document = d, u \in f.bytes
      PROVE  u \in MergedOf(d) \/ AtAuthority(d, u)
  <2>1. f \in Entries
    BY DEF Entries
  <2>2. f.id \in Nat /\ ackedThrough \in Nat
    BY <1>1, <2>1, EntriesAre, EntryFields DEF TypeOK
  <2>3. CASE f.id <= ackedThrough
    BY <1>1, <1>3, <2>1, <2>3 DEF AcksAreTrue, ThereThrough
  <2>4. CASE f.id > ackedThrough
    <3>1. f \in OfferedOf(d)
      BY <1>3, <2>4 DEF OfferedOf, Offered
    <3> QED BY <1>3, <3>1 DEF MergedOf
  <2> QED BY <2>2, <2>3, <2>4
<1>4. u.by = "here"
  BY <1>1 DEF EachItsOwn
<1>5. ASSUME u \in mirror.chain[d]
      PROVE  u \in MergedOf(d) \/ AtAuthority(d, u)
  BY <1>1, <1>2, <1>3, <1>4, <1>5 DEF Owes
<1>6. CASE e \in engine.outbox
  <2>1. \/ \A x \in mirror.outbox : x.id < e.id
        \/ e.bytes \subseteq mirror.chain[d]
    BY <1>1, <1>6 DEF MirrorIsBehind
  <2>2. ~(m.id < e.id)
    BY <1>2
  <2> QED BY <1>5, <2>1, <2>2
<1>7. CASE e \in mirror.outbox
  BY <1>3, <1>7
<1>8. CASE \E k \in DOMAIN owed : \E op \in owed[k] : op \in Op /\ e \in Inserts(op)
  <2>1. PICK k \in DOMAIN owed : \E op \in owed[k] : op \in Op /\ e \in Inserts(op)
    BY <1>8
  <2>2. PICK op \in owed[k] : op \in Op /\ e \in Inserts(op)
    BY <2>1
  <2>3. CASE op.kind = "append"
    <3>1. Newest(e.id, k)
      BY <1>1, <2>2, <2>3, InsertsAre DEF IdsGrow
    <3>2. m.id < e.id
      BY <3>1 DEF Newest
    <3> QED BY <1>2, <3>2
  <2>4. CASE op.kind = "replaceOutbox"
    <3>1. e.bytes = op.merged /\ op.document = d
      BY <2>2, <2>4, InsertsAre
    <3>2. u \in mirror.chain[d]
      BY <1>1, <2>4, <3>1 DEF MirrorIsBehind
    <3> QED BY <1>5, <3>2
  <2> QED BY <2>2, <2>3, <2>4, InsertsAre
<1> QED BY <1>1, <1>6, <1>7, <1>8, EntriesAre

\* An offered entry is one of the mirror's, and what is offered of a document is merged.
LEMMA OfferedAre ==
  ASSUME TypeOK, IdsGrow
  PROVE  /\ \A e \in Offered : /\ e \in mirror.outbox /\ e \in Entries /\ e \in Entry
                               /\ e.id \in Nat \ {0} /\ e.id < nextOutboxId /\ e.bytes \subseteq Update
         /\ \A d : OfferedOf(d) \subseteq Offered /\ \A e \in OfferedOf(d) : e.document = d
         /\ \A d : MergedOf(d) \subseteq Update
         /\ \A d : \A u \in MergedOf(d) : \E e \in OfferedOf(d) : u \in e.bytes
<1>1. ASSUME NEW e \in Offered
      PROVE  /\ e \in mirror.outbox /\ e \in Entries /\ e \in Entry
             /\ e.id \in Nat \ {0} /\ e.id < nextOutboxId /\ e.bytes \subseteq Update
  <2>1. e \in mirror.outbox /\ e \in Entries
    BY DEF Offered, Entries
  <2>2. e \in Entry
    BY <2>1, EntriesAre
  <2> QED BY <2>1, <2>2, EntryFields DEF IdsGrow
<1>2. \A d : OfferedOf(d) \subseteq Offered /\ \A e \in OfferedOf(d) : e.document = d
  BY DEF OfferedOf
<1>3. \A d : \A u \in MergedOf(d) : \E e \in OfferedOf(d) : u \in e.bytes
  BY DEF MergedOf
<1>4. \A d : MergedOf(d) \subseteq Update
  BY <1>1, <1>2, <1>3
<1> QED BY <1>1, <1>2, <1>3, <1>4

\* The greatest id that is offered, of a document or of all.
LEMMA LatestIs ==
  ASSUME TypeOK, IdsGrow, NEW some, some \subseteq Offered, some # {}
  PROVE  \E e \in some : Max({f.id : f \in some}) = e.id /\ \A f \in some : f.id <= e.id
<1> DEFINE ids == {f.id : f \in some}
<1>1. \A f \in some : f.id \in Nat /\ f.id <= nextOutboxId
  <2>1. nextOutboxId \in Nat
    BY DEF TypeOK
  <2>2. ASSUME NEW f \in some  PROVE f.id \in Nat /\ f.id <= nextOutboxId
    <3>1. f.id \in Nat \ {0} /\ f.id < nextOutboxId
      BY OfferedAre
    <3> QED BY <2>1, <3>1
  <2> QED BY <2>2
<1>2. ids \subseteq Nat /\ \A i \in ids : i <= nextOutboxId
  BY <1>1
<1>3. ids # {}
  OBVIOUS
<1>4. nextOutboxId \in Nat
  BY DEF TypeOK
<1>5. Max(ids) \in ids /\ \A i \in ids : i <= Max(ids)
  <2> HIDE DEF ids
  <2> QED BY <1>2, <1>3, <1>4, MaxIs
<1>6. PICK e \in some : Max(ids) = e.id
  BY <1>5
<1>7. \A f \in some : f.id \in ids
  OBVIOUS
<1>8. \A f \in some : f.id <= e.id
  BY <1>5, <1>6, <1>7
<1> QED BY <1>6, <1>8

LEMMA LastIs ==
  ASSUME TypeOK, IdsGrow, NEW d, Cardinality(OfferedOf(d)) > 1
  PROVE  /\ \E e \in OfferedOf(d) : LastOf(d) = e.id /\ \A f \in OfferedOf(d) : f.id <= e.id
         /\ LastOf(d) \in Nat \ {0} /\ LastOf(d) < nextOutboxId
         /\ FirstOf(d) \in Nat
<1>1. OfferedOf(d) # {}
  BY FS_EmptySet
<1>2. OfferedOf(d) \subseteq Offered
  BY OfferedAre
<1>3. PICK e \in OfferedOf(d) : LastOf(d) = e.id /\ \A f \in OfferedOf(d) : f.id <= e.id
  BY <1>1, <1>2, LatestIs DEF LastOf
<1>4. e.id \in Nat \ {0} /\ e.id < nextOutboxId
  BY <1>2, OfferedAre
<1> DEFINE ids == {f.id : f \in OfferedOf(d)}
<1>5. \A f \in OfferedOf(d) : f.id \in Nat
  BY <1>2, OfferedAre
<1>6. ids \subseteq Nat /\ ids # {}
  BY <1>1, <1>5
<1>7. FirstOf(d) \in Nat
  <2> HIDE DEF ids
  <2>1. Min(ids) \in ids
    BY <1>6, MinIs
  <2> QED BY <1>6, <2>1 DEF FirstOf, ids
<1> QED BY <1>3, <1>4, <1>7

Crowded == {d \in Documents : Cardinality(OfferedOf(d)) > 1}
MergeOf(d) == ReplaceOutbox(d, LastOf(d), MergedOf(d))

\* What a merge is, and what it puts in the outbox.
LEMMA MergeIs ==
  ASSUME TypeOK, IdsGrow, NEW d \in Crowded
  PROVE  /\ d \in Documents
         /\ MergeOf(d) \in Op /\ MergeOf(d).kind = "replaceOutbox" /\ MergeOf(d).document = d
         /\ MergeOf(d).throughId = LastOf(d) /\ MergeOf(d).merged = MergedOf(d)
         /\ \A e \in Inserts(MergeOf(d)) : e.id = LastOf(d) /\ e.document = d /\ e.bytes = MergedOf(d)
<1>1. d \in Documents /\ Cardinality(OfferedOf(d)) > 1
  BY DEF Crowded
<1>2. LastOf(d) \in Nat \ {0} /\ MergedOf(d) \subseteq Update
  BY <1>1, LastIs, OfferedAre
<1>3. MergeOf(d) \in Op
  BY <1>1, <1>2, Operations DEF MergeOf
<1>4. /\ MergeOf(d).kind = "replaceOutbox" /\ MergeOf(d).document = d
      /\ MergeOf(d).throughId = LastOf(d) /\ MergeOf(d).merged = MergedOf(d)
  BY DEF MergeOf, ReplaceOutbox
<1>5. \A e \in Inserts(MergeOf(d)) : e.id = LastOf(d) /\ e.document = d /\ e.bytes = MergedOf(d)
  BY <1>3, <1>4, InsertsAre
<1> QED BY <1>1, <1>3, <1>4, <1>5

\* A round enqueues a merge for each crowded document, each in a batch of its own.
LEMMA CoalesceDoes ==
  ASSUME TypeOK, IdsGrow, Coalesce
  PROVE  /\ Longer
         /\ \A k \in Added : \E d \in Crowded : owed'[k] = {MergeOf(d)}
         /\ \A k, j \in Added : j < k => \A d \in Crowded : ~(owed'[k] = {MergeOf(d)} /\ owed'[j] = {MergeOf(d)})
         /\ \E m \in Offered : \A p \in pushes' :
               /\ p.id = m.id /\ p.connected /\ p.sections = [d \in Documents |-> MergedOf(d)]
               /\ \A e \in Offered : e.id <= m.id
         /\ UNCHANGED <<content, retired, liveCursor, liveIdentity, ackedThrough, nextOutboxId,
                        storage, log, acks, restarts>>
<1>1. Offered # {} /\ UNCHANGED <<content, retired, liveCursor, liveIdentity, ackedThrough, nextOutboxId,
                                  storage, log, acks, restarts>>
  BY DEF Coalesce, local
<1>2. pushes' = {[id |-> Max({e.id : e \in Offered}),
                  sections |-> [d \in Documents |-> MergedOf(d)], connected |-> TRUE]}
  BY DEF Coalesce
<1>3. PICK order \in [1 .. Cardinality(Crowded) -> Crowded] :
        /\ \A i, j \in DOMAIN order : i < j => FirstOf(order[i]) < FirstOf(order[j])
        /\ Enqueue([i \in DOMAIN order |-> {MergeOf(order[i])}])
  BY Zenon DEF Coalesce, Crowded, MergeOf
<1> DEFINE more == [i \in DOMAIN order |-> {MergeOf(order[i])}]
<1>4. Cardinality(Crowded) \in Nat
  <2>1. IsFiniteSet(Documents)
    BY DocumentsAssumption, FS_AddElement DEF Documents
  <2>2. Crowded \subseteq Documents
    BY DEF Crowded
  <2> QED BY <2>1, <2>2, FS_Subset, FS_CardinalityType
<1>5. DOMAIN more = 1 .. Cardinality(Crowded) /\ DOMAIN order = 1 .. Cardinality(Crowded)
      /\ \A i \in DOMAIN more : order[i] \in Crowded /\ more[i] = {MergeOf(order[i])}
  BY <1>3
<1>6. more \in Seq(SUBSET Op)
  <2>1. \A i \in DOMAIN more : more[i] \in SUBSET Op
    BY <1>5, MergeIs
  <2>2. more \in [1 .. Cardinality(Crowded) -> SUBSET Op]
    BY <1>5, <2>1
  <2> HIDE DEF more
  <2> QED BY <1>4, <2>2
<1>7. storage' = storage /\ log' = log /\ Enqueue(more)
  BY <1>1, <1>3
<1> HIDE DEF more
<1>8. /\ Longer
      /\ \A k \in Added : k - Len(owed) \in DOMAIN more /\ owed'[k] = more[k - Len(owed)]
  BY <1>6, <1>7, EnqueueDoes
<1>9. \A k \in Added : \E d \in Crowded : owed'[k] = {MergeOf(d)}
  BY <1>5, <1>8
<1>10. ASSUME NEW k \in Added, NEW j \in Added, j < k, NEW d \in Crowded,
              owed'[k] = {MergeOf(d)}, owed'[j] = {MergeOf(d)}
       PROVE  FALSE
  <2> DEFINE x == order[k - Len(owed)]
             y == order[j - Len(owed)]
  <2>1. k - Len(owed) \in DOMAIN order /\ j - Len(owed) \in DOMAIN order
    BY <1>5, <1>8
  <2>2. x \in Crowded /\ y \in Crowded /\ MergeOf(x) = MergeOf(d) /\ MergeOf(y) = MergeOf(d)
    BY <1>5, <1>8, <1>10
  <2>3. x = d /\ y = d
    BY <2>2, MergeIs
  <2>4. j - Len(owed) < k - Len(owed)
    BY <1>8, <1>10, LongerIs
  <2>5. FirstOf(y) < FirstOf(x)
    BY <1>3, <2>1, <2>4
  <2>6. FirstOf(d) \in Nat
    BY LastIs DEF Crowded
  <2> QED BY <2>3, <2>5, <2>6
<1>11. PICK m \in Offered : Max({e.id : e \in Offered}) = m.id /\ \A e \in Offered : e.id <= m.id
  BY <1>1, LatestIs
<1>12. \A p \in pushes' :
          /\ p.id = m.id /\ p.connected /\ p.sections = [d \in Documents |-> MergedOf(d)]
          /\ \A e \in Offered : e.id <= m.id
  BY <1>2, <1>11
<1>13. \A k, j \in Added : j < k => \A d \in Crowded : ~(owed'[k] = {MergeOf(d)} /\ owed'[j] = {MergeOf(d)})
  BY <1>10
<1> QED BY <1>1, <1>8, <1>9, <1>12, <1>13

LEMMA CoalesceKeeps ==
  ASSUME ReplicaIInv, TypeOK', Coalesce
  PROVE  ReplicaIInv'
<1>1. TypeOK /\ IdsGrow
  BY DEF ReplicaIInv
<1>2. /\ Longer
      /\ \A k \in Added : \E d \in Crowded : owed'[k] = {MergeOf(d)}
      /\ \A k, j \in Added : j < k => \A d \in Crowded : ~(owed'[k] = {MergeOf(d)} /\ owed'[j] = {MergeOf(d)})
  BY <1>1, CoalesceDoes
<1>3. UNCHANGED <<retired, liveCursor, ackedThrough, nextOutboxId, log, acks>>
  BY <1>1, CoalesceDoes
<1>4. PICK m \in Offered : \A p \in pushes' :
         /\ p.id = m.id /\ p.connected /\ p.sections = [d \in Documents |-> MergedOf(d)]
         /\ \A e \in Offered : e.id <= m.id
  BY <1>1, CoalesceDoes
<1>5. \A k \in Added : \A op \in owed'[k] : \E d \in Crowded : op = MergeOf(d) /\ owed'[k] = {MergeOf(d)}
  BY <1>2
<1>6. \A k \in Added : \A op \in owed'[k] : op.kind = "replaceOutbox"
  BY <1>1, <1>5, MergeIs
<1>7. /\ m \in mirror.outbox /\ m.id \in Nat /\ m.id < nextOutboxId
      /\ \A d \in Crowded : \E e \in mirror.outbox : LastOf(d) = e.id
      /\ \A d \in Crowded : LastOf(d) \in Nat /\ LastOf(d) < nextOutboxId
  BY <1>1, OfferedAre, LastIs DEF Crowded
<1>8. \A d : \A u \in MergedOf(d) : \E e \in mirror.outbox : e \in Entries /\ e.document = d /\ u \in e.bytes
  BY <1>1, OfferedAre
<1>9. \A d \in Living : MergedOf(d) \subseteq mirror.chain[d] /\ MergedOf(d) \subseteq engine.chain[d]
  <2>1. Backed(mirror) /\ MirrorIsBehind
    BY DEF ReplicaIInv
  <2>2. \A d \in Living : MergedOf(d) \subseteq mirror.chain[d]
    BY <1>8, <2>1 DEF Backed
  <2> QED BY <2>1, <2>2 DEF MirrorIsBehind
<1>10. EachItsOwn'
  <2>1. EachItsOwn
    BY DEF ReplicaIInv
  <2>2. \A k \in Added : \A op \in owed'[k] : \A e \in Inserts(op) : \A u \in e.bytes : u.by = "here"
    <3>1. \A d \in Crowded : \A e \in Inserts(MergeOf(d)) : \A u \in e.bytes : u.by = "here"
      BY <1>1, <1>8, <2>1, MergeIs DEF EachItsOwn
    <3> QED BY <1>5, <3>1
  <2> QED BY <1>1, <1>2, <1>6, <2>1, <2>2, OwnGrows
<1>11. RetirementsAreOwed'
  <2>1. RetirementsAreOwed
    BY DEF ReplicaIInv
  <2>2. \A k \in Added : \A r : Retire(r) \notin owed'[k]
    BY <1>6 DEF Retire
  <2> QED BY <1>1, <1>2, <1>3, <1>6, <2>1, <2>2, RetirementsGrow
<1>12. MirrorIsBehind'
  <2>1. MirrorIsBehind
    BY DEF ReplicaIInv
  <2>2. \A k \in Added : \A op \in owed'[k] : op.document \in Living =>
            op.merged \subseteq mirror.chain[op.document]
    BY <1>1, <1>5, <1>9, MergeIs
  <2> QED BY <1>1, <1>2, <2>1, <2>2, MirrorGrows
<1>13. IdsGrow'
  <2>1. \A k \in Added : \A op \in owed'[k] :
            op.kind = "replaceOutbox" /\ op.throughId < nextOutboxId
    BY <1>1, <1>5, <1>6, <1>7, MergeIs
  <2>2. nextOutboxId' \in Nat /\ nextOutboxId <= nextOutboxId'
    BY <1>1, <1>3 DEF TypeOK
  <2> QED BY <1>1, <1>2, <1>3, <1>4, <1>7, <2>1, <2>2, IdsGrowOn
<1>14. AcksAreTrue'
  <2>1. AcksAreTrue
    BY DEF ReplicaIInv
  <2>2. ASSUME NEW d \in Crowded, NEW e \in Inserts(MergeOf(d)), NEW id \in Nat,
               ThereThrough(id), e.id <= id, e.document \in Living, NEW u \in e.bytes
        PROVE  AtAuthority(e.document, u)
    <3>1. e.id = LastOf(d) /\ e.document = d /\ e.bytes = MergedOf(d)
      BY <1>1, <2>2, MergeIs
    <3>2. PICK f \in OfferedOf(d) : u \in f.bytes
      BY <1>1, <3>1, OfferedAre
    <3>3. f \in Entries /\ f.document = d /\ f.id \in Nat
      BY <1>1, OfferedAre
    <3>4. f.id <= LastOf(d)
      BY <1>1, LastIs DEF Crowded
    <3>5. f.id <= id
      BY <1>7, <2>2, <3>1, <3>3, <3>4
    <3> QED BY <2>2, <3>1, <3>2, <3>3, <3>5 DEF ThereThrough
  <2>3. \A k \in Added : \A op \in owed'[k] :
            /\ op.kind = "dropOutbox" => op.throughId \in acks
            /\ \A e \in Inserts(op) :
                  \/ nextOutboxId <= e.id
                  \/ \A id \in Nat : ThereThrough(id) /\ e.id <= id /\ e.document \in Living =>
                        \A u \in e.bytes : AtAuthority(e.document, u)
    BY <1>5, <1>6, <2>2
  <2> QED BY <1>1, <1>2, <1>3, <2>1, <2>3, AcksGrow
<1>15. PushesCarryAll'
  <2>1. log' = log /\ Living' = Living /\ Living \subseteq Documents
    BY <1>2 DEF Longer, Living
  <2>2. ASSUME NEW e \in Entries', e.id <= m.id, e.document \in Living, NEW u \in e.bytes
        PROVE  u \in MergedOf(e.document) \/ AtAuthority(e.document, u)
    <3>1. CASE e \in Entries
      BY <1>7, <2>2, <3>1, OfferedHolds
    <3>2. CASE \E k \in Added : \E op \in owed'[k] : op \in Op /\ e \in Inserts(op)
      BY <1>1, <1>5, <2>2, <3>2, MergeIs
    <3> QED BY <1>1, <1>2, <3>1, <3>2, EntriesGrow
  <2>3. \A p \in pushes' : p.connected =>
            \A e \in Entries' : e.id <= p.id /\ e.document \in Living =>
                \A u \in e.bytes : u \in p.sections[e.document] \/ AtAuthority(e.document, u)
    BY <1>4, <2>1, <2>2
  <2> QED BY <2>1, <2>3 DEF PushesCarryAll, AtAuthority
<1>16. MergesKeepAll'
  <2>1. MergesKeepAll
    BY DEF ReplicaIInv
  <2>2. ASSUME NEW d \in Crowded, NEW e \in Entries  PROVE Replaces(MergeOf(d), e)
    <3>1. PICK f \in mirror.outbox : LastOf(d) = f.id
      BY <1>7
    <3>2. MergeOf(d).throughId = f.id /\ MergeOf(d).merged = MergedOf(d) /\ MergeOf(d).document = d
      BY <1>1, <3>1, MergeIs
    <3> QED BY <3>2, OfferedHolds DEF Replaces
  <2>3. ASSUME NEW k \in Added, NEW j \in DOMAIN owed', j < k, NEW e \in Inserted(owed'[j]),
               NEW d \in Crowded, owed'[k] = {MergeOf(d)}
        PROVE  Replaces(MergeOf(d), e)
    <3>1. CASE j \in DOMAIN owed
      <4>1. e \in Entries
        BY <1>1, <1>2, <3>1, LongerIs DEF Entries
      <4> QED BY <2>2, <4>1
    <3>2. CASE j \in Added
      <4>1. PICK x \in Crowded : owed'[j] = {MergeOf(x)}
        BY <1>2, <3>2
      <4>2. x # d
        BY <1>2, <2>3, <3>2, <4>1
      <4>3. e.document = x
        BY <1>1, <4>1, MergeIs DEF Inserted
      <4>4. MergeOf(d).document = d
        BY <1>1, MergeIs
      <4> QED BY <4>2, <4>3, <4>4 DEF Replaces
    <3> QED BY <1>1, <1>2, <3>1, <3>2, LongerIs
  <2>4. \A e \in engine.outbox : e \in Entries
    BY DEF Entries
  <2>5. \A k \in Added : \A op \in owed'[k] : op.kind = "replaceOutbox" =>
            /\ \A e \in engine.outbox : Replaces(op, e)
            /\ \A j \in DOMAIN owed' : j < k => \A e \in Inserted(owed'[j]) : Replaces(op, e)
    BY <1>5, <2>2, <2>3, <2>4
  <2> QED BY <1>1, <1>2, <2>1, <2>5, MergesGrow
<1>17. CursorsAreOwed'
  <2>1. CursorsAreOwed
    BY DEF ReplicaIInv
  <2> QED BY <1>1, <1>2, <1>3, <1>6, <2>1, CursorsStay
<1>18. OnlyDurableLeaves'
  <2>1. engine' = engine
    BY <1>2 DEF Longer
  <2> QED BY <1>4, <1>9, <2>1 DEF OnlyDurableLeaves, Living
<1> QED BY <1>2, <1>10, <1>11, <1>12, <1>13, <1>14, <1>15, <1>16, <1>17, <1>18, StorageKeeps
        DEF ReplicaIInv

------------------------------------------------------------------------
(* Land. *)

\* What no batch between the k-th and the n-th takes away.
Spared(d, k, n) == \A j \in k + 1 .. n : Retire(d) \notin owed[j]
Kept(e, k, n) == \A j \in k + 1 .. n : \A op \in owed[j] : ~Removes(op, e)

\* The first n batches that are owed are committed, one after the other.
Landed(n) ==
  /\ \A d \in Documents : \A u :
        u \in engine'.chain[d] <=>
           \/ u \in engine.chain[d] /\ Spared(d, 0, n)
           \/ \E k \in 1 .. n : u \in AppendedTo(owed[k], d) /\ Spared(d, k, n)
  /\ \A e : e \in engine'.outbox <=>
           \/ e \in engine.outbox /\ Kept(e, 0, n)
           \/ \E k \in 1 .. n : e \in Inserted(owed[k]) /\ Kept(e, k, n)
  /\ \A r : r \in engine'.tombstones <=>
           r \in engine.tombstones \/ (r \in Rows /\ ~Spared(r, 0, n))
  /\ DOMAIN owed' = 1 .. Len(owed) - n
  /\ \A j \in DOMAIN owed' : j \in Nat \ {0} /\ n + j \in DOMAIN owed /\ owed'[j] = owed[n + j]
  /\ \A k \in DOMAIN owed : k > n => k - n \in DOMAIN owed' /\ owed'[k - n] = owed[k]

LEMMA PrefixIs ==
  ASSUME TypeOK, NEW n \in 1 .. Len(owed), NEW b, b = SubSeq(owed, 1, n)
  PROVE  /\ DOMAIN b = 1 .. n /\ \A k \in 1 .. n : b[k] = owed[k]
         /\ \A d : \A k \in 0 .. n : Lives(d, k, b) <=> Spared(d, k, n)
         /\ \A e : \A k \in 0 .. n : Survives(e, k, b) <=> Kept(e, k, n)
<1>1. owed \in Seq(SUBSET Op) /\ Len(owed) \in Nat /\ n \in Nat
  BY OwedFields
<1>2. DOMAIN b = 1 .. n /\ \A k \in 1 .. n : b[k] = owed[k]
  BY <1>1
<1>3. \A k \in 0 .. n : \A j \in Nat : (j \in 1 .. n /\ j > k) <=> j \in k + 1 .. n
  BY <1>1
<1>4. \A k \in 0 .. n : \A j : (j \in 1 .. n /\ j > k) <=> j \in k + 1 .. n
  BY <1>1, <1>3
<1>5. \A d : \A k \in 0 .. n : Lives(d, k, b) <=> Spared(d, k, n)
  BY <1>2, <1>4 DEF Lives, Spared
<1>6. \A e : \A k \in 0 .. n : Survives(e, k, b) <=> Kept(e, k, n)
  BY <1>2, <1>4 DEF Survives, Kept
<1> QED BY <1>2, <1>5, <1>6

\* The chains, the outbox and the tombstones of a store after batches.
LEMMA CommittedIs ==
  ASSUME NEW store, NEW batches
  PROVE  /\ \A d \in Documents : Committed(store, batches).chain[d] = ChainOf(d, store, batches)
         /\ Committed(store, batches).outbox = OutboxOf(store, batches)
         /\ Committed(store, batches).cursor = CursorOf(store, batches)
         /\ Committed(store, batches).identity = IdentityOf(store, batches)
         /\ Committed(store, batches).tombstones =
               store.tombstones \cup {r \in Rows : ~Lives(r, 0, batches)}
  BY DEF Committed

LEMMA ChainIs ==
  ASSUME NEW store, NEW batches, NEW d, NEW u
  PROVE  u \in ChainOf(d, store, batches) <=>
           \/ u \in store.chain[d] /\ Lives(d, 0, batches)
           \/ \E k \in DOMAIN batches : u \in AppendedTo(batches[k], d) /\ Lives(d, k, batches)
  BY DEF ChainOf

LEMMA OutboxIs ==
  ASSUME NEW store, NEW batches, NEW e
  PROVE  e \in OutboxOf(store, batches) <=>
           \/ e \in store.outbox /\ Survives(e, 0, batches)
           \/ \E k \in DOMAIN batches : e \in Inserted(batches[k]) /\ Survives(e, k, batches)
  BY DEF OutboxOf

LEMMA LandDoes ==
  ASSUME TypeOK, Land
  PROVE  /\ engine = mirror /\ UNCHANGED <<local, mirror, wire, restarts>>
         /\ \E n \in 1 .. Len(owed) : Landed(n) /\ engine' = Committed(engine, SubSeq(owed, 1, n))
<1>1. engine = mirror /\ UNCHANGED <<local, mirror, wire, restarts>>
  BY DEF Land
<1>2. PICK n \in 1 .. Len(owed) :
         /\ engine' = Committed(engine, SubSeq(owed, 1, n))
         /\ owed' = SubSeq(owed, n + 1, Len(owed))
  BY DEF Land
<1> DEFINE b == SubSeq(owed, 1, n)
<1>3. owed \in Seq(SUBSET Op) /\ Len(owed) \in Nat /\ n \in Nat /\ DOMAIN owed = 1 .. Len(owed)
  BY OwedFields
<1>4. /\ DOMAIN b = 1 .. n /\ \A k \in 1 .. n : b[k] = owed[k]
      /\ \A d : \A k \in 0 .. n : Lives(d, k, b) <=> Spared(d, k, n)
      /\ \A e : \A k \in 0 .. n : Survives(e, k, b) <=> Kept(e, k, n)
  BY PrefixIs
<1>5. engine' = Committed(engine, b)
  BY <1>2
<1> HIDE DEF b
<1>6. 0 \in 0 .. n /\ \A k \in 1 .. n : k \in 0 .. n
  BY <1>3
<1>7. ASSUME NEW d \in Documents, NEW u
      PROVE  u \in engine'.chain[d] <=>
                \/ u \in engine.chain[d] /\ Spared(d, 0, n)
                \/ \E k \in 1 .. n : u \in AppendedTo(owed[k], d) /\ Spared(d, k, n)
  <2>1. engine'.chain[d] = ChainOf(d, engine, b)
    BY <1>5, CommittedIs
  <2>2. u \in engine'.chain[d] <=>
           \/ u \in engine.chain[d] /\ Lives(d, 0, b)
           \/ \E k \in DOMAIN b : u \in AppendedTo(b[k], d) /\ Lives(d, k, b)
    BY <2>1, ChainIs
  <2> QED BY <1>4, <1>6, <2>2
<1>8. ASSUME NEW e
      PROVE  e \in engine'.outbox <=>
                \/ e \in engine.outbox /\ Kept(e, 0, n)
                \/ \E k \in 1 .. n : e \in Inserted(owed[k]) /\ Kept(e, k, n)
  <2>1. engine'.outbox = OutboxOf(engine, b)
    BY <1>5, CommittedIs
  <2>2. e \in engine'.outbox <=>
           \/ e \in engine.outbox /\ Survives(e, 0, b)
           \/ \E k \in DOMAIN b : e \in Inserted(b[k]) /\ Survives(e, k, b)
    BY <2>1, OutboxIs
  <2> QED BY <1>4, <1>6, <2>2
<1>9. ASSUME NEW r
      PROVE  r \in engine'.tombstones <=> r \in engine.tombstones \/ (r \in Rows /\ ~Spared(r, 0, n))
  <2>1. engine'.tombstones = engine.tombstones \cup {x \in Rows : ~Lives(x, 0, b)}
    BY <1>5, CommittedIs
  <2> QED BY <1>4, <1>6, <2>1
<1> DEFINE rest == SubSeq(owed, n + 1, Len(owed))
<1>10. DOMAIN rest = 1 .. Len(owed) - n
  <2>1. n \in Nat /\ n + 1 \in Int /\ Len(owed) \in Nat /\ Len(owed) \in Int /\ n <= Len(owed)
    BY <1>3
  <2>2. \A i \in n + 1 .. Len(owed) : owed[i] \in SUBSET Op
    BY <1>3
  <2>3. /\ rest \in Seq(SUBSET Op)
        /\ Len(rest) = IF n + 1 <= Len(owed) THEN Len(owed) - (n + 1) + 1 ELSE 0
    BY <2>1, <2>2, SubSeqProperties
  <2> HIDE DEF rest
  <2>4. Len(rest) = Len(owed) - n
    <3>1. CASE n + 1 <= Len(owed)
      <4>1. Len(rest) = Len(owed) - (n + 1) + 1
        BY <2>3, <3>1
      <4> QED BY <1>3, <4>1
    <3>2. CASE ~(n + 1 <= Len(owed))
      <4>1. Len(rest) = 0
        BY <2>3, <3>2
      <4>2. n = Len(owed)
        BY <2>1, <3>2
      <4> QED BY <2>1, <4>1, <4>2
    <3> QED BY <3>1, <3>2
  <2> QED BY <2>3, <2>4
<1>11. \A j \in 1 .. Len(owed) - n : owed'[j] = owed[n + j]
  BY <1>2, <1>3
<1>12. \A j \in DOMAIN owed' : j \in Nat \ {0} /\ n + j \in DOMAIN owed /\ owed'[j] = owed[n + j]
  BY <1>2, <1>3, <1>10, <1>11
<1>13. ASSUME NEW k \in DOMAIN owed, k > n
       PROVE  k - n \in DOMAIN owed' /\ owed'[k - n] = owed[k]
  <2>1. k - n \in 1 .. Len(owed) - n /\ n + (k - n) = k
    BY <1>3, <1>13
  <2> QED BY <1>2, <1>10, <1>11, <2>1
<1>14. Landed(n)
  BY <1>2, <1>7, <1>8, <1>9, <1>10, <1>12, <1>13 DEF Landed
<1> QED BY <1>1, <1>2, <1>14

\* A commit takes nothing from a living document, and puts nothing in the outbox that
\* was not there or owed.
LEMMA LandKeepsWhole ==
  ASSUME TypeOK, NEW n \in 1 .. Len(owed), Landed(n), mirror' = mirror
  PROVE  /\ Living' \subseteq Living /\ engine.tombstones \subseteq engine'.tombstones
         /\ \A d \in Living' : \A k \in 1 .. n : Retire(d) \notin owed[k]
         /\ \A d \in Living' : engine.chain[d] \subseteq engine'.chain[d]
         /\ \A d \in Living' : \A k \in 1 .. n : AppendedTo(owed[k], d) \subseteq engine'.chain[d]
         /\ \A e \in engine'.outbox : e \in engine.outbox \/ \E k \in 1 .. n : e \in Inserted(owed[k])
         /\ Entries' \subseteq Entries
         /\ \A k \in 1 .. n : k \in DOMAIN owed /\ k \in Nat
         /\ n \in Nat /\ \A j \in DOMAIN owed' : n < n + j /\ n + j \in Nat
<1>1. /\ n \in Nat /\ \A k \in 1 .. n : k \in DOMAIN owed /\ k \in Nat
      /\ \A j \in DOMAIN owed' : n < n + j /\ n + j \in Nat
  <2>1. Len(owed) \in Nat /\ DOMAIN owed = 1 .. Len(owed)
    BY OwedFields
  <2>2. n \in Nat /\ \A k \in 1 .. n : k \in DOMAIN owed /\ k \in Nat
    BY <2>1
  <2>3. \A j \in DOMAIN owed' : j \in Nat \ {0}
    BY DEF Landed
  <2> QED BY <2>2, <2>3
<1>2. engine.tombstones \subseteq engine'.tombstones /\ Living' \subseteq Living
  BY DEF Landed, Living
<1>3. ASSUME NEW d \in Living'  PROVE \A k \in 1 .. n : Retire(d) \notin owed[k]
  <2>1. CASE d \in Rows
    <3>1. Spared(d, 0, n)
      BY <1>3, <2>1 DEF Landed, Living
    <3> QED BY <1>1, <3>1 DEF Spared
  <2>2. CASE d = App
    BY <1>1, <2>2, TheAppLives
  <2> QED BY <1>3, <2>1, <2>2 DEF Living, Documents
<1>4. ASSUME NEW d \in Living', NEW k \in 0 .. n  PROVE Spared(d, k, n)
  <2>1. \A j \in k + 1 .. n : j \in 1 .. n
    BY <1>1
  <2> QED BY <1>3, <2>1 DEF Spared
<1>5. 0 \in 0 .. n /\ \A k \in 1 .. n : k \in 0 .. n
  BY <1>1
<1>6. ASSUME NEW d \in Living'
      PROVE  /\ engine.chain[d] \subseteq engine'.chain[d]
             /\ \A k \in 1 .. n : AppendedTo(owed[k], d) \subseteq engine'.chain[d]
  <2>1. d \in Documents
    BY DEF Living
  <2>2. \A u : u \in engine'.chain[d] <=>
            \/ u \in engine.chain[d] /\ Spared(d, 0, n)
            \/ \E k \in 1 .. n : u \in AppendedTo(owed[k], d) /\ Spared(d, k, n)
    BY <2>1 DEF Landed
  <2> QED BY <1>4, <1>5, <2>2
<1>7. \A e \in engine'.outbox : e \in engine.outbox \/ \E k \in 1 .. n : e \in Inserted(owed[k])
  BY DEF Landed
<1>8. ASSUME NEW e \in Entries'  PROVE e \in Entries
  <2>1. CASE e \in engine'.outbox
    <3>1. e \in engine.outbox \/ \E k \in DOMAIN owed : e \in Inserted(owed[k])
      BY <1>1, <1>7, <2>1
    <3> QED BY <3>1 DEF Entries
  <2>2. CASE e \in mirror'.outbox
    BY <2>2 DEF Entries
  <2>3. CASE \E j \in DOMAIN owed' : e \in Inserted(owed'[j])
    <3>1. PICK j \in DOMAIN owed' : e \in Inserted(owed'[j])
      BY <2>3
    <3>2. n + j \in DOMAIN owed /\ e \in Inserted(owed[n + j])
      BY <3>1 DEF Landed
    <3>3. e \in UNION {Inserted(owed[k]) : k \in DOMAIN owed}
      BY <3>2
    <3> QED BY <3>3 DEF Entries
  <2> QED BY <2>1, <2>2, <2>3 DEF Entries
<1> QED BY <1>1, <1>2, <1>3, <1>6, <1>7, <1>8

LEMMA ThereStays ==
  ASSUME Entries' \subseteq Entries, Living' \subseteq Living,
         \A d, u : AtAuthority(d, u) => AtAuthority(d, u)',
         NEW id, ThereThrough(id)
  PROVE  ThereThrough(id)'
  BY DEF ThereThrough

LEMMA LandOwn ==
  ASSUME TypeOK, NEW n \in 1 .. Len(owed), Landed(n), mirror' = mirror, log' = log, EachItsOwn
  PROVE  EachItsOwn'
<1>1. Entries' \subseteq Entries /\ \A k \in DOMAIN owed' : n + k \in DOMAIN owed /\ owed'[k] = owed[n + k]
  BY LandKeepsWhole DEF Landed
<1> QED BY <1>1 DEF EachItsOwn

LEMMA LandRetirements ==
  ASSUME TypeOK, NEW n \in 1 .. Len(owed), Landed(n), mirror' = mirror, retired' = retired,
         owed' \in Seq(SUBSET Op), RetirementsAreOwed
  PROVE  RetirementsAreOwed'
<1>1. /\ Living' \subseteq Living /\ engine.tombstones \subseteq engine'.tombstones
      /\ \A d \in Living' : \A k \in 1 .. n : Retire(d) \notin owed[k]
      /\ \A k \in 1 .. n : k \in DOMAIN owed /\ k \in Nat
      /\ n \in Nat /\ \A j \in DOMAIN owed' : n < n + j /\ n + j \in Nat
  BY LandKeepsWhole
<1>2. /\ \A j \in DOMAIN owed' : j \in Nat /\ n + j \in DOMAIN owed /\ owed'[j] = owed[n + j]
      /\ \A k \in DOMAIN owed : k > n => k - n \in DOMAIN owed' /\ owed'[k - n] = owed[k]
  BY DEF Landed
<1>3. \A r : Lives(r, 0, owed) <=> \A j \in DOMAIN owed : Retire(r) \notin owed[j]
  BY OwedFields, LivesIs
<1>4. \A r : Lives(r, 0, owed') <=> \A j \in DOMAIN owed' : Retire(r) \notin owed'[j]
  BY LivesIs
<1>5. \A r \in Rows : r \in engine'.tombstones <=>
          r \in engine.tombstones \/ \E k \in 1 .. n : Retire(r) \in owed[k]
  <2>1. 0 + 1 = 1
    OBVIOUS
  <2> QED BY <2>1 DEF Landed, Spared
<1>6. \A k \in DOMAIN owed : k \in 1 .. n \/ k > n
  BY <1>1, OwedFields
<1>7. ASSUME NEW r \in Rows
      PROVE  r \in retired' <=> r \in engine'.tombstones \/ ~Lives(r, 0, owed')
  <2>1. r \in retired <=> r \in engine.tombstones \/ \E j \in DOMAIN owed : Retire(r) \in owed[j]
    BY <1>3 DEF RetirementsAreOwed
  <2>2. (\E j \in DOMAIN owed : Retire(r) \in owed[j]) <=>
           \/ \E k \in 1 .. n : Retire(r) \in owed[k]
           \/ \E j \in DOMAIN owed' : Retire(r) \in owed'[j]
    BY <1>1, <1>2, <1>6
  <2> QED BY <1>4, <1>5, <2>1, <2>2
<1>8. retired' \subseteq Rows /\ engine'.tombstones \subseteq Rows
  <2>1. engine.tombstones \subseteq Rows
    BY StoreFields DEF TypeOK
  <2> QED BY <2>1 DEF TypeOK, Landed
<1>9. retired' = engine'.tombstones \cup {r \in Rows : ~Lives(r, 0, owed')}
  BY <1>7, <1>8
<1>10. mirror'.tombstones \subseteq engine'.tombstones
  BY <1>1 DEF RetirementsAreOwed
<1>11. ASSUME NEW k \in DOMAIN owed', NEW op \in owed'[k], op.kind = "append"
       PROVE  /\ op.document \in Living'
              /\ \A j \in DOMAIN owed' : j <= k => Retire(op.document) \notin owed'[j]
              /\ \A r \in Rows : Delete(r) \in op.bytes => Retire(r) \in owed'[k]
  <2>1. n + k \in DOMAIN owed /\ op \in owed[n + k] /\ k \in Nat /\ owed'[k] = owed[n + k]
    BY <1>2
  <2>2. /\ op.document \in Living
        /\ \A j \in DOMAIN owed : j <= n + k => Retire(op.document) \notin owed[j]
        /\ \A r \in Rows : Delete(r) \in op.bytes => Retire(r) \in owed[n + k]
    BY <1>11, <2>1 DEF RetirementsAreOwed
  <2>3. \A j \in 1 .. n : Retire(op.document) \notin owed[j]
    BY <1>1, <2>1, <2>2
  <2>4. op.document \in Living'
    <3>1. CASE op.document \in Rows
      BY <1>5, <2>2, <2>3, <3>1 DEF Living
    <3>2. CASE op.document \notin Rows
      BY <1>8, <2>2, <3>2 DEF Living
    <3> QED BY <3>1, <3>2
  <2>5. \A j \in DOMAIN owed' : j <= k => Retire(op.document) \notin owed'[j]
    BY <1>1, <1>2, <2>1, <2>2
  <2> QED BY <2>1, <2>2, <2>4, <2>5
<1> QED BY <1>9, <1>10, <1>11 DEF RetirementsAreOwed

\* A retirement takes the chain and leaves the tombstone, and nothing is appended behind it.
LEMMA LandDeletes ==
  ASSUME TypeOK, NEW n \in 1 .. Len(owed), Landed(n), mirror' = mirror,
         RetirementsAreOwed, DeletionRetires
  PROVE  DeletionRetires'
<1>1. /\ \A k \in 1 .. n : k \in DOMAIN owed /\ k \in Nat
      /\ n \in Nat
  BY LandKeepsWhole
<1>2. \A r \in Rows : r \in engine'.tombstones <=>
          r \in engine.tombstones \/ \E k \in 1 .. n : Retire(r) \in owed[k]
  <2>1. 0 + 1 = 1
    OBVIOUS
  <2> QED BY <2>1 DEF Landed, Spared
<1>3. App \in Documents /\ \A r \in Rows : r \in Documents
  BY DEF Documents
<1>4. ASSUME NEW r \in Rows, Delete(r) \in engine'.chain[App]
      PROVE  r \in engine'.tombstones
  <2>1. CASE Delete(r) \in engine.chain[App]
    BY <1>2, <2>1 DEF DeletionRetires
  <2>2. CASE \E k \in 1 .. n : Delete(r) \in AppendedTo(owed[k], App)
    <3>1. PICK k \in 1 .. n : Delete(r) \in AppendedTo(owed[k], App)
      BY <2>2
    <3>2. PICK op \in owed[k] : op.kind = "append" /\ Delete(r) \in op.bytes
      BY <3>1 DEF AppendedTo
    <3>3. Retire(r) \in owed[k]
      BY <1>1, <3>2 DEF RetirementsAreOwed
    <3> QED BY <1>2, <3>3
  <2> QED BY <1>3, <1>4, <2>1, <2>2 DEF Landed
<1>5. ASSUME NEW r \in engine'.tombstones, NEW u \in engine'.chain[r]
      PROVE  FALSE
  <2>1. r \in Rows
    <3>1. engine.tombstones \subseteq Rows
      BY StoreFields DEF TypeOK
    <3> QED BY <3>1 DEF Landed
  <2>2. CASE \E k \in 1 .. n : u \in AppendedTo(owed[k], r) /\ Spared(r, k, n)
    <3>1. PICK k \in 1 .. n : u \in AppendedTo(owed[k], r) /\ Spared(r, k, n)
      BY <2>2
    <3>2. PICK op \in owed[k] : op.kind = "append" /\ op.document = r
      BY <3>1 DEF AppendedTo
    <3>3. r \in Living /\ \A j \in DOMAIN owed : j <= k => Retire(r) \notin owed[j]
      BY <1>1, <3>2 DEF RetirementsAreOwed
    <3>4. PICK j \in 1 .. n : Retire(r) \in owed[j]
      BY <1>2, <2>1, <3>3 DEF Living
    <3>5. j > k
      BY <1>1, <3>3, <3>4
    <3>6. j \in k + 1 .. n
      BY <1>1, <3>5
    <3> QED BY <3>1, <3>4, <3>6 DEF Spared
  <2>3. CASE u \in engine.chain[r] /\ Spared(r, 0, n)
    <3>1. 0 + 1 = 1
      OBVIOUS
    <3>2. r \in engine.tombstones
      BY <1>2, <2>1, <2>3, <3>1 DEF Spared
    <3> QED BY <2>3, <3>2 DEF DeletionRetires
  <2> QED BY <1>3, <1>5, <2>1, <2>2, <2>3 DEF Landed
<1> QED BY <1>4, <1>5 DEF DeletionRetires

LEMMA LandBacked ==
  ASSUME TypeOK, NEW n \in 1 .. Len(owed), Landed(n), mirror' = mirror, mirror = engine,
         Backed(engine), Backed(mirror), MirrorIsBehind
  PROVE  Backed(engine)' /\ Backed(mirror)'
<1>1. /\ Living' \subseteq Living
      /\ \A d \in Living' : engine.chain[d] \subseteq engine'.chain[d]
      /\ \A d \in Living' : \A k \in 1 .. n : AppendedTo(owed[k], d) \subseteq engine'.chain[d]
      /\ \A e \in engine'.outbox : e \in engine.outbox \/ \E k \in 1 .. n : e \in Inserted(owed[k])
      /\ \A k \in 1 .. n : k \in DOMAIN owed
  BY LandKeepsWhole
<1>2. ASSUME NEW e \in engine'.outbox, e.document \in Living'
      PROVE  e.bytes \subseteq engine'.chain[e.document]
  <2>1. CASE e \in engine.outbox
    BY <1>1, <1>2, <2>1 DEF Backed
  <2>2. CASE \E k \in 1 .. n : e \in Inserted(owed[k])
    <3>1. PICK k \in 1 .. n : e \in Inserted(owed[k])
      BY <2>2
    <3>2. PICK op \in owed[k] : e \in Inserts(op)
      BY <3>1 DEF Inserted
    <3>3. op \in Op /\ k \in DOMAIN owed
      BY <1>1, OwedFields
    <3>4. CASE op.kind = "append"
      <4>1. e.document = op.document /\ e.bytes = op.bytes
        BY <3>2, <3>3, <3>4, InsertsAre
      <4>2. e.bytes \subseteq AppendedTo(owed[k], e.document)
        BY <3>4, <4>1 DEF AppendedTo
      <4> QED BY <1>1, <1>2, <4>2
    <3>5. CASE op.kind = "replaceOutbox"
      <4>1. e.document = op.document /\ e.bytes = op.merged
        BY <3>2, <3>3, <3>5, InsertsAre
      <4>2. e.bytes \subseteq mirror.chain[e.document]
        BY <1>1, <1>2, <3>3, <3>5, <4>1 DEF MirrorIsBehind
      <4> QED BY <1>1, <1>2, <4>2
    <3> QED BY <3>2, <3>3, <3>4, <3>5, InsertsAre
  <2> QED BY <1>1, <1>2, <2>1, <2>2
<1>3. Backed(mirror)'
  BY <1>1 DEF Backed
<1> QED BY <1>2, <1>3 DEF Backed

LEMMA LandMirror ==
  ASSUME TypeOK, NEW n \in 1 .. Len(owed), Landed(n), mirror' = mirror, mirror = engine,
         IdsGrow, MirrorIsBehind
  PROVE  MirrorIsBehind'
<1>1. /\ Living' \subseteq Living
      /\ \A d \in Living' : engine.chain[d] \subseteq engine'.chain[d]
      /\ \A e \in engine'.outbox : e \in engine.outbox \/ \E k \in 1 .. n : e \in Inserted(owed[k])
      /\ \A k \in 1 .. n : k \in DOMAIN owed
  BY LandKeepsWhole
<1>2. \A k \in DOMAIN owed' : n + k \in DOMAIN owed /\ owed'[k] = owed[n + k]
  BY DEF Landed
<1>3. \A d \in Living' : mirror'.chain[d] \subseteq engine'.chain[d]
  BY <1>1
<1>4. ASSUME NEW e \in engine'.outbox, e.document \in Living'
      PROVE  \/ \A m \in mirror.outbox : m.id < e.id
             \/ e.bytes \subseteq mirror.chain[e.document]
  <2>1. CASE e \in engine.outbox
    BY <1>1, <1>4, <2>1 DEF MirrorIsBehind
  <2>2. CASE \E k \in 1 .. n : e \in Inserted(owed[k])
    <3>1. PICK k \in 1 .. n : e \in Inserted(owed[k])
      BY <2>2
    <3>2. PICK op \in owed[k] : e \in Inserts(op)
      BY <3>1 DEF Inserted
    <3>3. op \in Op /\ k \in DOMAIN owed
      BY <1>1, OwedFields
    <3>4. CASE op.kind = "append"
      <4>1. e.id \in op.outboxId
        BY <3>2, <3>3, <3>4, InsertsAre
      <4>2. Newest(e.id, k)
        BY <3>3, <3>4, <4>1 DEF IdsGrow
      <4> QED BY <4>2 DEF Newest
    <3>5. CASE op.kind = "replaceOutbox"
      <4>1. e.document = op.document /\ e.bytes = op.merged
        BY <3>2, <3>3, <3>5, InsertsAre
      <4> QED BY <1>1, <1>4, <3>3, <3>5, <4>1 DEF MirrorIsBehind
    <3> QED BY <3>2, <3>3, <3>4, <3>5, InsertsAre
  <2> QED BY <1>1, <1>4, <2>1, <2>2
<1>5. \A k \in DOMAIN owed' : \A op \in owed'[k] :
          op.kind = "replaceOutbox" /\ op.document \in Living' =>
              op.merged \subseteq mirror'.chain[op.document]
  BY <1>1, <1>2 DEF MirrorIsBehind
<1> QED BY <1>3, <1>4, <1>5 DEF MirrorIsBehind

LEMMA LandIds ==
  ASSUME TypeOK, NEW n \in 1 .. Len(owed), Landed(n), UNCHANGED <<mirror, local, wire>>, IdsGrow
  PROVE  IdsGrow'
<1>1. UNCHANGED <<mirror, nextOutboxId, ackedThrough, acks, pushes>>
  BY DEF local, wire
<1>2. /\ Entries' \subseteq Entries
      /\ \A e \in engine'.outbox : e \in engine.outbox \/ \E k \in 1 .. n : e \in Inserted(owed[k])
      /\ \A k \in 1 .. n : k \in DOMAIN owed
  BY <1>1, LandKeepsWhole
<1>3. \A k \in DOMAIN owed' : n + k \in DOMAIN owed /\ owed'[k] = owed[n + k]
  BY DEF Landed
<1>4. n \in Nat /\ (\A k \in 1 .. n : k \in Nat /\ k <= n) /\ \A k \in DOMAIN owed' : k \in Nat \ {0}
  <2>1. n \in Nat
    BY OwedFields
  <2> QED BY <2>1 DEF Landed
<1>5. ASSUME NEW k \in DOMAIN owed', NEW op \in owed'[k], op.kind = "append", NEW i \in op.outboxId
      PROVE  Newest(i, k)'
  <2>1. Newest(i, n + k)
    BY <1>3, <1>5 DEF IdsGrow
  <2>2. \A e \in engine'.outbox \cup mirror'.outbox : e.id < i
    <3>1. \A j \in 1 .. n : j < n + k
      BY <1>4
    <3> QED BY <1>1, <1>2, <2>1, <3>1 DEF Newest
  <2>3. \A j \in DOMAIN owed' : j < k => \A e \in Inserted(owed'[j]) : e.id < i
    <3>1. \A j \in DOMAIN owed' : j < k => n + j < n + k
      BY <1>4
    <3> QED BY <1>3, <2>1, <3>1 DEF Newest
  <2> QED BY <1>1, <2>1, <2>2, <2>3 DEF Newest
<1>6. \A k \in DOMAIN owed' : \A op \in owed'[k] : op.kind = "dropOutbox" => op.throughId < nextOutboxId
  BY <1>3 DEF IdsGrow
<1> QED BY <1>1, <1>2, <1>5, <1>6 DEF IdsGrow

LEMMA LandAcks ==
  ASSUME TypeOK, NEW n \in 1 .. Len(owed), Landed(n), UNCHANGED <<mirror, local, wire>>, AcksAreTrue
  PROVE  AcksAreTrue'
<1>1. UNCHANGED <<mirror, ackedThrough, acks, log>>
  BY DEF local, wire
<1>2. \A d, u : AtAuthority(d, u) => AtAuthority(d, u)'
  BY <1>1 DEF AtAuthority
<1>3. Entries' \subseteq Entries /\ Living' \subseteq Living
  BY <1>1, LandKeepsWhole
<1>4. \A k \in DOMAIN owed' : n + k \in DOMAIN owed /\ owed'[k] = owed[n + k]
  BY DEF Landed
<1>5. ThereThrough(ackedThrough)'
  BY <1>1, <1>2, <1>3 DEF AcksAreTrue, ThereThrough
<1>6. ASSUME NEW t \in acks'  PROVE ThereThrough(t)'
  BY <1>1, <1>2, <1>3 DEF AcksAreTrue, ThereThrough
<1>7. ASSUME NEW k \in DOMAIN owed', NEW op \in owed'[k], op.kind = "dropOutbox"
      PROVE  ThereThrough(op.throughId)'
  <2>1. ThereThrough(op.throughId)
    BY <1>4, <1>7 DEF AcksAreTrue
  <2> QED BY <1>2, <1>3, <2>1 DEF ThereThrough
<1> QED BY <1>5, <1>6, <1>7 DEF AcksAreTrue

LEMMA LandPushes ==
  ASSUME TypeOK, NEW n \in 1 .. Len(owed), Landed(n), UNCHANGED <<mirror, wire>>, PushesCarryAll
  PROVE  PushesCarryAll'
<1>1. UNCHANGED <<mirror, pushes, log>>
  BY DEF wire
<1>2. Entries' \subseteq Entries /\ Living' \subseteq Living
  BY <1>1, LandKeepsWhole
<1> QED BY <1>1, <1>2 DEF PushesCarryAll, AtAuthority

LEMMA LandMerges ==
  ASSUME TypeOK, NEW n \in 1 .. Len(owed), Landed(n), UNCHANGED <<mirror, log>>, MergesKeepAll
  PROVE  MergesKeepAll'
<1>1. /\ Living' \subseteq Living
      /\ \A e \in engine'.outbox : e \in engine.outbox \/ \E k \in 1 .. n : e \in Inserted(owed[k])
      /\ \A k \in 1 .. n : k \in DOMAIN owed
  BY LandKeepsWhole
<1>2. \A k \in DOMAIN owed' : n + k \in DOMAIN owed /\ owed'[k] = owed[n + k]
  BY DEF Landed
<1>3. n \in Nat /\ (\A k \in 1 .. n : k \in Nat /\ k <= n) /\ \A k \in DOMAIN owed' : k \in Nat \ {0}
  <2>1. n \in Nat
    BY OwedFields
  <2> QED BY <2>1 DEF Landed
<1>4. \A op, e : Replaces(op, e) => Replaces(op, e)'
  BY <1>1 DEF Replaces, AtAuthority
<1>5. ASSUME NEW k \in DOMAIN owed', NEW op \in owed'[k], op.kind = "replaceOutbox"
      PROVE  /\ \A e \in engine'.outbox : Replaces(op, e)
             /\ \A j \in DOMAIN owed' : j < k => \A e \in Inserted(owed'[j]) : Replaces(op, e)
  <2>1. /\ \A e \in engine.outbox : Replaces(op, e)
        /\ \A j \in DOMAIN owed : j < n + k => \A e \in Inserted(owed[j]) : Replaces(op, e)
    BY <1>2, <1>5 DEF MergesKeepAll
  <2>2. (\A j \in 1 .. n : j < n + k) /\ \A j \in DOMAIN owed' : j < k => n + j < n + k
    BY <1>3
  <2> QED BY <1>1, <1>2, <2>1, <2>2
<1> QED BY <1>4, <1>5 DEF MergesKeepAll

\* The outbox after a commit still owes what the chains hold: of the entries with a byte,
\* the last one put there is still there, or the authority has the byte.
LEMMA LandOwes ==
  ASSUME ReplicaIInv, NEW n \in 1 .. Len(owed), Landed(n), UNCHANGED <<mirror, log>>, DeletionRetires'
  PROVE  Owes(engine)' /\ Owes(mirror)'
<1>1. TypeOK /\ EachItsOwn /\ AcksAreTrue /\ MergesKeepAll /\ Owes(engine) /\ Owes(mirror)
  BY DEF ReplicaIInv
<1>2. /\ \A d \in Living' : \A k \in 1 .. n : Retire(d) \notin owed[k]
      /\ Living' \subseteq Living
      /\ \A k \in 1 .. n : k \in DOMAIN owed /\ k \in Nat
      /\ n \in Nat
  BY <1>1, LandKeepsWhole
<1>3. \A d, u : AtAuthority(d, u) <=> AtAuthority(d, u)'
  BY DEF AtAuthority
<1>4. ASSUME NEW d \in Documents, NEW u \in engine'.chain[d], u.by = "here"
      PROVE  \/ \E e \in engine'.outbox : e.document = d /\ u \in e.bytes
             \/ AtAuthority(d, u)
  <2> SUFFICES ASSUME ~AtAuthority(d, u)
               PROVE  \E e \in engine'.outbox : e.document = d /\ u \in e.bytes
    OBVIOUS
  <2>1. d \in Living'
    BY <1>4 DEF DeletionRetires, Living
  <2> DEFINE At(k) == IF k = 0 THEN engine.outbox ELSE Inserted(owed[k])
             Carrying == {k \in 0 .. n : \E e \in At(k) : e.document = d /\ u \in e.bytes}
  <2>2. \A k \in 0 .. n : \A e \in At(k) : e \in Entries
    <3>1. \A k \in 0 .. n : k = 0 \/ k \in 1 .. n
      BY <1>2
    <3> QED BY <1>2, <3>1 DEF Entries
  <2>3. Carrying # {}
    <3>1. CASE u \in engine.chain[d]
      <4>1. 0 \in Carrying
        BY <1>1, <1>2, <1>4, <3>1 DEF Owes
      <4> QED BY <4>1
    <3>2. CASE \E k \in 1 .. n : u \in AppendedTo(owed[k], d)
      <4>1. PICK k \in 1 .. n : u \in AppendedTo(owed[k], d)
        BY <3>2
      <4>2. PICK op \in owed[k] : op.kind = "append" /\ op.document = d /\ u \in op.bytes
        BY <4>1 DEF AppendedTo
      <4>3. op \in Op /\ op.outboxId # {}
        <5>1. op \in Op
          BY <1>1, <1>2, OwedFields
        <5>2. u.by # "there"
          BY <1>4
        <5> QED BY <1>1, <1>2, <4>2, <5>1, <5>2 DEF EachItsOwn
      <4>4. PICK i \in op.outboxId : TRUE
        BY <4>3
      <4> DEFINE f == [id |-> i, document |-> op.document, bytes |-> op.bytes]
      <4>5. f \in Inserts(op) /\ f.document = d /\ u \in f.bytes
        BY <4>2, <4>4 DEF Inserts
      <4>6. f \in Inserted(owed[k])
        BY <4>5 DEF Inserted
      <4>7. k # 0 /\ k \in 0 .. n
        BY <1>2
      <4>8. k \in Carrying
        BY <4>5, <4>6, <4>7
      <4> QED BY <4>8
    <3> QED BY <1>4, <3>1, <3>2 DEF Landed
  <2>4. Carrying \subseteq Nat /\ \A k \in Carrying : k <= n
    BY <1>2
  <2>5. PICK k \in Carrying : \A j \in Carrying : j <= k
    <3> HIDE DEF Carrying
    <3> QED BY <1>2, <2>3, <2>4, HasGreatest
  <2>6. PICK e \in At(k) : e.document = d /\ u \in e.bytes
    BY <2>5
  <2>7. k \in 0 .. n /\ k \in Nat /\ e \in Entries
    BY <1>2, <2>2, <2>5
  <2>8. Kept(e, k, n)
    <3> SUFFICES ASSUME NEW j \in k + 1 .. n, NEW op \in owed[j], Removes(op, e)
                 PROVE  FALSE
      BY DEF Kept
    <3>1. j \in 1 .. n /\ j \in 0 .. n /\ j # 0 /\ k < j
      BY <1>2, <2>7
    <3>2. j \in DOMAIN owed /\ op \in Op
      BY <1>1, <1>2, <3>1, OwedFields
    <3>3. d \in Living
      BY <1>2, <2>1
    <3>4. CASE op.kind = "dropOutbox" /\ e.id <= op.throughId
      <4>1. ThereThrough(op.throughId)
        BY <1>1, <3>2, <3>4 DEF AcksAreTrue
      <4> QED BY <2>6, <2>7, <3>3, <3>4, <4>1 DEF ThereThrough
    <3>5. CASE op.kind = "replaceOutbox" /\ e.document = op.document /\ e.id <= op.throughId
      <4>1. Replaces(op, e)
        <5>1. CASE k = 0
          BY <1>1, <3>2, <3>5, <5>1 DEF MergesKeepAll
        <5>2. CASE k # 0
          <6>1. k \in 1 .. n
            BY <1>2, <2>7, <5>2
          <6>2. k \in DOMAIN owed /\ e \in Inserted(owed[k])
            BY <1>2, <5>2, <6>1
          <6> QED BY <1>1, <3>1, <3>2, <3>5, <6>2 DEF MergesKeepAll
        <5> QED BY <5>1, <5>2
      <4>2. u \in op.merged
        BY <2>6, <3>3, <3>5, <4>1 DEF Replaces
      <4> DEFINE f == [id |-> op.throughId, document |-> op.document, bytes |-> op.merged]
      <4>3. f \in Inserts(op) /\ f.document = d /\ u \in f.bytes
        BY <2>6, <3>5, <4>2 DEF Inserts
      <4>4. f \in Inserted(owed[j])
        BY <4>3 DEF Inserted
      <4>5. j \in Carrying
        BY <3>1, <4>3, <4>4
      <4>6. j <= k
        BY <2>5, <4>5
      <4> QED BY <2>7, <3>1, <4>6
    <3>6. CASE op.kind = "retire" /\ e.document = op.document
      <4>1. op = Retire(d)
        BY <2>6, <3>2, <3>6, OperationFields
      <4> QED BY <1>2, <2>1, <3>1, <4>1
    <3> QED BY <3>4, <3>5, <3>6 DEF Removes
  <2>9. e \in engine'.outbox
    <3>1. CASE k = 0
      BY <2>8, <3>1 DEF Landed
    <3>2. CASE k # 0
      <4>1. k \in 1 .. n
        BY <1>2, <2>7, <3>2
      <4> QED BY <2>8, <3>2, <4>1 DEF Landed
    <3> QED BY <3>1, <3>2
  <2> QED BY <2>6, <2>9
<1>5. Owes(mirror)'
  BY <1>1, <1>3 DEF Owes
<1> QED BY <1>3, <1>4, <1>5 DEF Owes

\* The cursor a commit leaves: the old one, or that of the last batch that holds one.
LEMMA CursorIs ==
  ASSUME TypeOK, NEW n \in 1 .. Len(owed), engine' = Committed(engine, SubSeq(owed, 1, n))
  PROVE  \/ /\ engine'.cursor = engine.cursor
            /\ \A k \in 1 .. n : \A op \in owed[k] : op.kind # "cursor"
         \/ \E k \in 1 .. n : \E op \in owed[k] :
               /\ op.kind = "cursor" /\ engine'.cursor = op.seq
               /\ \A j \in 1 .. n : (\E o \in owed[j] : o.kind = "cursor") => j <= k
<1> DEFINE b == SubSeq(owed, 1, n)
           at == Holding("cursor", b)
<1>1. DOMAIN b = 1 .. n /\ \A k \in 1 .. n : b[k] = owed[k]
  BY PrefixIs
<1>2. n \in Nat
  BY OwedFields
<1>3. engine'.cursor = CursorOf(engine, b)
  BY CommittedIs
<1> HIDE DEF b
<1>4. \A k : k \in at <=> k \in 1 .. n /\ \E op \in owed[k] : op.kind = "cursor"
  BY <1>1 DEF Holding
<1>5. at \subseteq Nat /\ \A k \in at : k <= n
  BY <1>2, <1>4
<1>6. engine'.cursor = IF at = {} THEN engine.cursor ELSE Of("cursor", b[Max(at)]).seq
  BY <1>3 DEF CursorOf
<1> HIDE DEF at
<1>7. CASE at = {}
  BY <1>4, <1>6, <1>7
<1>8. CASE at # {}
  <2>1. Max(at) \in at /\ \A k \in at : k <= Max(at)
    BY <1>2, <1>5, <1>8, MaxIs
  <2> DEFINE k == Max(at)
             op == Of("cursor", b[k])
  <2>2. k \in 1 .. n /\ b[k] = owed[k] /\ \E o \in owed[k] : o.kind = "cursor"
    BY <1>1, <1>4, <2>1
  <2> HIDE DEF k
  <2>3. op \in owed[k] /\ op.kind = "cursor"
    BY <2>2 DEF Of
  <2>4. engine'.cursor = op.seq
    BY <1>6, <1>8 DEF k
  <2>5. \A j \in 1 .. n : (\E o \in owed[j] : o.kind = "cursor") => j <= k
    BY <1>4, <2>1 DEF k
  <2> QED BY <2>2, <2>3, <2>4, <2>5
<1> QED BY <1>7, <1>8

LEMMA LandCursors ==
  ASSUME ReplicaIInv, NEW n \in 1 .. Len(owed), Landed(n), UNCHANGED <<mirror, log, liveCursor>>,
         engine' = Committed(engine, SubSeq(owed, 1, n))
  PROVE  CursorsAreOwed' /\ CursorBehindBytes'
<1>1. TypeOK /\ CursorsAreOwed /\ CursorBehindBytes /\ OwnEntriesAreDurable
  BY DEF ReplicaIInv
<1>2. /\ Living' \subseteq Living
      /\ \A d \in Living' : \A k \in 1 .. n : Retire(d) \notin owed[k]
      /\ \A d \in Living' : engine.chain[d] \subseteq engine'.chain[d]
      /\ \A d \in Living' : \A k \in 1 .. n : AppendedTo(owed[k], d) \subseteq engine'.chain[d]
      /\ \A k \in 1 .. n : k \in DOMAIN owed /\ k \in Nat
      /\ n \in Nat /\ \A j \in DOMAIN owed' : n < n + j /\ n + j \in Nat
  BY <1>1, LandKeepsWhole
<1>3. /\ \A j \in DOMAIN owed' : j \in Nat /\ n + j \in DOMAIN owed /\ owed'[j] = owed[n + j]
      /\ \A k \in DOMAIN owed : k > n => k - n \in DOMAIN owed' /\ owed'[k - n] = owed[k]
  BY DEF Landed
<1>4. \A k \in DOMAIN owed : k \in Nat /\ (k \in 1 .. n \/ k > n)
  BY <1>1, <1>2, OwedFields
<1>5. engine.cursor \in Nat /\ liveCursor \in Nat /\ liveCursor <= Len(log) /\ Len(log) \in Nat
  BY <1>1, StoreFields DEF TypeOK
<1>6. \A k \in DOMAIN owed : \A op \in owed[k] : op.kind = "cursor" =>
          /\ op.seq \in Nat /\ op = Cursor(op.seq) /\ engine.cursor < op.seq /\ op.seq <= liveCursor
          /\ \A j \in DOMAIN owed : \A o \in owed[j] : o.kind = "cursor" => (op.seq < o.seq <=> k < j)
  BY <1>1, OwedFields, OperationFields DEF CursorsAreOwed
<1>7. /\ engine'.cursor \in Nat /\ engine.cursor <= engine'.cursor /\ engine'.cursor <= liveCursor
      /\ \A k \in DOMAIN owed : \A op \in owed[k] : op.kind = "cursor" =>
            (op.seq <= engine'.cursor <=> k \in 1 .. n)
  <2>1. CASE /\ engine'.cursor = engine.cursor
             /\ \A k \in 1 .. n : \A op \in owed[k] : op.kind # "cursor"
    <3>1. engine.cursor <= liveCursor
      BY <1>1 DEF CursorsAreOwed
    <3>2. \A k \in DOMAIN owed : \A op \in owed[k] : op.kind = "cursor" =>
             ~(op.seq <= engine.cursor) /\ k \notin 1 .. n
      BY <1>5, <1>6, <2>1
    <3> QED BY <1>5, <2>1, <3>1, <3>2
  <2>2. CASE \E k \in 1 .. n : \E op \in owed[k] :
               /\ op.kind = "cursor" /\ engine'.cursor = op.seq
               /\ \A j \in 1 .. n : (\E o \in owed[j] : o.kind = "cursor") => j <= k
    <3>1. PICK k \in 1 .. n : \E op \in owed[k] :
               /\ op.kind = "cursor" /\ engine'.cursor = op.seq
               /\ \A j \in 1 .. n : (\E o \in owed[j] : o.kind = "cursor") => j <= k
      BY <2>2
    <3>2. PICK op \in owed[k] :
               /\ op.kind = "cursor" /\ engine'.cursor = op.seq
               /\ \A j \in 1 .. n : (\E o \in owed[j] : o.kind = "cursor") => j <= k
      BY <3>1
    <3>3. k \in DOMAIN owed /\ k \in Nat /\ k <= n
      BY <1>2
    <3>4. op.seq \in Nat /\ engine.cursor < op.seq /\ op.seq <= liveCursor
          /\ \A j \in DOMAIN owed : \A o \in owed[j] : o.kind = "cursor" => (op.seq < o.seq <=> k < j)
      BY <1>6, <3>2, <3>3
    <3>5. ASSUME NEW j \in DOMAIN owed, NEW o \in owed[j], o.kind = "cursor"
          PROVE  o.seq <= engine'.cursor <=> j \in 1 .. n
      <4>1. o.seq \in Nat /\ j \in Nat /\ (j \in 1 .. n \/ j > n) /\ (op.seq < o.seq <=> k < j)
        BY <1>4, <1>6, <3>4, <3>5
      <4>2. CASE j \in 1 .. n
        <5>1. j <= k
          BY <3>2, <3>5, <4>2
        <5> QED BY <3>2, <3>3, <3>4, <4>1, <4>2, <5>1
      <4>3. CASE j > n
        <5>1. j \notin 1 .. n /\ k < j
          BY <1>2, <3>3, <4>1, <4>3
        <5> QED BY <3>2, <3>4, <4>1, <5>1
      <4> QED BY <4>1, <4>2, <4>3
    <3> QED BY <1>5, <3>2, <3>4, <3>5
  <2> QED BY <1>1, <2>1, <2>2, CursorIs
<1>8. ASSUME NEW s \in engine.cursor + 1 .. liveCursor
      PROVE  \E k \in DOMAIN owed : Cursor(s) \in owed[k] /\ (s <= engine'.cursor <=> k \in 1 .. n)
  <2>1. PICK k \in DOMAIN owed : Cursor(s) \in owed[k]
    BY <1>1 DEF CursorsAreOwed
  <2>2. Cursor(s).kind = "cursor" /\ Cursor(s).seq = s
    BY DEF Cursor
  <2> QED BY <1>7, <2>1, <2>2
<1>9. \A s \in engine'.cursor + 1 .. liveCursor : \E k \in DOMAIN owed' : Cursor(s) \in owed'[k]
  <2> SUFFICES ASSUME NEW s \in engine'.cursor + 1 .. liveCursor
               PROVE  \E k \in DOMAIN owed' : Cursor(s) \in owed'[k]
    OBVIOUS
  <2>1. s \in engine.cursor + 1 .. liveCursor /\ ~(s <= engine'.cursor)
    BY <1>5, <1>7
  <2>2. PICK k \in DOMAIN owed : Cursor(s) \in owed[k] /\ k \notin 1 .. n
    BY <1>8, <2>1
  <2>3. k - n \in DOMAIN owed' /\ owed'[k - n] = owed[k]
    BY <1>3, <1>4, <2>2
  <2> QED BY <2>2, <2>3
<1>10. ASSUME NEW k \in DOMAIN owed', NEW op \in owed'[k], op.kind = "cursor"
       PROVE  /\ engine'.cursor < op.seq /\ op.seq <= liveCursor
              /\ \A j \in DOMAIN owed' : \A o \in owed'[j] :
                    o.kind = "cursor" => (op.seq < o.seq <=> k < j) /\ (op.seq = o.seq => op = o)
              /\ log[op.seq].by = "there" => \A d \in Living' :
                    \/ log[op.seq].sections[d] \subseteq AppendedTo(owed'[k], d)
                    \/ \E j \in DOMAIN owed' : j < k /\ Retire(d) \in owed'[j]
  <2>1. n + k \in DOMAIN owed /\ op \in owed[n + k] /\ owed'[k] = owed[n + k] /\ k \in Nat
    BY <1>3
  <2>2. /\ op.seq \in Nat /\ op.seq <= liveCursor
        /\ \A j \in DOMAIN owed : \A o \in owed[j] :
              o.kind = "cursor" => (op.seq < o.seq <=> n + k < j) /\ (op.seq = o.seq => op = o)
        /\ log[op.seq].by = "there" => \A d \in Living :
              \/ log[op.seq].sections[d] \subseteq AppendedTo(owed[n + k], d)
              \/ \E j \in DOMAIN owed : j < n + k /\ Retire(d) \in owed[j]
    BY <1>1, <1>6, <1>10, <2>1 DEF CursorsAreOwed
  <2>3. n + k \notin 1 .. n
    BY <1>2
  <2>4. engine'.cursor < op.seq
    BY <1>7, <1>10, <2>1, <2>2, <2>3
  <2>5. \A j \in DOMAIN owed' : \A o \in owed'[j] :
            o.kind = "cursor" => (op.seq < o.seq <=> k < j) /\ (op.seq = o.seq => op = o)
    <3>1. \A j \in DOMAIN owed' : n + k < n + j <=> k < j
      BY <1>2, <1>3, <2>1
    <3> QED BY <1>3, <2>2, <3>1
  <2>6. ASSUME log[op.seq].by = "there", NEW d \in Living'
        PROVE  \/ log[op.seq].sections[d] \subseteq AppendedTo(owed'[k], d)
               \/ \E j \in DOMAIN owed' : j < k /\ Retire(d) \in owed'[j]
    <3>1. CASE log[op.seq].sections[d] \subseteq AppendedTo(owed[n + k], d)
      BY <2>1, <3>1
    <3>2. CASE \E j \in DOMAIN owed : j < n + k /\ Retire(d) \in owed[j]
      <4>1. PICK j \in DOMAIN owed : j < n + k /\ Retire(d) \in owed[j]
        BY <3>2
      <4>2. j > n /\ j \in Nat
        BY <1>2, <1>4, <4>1
      <4>3. j - n \in DOMAIN owed' /\ owed'[j - n] = owed[j] /\ j - n < k
        BY <1>2, <1>3, <2>1, <4>1, <4>2
      <4> QED BY <4>1, <4>3
    <3> QED BY <1>2, <2>2, <2>6, <3>1, <3>2
  <2> QED BY <2>2, <2>4, <2>5, <2>6
<1>11. CursorsAreOwed'
  BY <1>7, <1>9, <1>10 DEF CursorsAreOwed
<1>12. ASSUME NEW s \in 1 .. engine'.cursor, NEW d \in Living'
       PROVE  log[s].sections[d] \subseteq engine'.chain[d]
  <2>1. s \in Nat /\ s <= liveCursor /\ s \in DOMAIN log
    <3>1. log \in Seq(LogEntry)
      BY <1>1 DEF TypeOK
    <3> QED BY <1>5, <1>7, <3>1
  <2>2. CASE s <= engine.cursor
    <3>1. s \in 1 .. engine.cursor
      BY <1>5, <2>1, <2>2
    <3>2. d \in Documents \ engine.tombstones
      BY <1>2 DEF Living
    <3> QED BY <1>1, <1>2, <3>1, <3>2 DEF CursorBehindBytes
  <2>3. CASE s > engine.cursor
    <3>1. s \in engine.cursor + 1 .. liveCursor /\ s <= engine'.cursor
      BY <1>5, <1>7, <2>1, <2>3
    <3>2. PICK k \in DOMAIN owed : Cursor(s) \in owed[k] /\ k \in 1 .. n
      BY <1>8, <3>1
    <3>3. Cursor(s).kind = "cursor" /\ Cursor(s).seq = s
      BY DEF Cursor
    <3>4. CASE log[s].by = "there"
      <4>1. \/ log[s].sections[d] \subseteq AppendedTo(owed[k], d)
            \/ \E j \in DOMAIN owed : j < k /\ Retire(d) \in owed[j]
        BY <1>1, <1>2, <3>2, <3>3, <3>4 DEF CursorsAreOwed
      <4>2. \A j \in DOMAIN owed : j < k => Retire(d) \notin owed[j]
        BY <1>2, <1>4, <3>2
      <4> QED BY <1>2, <3>2, <4>1, <4>2
    <3>5. CASE log[s].by = "here"
      BY <1>1, <1>2, <2>1, <3>5 DEF OwnEntriesAreDurable
    <3>6. log[s].by \in Sites
      BY <1>1, <2>1, LogFields
    <3> QED BY <3>4, <3>5, <3>6 DEF Sites
  <2> QED BY <1>5, <2>1, <2>2, <2>3
<1>13. CursorBehindBytes'
  BY <1>12 DEF CursorBehindBytes, Living
<1> QED BY <1>11, <1>13

LEMMA LandKeeps ==
  ASSUME ReplicaIInv, TypeOK', Land
  PROVE  ReplicaIInv'
<1>1. TypeOK
  BY DEF ReplicaIInv
<1>2. engine = mirror /\ UNCHANGED <<local, mirror, wire>>
  BY <1>1, LandDoes
<1>3. UNCHANGED <<mirror, retired, liveCursor, log, pushes>>
  BY <1>2 DEF local, wire
<1>4. PICK n \in 1 .. Len(owed) : Landed(n) /\ engine' = Committed(engine, SubSeq(owed, 1, n))
  BY <1>1, LandDoes
<1>5. EachItsOwn'
  BY <1>1, <1>3, <1>4, LandOwn DEF ReplicaIInv
<1>6. RetirementsAreOwed'
  <2>1. owed' \in Seq(SUBSET Op) /\ RetirementsAreOwed
    BY DEF TypeOK, ReplicaIInv
  <2> QED BY <1>1, <1>3, <1>4, <2>1, LandRetirements
<1>7. DeletionRetires'
  BY <1>1, <1>3, <1>4, LandDeletes DEF ReplicaIInv
<1>8. Backed(engine)' /\ Backed(mirror)'
  <2>1. Backed(engine) /\ Backed(mirror) /\ MirrorIsBehind
    BY DEF ReplicaIInv
  <2> QED BY <1>1, <1>2, <1>3, <1>4, <2>1, LandBacked
<1>9. MirrorIsBehind'
  <2>1. MirrorIsBehind /\ IdsGrow
    BY DEF ReplicaIInv
  <2> QED BY <1>1, <1>2, <1>3, <1>4, <2>1, LandMirror
<1>10. IdsGrow'
  BY <1>1, <1>2, <1>4, LandIds DEF ReplicaIInv
<1>11. AcksAreTrue'
  BY <1>1, <1>2, <1>4, LandAcks DEF ReplicaIInv
<1>12. PushesCarryAll'
  BY <1>1, <1>2, <1>4, LandPushes DEF ReplicaIInv
<1>13. MergesKeepAll'
  BY <1>1, <1>3, <1>4, LandMerges DEF ReplicaIInv
<1>14. Owes(engine)' /\ Owes(mirror)'
  BY <1>3, <1>4, <1>7, LandOwes
<1>15. CursorsAreOwed' /\ CursorBehindBytes'
  BY <1>3, <1>4, LandCursors
<1>16. Living' \subseteq Living /\ \A d \in Living' : engine.chain[d] \subseteq engine'.chain[d]
  BY <1>1, <1>3, <1>4, LandKeepsWhole
<1>17. OwnEntriesAreDurable'
  <2>1. OwnEntriesAreDurable
    BY DEF ReplicaIInv
  <2> QED BY <1>3, <1>16, <2>1 DEF OwnEntriesAreDurable
<1>18. OnlyDurableLeaves'
  <2>1. OnlyDurableLeaves
    BY DEF ReplicaIInv
  <2> QED BY <1>3, <1>16, <2>1 DEF OnlyDurableLeaves, Living
<1> QED BY <1>5, <1>6, <1>7, <1>8, <1>9, <1>10, <1>11, <1>12, <1>13, <1>14, <1>15, <1>17, <1>18
        DEF ReplicaIInv

------------------------------------------------------------------------
(* The mirror follows, the process dies, the wire and the authority move. *)

LEMMA ObserveKeeps ==
  ASSUME ReplicaIInv, TypeOK', Observe
  PROVE  ReplicaIInv'
<1>1. mirror' = engine /\ UNCHANGED <<local, owed, engine, wire>>
  BY DEF Observe
<1>2. UNCHANGED <<retired, liveCursor, ackedThrough, nextOutboxId, log, pushes, acks, owed, engine>>
  BY <1>1 DEF local, wire
<1>3. Living' = Living /\ Entries' \subseteq Entries
  BY <1>1, <1>2 DEF Living, Entries
<1>4. \A d, u : AtAuthority(d, u) <=> AtAuthority(d, u)'
  BY <1>2 DEF AtAuthority
<1>5. \A id : ThereThrough(id) => ThereThrough(id)'
  BY <1>3, <1>4 DEF ThereThrough
<1>6. EachItsOwn'
  <2>1. EachItsOwn
    BY DEF ReplicaIInv
  <2> QED BY <1>2, <1>3, <2>1 DEF EachItsOwn
<1>7. RetirementsAreOwed'
  <2>1. RetirementsAreOwed
    BY DEF ReplicaIInv
  <2> QED BY <1>1, <1>2, <1>3, <2>1 DEF RetirementsAreOwed
<1>8. DeletionRetires'
  <2>1. DeletionRetires
    BY DEF ReplicaIInv
  <2> QED BY <1>2, <2>1 DEF DeletionRetires
<1>9. Backed(engine)' /\ Backed(mirror)'
  <2>1. Backed(engine)
    BY DEF ReplicaIInv
  <2> QED BY <1>1, <1>2, <1>3, <2>1 DEF Backed
<1>10. MirrorIsBehind'
  <2>1. MirrorIsBehind /\ Backed(engine)
    BY DEF ReplicaIInv
  <2>2. \A k \in DOMAIN owed : \A op \in owed[k] :
           op.kind = "replaceOutbox" /\ op.document \in Living =>
               op.merged \subseteq engine.chain[op.document]
    BY <2>1 DEF MirrorIsBehind
  <2>3. \A e \in engine.outbox : e.document \in Living => e.bytes \subseteq engine.chain[e.document]
    BY <2>1 DEF Backed
  <2> QED BY <1>1, <1>2, <1>3, <2>2, <2>3 DEF MirrorIsBehind
<1>11. IdsGrow'
  <2>1. IdsGrow
    BY DEF ReplicaIInv
  <2>2. \A i, k : Newest(i, k) => Newest(i, k)'
    BY <1>1, <1>2 DEF Newest
  <2> QED BY <1>2, <1>3, <2>1, <2>2 DEF IdsGrow
<1>12. AcksAreTrue'
  <2>1. AcksAreTrue
    BY DEF ReplicaIInv
  <2>2. ThereThrough(ackedThrough)'
    BY <1>2, <1>3, <1>4, <2>1 DEF AcksAreTrue, ThereThrough
  <2>3. \A t \in acks' : ThereThrough(t)'
    BY <1>2, <1>5, <2>1 DEF AcksAreTrue
  <2>4. ASSUME NEW k \in DOMAIN owed', NEW op \in owed'[k], op.kind = "dropOutbox"
        PROVE  ThereThrough(op.throughId)'
    <3>1. ThereThrough(op.throughId)
      BY <1>2, <2>1, <2>4 DEF AcksAreTrue
    <3> QED BY <1>3, <1>4, <3>1 DEF ThereThrough
  <2> QED BY <2>2, <2>3, <2>4 DEF AcksAreTrue
<1>13. PushesCarryAll'
  <2>1. PushesCarryAll
    BY DEF ReplicaIInv
  <2> QED BY <1>2, <1>3, <1>4, <2>1 DEF PushesCarryAll
<1>14. MergesKeepAll'
  <2>1. MergesKeepAll
    BY DEF ReplicaIInv
  <2>2. \A op, e : Replaces(op, e) => Replaces(op, e)'
    BY <1>3, <1>4 DEF Replaces
  <2> QED BY <1>2, <2>1, <2>2 DEF MergesKeepAll
<1>15. Owes(engine)' /\ Owes(mirror)'
  <2>1. Owes(engine)
    BY DEF ReplicaIInv
  <2> QED BY <1>1, <1>2, <1>4, <2>1 DEF Owes
<1>16. CursorsAreOwed' /\ CursorBehindBytes' /\ OwnEntriesAreDurable' /\ OnlyDurableLeaves'
  <2>1. CursorsAreOwed /\ CursorBehindBytes /\ OwnEntriesAreDurable /\ OnlyDurableLeaves
    BY DEF ReplicaIInv
  <2>2. CursorsAreOwed'
    BY <1>2, <1>3, <2>1 DEF CursorsAreOwed
  <2>3. CursorBehindBytes' /\ OnlyDurableLeaves'
    BY <1>2, <2>1 DEF CursorBehindBytes, OnlyDurableLeaves
  <2>4. OwnEntriesAreDurable'
    BY <1>2, <1>3, <2>1 DEF OwnEntriesAreDurable
  <2> QED BY <2>2, <2>3, <2>4
<1> QED BY <1>6, <1>7, <1>8, <1>9, <1>10, <1>11, <1>12, <1>13, <1>14, <1>15, <1>16
        DEF ReplicaIInv

\* The id a restarted session mints first is above all that the outbox holds.
LEMMA NextIdIs ==
  ASSUME TypeOK, IdsGrow
  PROVE  /\ NextIdAfter(engine) \in Nat /\ NextIdAfter(engine) > 0
         /\ \A e \in engine.outbox : e.id < NextIdAfter(engine)
<1> DEFINE ids == {0} \cup {e.id : e \in engine.outbox}
<1>1. \A e \in engine.outbox : e \in Entries
  BY DEF Entries
<1>2. \A e \in engine.outbox : e.id \in Nat /\ e.id < nextOutboxId
  BY <1>1, EntriesAre, EntryFields DEF IdsGrow
<1>3. nextOutboxId \in Nat
  BY DEF TypeOK
<1>4. ids \subseteq Nat /\ ids # {} /\ \A i \in ids : i <= nextOutboxId
  BY <1>2, <1>3
<1>5. \A e \in engine.outbox : e.id \in ids
  OBVIOUS
<1>6. NextIdAfter(engine) = 1 + Max(ids)
  BY DEF NextIdAfter
<1> HIDE DEF ids
<1>7. Max(ids) \in Nat /\ \A i \in ids : i <= Max(ids)
  BY <1>3, <1>4, MaxIs
<1> QED BY <1>2, <1>5, <1>6, <1>7

LEMMA RestartKeeps ==
  ASSUME ReplicaIInv, TypeOK', Restart
  PROVE  ReplicaIInv'
<1>1. TypeOK /\ IdsGrow
  BY DEF ReplicaIInv
<1>2. /\ retired' = engine.tombstones /\ liveCursor' = engine.cursor /\ ackedThrough' = 0
      /\ nextOutboxId' = NextIdAfter(engine) /\ owed' = <<>> /\ mirror' = engine /\ acks' = {}
      /\ pushes' = {[p EXCEPT !.connected = FALSE] : p \in pushes}
      /\ UNCHANGED <<engine, log>>
  BY DEF Restart
<1>3. Living' = Living /\ Entries' \subseteq Entries /\ Entries' \subseteq engine.outbox
  BY <1>2 DEF Living, Entries
<1>4. \A d, u : AtAuthority(d, u) <=> AtAuthority(d, u)'
  BY <1>2 DEF AtAuthority
<1>5. DOMAIN owed' = {}
  BY <1>2
<1>6. \A p \in pushes' : ~p.connected /\ \E q \in pushes : p.sections = q.sections
  <2>1. \A q \in pushes : [q EXCEPT !.connected = FALSE].connected = FALSE
                          /\ [q EXCEPT !.connected = FALSE].sections = q.sections
    BY <1>1 DEF TypeOK, Push
  <2> QED BY <1>2, <2>1
<1>7. nextOutboxId' \in Nat /\ nextOutboxId' > 0 /\ \A e \in engine.outbox : e.id < nextOutboxId'
  BY <1>1, <1>2, NextIdIs
<1>8. EachItsOwn'
  <2>1. EachItsOwn
    BY DEF ReplicaIInv
  <2> QED BY <1>2, <1>3, <1>5, <2>1 DEF EachItsOwn
<1>9. RetirementsAreOwed'
  <2>1. \A r : Lives(r, 0, owed')
    BY <1>5 DEF Lives
  <2> QED BY <1>2, <1>5, <2>1 DEF RetirementsAreOwed
<1>10. DeletionRetires'
  <2>1. DeletionRetires
    BY DEF ReplicaIInv
  <2> QED BY <1>2, <2>1 DEF DeletionRetires
<1>11. Backed(engine)' /\ Backed(mirror)'
  <2>1. Backed(engine)
    BY DEF ReplicaIInv
  <2> QED BY <1>2, <1>3, <2>1 DEF Backed
<1>12. MirrorIsBehind'
  <2>1. \A e \in engine.outbox : e.document \in Living => e.bytes \subseteq engine.chain[e.document]
    BY DEF ReplicaIInv, Backed
  <2> QED BY <1>2, <1>3, <1>5, <2>1 DEF MirrorIsBehind
<1>13. IdsGrow'
  BY <1>2, <1>3, <1>5, <1>6, <1>7 DEF IdsGrow
<1>14. AcksAreTrue'
  <2>1. \A e \in engine.outbox : ~(e.id <= 0)
    <3>1. \A e \in engine.outbox : e.id \in Nat \ {0}
      <4>1. \A e \in engine.outbox : e \in Entries
        BY DEF Entries
      <4> QED BY <1>1, <4>1, EntriesAre, EntryFields
    <3> QED BY <3>1
  <2>2. ThereThrough(ackedThrough)'
    BY <1>2, <1>3, <2>1 DEF ThereThrough
  <2> QED BY <1>2, <1>5, <2>2 DEF AcksAreTrue
<1>15. PushesCarryAll'
  BY <1>6 DEF PushesCarryAll
<1>16. MergesKeepAll'
  BY <1>5 DEF MergesKeepAll
<1>17. Owes(engine)' /\ Owes(mirror)'
  <2>1. Owes(engine)
    BY DEF ReplicaIInv
  <2> QED BY <1>2, <1>4, <2>1 DEF Owes
<1>18. CursorsAreOwed'
  <2>1. engine.cursor \in Nat
    BY <1>1, StoreFields DEF TypeOK
  <2>2. engine.cursor + 1 .. engine.cursor = {} /\ engine.cursor <= engine.cursor
    BY <2>1
  <2> QED BY <1>2, <1>5, <2>2 DEF CursorsAreOwed
<1>19. CursorBehindBytes' /\ OwnEntriesAreDurable'
  <2>1. CursorBehindBytes /\ OwnEntriesAreDurable
    BY DEF ReplicaIInv
  <2> QED BY <1>2, <1>3, <2>1 DEF CursorBehindBytes, OwnEntriesAreDurable
<1>20. OnlyDurableLeaves'
  <2>1. OnlyDurableLeaves
    BY DEF ReplicaIInv
  <2> QED BY <1>2, <1>6, <2>1 DEF OnlyDurableLeaves
<1> QED BY <1>8, <1>9, <1>10, <1>11, <1>12, <1>13, <1>14, <1>15, <1>16, <1>17, <1>18, <1>19, <1>20
        DEF ReplicaIInv

\* Entries join the authority's log at its end.
LogGrows ==
  /\ \A k \in DOMAIN log : k \in DOMAIN log' /\ log'[k] = log[k]
  /\ \A k \in DOMAIN log' : k \in DOMAIN log \/
        /\ log'[k].by = "there" => \A d \in Documents : \A u \in log'[k].sections[d] : u.by = "there"
        /\ log'[k].by = "here" => \A d \in Living : log'[k].sections[d] \subseteq engine.chain[d]

LEMMA WireKeeps ==
  ASSUME ReplicaIInv, TypeOK', LogGrows,
         UNCHANGED <<retired, liveCursor, ackedThrough, nextOutboxId, owed, storage>>,
         pushes' \subseteq pushes,
         \A t \in acks' : t \in acks \/
            ((\E p \in pushes : p.connected /\ p.id = t) /\ ThereThrough(t)')
  PROVE  ReplicaIInv'
<1>1. TypeOK
  BY DEF ReplicaIInv
<1>2. UNCHANGED <<engine, mirror>>
  BY DEF storage
<1>3. Living' = Living /\ Entries' = Entries
  BY <1>2 DEF Living, Entries
<1>4. \A d, u : AtAuthority(d, u) => AtAuthority(d, u)'
  <2> SUFFICES ASSUME NEW d, NEW u, AtAuthority(d, u)  PROVE AtAuthority(d, u)'
    OBVIOUS
  <2>1. PICK k \in DOMAIN log : u \in log[k].sections[d]
    BY DEF AtAuthority
  <2>2. k \in DOMAIN log' /\ u \in log'[k].sections[d]
    BY <2>1 DEF LogGrows
  <2> QED BY <2>2 DEF AtAuthority
<1>5. \A id : ThereThrough(id) => ThereThrough(id)'
  BY <1>3, <1>4 DEF ThereThrough
<1>6. EachItsOwn'
  <2>1. EachItsOwn
    BY DEF ReplicaIInv
  <2>2. \A k \in DOMAIN log' : log'[k].by = "there" =>
           \A d \in Documents : \A u \in log'[k].sections[d] : u.by = "there"
    BY <2>1 DEF EachItsOwn, LogGrows
  <2> QED BY <1>3, <2>1, <2>2 DEF EachItsOwn
<1>7. RetirementsAreOwed'
  <2>1. RetirementsAreOwed
    BY DEF ReplicaIInv
  <2> QED BY <1>2, <1>3, <2>1 DEF RetirementsAreOwed
<1>8. DeletionRetires'
  <2>1. DeletionRetires
    BY DEF ReplicaIInv
  <2> QED BY <1>2, <2>1 DEF DeletionRetires
<1>9. Backed(engine)' /\ Backed(mirror)'
  <2>1. Backed(engine) /\ Backed(mirror)
    BY DEF ReplicaIInv
  <2> QED BY <1>2, <1>3, <2>1 DEF Backed
<1>10. MirrorIsBehind'
  <2>1. MirrorIsBehind
    BY DEF ReplicaIInv
  <2> QED BY <1>2, <1>3, <2>1 DEF MirrorIsBehind
<1>11. IdsGrow'
  <2>1. IdsGrow
    BY DEF ReplicaIInv
  <2>2. \A i, k : Newest(i, k) => Newest(i, k)'
    BY <1>2 DEF Newest
  <2> QED BY <1>3, <2>1, <2>2 DEF IdsGrow
<1>12. AcksAreTrue'
  <2>1. AcksAreTrue
    BY DEF ReplicaIInv
  <2>2. ThereThrough(ackedThrough)'
    BY <1>3, <1>4, <2>1 DEF AcksAreTrue, ThereThrough
  <2>3. \A t \in acks' : ThereThrough(t)'
    BY <1>5, <2>1 DEF AcksAreTrue
  <2>4. ASSUME NEW k \in DOMAIN owed', NEW op \in owed'[k], op.kind = "dropOutbox"
        PROVE  ThereThrough(op.throughId)'
    <3>1. ThereThrough(op.throughId)
      BY <2>1, <2>4 DEF AcksAreTrue
    <3> QED BY <1>3, <1>4, <3>1 DEF ThereThrough
  <2> QED BY <2>2, <2>3, <2>4 DEF AcksAreTrue
<1>13. PushesCarryAll'
  <2>1. PushesCarryAll
    BY DEF ReplicaIInv
  <2> QED BY <1>3, <1>4, <2>1 DEF PushesCarryAll
<1>14. MergesKeepAll'
  <2>1. MergesKeepAll
    BY DEF ReplicaIInv
  <2>2. \A op, e : Replaces(op, e) => Replaces(op, e)'
    BY <1>3, <1>4 DEF Replaces
  <2> QED BY <1>2, <2>1, <2>2 DEF MergesKeepAll
<1>15. Owes(engine)' /\ Owes(mirror)'
  <2>1. Owes(engine) /\ Owes(mirror)
    BY DEF ReplicaIInv
  <2> QED BY <1>2, <1>4, <2>1 DEF Owes
<1>16. \A s \in 1 .. liveCursor : s \in DOMAIN log /\ log'[s] = log[s]
  <2>1. liveCursor \in Nat /\ liveCursor <= Len(log) /\ log \in Seq(LogEntry)
    BY <1>1 DEF TypeOK
  <2>2. \A s \in 1 .. liveCursor : s \in DOMAIN log
    BY <2>1
  <2> QED BY <2>2 DEF LogGrows
<1>17. CursorsAreOwed'
  <2>1. CursorsAreOwed
    BY DEF ReplicaIInv
  <2>2. ASSUME NEW k \in DOMAIN owed, NEW op \in owed[k], op.kind = "cursor"
        PROVE  log'[op.seq] = log[op.seq]
    <3>1. op.seq \in Nat /\ op.seq > 0 /\ op.seq <= liveCursor
      <4>1. op \in Op /\ engine.cursor \in Nat
        BY <1>1, OwedFields, StoreFields DEF TypeOK
      <4>2. op.seq \in Nat /\ engine.cursor < op.seq /\ op.seq <= liveCursor
        BY <2>1, <2>2, <4>1, OperationFields DEF CursorsAreOwed
      <4> QED BY <4>1, <4>2
    <3>2. liveCursor \in Nat
      BY <1>1 DEF TypeOK
    <3>3. op.seq \in 1 .. liveCursor
      BY <3>1, <3>2
    <3> QED BY <1>16, <3>3
  <2>3. \A k \in DOMAIN owed : \A op \in owed[k] : op.kind = "cursor" =>
           (log'[op.seq].by = "there" => \A d \in Living :
              \/ log'[op.seq].sections[d] \subseteq AppendedTo(owed[k], d)
              \/ \E j \in DOMAIN owed : j < k /\ Retire(d) \in owed[j])
    BY <2>1, <2>2 DEF CursorsAreOwed
  <2> QED BY <1>2, <1>3, <2>1, <2>3 DEF CursorsAreOwed
<1>18. CursorBehindBytes'
  <2>1. CursorBehindBytes /\ engine.cursor <= liveCursor
    BY DEF ReplicaIInv, CursorsAreOwed
  <2>2. engine.cursor \in Nat /\ liveCursor \in Nat
    BY <1>1, StoreFields DEF TypeOK
  <2>3. \A s \in 1 .. engine.cursor : log'[s] = log[s]
    BY <1>16, <2>1, <2>2
  <2> QED BY <1>2, <2>1, <2>3 DEF CursorBehindBytes
<1>19. OwnEntriesAreDurable'
  <2>1. OwnEntriesAreDurable
    BY DEF ReplicaIInv
  <2> QED BY <1>2, <1>3, <2>1 DEF OwnEntriesAreDurable, LogGrows
<1>20. OnlyDurableLeaves'
  <2>1. OnlyDurableLeaves
    BY DEF ReplicaIInv
  <2> QED BY <1>2, <2>1 DEF OnlyDurableLeaves
<1> QED BY <1>6, <1>7, <1>8, <1>9, <1>10, <1>11, <1>12, <1>13, <1>14, <1>15, <1>17, <1>18, <1>19, <1>20
        DEF ReplicaIInv

------------------------------------------------------------------------
(* Types. *)

LEMMA RowUpdates ==
  /\ \A r \in Rows : Insert(r) \in Update /\ Delete(r) \in Update
  /\ \A r \in Rows, n \in 1 .. MaxEdits :
        /\ [verb |-> "edit", row |-> r, by |-> "here", n |-> n] \in Update
        /\ Theirs("edit", r, n) \in Update
  /\ \A r \in Rows : Theirs("insert", r, 0) \in Update /\ Theirs("delete", r, 0) \in Update
<1>1. \A r \in Rows : Insert(r) \in Update /\ Delete(r) \in Update
  BY DEF Insert, Delete, Update, RowUpdate, Sites
<1>2. \A r \in Rows, n \in 1 .. MaxEdits :
        /\ [verb |-> "edit", row |-> r, by |-> "here", n |-> n] \in Update
        /\ Theirs("edit", r, n) \in Update
  BY DEF Theirs, Update, Edit, Sites
<1>3. \A r \in Rows : Theirs("insert", r, 0) \in Update /\ Theirs("delete", r, 0) \in Update
  BY DEF Theirs, Update, RowUpdate, Sites
<1> QED BY <1>1, <1>2, <1>3

LEMMA ContentFields ==
  ASSUME TypeOK
  PROVE  \A d \in Documents : content[d] \subseteq Update
  BY DEF TypeOK, Envelope

\* The sections that an incoming entry brings.
LEMMA IncomingIs ==
  ASSUME TypeOK, liveCursor < Len(log)
  PROVE  /\ liveCursor \in Nat /\ liveCursor + 1 \in DOMAIN log /\ liveCursor + 1 \in 0 .. Len(log)
         /\ Incoming = log[liveCursor + 1] /\ Incoming.by \in Sites
         /\ \A d \in Documents : Incoming.sections[d] \subseteq Update
<1>1. log \in Seq(LogEntry) /\ liveCursor \in 0 .. Len(log)
  BY DEF TypeOK
<1>2. Len(log) \in Nat /\ DOMAIN log = 1 .. Len(log)
  BY <1>1
<1>3. liveCursor \in Nat /\ liveCursor + 1 \in DOMAIN log /\ liveCursor + 1 \in 0 .. Len(log)
  BY <1>1, <1>2
<1> QED BY <1>3, LogFields DEF Incoming

LEMMA CommitTyped ==
  ASSUME TypeOK, NEW created \in SUBSET Rows, NEW deleted \in SUBSET Rows, Commit(created, deleted)
  PROVE  TypeOK'
<1> DEFINE authored == {Insert(r) : r \in created} \cup {Delete(r) : r \in deleted}
           batch == {AppendTo(App, authored, {nextOutboxId})} \cup {Retire(r) : r \in deleted}
<1>1. /\ Enqueue(<<batch>>)
      /\ content' = [d \in Documents |-> IF d = App THEN content[App] \cup authored
                                         ELSE IF d \in deleted THEN {} ELSE content[d]]
      /\ retired' = retired \cup deleted /\ nextOutboxId' = nextOutboxId + 1
      /\ UNCHANGED <<liveCursor, liveIdentity, ackedThrough, storage, wire, restarts>>
  BY DEF Commit
<1>2. authored \in SUBSET Update
  BY RowUpdates
<1> HIDE DEF authored
<1>3. nextOutboxId \in Nat \ {0} /\ App \in Documents
  BY DEF TypeOK, Documents
<1>4. AppendTo(App, authored, {nextOutboxId}) \in Op /\ \A r \in deleted : Retire(r) \in Op
  BY <1>2, <1>3, Operations
<1>5. batch \in SUBSET Op
  BY <1>4
<1>6. storage' = storage /\ log' = log
  BY <1>1 DEF wire
<1>7. owed' \in Seq(SUBSET Op)
  <2> HIDE DEF batch
  <2> QED BY <1>1, <1>5, <1>6, EnqueueOne DEF Longer
<1>8. content' \in Envelope
  BY <1>1, <1>2, <1>3, ContentFields DEF Envelope
<1>9. retired' \subseteq Rows /\ nextOutboxId' \in Nat \ {0}
  BY <1>1, <1>3 DEF TypeOK
<1> QED BY <1>1, <1>7, <1>8, <1>9 DEF TypeOK, storage, wire

LEMMA EditDocumentTyped ==
  ASSUME TypeOK, NEW r \in Rows, EditDocument(r)
  PROVE  TypeOK'
<1>1. PICK n \in 1 .. MaxEdits :
        /\ content' = [content EXCEPT ![r] = @ \cup {[verb |-> "edit", row |-> r, by |-> "here", n |-> n]}]
        /\ Enqueue(<<{AppendTo(r, {[verb |-> "edit", row |-> r, by |-> "here", n |-> n]}, {nextOutboxId})}>>)
  BY DEF EditDocument
<1> DEFINE edit == [verb |-> "edit", row |-> r, by |-> "here", n |-> n]
           batch == {AppendTo(r, {edit}, {nextOutboxId})}
<1>2. /\ nextOutboxId' = nextOutboxId + 1
      /\ UNCHANGED <<retired, liveCursor, liveIdentity, ackedThrough, storage, wire, restarts>>
  BY DEF EditDocument
<1>3. {edit} \in SUBSET Update /\ Enqueue(<<batch>>)
        /\ content' = [content EXCEPT ![r] = @ \cup {edit}]
  BY <1>1, RowUpdates
<1> HIDE DEF edit
<1>4. nextOutboxId \in Nat \ {0} /\ r \in Documents
  BY DEF TypeOK, Documents
<1>5. batch \in SUBSET Op
  BY <1>3, <1>4, Operations
<1>6. storage' = storage /\ log' = log
  BY <1>2 DEF wire
<1>7. owed' \in Seq(SUBSET Op)
  <2> HIDE DEF batch
  <2> QED BY <1>3, <1>5, <1>6, EnqueueOne DEF Longer
<1>8. content' \in Envelope
  BY <1>3, <1>4 DEF TypeOK, Envelope
<1>9. nextOutboxId' \in Nat \ {0}
  BY <1>2, <1>4
<1> QED BY <1>2, <1>7, <1>8, <1>9 DEF TypeOK, storage, wire

LEMMA CoalesceTyped ==
  ASSUME TypeOK, IdsGrow, Coalesce
  PROVE  TypeOK'
<1>1. Longer /\ UNCHANGED <<content, retired, liveCursor, liveIdentity, ackedThrough, nextOutboxId,
                            storage, log, acks, restarts>>
  BY CoalesceDoes
<1>2. owed' \in Seq(SUBSET Op)
  BY <1>1 DEF Longer
<1>3. pushes' \subseteq Push
  <2>1. Offered # {} /\ pushes' = {[id |-> Max({e.id : e \in Offered}),
                                    sections |-> [d \in Documents |-> MergedOf(d)],
                                    connected |-> TRUE]}
    BY DEF Coalesce
  <2>2. PICK m \in Offered : Max({e.id : e \in Offered}) = m.id
    BY <2>1, LatestIs
  <2>3. m.id \in Nat
    BY OfferedAre
  <2>4. [d \in Documents |-> MergedOf(d)] \in Envelope
    BY OfferedAre DEF Envelope
  <2> QED BY <2>1, <2>2, <2>3, <2>4 DEF Push
<1> QED BY <1>1, <1>2, <1>3 DEF TypeOK, storage

LEMMA AcknowledgeTyped ==
  ASSUME TypeOK, NEW t \in acks, Acknowledge(t)
  PROVE  TypeOK'
<1>1. /\ acks' = acks \ {t} /\ ackedThrough' = Max({ackedThrough, t})
      /\ Enqueue(<<{DropOutbox(t)}>>)
      /\ UNCHANGED <<content, retired, liveCursor, liveIdentity, nextOutboxId, storage, log, pushes, restarts>>
  BY DEF Acknowledge
<1>2. t \in Nat /\ ackedThrough \in Nat
  BY DEF TypeOK
<1>3. {DropOutbox(t)} \in SUBSET Op
  BY <1>2, Operations
<1>4. owed' \in Seq(SUBSET Op)
  BY <1>1, <1>3, EnqueueOne DEF Longer
<1>5. ackedThrough' \in {ackedThrough, t}
  <2> DEFINE both == {ackedThrough, t}
  <2>1. both \subseteq Nat /\ both # {} /\ ackedThrough + t \in Nat /\ \A x \in both : x <= ackedThrough + t
    BY <1>2
  <2>2. ackedThrough' = Max(both)
    BY <1>1
  <2> HIDE DEF both
  <2>3. Max(both) \in both
    BY <2>1, MaxIs
  <2> QED BY <2>2, <2>3 DEF both
<1> QED BY <1>1, <1>2, <1>4, <1>5 DEF TypeOK, storage

LEMMA AdoptTyped ==
  ASSUME TypeOK, NEW id \in Identities, AdoptDocumentIdentity(id)
  PROVE  TypeOK'
<1>1. /\ liveIdentity' = id /\ Enqueue(<<{Stamp(id)}>>)
      /\ UNCHANGED <<content, retired, liveCursor, ackedThrough, nextOutboxId, storage, wire, restarts>>
  BY DEF AdoptDocumentIdentity
<1>2. {Stamp(id)} \in SUBSET Op /\ storage' = storage /\ log' = log
  BY <1>1, Operations DEF wire
<1>3. owed' \in Seq(SUBSET Op)
  BY <1>1, <1>2, EnqueueOne DEF Longer
<1> QED BY <1>1, <1>3 DEF TypeOK, storage, wire

\* What is taken of the incoming entry, as operations.
Taken == Carried(Incoming.sections) \ retired
Appends == {AppendTo(d, Incoming.sections[d], {}) : d \in Taken}

LEMMA ApplyRemoteDoes ==
  ASSUME TypeOK, ApplyRemote
  PROVE  /\ liveCursor < Len(log) /\ Incoming.by = "there"
         /\ Enqueue(<<Appends \cup {Cursor(liveCursor + 1)}>>)
         /\ Appends \cup {Cursor(liveCursor + 1)} \in SUBSET Op
         /\ \A d \in Taken : d \in Documents \ retired
         /\ content' = [d \in Documents |->
               IF d \in Taken THEN content[d] \cup Incoming.sections[d] ELSE content[d]]
         /\ liveCursor' = liveCursor + 1
         /\ UNCHANGED <<retired, liveIdentity, ackedThrough, nextOutboxId, storage, wire, restarts>>
<1>1. liveCursor < Len(log) /\ Incoming.by = "there"
  BY DEF ApplyRemote
<1>2. \A d \in Taken : d \in Documents \ retired
  BY DEF Taken, Carried
<1>3. Appends \cup {Cursor(liveCursor + 1)} \in SUBSET Op
  <2>1. \A d \in Taken : AppendTo(d, Incoming.sections[d], {}) \in Op
    BY <1>1, <1>2, IncomingIs, Operations
  <2>2. Cursor(liveCursor + 1) \in Op
    BY <1>1, IncomingIs, Operations
  <2> QED BY <2>1, <2>2 DEF Appends
<1> QED BY <1>1, <1>2, <1>3 DEF ApplyRemote, Appends, Taken

LEMMA ApplyRemoteTyped ==
  ASSUME TypeOK, ApplyRemote
  PROVE  TypeOK'
<1> DEFINE batch == Appends \cup {Cursor(liveCursor + 1)}
<1>1. /\ liveCursor < Len(log) /\ Enqueue(<<batch>>) /\ batch \in SUBSET Op
      /\ content' = [d \in Documents |->
            IF d \in Taken THEN content[d] \cup Incoming.sections[d] ELSE content[d]]
      /\ liveCursor' = liveCursor + 1
      /\ UNCHANGED <<retired, liveIdentity, ackedThrough, nextOutboxId, storage, wire, restarts>>
  BY ApplyRemoteDoes
<1> HIDE DEF batch
<1>2. storage' = storage /\ UNCHANGED <<log, pushes, acks, engine, mirror>>
  BY <1>1 DEF wire, storage
<1>3. owed' \in Seq(SUBSET Op)
  BY <1>1, <1>2, EnqueueOne DEF Longer
<1>4. content' \in Envelope
  BY <1>1, ContentFields, IncomingIs DEF Envelope
<1>5. liveCursor' \in 0 .. Len(log')
  BY <1>1, <1>2, IncomingIs
<1> QED BY <1>1, <1>2, <1>3, <1>4, <1>5 DEF TypeOK

LEMMA RefuseRemoteTyped ==
  ASSUME TypeOK, RefuseRemote
  PROVE  TypeOK'
<1>1. /\ liveCursor < Len(log)
      /\ UNCHANGED <<retired, liveCursor, liveIdentity, ackedThrough, nextOutboxId, owed, storage,
                     wire, restarts>>
  BY DEF RefuseRemote
<1>2. PICK before \in SUBSET (Carried(Incoming.sections) \ (retired \cup {Incoming.broken})) :
         content' = [d \in Documents |->
            IF d \in before THEN content[d] \cup Incoming.sections[d] ELSE content[d]]
  BY DEF RefuseRemote
<1>3. content' \in Envelope
  BY <1>1, <1>2, ContentFields, IncomingIs DEF Envelope
<1> QED BY <1>1, <1>3 DEF TypeOK, storage, wire

LEMMA AdvanceTyped ==
  ASSUME TypeOK, Advance
  PROVE  TypeOK'
<1>1. /\ liveCursor < Len(log) /\ liveCursor' = liveCursor + 1
      /\ Enqueue(<<{Cursor(liveCursor + 1)}>>)
      /\ UNCHANGED <<content, retired, liveIdentity, ackedThrough, nextOutboxId, storage, wire, restarts>>
  BY DEF Advance
<1>2. storage' = storage /\ UNCHANGED <<log, pushes, acks, engine, mirror>>
  BY <1>1 DEF wire, storage
<1>3. {Cursor(liveCursor + 1)} \in SUBSET Op
  BY <1>1, IncomingIs, Operations
<1>4. owed' \in Seq(SUBSET Op)
  BY <1>1, <1>2, <1>3, EnqueueOne DEF Longer
<1>5. liveCursor' \in 0 .. Len(log')
  BY <1>1, <1>2, IncomingIs
<1> QED BY <1>1, <1>2, <1>4, <1>5 DEF TypeOK

LEMMA LandTyped ==
  ASSUME TypeOK, Land
  PROVE  TypeOK'
<1>1. UNCHANGED <<local, mirror, wire, restarts>>
  BY LandDoes
<1>2. PICK n \in 1 .. Len(owed) :
        /\ engine' = Committed(engine, SubSeq(owed, 1, n))
        /\ owed' = SubSeq(owed, n + 1, Len(owed))
  BY DEF Land
<1> DEFINE b == SubSeq(owed, 1, n)
<1>3. owed \in Seq(SUBSET Op) /\ Len(owed) \in Nat /\ n \in Nat
  BY OwedFields
<1>4. DOMAIN b = 1 .. n /\ \A k \in 1 .. n : b[k] = owed[k]
  BY PrefixIs
<1>5. \A k \in DOMAIN b : k \in Nat /\ k <= n /\ b[k] \subseteq Op
  BY <1>3, <1>4, OwedFields
<1>6. engine' = Committed(engine, b)
  BY <1>2
<1>7. owed' \in Seq(SUBSET Op)
  <2>1. n + 1 \in Int /\ Len(owed) \in Int /\ \A i \in n + 1 .. Len(owed) : owed[i] \in SUBSET Op
    BY <1>3
  <2> QED BY <1>2, <2>1, SubSeqProperties
<1> HIDE DEF b
<1>8. engine \in Store
  BY DEF TypeOK
<1>9. \A d \in Documents : ChainOf(d, engine, b) \subseteq Update
  <2>1. \A k \in DOMAIN b : \A d \in Documents : AppendedTo(b[k], d) \subseteq Update
    BY <1>5, OperationFields DEF AppendedTo
  <2> QED BY <1>8, <2>1, StoreFields DEF ChainOf
<1>10. OutboxOf(engine, b) \subseteq Entry
  <2>1. \A k \in DOMAIN b : Inserted(b[k]) \subseteq Entry
    BY <1>5, InsertsAre DEF Inserted
  <2> QED BY <1>8, <2>1, StoreFields DEF OutboxOf
<1>11. CursorOf(engine, b) \in Nat
  <2> DEFINE at == Holding("cursor", b)
  <2>1. at \subseteq Nat /\ \A k \in at : k <= n
    BY <1>5 DEF Holding
  <2>2. CASE at = {}
    BY <1>8, <2>2, StoreFields DEF CursorOf
  <2>3. CASE at # {}
    <3>1. Max(at) \in at
      <4> HIDE DEF at
      <4> QED BY <1>3, <2>1, <2>3, MaxIs
    <3>2. Max(at) \in DOMAIN b /\ \E op \in b[Max(at)] : op.kind = "cursor"
      BY <3>1 DEF Holding
    <3> DEFINE k == Max(at)
               op == Of("cursor", b[k])
    <3> HIDE DEF k
    <3>3. op \in b[k] /\ op.kind = "cursor"
      BY <3>2 DEF Of, k
    <3>4. op.seq \in Nat
      BY <1>5, <3>2, <3>3, OperationFields DEF k
    <3> QED BY <2>3, <3>4 DEF CursorOf, k
  <2> QED BY <2>2, <2>3
<1>12. IdentityOf(engine, b) \in Identities \cup {None}
  <2> DEFINE at == Holding("identity", b)
  <2>1. at \subseteq Nat
    BY <1>5 DEF Holding
  <2>2. CASE at = {} \/ engine.identity # None
    BY <1>8, <2>2, StoreFields DEF IdentityOf
  <2>3. CASE ~(at = {} \/ engine.identity # None)
    <3>1. Min(at) \in at
      <4> HIDE DEF at
      <4> QED BY <2>1, <2>3, MinIs
    <3>2. Min(at) \in DOMAIN b /\ \E op \in b[Min(at)] : op.kind = "identity"
      BY <3>1 DEF Holding
    <3> DEFINE k == Min(at)
               op == Of("identity", b[k])
    <3> HIDE DEF k
    <3>3. op \in b[k] /\ op.kind = "identity"
      BY <3>2 DEF Of, k
    <3>4. op.id \in Identities
      BY <1>5, <3>2, <3>3, OperationFields DEF k
    <3> QED BY <2>3, <3>4 DEF IdentityOf, k
  <2> QED BY <2>2, <2>3
<1>13. engine.tombstones \cup {r \in Rows : ~Lives(r, 0, b)} \subseteq Rows
  BY <1>8, StoreFields
<1>14. [d \in Documents |-> ChainOf(d, engine, b)] \in [Documents -> SUBSET Update]
  BY <1>9
<1>15. engine' \in Store
  BY <1>6, <1>10, <1>11, <1>12, <1>13, <1>14 DEF Committed, Store
<1> QED BY <1>1, <1>7, <1>15 DEF TypeOK, local, wire

LEMMA RestartTyped ==
  ASSUME TypeOK, IdsGrow, CursorsAreOwed, Restart
  PROVE  TypeOK'
<1>1. /\ content' = engine.chain /\ retired' = engine.tombstones
      /\ liveCursor' = engine.cursor /\ liveIdentity' = engine.identity
      /\ ackedThrough' = 0 /\ nextOutboxId' = NextIdAfter(engine)
      /\ owed' = <<>> /\ mirror' = engine /\ acks' = {} /\ restarts' = restarts + 1
      /\ pushes' = {[p EXCEPT !.connected = FALSE] : p \in pushes}
      /\ UNCHANGED <<engine, log>>
  BY DEF Restart
<1>2. engine \in Store /\ log \in Seq(LogEntry) /\ restarts \in Nat
  BY DEF TypeOK
<1>3. content' \in Envelope /\ retired' \subseteq Rows /\ liveIdentity' \in Identities \cup {None}
  BY <1>1, <1>2, StoreFields
<1>4. liveCursor' \in 0 .. Len(log')
  <2>1. engine.cursor \in Nat /\ engine.cursor <= liveCursor /\ liveCursor \in 0 .. Len(log)
    BY <1>2, StoreFields DEF TypeOK, CursorsAreOwed
  <2>2. Len(log) \in Nat
    BY <1>2
  <2> QED BY <1>1, <2>1, <2>2
<1>5. nextOutboxId' \in Nat \ {0}
  BY <1>1, NextIdIs
<1>6. pushes' \subseteq Push
  BY <1>1 DEF TypeOK, Push
<1>7. owed' \in Seq(SUBSET Op) /\ ackedThrough' \in Nat /\ acks' \subseteq Nat /\ restarts' \in Nat
  BY <1>1, <1>2
<1> QED BY <1>1, <1>2, <1>3, <1>4, <1>5, <1>6, <1>7 DEF TypeOK

\* The log takes one entry more.
LEMMA LogTyped ==
  ASSUME TypeOK, NEW entry \in LogEntry, log' = log \o <<entry>>
  PROVE  /\ log' \in Seq(LogEntry) /\ liveCursor \in 0 .. Len(log')
         /\ \A k \in DOMAIN log : k \in DOMAIN log' /\ log'[k] = log[k]
         /\ \A k \in DOMAIN log' : k \in DOMAIN log \/ log'[k] = entry
         /\ \E k \in DOMAIN log' : log'[k] = entry
<1>1. log \in Seq(LogEntry) /\ liveCursor \in 0 .. Len(log) /\ Len(log) \in Nat
  BY DEF TypeOK
<1>2. /\ log' \in Seq(LogEntry) /\ Len(log') = Len(log) + 1
      /\ \A k \in 1 .. Len(log) : log'[k] = log[k]
      /\ log'[Len(log) + 1] = entry
  BY <1>1
<1>3. DOMAIN log = 1 .. Len(log) /\ DOMAIN log' = 1 .. Len(log) + 1
  BY <1>1, <1>2
<1>4. \A k \in DOMAIN log' : k \in DOMAIN log \/ k = Len(log) + 1
  BY <1>1, <1>3
<1>5. Len(log) + 1 \in DOMAIN log' /\ liveCursor \in 0 .. Len(log')
  BY <1>1, <1>2, <1>3
<1>6. \A k \in DOMAIN log : k \in DOMAIN log'
  BY <1>1, <1>3
<1> QED BY <1>2, <1>3, <1>4, <1>5, <1>6

------------------------------------------------------------------------
(* The steps, one by one. *)

LEMMA CommitKeeps ==
  ASSUME ReplicaIInv, NEW created \in SUBSET Rows, NEW deleted \in SUBSET Rows, Commit(created, deleted)
  PROVE  ReplicaIInv'
<1> DEFINE authored == {Insert(r) : r \in created} \cup {Delete(r) : r \in deleted}
<1>1. TypeOK /\ TypeOK'
  BY CommitTyped DEF ReplicaIInv
<1>2. App \in Documents \ retired /\ App \notin deleted
  BY <1>1, DocumentsAssumption DEF TypeOK, Documents
<1>3. authored \in SUBSET Update
  BY RowUpdates
<1>4. \A u \in authored : u.by = "here"
  BY DEF Insert, Delete
<1>5. \A r \in Rows : Delete(r) \in authored => r \in deleted
  BY DEF Insert, Delete
<1>6. /\ Enqueue(<<{AppendTo(App, authored, {nextOutboxId})} \cup {Retire(r) : r \in deleted}>>)
      /\ retired' = retired \cup deleted /\ nextOutboxId' = nextOutboxId + 1
      /\ UNCHANGED <<liveCursor, ackedThrough, storage, wire>>
  BY DEF Commit
<1> HIDE DEF authored
<1> QED BY <1>1, <1>2, <1>3, <1>4, <1>5, <1>6, AuthorKeeps

LEMMA EditDocumentKeeps ==
  ASSUME ReplicaIInv, NEW r \in Rows, EditDocument(r)
  PROVE  ReplicaIInv'
<1>1. TypeOK /\ TypeOK'
  BY EditDocumentTyped DEF ReplicaIInv
<1>2. PICK n \in 1 .. MaxEdits :
        Enqueue(<<{AppendTo(r, {[verb |-> "edit", row |-> r, by |-> "here", n |-> n]}, {nextOutboxId})}>>)
  BY DEF EditDocument
<1> DEFINE edit == [verb |-> "edit", row |-> r, by |-> "here", n |-> n]
           none == {}
<1>3. /\ r \in Documents \ retired /\ nextOutboxId' = nextOutboxId + 1
      /\ UNCHANGED <<retired, liveCursor, ackedThrough, storage, wire>>
  BY DEF EditDocument, Documents
<1>4. {edit} \in SUBSET Update
  BY RowUpdates
<1>5. \A u \in {edit} : u.by = "here"
  OBVIOUS
<1>6. \A x \in Rows : Delete(x) \notin {edit}
  <2>1. edit.verb # "delete" /\ \A x \in Rows : Delete(x).verb = "delete"
    BY DEF Delete
  <2> QED BY <2>1
<1>7. {AppendTo(r, {edit}, {nextOutboxId})} = {AppendTo(r, {edit}, {nextOutboxId})} \cup {Retire(x) : x \in none}
  OBVIOUS
<1>8. Enqueue(<<{AppendTo(r, {edit}, {nextOutboxId})} \cup {Retire(x) : x \in none}>>)
  BY <1>2, <1>7
<1>9. none \in SUBSET Rows /\ r \notin none /\ retired' = retired \cup none
  BY <1>3
<1> HIDE DEF edit, none
<1> QED BY <1>1, <1>3, <1>4, <1>5, <1>6, <1>8, <1>9, AuthorKeeps

LEMMA AcknowledgeKeeps ==
  ASSUME ReplicaIInv, NEW t \in acks, Acknowledge(t)
  PROVE  ReplicaIInv'
<1>1. TypeOK /\ TypeOK' /\ CursorsAreOwed
  BY AcknowledgeTyped DEF ReplicaIInv
<1>2. /\ acks' = acks \ {t} /\ ackedThrough' = Max({ackedThrough, t})
      /\ Enqueue(<<{DropOutbox(t)}>>)
      /\ UNCHANGED <<retired, liveCursor, nextOutboxId, storage, log, pushes>>
  BY DEF Acknowledge
<1>3. t \in Nat /\ ackedThrough \in Nat
  BY <1>1 DEF TypeOK
<1> DEFINE batch == {DropOutbox(t)}
<1>4. batch \in SUBSET Op
  BY <1>3, Operations
<1>5. \A op \in batch : op.kind = "dropOutbox" /\ op.throughId = t
  BY DEF DropOutbox
<1>6. ackedThrough' \in {ackedThrough} \cup acks
  <2> DEFINE both == {ackedThrough, t}
  <2>1. both \subseteq Nat /\ both # {} /\ ackedThrough + t \in Nat /\ \A x \in both : x <= ackedThrough + t
    BY <1>3
  <2>2. ackedThrough' = Max(both)
    BY <1>2
  <2> HIDE DEF both
  <2>3. Max(both) \in both
    BY <2>1, MaxIs
  <2> QED BY <2>2, <2>3 DEF both
<1> HIDE DEF batch
<1>7. Enqueue(<<batch>>)
  BY <1>2 DEF batch
<1>8. Longer /\ \A k \in Added : owed'[k] = batch
  BY <1>1, <1>2, <1>4, <1>7, EnqueueOne
<1>9. CursorsAreOwed'
  BY <1>1, <1>2, <1>5, <1>8, CursorsStay
<1> QED BY <1>1, <1>2, <1>4, <1>5, <1>6, <1>7, <1>9, QuietKeeps

LEMMA AdoptKeeps ==
  ASSUME ReplicaIInv, NEW id \in Identities, AdoptDocumentIdentity(id)
  PROVE  ReplicaIInv'
<1>1. TypeOK /\ TypeOK' /\ CursorsAreOwed
  BY AdoptTyped DEF ReplicaIInv
<1>2. /\ Enqueue(<<{Stamp(id)}>>)
      /\ UNCHANGED <<retired, liveCursor, ackedThrough, nextOutboxId, storage, wire>>
  BY DEF AdoptDocumentIdentity
<1>3. UNCHANGED <<log, pushes, acks>>
  BY <1>2 DEF wire
<1> DEFINE batch == {Stamp(id)}
<1>4. batch \in SUBSET Op
  BY Operations
<1>5. \A op \in batch : op.kind = "identity"
  BY DEF Stamp
<1> HIDE DEF batch
<1>6. Enqueue(<<batch>>)
  BY <1>2 DEF batch
<1>7. Longer /\ \A k \in Added : owed'[k] = batch
  BY <1>1, <1>2, <1>3, <1>4, <1>6, EnqueueOne
<1>8. CursorsAreOwed'
  BY <1>1, <1>2, <1>5, <1>7, CursorsStay
<1> QED BY <1>1, <1>2, <1>3, <1>4, <1>5, <1>6, <1>8, QuietKeeps

\* The bytes of another device, with their cursor: what is retired here is not taken.
LEMMA ApplyRemoteKeeps ==
  ASSUME ReplicaIInv, ApplyRemote
  PROVE  ReplicaIInv'
<1> DEFINE batch == Appends \cup {Cursor(liveCursor + 1)}
<1>1. TypeOK /\ TypeOK' /\ CursorsAreOwed /\ EachItsOwn /\ RetirementsAreOwed
  BY ApplyRemoteTyped DEF ReplicaIInv
<1>2. /\ liveCursor < Len(log) /\ Incoming.by = "there"
      /\ Enqueue(<<batch>>) /\ batch \in SUBSET Op
      /\ \A d \in Taken : d \in Documents \ retired
      /\ liveCursor' = liveCursor + 1
      /\ UNCHANGED <<retired, ackedThrough, nextOutboxId, storage, wire>>
  BY <1>1, ApplyRemoteDoes
<1>3. UNCHANGED <<log, pushes, acks>>
  BY <1>2 DEF wire
<1>4. liveCursor + 1 \in DOMAIN log /\ Incoming = log[liveCursor + 1]
  BY <1>1, <1>2, IncomingIs
<1>5. \A d \in Documents : \A u \in Incoming.sections[d] : u.by = "there"
  BY <1>1, <1>2, <1>4 DEF EachItsOwn
<1>6. \A d \in Taken : /\ AppendTo(d, Incoming.sections[d], {}).kind = "append"
                       /\ AppendTo(d, Incoming.sections[d], {}).document = d
                       /\ AppendTo(d, Incoming.sections[d], {}).bytes = Incoming.sections[d]
                       /\ AppendTo(d, Incoming.sections[d], {}).outboxId = {}
  BY DEF AppendTo
<1>7. \A op \in batch : op = Cursor(liveCursor + 1) \/
         \E d \in Taken : op = AppendTo(d, Incoming.sections[d], {})
  BY DEF Appends
<1>8. Cursor(liveCursor + 1).kind = "cursor" /\ Cursor(liveCursor + 1) \in batch
  BY DEF Cursor
<1>9. \A d \in Taken : AppendTo(d, Incoming.sections[d], {}) \in batch
  BY DEF Appends
<1> HIDE DEF batch
<1>10. \A op \in batch :
         /\ op.kind \in {"append", "cursor"}
         /\ op.kind = "append" => op.outboxId = {} /\ op.document \notin retired
                                  /\ \A u \in op.bytes : u.by = "there"
  <2> SUFFICES ASSUME NEW op \in batch
               PROVE  /\ op.kind \in {"append", "cursor"}
                      /\ op.kind = "append" => op.outboxId = {} /\ op.document \notin retired
                                               /\ \A u \in op.bytes : u.by = "there"
    OBVIOUS
  <2>1. CASE op = Cursor(liveCursor + 1)
    BY <1>8, <2>1
  <2>2. CASE \E d \in Taken : op = AppendTo(d, Incoming.sections[d], {})
    <3>1. PICK d \in Taken : op = AppendTo(d, Incoming.sections[d], {})
      BY <2>2
    <3>2. op.kind = "append" /\ op.document = d /\ op.bytes = Incoming.sections[d] /\ op.outboxId = {}
      BY <1>6, <3>1
    <3> QED BY <1>2, <1>5, <3>2
  <2> QED BY <1>7, <2>1, <2>2
<1>11. /\ Longer
       /\ \A k \in Added : k = Len(owed) + 1 /\ owed'[k] = batch
       /\ Len(owed) + 1 \in Added
  BY <1>1, <1>2, <1>3, EnqueueOne
<1>12. CursorsAreOwed'
  <2>1. ASSUME NEW d \in Living
        PROVE  \/ log[liveCursor + 1].sections[d] \subseteq AppendedTo(batch, d)
               \/ \E j \in DOMAIN owed : Retire(d) \in owed[j]
    <3>1. CASE d \in retired
      <4>1. d \in Rows /\ ~Lives(d, 0, owed)
        BY <1>1, <2>1, <3>1 DEF RetirementsAreOwed, Living
      <4> QED BY <1>1, <4>1, OwedFields, LivesIs
    <3>2. CASE d \notin retired /\ Incoming.sections[d] = {}
      BY <1>4, <3>2
    <3>3. CASE d \in Taken
      BY <1>4, <1>6, <1>9, <3>3 DEF AppendedTo
    <3> QED BY <3>1, <3>2, <3>3 DEF Taken, Carried, Living
  <2>2. \A op \in batch : op.kind = "cursor" => op = Cursor(liveCursor + 1)
    BY <1>6, <1>7
  <2> DEFINE last == Len(owed) + 1
  <2>3. last \in Added /\ (\A k \in Added : k = last) /\ owed'[last] = batch
    BY <1>11
  <2> HIDE DEF last
  <2> QED BY <1>1, <1>2, <1>8, <1>11, <2>1, <2>2, <2>3, CursorsGrow
<1> QED BY <1>1, <1>2, <1>3, <1>10, <1>12, QuietKeeps

LEMMA AdvanceKeeps ==
  ASSUME ReplicaIInv, Advance
  PROVE  ReplicaIInv'
<1> DEFINE batch == {Cursor(liveCursor + 1)}
<1>1. TypeOK /\ TypeOK' /\ CursorsAreOwed
  BY AdvanceTyped DEF ReplicaIInv
<1>2. /\ liveCursor < Len(log) /\ Incoming.by = "here" /\ Enqueue(<<batch>>)
      /\ liveCursor' = liveCursor + 1
      /\ UNCHANGED <<retired, ackedThrough, nextOutboxId, storage, wire>>
  BY DEF Advance
<1>3. UNCHANGED <<log, pushes, acks>>
  BY <1>2 DEF wire
<1>4. Incoming = log[liveCursor + 1] /\ batch \in SUBSET Op
  BY <1>1, <1>2, IncomingIs, Operations
<1>5. \A op \in batch : op = Cursor(liveCursor + 1) /\ op.kind = "cursor"
  BY DEF Cursor
<1>6. Cursor(liveCursor + 1) \in batch
  OBVIOUS
<1> HIDE DEF batch
<1>7. /\ Longer
      /\ \A k \in Added : k = Len(owed) + 1 /\ owed'[k] = batch
      /\ Len(owed) + 1 \in Added
  BY <1>1, <1>2, <1>3, <1>4, EnqueueOne
<1>8. CursorsAreOwed'
  <2> DEFINE last == Len(owed) + 1
  <2>1. last \in Added /\ (\A k \in Added : k = last) /\ owed'[last] = batch
    BY <1>7
  <2>2. log[liveCursor + 1].by # "there"
    BY <1>2, <1>4
  <2> HIDE DEF last
  <2> QED BY <1>1, <1>2, <1>5, <1>6, <1>7, <2>1, <2>2, CursorsGrow
<1> QED BY <1>1, <1>2, <1>3, <1>4, <1>5, <1>8, QuietKeeps

LEMMA RefuseRemoteKeeps ==
  ASSUME ReplicaIInv, RefuseRemote
  PROVE  ReplicaIInv'
<1>1. TypeOK'
  BY RefuseRemoteTyped DEF ReplicaIInv
<1>2. UNCHANGED <<retired, liveCursor, ackedThrough, nextOutboxId, owed, storage, log, pushes, acks>>
  BY DEF RefuseRemote, wire
<1>3. LogGrows
  BY <1>2 DEF LogGrows
<1> QED BY <1>1, <1>2, <1>3, WireKeeps

\* A push that arrives is what its acknowledgement will say.
LEMMA ReceiveKeeps ==
  ASSUME ReplicaIInv, NEW push \in pushes, Receive(push)
  PROVE  ReplicaIInv'
<1> DEFINE entry == [sections |-> push.sections, by |-> "here", broken |-> None]
<1>1. TypeOK /\ PushesCarryAll /\ OnlyDurableLeaves
  BY DEF ReplicaIInv
<1>2. /\ log' = log \o <<entry>> /\ pushes' = pushes \ {push}
      /\ acks' = acks \cup (IF push.connected THEN {push.id} ELSE {})
      /\ UNCHANGED <<local, owed, storage, restarts>>
  BY DEF Receive
<1>3. push.id \in Nat /\ push.sections \in Envelope
  BY <1>1 DEF TypeOK, Push
<1>4. entry \in LogEntry
  BY <1>3 DEF LogEntry, Sites
<1>5. entry.sections = push.sections /\ entry.by = "here"
  OBVIOUS
<1> HIDE DEF entry
<1>6. /\ log' \in Seq(LogEntry) /\ liveCursor \in 0 .. Len(log')
      /\ \A k \in DOMAIN log : k \in DOMAIN log' /\ log'[k] = log[k]
      /\ \A k \in DOMAIN log' : k \in DOMAIN log \/ log'[k] = entry
      /\ \E k \in DOMAIN log' : log'[k] = entry
  BY <1>1, <1>2, <1>4, LogTyped
<1>7. TypeOK'
  <2>1. pushes' \subseteq Push /\ acks' \subseteq Nat
    BY <1>1, <1>2, <1>3 DEF TypeOK
  <2> QED BY <1>1, <1>2, <1>6, <2>1 DEF TypeOK, local, storage
<1>8. LogGrows
  <2>1. \A d \in Living : entry.sections[d] \subseteq engine.chain[d]
    BY <1>1, <1>5 DEF OnlyDurableLeaves, Living
  <2> QED BY <1>5, <1>6, <2>1 DEF LogGrows
<1>9. push.connected => ThereThrough(push.id)'
  <2>1. Living' = Living /\ Entries' = Entries
    BY <1>2 DEF Living, Entries, storage
  <2>2. \A d, u : AtAuthority(d, u) => AtAuthority(d, u)'
    <3> SUFFICES ASSUME NEW d, NEW u, AtAuthority(d, u)  PROVE AtAuthority(d, u)'
      OBVIOUS
    <3>1. PICK k \in DOMAIN log : u \in log[k].sections[d]
      BY DEF AtAuthority
    <3>2. k \in DOMAIN log' /\ u \in log'[k].sections[d]
      BY <1>6, <3>1
    <3> QED BY <3>2 DEF AtAuthority
  <2>3. \A d : \A u \in push.sections[d] : AtAuthority(d, u)'
    BY <1>5, <1>6 DEF AtAuthority
  <2>4. push.connected => \A e \in Entries : e.id <= push.id /\ e.document \in Living =>
           \A u \in e.bytes : u \in push.sections[e.document] \/ AtAuthority(e.document, u)
    BY <1>1 DEF PushesCarryAll
  <2>5. push.connected => \A e \in Entries : e.id <= push.id /\ e.document \in Living =>
           \A u \in e.bytes : AtAuthority(e.document, u)'
    BY <2>2, <2>3, <2>4
  <2>6. push.id' = push.id
    OBVIOUS
  <2> QED BY <2>1, <2>5 DEF ThereThrough
<1>10. \A t \in acks' : t \in acks \/
          ((\E p \in pushes : p.connected /\ p.id = t) /\ ThereThrough(t)')
  <2> SUFFICES ASSUME NEW t \in acks', t \notin acks
               PROVE  (\E p \in pushes : p.connected /\ p.id = t) /\ ThereThrough(t)'
    OBVIOUS
  <2>1. push.connected /\ t = push.id
    BY <1>2
  <2> QED BY <1>9, <2>1 DEF ThereThrough
<1>11. UNCHANGED <<retired, liveCursor, ackedThrough, nextOutboxId, owed, storage>>
  BY <1>2 DEF local
<1>12. pushes' \subseteq pushes
  BY <1>2
<1> QED BY <1>7, <1>8, <1>10, <1>11, <1>12, WireKeeps

LEMMA LosePushKeeps ==
  ASSUME ReplicaIInv, NEW push \in pushes, LosePush(push)
  PROVE  ReplicaIInv'
<1>1. pushes' = pushes \ {push} /\ UNCHANGED <<local, owed, storage, log, acks, restarts>>
  BY DEF LosePush
<1>2. TypeOK'
  BY <1>1 DEF ReplicaIInv, TypeOK, local, storage
<1>3. LogGrows
  BY <1>1 DEF LogGrows
<1> QED BY <1>1, <1>2, <1>3, WireKeeps DEF local

LEMMA LoseAckKeeps ==
  ASSUME ReplicaIInv, NEW t \in acks, LoseAck(t)
  PROVE  ReplicaIInv'
<1>1. acks' = acks \ {t} /\ UNCHANGED <<local, owed, storage, log, pushes, restarts>>
  BY DEF LoseAck
<1>2. TypeOK'
  BY <1>1 DEF ReplicaIInv, TypeOK, local, storage
<1>3. LogGrows
  BY <1>1 DEF LogGrows
<1> QED BY <1>1, <1>2, <1>3, WireKeeps DEF local

\* What another device publishes is its own.
LEMMA PublishKeeps ==
  ASSUME ReplicaIInv, NEW sections \in Envelope, NEW broken \in Rows \cup {None},
         \A d \in Documents : \A u \in sections[d] : u.by = "there", Publish(sections, broken)
  PROVE  ReplicaIInv'
<1> DEFINE entry == [sections |-> sections, by |-> "there", broken |-> broken]
<1>1. TypeOK
  BY DEF ReplicaIInv
<1>2. log' = log \o <<entry>> /\ UNCHANGED <<local, owed, storage, pushes, acks, restarts>>
  BY DEF Publish
<1>3. entry \in LogEntry
  BY DEF LogEntry, Sites
<1>4. entry.sections = sections /\ entry.by = "there"
  OBVIOUS
<1> HIDE DEF entry
<1>5. /\ log' \in Seq(LogEntry) /\ liveCursor \in 0 .. Len(log')
      /\ \A k \in DOMAIN log : k \in DOMAIN log' /\ log'[k] = log[k]
      /\ \A k \in DOMAIN log' : k \in DOMAIN log \/ log'[k] = entry
  BY <1>1, <1>2, <1>3, LogTyped
<1>6. TypeOK'
  BY <1>1, <1>2, <1>5 DEF TypeOK, local, storage
<1>7. LogGrows
  BY <1>4, <1>5 DEF LogGrows
<1>8. UNCHANGED <<retired, liveCursor, ackedThrough, nextOutboxId, owed, storage, pushes, acks>>
  BY <1>2 DEF local
<1> QED BY <1>6, <1>7, <1>8, WireKeeps

LEMMA ForeignKeeps ==
  ASSUME ReplicaIInv, NEW r \in Rows, ForeignCreate(r) \/ ForeignDelete(r) \/ ForeignEdit(r)
  PROVE  ReplicaIInv'
<1>1. \A verb, n : Theirs(verb, r, n).by = "there"
  BY DEF Theirs
<1>2. CASE ForeignCreate(r)
  <2>1. PICK first \in SUBSET {Theirs("edit", r, 1)}, broken \in {None, r} :
          Publish([d \in Documents |-> IF d = App THEN {Theirs("insert", r, 0)}
                                       ELSE IF d = r THEN first ELSE {}], broken)
    BY <1>2 DEF ForeignCreate
  <2> DEFINE sections == [d \in Documents |-> IF d = App THEN {Theirs("insert", r, 0)}
                                              ELSE IF d = r THEN first ELSE {}]
  <2>2. sections \in Envelope
    <3>1. 1 \in 1 .. MaxEdits
      BY BoundsAssumption
    <3>2. first \subseteq Update /\ {Theirs("insert", r, 0)} \subseteq Update
      BY <3>1, RowUpdates
    <3> QED BY <3>2 DEF Envelope
  <2>3. \A d \in Documents : \A u \in sections[d] : u.by = "there"
    BY <1>1
  <2> HIDE DEF sections
  <2> QED BY <2>1, <2>2, <2>3, PublishKeeps DEF sections
<1>3. CASE ForeignDelete(r)
  <2> DEFINE sections == Section(App, {Theirs("delete", r, 0)})
  <2>1. Publish(sections, None)
    BY <1>3 DEF ForeignDelete
  <2>2. sections \in Envelope /\ \A d \in Documents : \A u \in sections[d] : u.by = "there"
    BY <1>1, RowUpdates DEF Envelope, Section
  <2> HIDE DEF sections
  <2> QED BY <2>1, <2>2, PublishKeeps
<1>4. CASE ForeignEdit(r)
  <2>1. PICK n \in 1 .. MaxEdits : Publish(Section(r, {Theirs("edit", r, n)}), None)
    BY <1>4 DEF ForeignEdit
  <2> DEFINE sections == Section(r, {Theirs("edit", r, n)})
  <2>2. sections \in Envelope /\ \A d \in Documents : \A u \in sections[d] : u.by = "there"
    BY <1>1, RowUpdates DEF Envelope, Section
  <2> HIDE DEF sections
  <2> QED BY <2>1, <2>2, PublishKeeps DEF sections
<1> QED BY <1>2, <1>3, <1>4

------------------------------------------------------------------------
(* The theorems. *)

LEMMA InitHolds ==
  ASSUME Init
  PROVE  ReplicaIInv
<1>1. /\ content = Empty.chain /\ retired = Empty.tombstones /\ liveCursor = Empty.cursor
      /\ liveIdentity = Empty.identity /\ ackedThrough = 0 /\ nextOutboxId = NextIdAfter(Empty)
      /\ owed = <<>> /\ engine = Empty /\ mirror = Empty
      /\ log = <<>> /\ pushes = {} /\ acks = {} /\ restarts = 0
  BY DEF Init, Opened
<1>2. /\ Empty.chain = [d \in Documents |-> {}] /\ Empty.outbox = {} /\ Empty.cursor = 0
      /\ Empty.identity = None /\ Empty.tombstones = {}
  BY DEF Empty
<1>3. Empty \in Store
  BY DEF Empty, Store
<1>4. nextOutboxId = 1
  <2> DEFINE ids == {0} \cup {e.id : e \in Empty.outbox}
  <2>1. ids \subseteq Nat /\ ids # {} /\ \A i \in ids : i <= 0
    BY <1>2
  <2>2. \A i \in ids : i = 0
    BY <1>2
  <2>3. nextOutboxId = 1 + Max(ids)
    BY <1>1 DEF NextIdAfter
  <2> HIDE DEF ids
  <2>4. Max(ids) = 0
    BY <2>1, <2>2, MaxIs
  <2> QED BY <2>3, <2>4
<1>5. DOMAIN owed = {} /\ DOMAIN log = {} /\ Len(log) = 0 /\ Entries = {}
  <2>1. DOMAIN owed = {} /\ DOMAIN log = {} /\ Len(log) = 0
    BY <1>1
  <2> QED BY <1>1, <1>2, <2>1 DEF Entries
<1>6. TypeOK
  <2>1. content \in Envelope /\ retired \subseteq Rows /\ liveIdentity \in Identities \cup {None}
    BY <1>1, <1>2 DEF Envelope
  <2>2. liveCursor \in 0 .. Len(log) /\ ackedThrough \in Nat /\ nextOutboxId \in Nat \ {0}
    BY <1>1, <1>2, <1>4, <1>5
  <2>3. owed \in Seq(SUBSET Op) /\ log \in Seq(LogEntry)
    BY <1>1
  <2> QED BY <1>1, <1>3, <2>1, <2>2, <2>3 DEF TypeOK
<1>7. EachItsOwn /\ AcksAreTrue /\ PushesCarryAll
  BY <1>1, <1>5 DEF EachItsOwn, AcksAreTrue, ThereThrough, PushesCarryAll
<1>8. RetirementsAreOwed
  <2>1. \A r : Lives(r, 0, owed)
    BY <1>5 DEF Lives
  <2> QED BY <1>1, <1>2, <1>5, <2>1 DEF RetirementsAreOwed
<1>9. \A d \in Documents : engine.chain[d] = {} /\ mirror.chain[d] = {}
  BY <1>1, <1>2
<1>10. DeletionRetires
  BY <1>1, <1>2, <1>9 DEF DeletionRetires, Documents
<1>11. Backed(engine) /\ Backed(mirror) /\ MirrorIsBehind
  BY <1>1, <1>2, <1>5 DEF Backed, MirrorIsBehind
<1>12. IdsGrow
  BY <1>1, <1>4, <1>5 DEF IdsGrow
<1>13. MergesKeepAll /\ Owes(engine) /\ Owes(mirror)
  BY <1>5, <1>9 DEF MergesKeepAll, Owes
<1>14. CursorsAreOwed
  <2>1. 0 + 1 .. 0 = {}
    OBVIOUS
  <2> QED BY <1>1, <1>2, <1>5, <2>1 DEF CursorsAreOwed
<1>15. CursorBehindBytes
  <2>1. 1 .. 0 = {}
    OBVIOUS
  <2> QED BY <1>1, <1>2, <2>1 DEF CursorBehindBytes
<1>16. OwnEntriesAreDurable /\ OnlyDurableLeaves
  BY <1>1, <1>5 DEF OwnEntriesAreDurable, OnlyDurableLeaves
<1> QED BY <1>6, <1>7, <1>8, <1>10, <1>11, <1>12, <1>13, <1>14, <1>15, <1>16 DEF ReplicaIInv

LEMMA StepHolds ==
  ASSUME ReplicaIInv, Next
  PROVE  ReplicaIInv'
<1>1. TypeOK /\ IdsGrow /\ CursorsAreOwed
  BY DEF ReplicaIInv
<1>2. ASSUME NEW created \in SUBSET Rows, NEW deleted \in SUBSET Rows, Commit(created, deleted)
      PROVE  ReplicaIInv'
  BY <1>2, CommitKeeps
<1>3. ASSUME NEW r \in Rows, EditDocument(r)
      PROVE  ReplicaIInv'
  BY <1>3, EditDocumentKeeps
<1>4. CASE Coalesce
  BY <1>1, <1>4, CoalesceTyped, CoalesceKeeps
<1>5. ASSUME NEW t \in acks, Acknowledge(t)
      PROVE  ReplicaIInv'
  BY <1>5, AcknowledgeKeeps
<1>6. ASSUME NEW id \in Identities, AdoptDocumentIdentity(id)
      PROVE  ReplicaIInv'
  BY <1>6, AdoptKeeps
<1>7. CASE ApplyRemote \/ RefuseRemote \/ Advance
  BY <1>7, ApplyRemoteKeeps, RefuseRemoteKeeps, AdvanceKeeps
<1>8. CASE Land
  BY <1>1, <1>8, LandTyped, LandKeeps
<1>9. CASE Observe
  <2>1. TypeOK'
    BY <1>1, <1>9 DEF Observe, TypeOK, local, wire
  <2> QED BY <1>9, <2>1, ObserveKeeps
<1>10. CASE Restart
  BY <1>1, <1>10, RestartTyped, RestartKeeps
<1>11. ASSUME NEW push \in pushes, Receive(push) \/ LosePush(push)
       PROVE  ReplicaIInv'
  BY <1>11, ReceiveKeeps, LosePushKeeps
<1>12. ASSUME NEW t \in acks, LoseAck(t)
       PROVE  ReplicaIInv'
  BY <1>12, LoseAckKeeps
<1>13. ASSUME NEW r \in Rows, ForeignCreate(r) \/ ForeignDelete(r) \/ ForeignEdit(r)
       PROVE  ReplicaIInv'
  BY <1>13, ForeignKeeps
<1> QED BY <1>2, <1>3, <1>4, <1>5, <1>6, <1>7, <1>8, <1>9, <1>10, <1>11, <1>12, <1>13 DEF Next

\* store.ts, log.ts: the replica's bookkeeping, over every interleaving of local writes,
\* rounds, entries received, commits, crashes and lost messages.
THEOREM Invariance == Spec => []ReplicaIInv
<1>1. Init => ReplicaIInv
  BY InitHolds
<1>2. ReplicaIInv /\ [Next]_vars => ReplicaIInv'
  <2> SUFFICES ASSUME ReplicaIInv, [Next]_vars  PROVE ReplicaIInv'
    OBVIOUS
  <2>1. CASE Next
    BY <2>1, StepHolds
  <2>2. CASE UNCHANGED vars
    <3>1. UNCHANGED <<retired, liveCursor, ackedThrough, nextOutboxId, owed, storage, log, pushes, acks>>
      BY <2>2 DEF vars, local, wire
    <3>2. TypeOK'
      BY <2>2 DEF ReplicaIInv, TypeOK, vars, local, storage, wire
    <3>3. LogGrows
      BY <3>1 DEF LogGrows
    <3> QED BY <3>1, <3>2, <3>3, WireKeeps
  <2> QED BY <2>1, <2>2
<1> QED BY <1>1, <1>2, PTL DEF Spec

\* store.ts:1254-1260 every byte this device authored and holds durably is in the durable
\* outbox, or at the authority, or belongs to a retired document.
THEOREM NothingIsUnowed == Spec => []NothingUnowed
<1>1. ReplicaIInv => NothingUnowed
  BY DEF ReplicaIInv, NothingUnowed
<1> QED BY <1>1, Invariance, PTL

\* store.ts:1665-1671, log.ts:199-207 the durable cursor is never ahead of the bytes it
\* accounts for.
THEOREM CursorStaysBehind == Spec => []CursorBehindBytes
<1>1. ReplicaIInv => CursorBehindBytes
  BY DEF ReplicaIInv
<1> QED BY <1>1, Invariance, PTL

\* store.ts:1797-1802 nothing is offered to the authority that a crash could still take
\* away from this device.
THEOREM OnlyDurableIsOffered == Spec => []OnlyDurableLeaves
<1>1. ReplicaIInv => OnlyDurableLeaves
  BY DEF ReplicaIInv
<1> QED BY <1>1, Invariance, PTL

\* store.ts:1571-1575, log.ts:88-92 the removal of a row and the tombstone of its document
\* are durable together, and no later byte revives the document.
THEOREM DeletionIsRetirement == Spec => []DeletionRetires
<1>1. ReplicaIInv => DeletionRetires
  BY DEF ReplicaIInv
<1> QED BY <1>1, Invariance, PTL

------------------------------------------------------------------------
(* No id is given twice. *)

\* What is added names what no entry names, or merges entries of its document.
LEMMA NamesGrow ==
  ASSUME TypeOK, Longer, IdsName,
         \A k \in Added : \A e \in Inserted(owed'[k]) :
            /\ \A f \in Entries : e.id = f.id => e.document = f.document
            /\ \A j \in Added : \A f \in Inserted(owed'[j]) : e.id = f.id => e.document = f.document
            /\ \A f \in Inserted(owed'[k]) : e.id = f.id => e = f
  PROVE  IdsName'
<1>1. engine' = engine
  BY DEF Longer
<1>2. \A e \in Entries' : e \in Entries \/ \E k \in Added : e \in Inserted(owed'[k])
  BY EntriesGrow DEF Inserted
<1>3. ASSUME NEW e \in Entries', NEW f \in Entries', e.id = f.id
      PROVE  e.document = f.document
  <2>1. CASE e \in Entries /\ f \in Entries
    BY <1>3, <2>1 DEF IdsName
  <2>2. CASE e \in Entries /\ \E k \in Added : f \in Inserted(owed'[k])
    BY <1>3, <2>2
  <2>3. CASE \E k \in Added : e \in Inserted(owed'[k])
    BY <1>2, <1>3, <2>3
  <2> QED BY <1>2, <2>1, <2>2, <2>3
<1>4. ASSUME NEW k \in DOMAIN owed', NEW e \in Inserted(owed'[k]), NEW f \in Inserted(owed'[k]), e.id = f.id
      PROVE  e = f
  <2>1. CASE k \in Added
    BY <1>4, <2>1
  <2>2. CASE k \in DOMAIN owed
    <3>1. owed'[k] = owed[k]
      BY <2>2, LongerIs
    <3> QED BY <1>4, <2>2, <3>1 DEF IdsName
  <2> QED BY <2>1, <2>2, LongerIs
<1> QED BY <1>1, <1>3, <1>4 DEF IdsName

\* A write of this device is named as nothing was.
LEMMA AuthorNames ==
  ASSUME TypeOK, IdsGrow, IdsName, NEW d \in Documents, NEW bytes \in SUBSET Update, NEW gone \in SUBSET Rows,
         Enqueue(<<{AppendTo(d, bytes, {nextOutboxId})} \cup {Retire(r) : r \in gone}>>),
         storage' = storage, log' = log
  PROVE  IdsName'
<1> DEFINE batch == {AppendTo(d, bytes, {nextOutboxId})} \cup {Retire(r) : r \in gone}
           x == [id |-> nextOutboxId, document |-> d, bytes |-> bytes]
<1>1. nextOutboxId \in Nat \ {0}
  BY DEF TypeOK
<1>2. batch \in SUBSET Op
  BY <1>1, Operations
<1>3. Inserts(AppendTo(d, bytes, {nextOutboxId})) = {x}
  BY DEF Inserts, AppendTo
<1>4. \A r \in gone : Inserts(Retire(r)) = {}
  BY DEF Inserts, Retire
<1>5. \A e \in Inserted(batch) : e = x
  BY <1>3, <1>4 DEF Inserted
<1>6. x.id = nextOutboxId
  OBVIOUS
<1> HIDE DEF batch, x
<1>7. Longer /\ \A k \in Added : owed'[k] = batch
  BY <1>2, EnqueueOne DEF batch
<1>8. \A f \in Entries : x.id # f.id
  BY <1>1, <1>6, EntriesAre, EntryFields DEF IdsGrow
<1> QED BY <1>5, <1>7, <1>8, NamesGrow

\* What is neither a write nor a merge names nothing.
LEMMA QuietNames ==
  ASSUME TypeOK, IdsName, NEW batch \in SUBSET Op, Enqueue(<<batch>>), storage' = storage, log' = log,
         \A op \in batch : op.kind # "replaceOutbox" /\ (op.kind = "append" => op.outboxId = {})
  PROVE  IdsName'
<1>1. Longer /\ \A k \in Added : owed'[k] = batch
  BY EnqueueOne
<1>2. Inserted(batch) = {}
  BY InsertsAre DEF Inserted
<1> QED BY <1>1, <1>2, NamesGrow

LEMMA CoalesceNames ==
  ASSUME TypeOK, IdsGrow, IdsName, Coalesce
  PROVE  IdsName'
<1>1. Longer /\ \A k \in Added : \E d \in Crowded : owed'[k] = {MergeOf(d)}
  BY CoalesceDoes
<1>2. ASSUME NEW d \in Crowded
      PROVE  \E g \in Entries : g.id = LastOf(d) /\ g.document = d
  <2>1. PICK g \in OfferedOf(d) : LastOf(d) = g.id
    BY LastIs DEF Crowded
  <2>2. g.document = d /\ g \in Entries
    BY DEF OfferedOf, Offered, Entries
  <2> QED BY <2>1, <2>2
<1>3. ASSUME NEW d \in Crowded, NEW e \in Inserted({MergeOf(d)})
      PROVE  e \in Inserts(MergeOf(d)) /\ e.id = LastOf(d) /\ e.document = d
  <2>1. e \in Inserts(MergeOf(d))
    BY <1>3 DEF Inserted
  <2> QED BY <2>1, MergeIs
<1>4. ASSUME NEW d \in Crowded, NEW e \in Inserted({MergeOf(d)}), NEW f \in Inserted({MergeOf(d)})
      PROVE  e = f
  <2>1. \E x : Inserts(MergeOf(d)) = {x}
    BY DEF Inserts, MergeOf, ReplaceOutbox
  <2> QED BY <1>3, <2>1
<1>5. ASSUME NEW k \in Added, NEW e \in Inserted(owed'[k])
      PROVE  /\ \A f \in Entries : e.id = f.id => e.document = f.document
             /\ \A j \in Added : \A f \in Inserted(owed'[j]) : e.id = f.id => e.document = f.document
             /\ \A f \in Inserted(owed'[k]) : e.id = f.id => e = f
  <2>1. PICK d \in Crowded : owed'[k] = {MergeOf(d)}
    BY <1>1
  <2>2. e.id = LastOf(d) /\ e.document = d
    BY <1>3, <2>1
  <2>3. PICK g \in Entries : g.id = LastOf(d) /\ g.document = d
    BY <1>2
  <2>4. \A f \in Entries : e.id = f.id => e.document = f.document
    BY <2>2, <2>3 DEF IdsName
  <2>5. ASSUME NEW j \in Added, NEW f \in Inserted(owed'[j]), e.id = f.id
        PROVE  e.document = f.document
    <3>1. PICK c \in Crowded : owed'[j] = {MergeOf(c)}
      BY <1>1
    <3>2. f.id = LastOf(c) /\ f.document = c
      BY <1>3, <2>5, <3>1
    <3>3. PICK h \in Entries : h.id = LastOf(c) /\ h.document = c
      BY <1>2
    <3> QED BY <2>2, <2>3, <2>5, <3>2, <3>3 DEF IdsName
  <2>6. \A f \in Inserted(owed'[k]) : e = f
    BY <1>4, <1>5, <2>1
  <2> QED BY <2>4, <2>5, <2>6
<1> QED BY <1>1, <1>5, NamesGrow

\* A batch takes away what was there under the name of what it inserts.
LEMMA Superseded ==
  ASSUME TypeOK, IdsGrow, IdsName, NEW k \in DOMAIN owed, NEW f \in Inserted(owed[k]), NEW e,
         \/ e \in engine.outbox
         \/ \E j \in DOMAIN owed : j < k /\ e \in Inserted(owed[j]),
         e.id = f.id
  PROVE  \E op \in owed[k] : Removes(op, e)
<1>1. PICK op \in owed[k] : f \in Inserts(op)
  BY DEF Inserted
<1>2. op \in Op
  BY OwedFields
<1>3. e \in Entries /\ f \in Entries
  BY DEF Entries
<1>4. e.id \in Nat /\ f.id \in Nat
  BY <1>3, EntriesAre, EntryFields
<1>5. CASE op.kind = "append"
  <2>1. Newest(f.id, k)
    BY <1>1, <1>2, <1>5, InsertsAre DEF IdsGrow
  <2>2. e.id < f.id
    BY <2>1 DEF Newest
  <2> QED BY <1>4, <2>2
<1>6. CASE op.kind = "replaceOutbox"
  <2>1. f.document = op.document /\ f.id = op.throughId
    BY <1>1, <1>2, <1>6, InsertsAre
  <2>2. e.document = f.document
    BY <1>3 DEF IdsName
  <2> QED BY <1>4, <1>6, <2>1, <2>2 DEF Removes
<1> QED BY <1>1, <1>2, <1>5, <1>6, InsertsAre

LEMMA LandNames ==
  ASSUME TypeOK, IdsGrow, IdsName, Land
  PROVE  IdsName'
<1>1. PICK n \in 1 .. Len(owed) : Landed(n)
  BY LandDoes
<1>2. mirror' = mirror
  BY LandDoes
<1>3. /\ Entries' \subseteq Entries /\ n \in Nat
      /\ \A k \in 1 .. n : k \in DOMAIN owed /\ k \in Nat
  BY <1>1, <1>2, LandKeepsWhole
<1>4. \A k \in DOMAIN owed' : n + k \in DOMAIN owed /\ owed'[k] = owed[n + k]
  BY <1>1 DEF Landed
<1>5. ASSUME NEW e \in engine'.outbox
      PROVE  \E j \in 0 .. n : Kept(e, j, n) /\ IF j = 0 THEN e \in engine.outbox ELSE e \in Inserted(owed[j])
  <2>1. \/ e \in engine.outbox /\ Kept(e, 0, n)
        \/ \E j \in 1 .. n : e \in Inserted(owed[j]) /\ Kept(e, j, n)
    BY <1>1 DEF Landed
  <2>2. 0 \in 0 .. n /\ \A j \in 1 .. n : j \in 0 .. n /\ j # 0
    BY <1>3
  <2> QED BY <2>1, <2>2
<1>6. ASSUME NEW e, NEW f, e.id = f.id, NEW j \in 0 .. n, NEW k \in 1 .. n, j < k, Kept(e, j, n),
             IF j = 0 THEN e \in engine.outbox ELSE e \in Inserted(owed[j]), f \in Inserted(owed[k])
      PROVE  FALSE
  <2>1. j = 0 \/ j \in DOMAIN owed
    <3>1. j = 0 \/ j \in 1 .. n
      BY <1>3
    <3> QED BY <1>3, <3>1
  <2>2. \/ e \in engine.outbox
        \/ \E i \in DOMAIN owed : i < k /\ e \in Inserted(owed[i])
    BY <1>6, <2>1
  <2>3. \E op \in owed[k] : Removes(op, e)
    BY <1>3, <1>6, <2>2, Superseded
  <2>4. k \in j + 1 .. n
    BY <1>3, <1>6
  <2> QED BY <1>6, <2>3, <2>4 DEF Kept
<1>7. ASSUME NEW e \in engine'.outbox, NEW f \in engine'.outbox, e.id = f.id
      PROVE  e = f
  <2>1. PICK j \in 0 .. n : Kept(e, j, n) /\ IF j = 0 THEN e \in engine.outbox ELSE e \in Inserted(owed[j])
    BY <1>5
  <2>2. PICK k \in 0 .. n : Kept(f, k, n) /\ IF k = 0 THEN f \in engine.outbox ELSE f \in Inserted(owed[k])
    BY <1>5
  <2>3. ~(j < k)
    <3> SUFFICES ASSUME j < k  PROVE FALSE
      OBVIOUS
    <3>1. k \in 1 .. n /\ k # 0
      BY <1>3
    <3> QED BY <1>6, <1>7, <2>1, <2>2, <3>1
  <2>4. ~(k < j)
    <3> SUFFICES ASSUME k < j  PROVE FALSE
      OBVIOUS
    <3>1. j \in 1 .. n /\ j # 0
      BY <1>3
    <3> QED BY <1>6, <1>7, <2>1, <2>2, <3>1
  <2>5. j = k
    BY <1>3, <2>3, <2>4
  <2>6. CASE j = 0
    BY <1>7, <2>1, <2>2, <2>5, <2>6 DEF IdsName
  <2>7. CASE j \in 1 .. n /\ j # 0
    BY <1>3, <1>7, <2>1, <2>2, <2>5, <2>7 DEF IdsName
  <2> QED BY <1>3, <2>6, <2>7
<1>8. ASSUME NEW k \in DOMAIN owed', NEW e \in Inserted(owed'[k]), NEW f \in Inserted(owed'[k]), e.id = f.id
      PROVE  e = f
  BY <1>4, <1>8 DEF IdsName
<1>9. \A e, f \in Entries' : e.id = f.id => e.document = f.document
  BY <1>3 DEF IdsName
<1> QED BY <1>7, <1>8, <1>9 DEF IdsName

\* An entry that arrives and an entry of this device's own, passed over, name nothing.
LEMMA ReadNames ==
  ASSUME TypeOK, IdsName, ApplyRemote \/ Advance
  PROVE  IdsName'
<1>1. CASE ApplyRemote
  <2> DEFINE batch == Appends \cup {Cursor(liveCursor + 1)}
  <2>1. Enqueue(<<batch>>) /\ batch \in SUBSET Op /\ UNCHANGED <<storage, wire>>
    BY <1>1, ApplyRemoteDoes
  <2>2. \A d \in Taken : /\ AppendTo(d, Incoming.sections[d], {}).kind = "append"
                         /\ AppendTo(d, Incoming.sections[d], {}).outboxId = {}
    BY DEF AppendTo
  <2>3. Cursor(liveCursor + 1).kind = "cursor"
    BY DEF Cursor
  <2>4. \A op \in batch : op.kind # "replaceOutbox" /\ (op.kind = "append" => op.outboxId = {})
    <3> SUFFICES ASSUME NEW op \in batch
                 PROVE  op.kind # "replaceOutbox" /\ (op.kind = "append" => op.outboxId = {})
      OBVIOUS
    <3>1. op = Cursor(liveCursor + 1) \/ \E d \in Taken : op = AppendTo(d, Incoming.sections[d], {})
      BY DEF Appends
    <3> QED BY <2>2, <2>3, <3>1
  <2> HIDE DEF batch
  <2> QED BY <2>1, <2>4, QuietNames DEF wire
<1>2. CASE Advance
  <2> DEFINE batch == {Cursor(liveCursor + 1)}
  <2>1. liveCursor < Len(log) /\ Enqueue(<<batch>>) /\ UNCHANGED <<storage, wire>>
    BY <1>2 DEF Advance
  <2>2. batch \in SUBSET Op
    BY <2>1, IncomingIs, Operations
  <2>3. \A op \in batch : op.kind = "cursor"
    BY DEF Cursor
  <2> HIDE DEF batch
  <2> QED BY <2>1, <2>2, <2>3, QuietNames DEF wire
<1> QED BY <1>1, <1>2

LEMMA NamesStep ==
  ASSUME ReplicaIInv, IdsName, [Next]_vars
  PROVE  IdsName'
<1>1. TypeOK /\ IdsGrow
  BY DEF ReplicaIInv
<1>2. ASSUME NEW created \in SUBSET Rows, NEW deleted \in SUBSET Rows, Commit(created, deleted)
      PROVE  IdsName'
  <2> DEFINE authored == {Insert(r) : r \in created} \cup {Delete(r) : r \in deleted}
  <2>1. authored \in SUBSET Update
    BY RowUpdates
  <2>2. /\ Enqueue(<<{AppendTo(App, authored, {nextOutboxId})} \cup {Retire(r) : r \in deleted}>>)
        /\ UNCHANGED <<storage, wire>>
    BY <1>2 DEF Commit
  <2> HIDE DEF authored
  <2> QED BY <1>1, <2>1, <2>2, AuthorNames DEF wire, Documents
<1>3. ASSUME NEW r \in Rows, EditDocument(r)
      PROVE  IdsName'
  <2>1. PICK n \in 1 .. MaxEdits :
          Enqueue(<<{AppendTo(r, {[verb |-> "edit", row |-> r, by |-> "here", n |-> n]}, {nextOutboxId})}>>)
    BY <1>3 DEF EditDocument
  <2> DEFINE edit == [verb |-> "edit", row |-> r, by |-> "here", n |-> n]
             none == {}
  <2>2. UNCHANGED <<storage, wire>> /\ r \in Documents
    BY <1>3 DEF EditDocument, Documents
  <2>3. {edit} \in SUBSET Update
    BY RowUpdates
  <2>4. {AppendTo(r, {edit}, {nextOutboxId})} = {AppendTo(r, {edit}, {nextOutboxId})} \cup {Retire(x) : x \in none}
    OBVIOUS
  <2>5. Enqueue(<<{AppendTo(r, {edit}, {nextOutboxId})} \cup {Retire(x) : x \in none}>>)
    BY <2>1, <2>4
  <2>6. none \in SUBSET Rows
    OBVIOUS
  <2> HIDE DEF edit, none
  <2> QED BY <1>1, <2>2, <2>3, <2>5, <2>6, AuthorNames DEF wire
<1>4. CASE Coalesce
  BY <1>1, <1>4, CoalesceNames
<1>5. ASSUME NEW t \in acks, Acknowledge(t)
      PROVE  IdsName'
  <2> DEFINE batch == {DropOutbox(t)}
  <2>1. Enqueue(<<batch>>) /\ UNCHANGED <<storage, log>>
    BY <1>5 DEF Acknowledge
  <2>2. t \in Nat
    BY <1>1 DEF TypeOK
  <2>3. batch \in SUBSET Op
    BY <2>2, Operations
  <2>4. \A op \in batch : op.kind = "dropOutbox"
    BY DEF DropOutbox
  <2> HIDE DEF batch
  <2> QED BY <1>1, <2>1, <2>3, <2>4, QuietNames
<1>6. ASSUME NEW id \in Identities, AdoptDocumentIdentity(id)
      PROVE  IdsName'
  <2> DEFINE batch == {Stamp(id)}
  <2>1. Enqueue(<<batch>>) /\ UNCHANGED <<storage, wire>>
    BY <1>6 DEF AdoptDocumentIdentity
  <2>2. batch \in SUBSET Op
    BY Operations
  <2>3. \A op \in batch : op.kind = "identity"
    BY DEF Stamp
  <2> HIDE DEF batch
  <2> QED BY <1>1, <2>1, <2>2, <2>3, QuietNames DEF wire
<1>7. CASE ApplyRemote \/ Advance
  BY <1>1, <1>7, ReadNames
<1>8. CASE Land
  BY <1>1, <1>8, LandNames
<1>9. CASE Observe
  <2>1. mirror' = engine /\ engine' = engine /\ owed' = owed
    BY <1>9 DEF Observe
  <2>2. Entries' \subseteq Entries
    BY <2>1 DEF Entries
  <2> QED BY <2>1, <2>2 DEF IdsName
<1>10. CASE Restart
  <2>1. mirror' = engine /\ engine' = engine /\ owed' = <<>>
    BY <1>10 DEF Restart
  <2>2. DOMAIN owed' = {}
    BY <2>1
  <2>3. Entries' \subseteq Entries
    BY <2>1, <2>2 DEF Entries
  <2> QED BY <2>1, <2>2, <2>3 DEF IdsName
<1>11. ASSUME UNCHANGED <<owed, storage>>
       PROVE  IdsName'
  <2>1. owed' = owed /\ engine' = engine /\ mirror' = mirror
    BY <1>11 DEF storage
  <2> QED BY <2>1 DEF IdsName, Entries
<1>12. CASE RefuseRemote
  BY <1>11, <1>12 DEF RefuseRemote
<1>13. ASSUME NEW push \in pushes, Receive(push) \/ LosePush(push)
       PROVE  IdsName'
  BY <1>11, <1>13 DEF Receive, LosePush
<1>14. ASSUME NEW t \in acks, LoseAck(t)
       PROVE  IdsName'
  BY <1>11, <1>14 DEF LoseAck
<1>15. ASSUME NEW r \in Rows, ForeignCreate(r) \/ ForeignDelete(r) \/ ForeignEdit(r)
       PROVE  IdsName'
  <2>1. \A s, b : Publish(s, b) => UNCHANGED <<owed, storage>>
    BY DEF Publish
  <2>2. UNCHANGED <<owed, storage>>
    BY <1>15, <2>1 DEF ForeignCreate, ForeignDelete, ForeignEdit
  <2> QED BY <1>11, <2>2
<1>16. CASE UNCHANGED vars
  BY <1>11, <1>16 DEF vars
<1> QED BY <1>2, <1>3, <1>4, <1>5, <1>6, <1>7, <1>8, <1>9, <1>10, <1>12, <1>13, <1>14, <1>15, <1>16 DEF Next

\* store.ts:1072-1077 no commit inserts an outbox entry over another, in this session or
\* after a restart: an id in the outbox names one entry, and an id a write still owes is
\* above all the outbox holds and all that was acknowledged.
THEOREM NoIdIsReused == Spec => []IdsAreFresh
<1>1. Init => IdsName
  <2> SUFFICES ASSUME Init  PROVE IdsName
    OBVIOUS
  <2>1. owed = <<>> /\ engine = Empty /\ mirror = Empty
    BY DEF Init, Opened
  <2>2. DOMAIN owed = {} /\ engine.outbox = {} /\ mirror.outbox = {}
    BY <2>1 DEF Empty
  <2> QED BY <2>2 DEF IdsName, Entries
<1>2. ReplicaIInv /\ IdsName /\ [Next]_vars => IdsName'
  BY NamesStep
<1>3. ReplicaIInv /\ IdsName => IdsAreFresh
  BY DEF ReplicaIInv, IdsName, IdsGrow, Newest, IdsAreFresh
<1> QED BY <1>1, <1>2, <1>3, Invariance, PTL DEF Spec
============================================================================
