------------------------ MODULE RowDocuments_proofs ------------------------
(***************************************************************************)
(* What row documents guarantee for every number of addresses, openers and *)
(* updates, over a port that may refuse any batch and fail any read.  The   *)
(* argument: the operations outstanding change in four ways only (they     *)
(* stay, one is appended, a batch leaves in front), and what is accepted   *)
(* for an address is then compared with what its document holds.           *)
(***************************************************************************)
EXTENDS RowDocuments, TLAPS

USE UpdatesAssumption, NoneAssumption

------------------------------------------------------------------------
(* Types. *)

\* The fields of an operation that is enqueued.
LEMMA OpFields ==
  /\ \A op \in Op : /\ op.kind \in {"append", "retire"} /\ op.document \in Rows
                    /\ op.kind = "append" => op.bytes \in Update
  /\ \A r \in Rows, update \in Update :
        /\ Append1(r, update) \in Op /\ Append1(r, update).kind = "append"
        /\ Append1(r, update).document = r /\ Append1(r, update).bytes = update
  /\ \A r \in Rows : RetireOp(r) \in Op /\ RetireOp(r).kind = "retire" /\ RetireOp(r).document = r
  BY DEF Op, Append1, RetireOp

\* The fields of a transaction.
LEMMA TransactionFields ==
  /\ \A t \in Transaction : /\ t.for \in {"hydrate", "state", "commit", "list"}
                            /\ t.for \in {"hydrate", "state"} => t.document \in Rows
                            /\ t = Write <=> t.for = "commit"
  /\ Write \in Transaction /\ Write.for = "commit"
  /\ \A r \in Rows : Read(r) \in Transaction /\ Read(r).for = "hydrate"
  /\ \A r \in Rows : [for |-> "state", document |-> r] \in Transaction
  /\ [for |-> "list", document |-> None] \in Transaction
  BY DEF Transaction, Read, Write

\* The fields of a live document, and what becomes of them.
LEMMA DocumentFields ==
  /\ [holds |-> {}, references |-> 1] \in Document
  /\ \A d \in Document :
        /\ d.holds \subseteq Update /\ d.references \in Nat \ {0} /\ d # None
        /\ [d EXCEPT !.references = @ + 1] \in Document
        /\ [d EXCEPT !.references = @ + 1].holds = d.holds
        /\ d.references > 1 => [d EXCEPT !.references = @ - 1] \in Document
        /\ [d EXCEPT !.references = @ - 1].holds = d.holds
        /\ \A more \in SUBSET Update : /\ [d EXCEPT !.holds = @ \cup more] \in Document
                                       /\ [d EXCEPT !.holds = @ \cup more].holds = d.holds \cup more
<1>1. [holds |-> {}, references |-> 1] \in Document
  BY DEF Document
<1>2. ASSUME NEW d \in Document
      PROVE  /\ d.holds \subseteq Update /\ d.references \in Nat \ {0} /\ d # None
             /\ [d EXCEPT !.references = @ + 1] \in Document
             /\ [d EXCEPT !.references = @ + 1].holds = d.holds
             /\ d.references > 1 => [d EXCEPT !.references = @ - 1] \in Document
             /\ [d EXCEPT !.references = @ - 1].holds = d.holds
  BY <1>2 DEF Document
<1>3. ASSUME NEW d \in Document, NEW more \in SUBSET Update
      PROVE  /\ [d EXCEPT !.holds = @ \cup more] \in Document
             /\ [d EXCEPT !.holds = @ \cup more].holds = d.holds \cup more
  BY <1>3 DEF Document
<1> QED BY <1>1, <1>2, <1>3

------------------------------------------------------------------------
(* The queue. *)

\* What operations append to an address is what the first and the rest of them do.
LEMMA AppendsConcat ==
  ASSUME NEW s \in Seq(Op), NEW t \in Seq(Op), NEW r \in Rows
  PROVE  AppendsOf(r, s \o t) = AppendsOf(r, s) \cup AppendsOf(r, t)
<1> DEFINE u == s \o t
<1>1. /\ u \in Seq(Op) /\ Len(u) = Len(s) + Len(t) /\ Len(s) \in Nat /\ Len(t) \in Nat
      /\ DOMAIN u = 1 .. Len(s) + Len(t) /\ DOMAIN s = 1 .. Len(s) /\ DOMAIN t = 1 .. Len(t)
      /\ \A i \in 1 .. Len(s) : u[i] = s[i]
      /\ \A i \in 1 .. Len(t) : u[Len(s) + i] = t[i]
  OBVIOUS
<1> HIDE DEF u
<1>2. ASSUME NEW i \in OfKind("append", r, u)
      PROVE  u[i].bytes \in AppendsOf(r, s) \cup AppendsOf(r, t)
  <2>1. CASE i \in 1 .. Len(s)
    BY <1>1, <2>1 DEF OfKind, AppendsOf
  <2>2. CASE i \notin 1 .. Len(s)
    <3>1. i - Len(s) \in 1 .. Len(t) /\ i = Len(s) + (i - Len(s))
      BY <1>1, <2>2 DEF OfKind
    <3>2. PICK j \in 1 .. Len(t) : u[i] = t[j]
      BY <1>1, <3>1
    <3> QED BY <1>1, <3>2 DEF OfKind, AppendsOf
  <2> QED BY <2>1, <2>2
<1>3. ASSUME NEW i \in OfKind("append", r, s) PROVE s[i].bytes \in AppendsOf(r, u)
  BY <1>1 DEF OfKind, AppendsOf
<1>4. ASSUME NEW i \in OfKind("append", r, t) PROVE t[i].bytes \in AppendsOf(r, u)
  <2>1. Len(s) + i \in DOMAIN u /\ u[Len(s) + i] = t[i]
    BY <1>1 DEF OfKind
  <2> QED BY <2>1 DEF OfKind, AppendsOf
<1> QED BY <1>2, <1>3, <1>4 DEF AppendsOf, u

\* What is pending is what the outstanding operations append.
LEMMA PendingIs ==
  ASSUME TypeOK, NEW r \in Rows
  PROVE  PendingAppends(r) = AppendsOf(r, Outstanding) /\ Outstanding \in Seq(Op)
  BY AppendsConcat DEF TypeOK, PendingAppends, Outstanding

\* One more operation appends its update to its own address.
LEMMA AppendsOne ==
  ASSUME NEW s \in Seq(Op), NEW op \in Op, NEW r \in Rows
  PROVE  AppendsOf(r, Append(s, op)) =
             AppendsOf(r, s) \cup (IF op.kind = "append" /\ op.document = r THEN {op.bytes} ELSE {})
<1> DEFINE t == <<op>>
<1>1. t \in Seq(Op) /\ Append(s, op) = s \o t /\ DOMAIN t = {1} /\ t[1] = op
  OBVIOUS
<1> HIDE DEF t
<1>2. AppendsOf(r, t) = IF op.kind = "append" /\ op.document = r THEN {op.bytes} ELSE {}
  BY <1>1 DEF AppendsOf, OfKind
<1> QED BY <1>1, <1>2, AppendsConcat

\* enqueue() puts an operation behind what is outstanding, whether or not a batch is out.
LEMMA EnqueueDoes ==
  ASSUME TypeOK, NEW op \in Op, Enqueue(op)
  PROVE  /\ queue' \in Seq(Op) /\ flying' \in Seq(Op) /\ transactions' \in Seq(Transaction)
         /\ Outstanding' = Append(Outstanding, op)
<1>1. queue \in Seq(Op) /\ flying \in Seq(Op) /\ transactions \in Seq(Transaction)
      /\ Write \in Transaction
  BY TransactionFields DEF TypeOK
<1>2. CASE flying = <<>>
  <2>1. flying' = queue \o <<op>> /\ queue' = <<>> /\ transactions' = transactions \o <<Write>>
    BY <1>2 DEF Enqueue
  <2>2. queue' \in Seq(Op) /\ flying' \in Seq(Op) /\ transactions' \in Seq(Transaction)
    BY <1>1, <2>1
  <2>3. Outstanding' = Append(Outstanding, op)
    BY <1>1, <1>2, <2>1 DEF Outstanding
  <2> QED BY <2>2, <2>3
<1>3. CASE flying # <<>>
  <2>1. queue' = queue \o <<op>> /\ flying' = flying /\ transactions' = transactions
    BY <1>3 DEF Enqueue
  <2>2. flying \o (queue \o <<op>>) = Append(flying \o queue, op)
    BY <1>1
  <2> QED BY <1>1, <2>1, <2>2 DEF Outstanding
<1> QED BY <1>2, <1>3

\* After a batch ended what waited is outstanding, and nothing else.
LEMMA NextBatchDoes ==
  ASSUME NEW waiting \in Seq(Op), NEW rest \in Seq(Transaction), NextBatch(waiting, rest)
  PROVE  /\ queue' \in Seq(Op) /\ flying' \in Seq(Op) /\ transactions' \in Seq(Transaction)
         /\ Outstanding' = waiting
<1>1. Write \in Transaction
  BY TransactionFields
<1>2. queue' = <<>> /\ flying' = waiting /\ transactions' \in Seq(Transaction)
  BY <1>1 DEF NextBatch
<1> QED BY <1>2 DEF Outstanding

\* A batch that lands moves what it appended from the queue to the chain; a retirement
\* in it takes away, and adds nothing.
LEMMA LandsAccepted ==
  ASSUME TypeOK, CommitLands, NEW r \in Rows
  PROVE  /\ Accepted(r)' \subseteq Accepted(r)
         /\ OfKind("retire", r, flying) = {} => Accepted(r)' = Accepted(r)
<1>1. queue \in Seq(Op) /\ flying \in Seq(Op) /\ transactions \in Seq(Transaction)
      /\ transactions # <<>> /\ chain[r] \subseteq Update
  BY DEF TypeOK, CommitLands
<1>2. queue' = <<>> /\ flying' = queue
  BY DEF CommitLands, NextBatch
<1>3. PendingAppends(r)' = AppendsOf(r, queue)
  BY <1>2 DEF PendingAppends, AppendsOf, OfKind
<1>4. chain'[r] = Applied(chain[r], r, flying)
  BY DEF CommitLands
<1>5. chain'[r] \subseteq chain[r] \cup AppendsOf(r, flying)
  BY <1>4 DEF Applied, AppendsOf
<1>6. ASSUME OfKind("retire", r, flying) = {}
      PROVE  chain'[r] = chain[r] \cup AppendsOf(r, flying)
  <2>1. {i \in OfKind("append", r, flying) : \A j \in OfKind("retire", r, flying) : j < i} =
            OfKind("append", r, flying)
    BY <1>6
  <2> QED BY <1>4, <1>6, <2>1 DEF Applied, AppendsOf
<1> QED BY <1>3, <1>5, <1>6 DEF Accepted, PendingAppends

------------------------------------------------------------------------
(* What the steps do to an address. *)

\* Somebody else's address.
Elsewhere(r) == \A q \in Rows : q # r => live'[q] = live[q]

\* A release leaves what the document holds, or no document.
LEMMA ReleasedDoes ==
  ASSUME TypeOK, NEW r \in Rows, live' = Released(r)
  PROVE  /\ live' \in [Rows -> {None} \cup Document] /\ Elsewhere(r)
         /\ live'[r] # None => live[r] # None /\ live'[r].holds = live[r].holds
<1>1. live \in [Rows -> {None} \cup Document]
  BY DEF TypeOK
<1>2. CASE live[r] = None
  BY <1>1, <1>2 DEF Released, Elsewhere
<1>3. CASE live[r] # None /\ live[r].references > 1
  <2>1. live[r] \in Document /\ [live[r] EXCEPT !.references = @ - 1] \in Document
        /\ [live[r] EXCEPT !.references = @ - 1].holds = live[r].holds
    BY <1>1, <1>3, DocumentFields
  <2>2. live' = [live EXCEPT ![r] = [live[r] EXCEPT !.references = @ - 1]]
    BY <1>1, <1>3 DEF Released
  <2> QED BY <1>1, <1>3, <2>1, <2>2 DEF Elsewhere
<1>4. CASE live[r] # None /\ ~(live[r].references > 1)
  <2>1. live' = [live EXCEPT ![r] = None]
    BY <1>4 DEF Released
  <2> QED BY <1>1, <2>1 DEF Elsewhere
<1> QED BY <1>2, <1>3, <1>4

\* A document that takes more updates holds them beside what it held.
LEMMA HoldsMore ==
  ASSUME TypeOK, NEW r \in Rows, NEW more \in SUBSET Update, live[r] # None,
         live' = [live EXCEPT ![r].holds = @ \cup more]
  PROVE  /\ live' \in [Rows -> {None} \cup Document] /\ Elsewhere(r)
         /\ live'[r] # None /\ live'[r].holds = live[r].holds \cup more
<1>1. live \in [Rows -> {None} \cup Document]
  BY DEF TypeOK
<1>2. live[r] \in Document
  BY <1>1
<1>3. live' = [live EXCEPT ![r] = [live[r] EXCEPT !.holds = @ \cup more]]
  BY <1>1
<1>4. /\ [live[r] EXCEPT !.holds = @ \cup more] \in Document
      /\ [live[r] EXCEPT !.holds = @ \cup more].holds = live[r].holds \cup more
  BY <1>2, DocumentFields
<1>5. [live[r] EXCEPT !.holds = @ \cup more] # None
  BY <1>4, DocumentFields
<1> QED BY <1>1, <1>3, <1>4, <1>5 DEF Elsewhere

\* An open leaves a document that holds what the live one held, or nothing yet.
LEMMA OpenDoes ==
  ASSUME TypeOK, NEW o \in Openers, NEW r \in Rows, Open(o, r)
  PROVE  /\ live' \in [Rows -> {None} \cup Document] /\ Elsewhere(r) /\ r \notin retired
         /\ \A q \in Rows : q # r => hydration'[q] = hydration[q]
         /\ hydration' \in [Rows -> {"none", "reading", "done", "failed"}]
         /\ live'[r] # None
         /\ \/ live[r] = None /\ live'[r].holds = {} /\ hydration'[r] = "reading"
            \/ live[r] # None /\ live'[r].holds = live[r].holds /\ hydration' = hydration
         /\ transactions' \in Seq(Transaction)
         /\ opener' \in [Openers -> [at : {"idle"}, document : {None}]
                                     \cup [at : {"waiting", "holding"}, document : Rows]]
         /\ UNCHANGED <<retired, chain, queue, flying, snapshot, taken, disposed>>
<1>1. /\ live \in [Rows -> {None} \cup Document] /\ transactions \in Seq(Transaction)
      /\ hydration \in [Rows -> {"none", "reading", "done", "failed"}]
  BY DEF TypeOK
<1>2. opener' \in [Openers -> [at : {"idle"}, document : {None}]
                               \cup [at : {"waiting", "holding"}, document : Rows]]
  BY DEF TypeOK, Open
<1>3. CASE live[r] = None
  <2>1. /\ live' = [live EXCEPT ![r] = [holds |-> {}, references |-> 1]]
        /\ hydration' = [hydration EXCEPT ![r] = "reading"]
        /\ transactions' = transactions \o <<Read(r)>>
    BY <1>3 DEF Open
  <2>2. [holds |-> {}, references |-> 1] # None /\ [holds |-> {}, references |-> 1] \in Document
    BY DocumentFields
  <2>3. transactions' \in Seq(Transaction)
    BY <1>1, <2>1, TransactionFields
  <2>4. live' \in [Rows -> {None} \cup Document] /\ Elsewhere(r) /\ live'[r] # None
        /\ live'[r].holds = {}
    BY <1>1, <2>1, <2>2 DEF Elsewhere
  <2> QED BY <1>1, <1>2, <1>3, <2>1, <2>3, <2>4 DEF Open
<1>4. CASE live[r] # None
  <2>1. live' = [live EXCEPT ![r] = [live[r] EXCEPT !.references = @ + 1]]
    BY <1>1, <1>4 DEF Open
  <2>2. /\ [live[r] EXCEPT !.references = @ + 1] \in Document
        /\ [live[r] EXCEPT !.references = @ + 1] # None
        /\ [live[r] EXCEPT !.references = @ + 1].holds = live[r].holds
    BY <1>1, <1>4, DocumentFields
  <2>3. live' \in [Rows -> {None} \cup Document] /\ Elsewhere(r) /\ live'[r] # None
        /\ live'[r].holds = live[r].holds
    BY <1>1, <2>1, <2>2 DEF Elsewhere
  <2> QED BY <1>1, <1>2, <1>4, <2>3 DEF Open
<1> QED BY <1>3, <1>4

\* A hydration ends: the document, if it is still live, holds beside what it held all
\* the store has accepted for its address.
LEMMA HydrateDoes ==
  ASSUME TypeOK, Hydrate
  PROVE  \E r \in Rows :
           /\ live' \in [Rows -> {None} \cup Document] /\ Elsewhere(r)
           /\ hydration' = [hydration EXCEPT ![r] = "done"]
           /\ transactions' \in Seq(Transaction)
           /\ live[r] = None => live'[r] = None
           /\ live[r] # None => /\ live'[r] # None
                                /\ live'[r].holds = live[r].holds \cup Accepted(r)
           /\ UNCHANGED <<retired, opener, chain, queue, flying, snapshot, taken, disposed>>
<1>1. transactions \in Seq(Transaction) /\ transactions # <<>>
      /\ live \in [Rows -> {None} \cup Document]
  BY DEF TypeOK, Hydrate
<1>2. Head(transactions) \in Transaction /\ Tail(transactions) \in Seq(Transaction)
  BY <1>1
<1>3. PICK r \in Rows : r = Head(transactions).document
  BY <1>2, TransactionFields DEF Hydrate
<1>4. Accepted(r) \in SUBSET Update
  <2>1. AppendsOf(r, Outstanding) \subseteq Update
    <3>1. Outstanding \in Seq(Op)
      BY PendingIs
    <3>2. \A i \in DOMAIN Outstanding : Outstanding[i] \in Op
      BY <3>1
    <3> QED BY <3>2, OpFields DEF AppendsOf, OfKind
  <2> QED BY <2>1, PendingIs DEF Accepted, TypeOK
<1>5. /\ hydration' = [hydration EXCEPT ![r] = "done"]
      /\ live' = IF live[r] = None THEN live
                 ELSE [live EXCEPT ![r].holds = @ \cup Accepted(r)]
      /\ transactions' = Tail(transactions)
      /\ UNCHANGED <<retired, opener, chain, queue, flying, snapshot, taken, disposed>>
  BY <1>3 DEF Hydrate, Accepted
<1>6. CASE live[r] = None
  BY <1>1, <1>2, <1>5, <1>6 DEF Elsewhere
<1>7. CASE live[r] # None
  BY <1>2, <1>4, <1>5, <1>7, HoldsMore
<1> QED BY <1>6, <1>7

\* An edit or an update from elsewhere is held by the live document, if there is one, and
\* enqueued; or it reaches nothing.
Takes(r, update) ==
    /\ queue' \in Seq(Op) /\ flying' \in Seq(Op) /\ transactions' \in Seq(Transaction)
    /\ live' \in [Rows -> {None} \cup Document] /\ Elsewhere(r)
    /\ \/ UNCHANGED <<live, queue, flying>>
       \/ /\ Outstanding' = Append(Outstanding, Append1(r, update))
          /\ live[r] = None => live'[r] = None
          /\ live[r] # None => live'[r] # None /\ live'[r].holds = live[r].holds \cup {update}
\* What an edit through a handle does; without a live document it reaches nothing.
LEMMA Write1Does ==
  ASSUME TypeOK, NEW o \in Openers, NEW update \in Mine, Write1(o, update)
  PROVE  \E r \in Rows : /\ Takes(r, update)
                         /\ live[r] = None => UNCHANGED <<live, queue, flying>>
                         /\ taken' = taken \cup {update}
                         /\ UNCHANGED <<hydration, retired, opener, chain, snapshot, disposed>>
<1>1. PICK r \in Rows : r = opener[o].document
  BY DEF Write1, TypeOK
<1>2. update \in Update /\ live \in [Rows -> {None} \cup Document]
  BY DEF Update, TypeOK
<1>3. CASE live[r] = None
  <2>1. UNCHANGED <<live, queue, flying, transactions>>
    BY <1>1, <1>3 DEF Write1
  <2> QED BY <1>2, <2>1 DEF Write1, Takes, TypeOK, Elsewhere
<1>4. CASE live[r] # None
  <2>1. live' = [live EXCEPT ![r].holds = @ \cup {update}] /\ Enqueue(Append1(r, update))
    BY <1>1, <1>4 DEF Write1
  <2>2. Append1(r, update) \in Op
    BY <1>2, OpFields
  <2>3. /\ live' \in [Rows -> {None} \cup Document] /\ Elsewhere(r)
        /\ live'[r] # None /\ live'[r].holds = live[r].holds \cup {update}
    <3>1. {update} \in SUBSET Update
      BY <1>2
    <3> QED BY <1>4, <2>1, <3>1, HoldsMore
  <2>4. Takes(r, update)
    BY <1>4, <2>1, <2>2, <2>3, EnqueueDoes DEF Takes
  <2> QED BY <1>4, <2>4 DEF Write1
<1> QED BY <1>3, <1>4

\* What an update from elsewhere does; a retired address takes none.
LEMMA AcceptRemoteDoes ==
  ASSUME TypeOK, NEW r \in Rows, NEW update \in Theirs, AcceptRemote(r, update)
  PROVE  /\ Takes(r, update)
         /\ r \in retired => UNCHANGED <<live, queue, flying>>
         /\ taken' = taken \cup {update}
         /\ UNCHANGED <<hydration, retired, opener, chain, snapshot, disposed>>
<1>1. update \in Update /\ live \in [Rows -> {None} \cup Document]
  BY DEF Update, TypeOK
<1>2. CASE r \in retired
  BY <1>1, <1>2 DEF AcceptRemote, Takes, TypeOK, Elsewhere
<1>3. CASE r \notin retired
  <2>1. Append1(r, update) \in Op /\ Enqueue(Append1(r, update))
    BY <1>1, <1>3, OpFields DEF AcceptRemote
  <2>2. CASE live[r] = None
    <3>1. live' = live
      BY <1>3, <2>2 DEF AcceptRemote
    <3>2. Takes(r, update)
      BY <1>1, <2>1, <2>2, <3>1, EnqueueDoes DEF Takes, Elsewhere
    <3> QED BY <1>3, <3>2 DEF AcceptRemote
  <2>3. CASE live[r] # None
    <3>1. live' = [live EXCEPT ![r].holds = @ \cup {update}]
      BY <1>3, <2>3 DEF AcceptRemote
    <3>2. /\ live' \in [Rows -> {None} \cup Document] /\ Elsewhere(r)
          /\ live'[r] # None /\ live'[r].holds = live[r].holds \cup {update}
      <4>1. {update} \in SUBSET Update
        BY <1>1
      <4> QED BY <2>3, <3>1, <4>1, HoldsMore
    <3>3. Takes(r, update)
      BY <2>1, <2>3, <3>2, EnqueueDoes DEF Takes
    <3> QED BY <1>3, <3>3 DEF AcceptRemote
  <2> QED BY <2>2, <2>3
<1> QED BY <1>2, <1>3

\* A retirement unloads its document and is enqueued.
LEMMA RetireDoes ==
  ASSUME TypeOK, NEW r \in Rows, Retire(r)
  PROVE  /\ live' \in [Rows -> {None} \cup Document] /\ Elsewhere(r) /\ live'[r] = None
         /\ queue' \in Seq(Op) /\ flying' \in Seq(Op) /\ transactions' \in Seq(Transaction)
         /\ Outstanding' = Append(Outstanding, RetireOp(r)) /\ retired' = retired \cup {r}
         /\ UNCHANGED <<hydration, opener, chain, snapshot, taken, disposed>>
<1>1. RetireOp(r) \in Op /\ Enqueue(RetireOp(r))
  BY OpFields DEF Retire
<1> QED BY <1>1, EnqueueDoes DEF Retire, Elsewhere, TypeOK

\* A batch that ends, landed or refused, leaves the queue as it was, or without it.
LEMMA BatchEnds ==
  ASSUME TypeOK, CommitLands \/ CommitRefused
  PROVE  /\ queue' \in Seq(Op) /\ flying' \in Seq(Op) /\ transactions' \in Seq(Transaction)
         /\ chain' \in [Rows -> SUBSET Update]
         /\ \/ CommitLands /\ Outstanding' = queue
            \/ Outstanding' = Outstanding /\ \A r \in Rows : Accepted(r)' = Accepted(r)
         /\ UNCHANGED <<documents, snapshot, taken, disposed>>
<1>1. queue \in Seq(Op) /\ flying \in Seq(Op) /\ transactions \in Seq(Transaction)
      /\ chain \in [Rows -> SUBSET Update] /\ transactions # <<>>
  BY DEF TypeOK, CommitLands, CommitRefused
<1>2. Tail(transactions) \in Seq(Transaction) /\ flying \o queue \in Seq(Op)
  BY <1>1
<1>3. CASE CommitLands
  <2>1. \A r \in Rows : chain'[r] \subseteq Update
    <3> SUFFICES ASSUME NEW r \in Rows PROVE chain'[r] \subseteq Update
      OBVIOUS
    <3>1. chain'[r] = Applied(chain[r], r, flying) /\ chain[r] \subseteq Update
      BY <1>1, <1>3 DEF CommitLands
    <3>2. \A i \in OfKind("append", r, flying) : flying[i].bytes \in Update
      <4>1. \A i \in DOMAIN flying : flying[i] \in Op
        BY <1>1
      <4> QED BY <4>1, OpFields DEF OfKind
    <3> QED BY <3>1, <3>2 DEF Applied
  <2>2. DOMAIN chain' = Rows /\ chain' = [r \in Rows |-> chain'[r]]
    BY <1>3 DEF CommitLands
  <2>3. NextBatch(queue, Tail(transactions))
    BY <1>3 DEF CommitLands
  <2> QED BY <1>1, <1>2, <1>3, <2>1, <2>2, <2>3, NextBatchDoes DEF CommitLands
<1>4. CASE CommitRefused
  <2>1. /\ queue' \in Seq(Op) /\ flying' \in Seq(Op) /\ transactions' \in Seq(Transaction)
        /\ Outstanding' = Outstanding
    <3>1. CASE queue # <<>>
      <4>1. NextBatch(flying \o queue, Tail(transactions))
        BY <1>4, <3>1 DEF CommitRefused
      <4> QED BY <1>2, <4>1, NextBatchDoes DEF Outstanding
    <3>2. CASE queue = <<>>
      <4>1. flying' = <<>> /\ queue' = flying /\ transactions' = Tail(transactions)
        BY <1>4, <3>2 DEF CommitRefused
      <4>2. <<>> \o flying = flying \o <<>>
        BY <1>1
      <4> QED BY <1>1, <1>2, <3>2, <4>1, <4>2 DEF Outstanding
    <3> QED BY <3>1, <3>2
  <2>2. UNCHANGED chain
    BY <1>4 DEF CommitRefused
  <2>3. \A r \in Rows : PendingAppends(r)' = PendingAppends(r)
    <3> SUFFICES ASSUME NEW r \in Rows PROVE PendingAppends(r)' = PendingAppends(r)
      OBVIOUS
    <3>1. PendingAppends(r)' = AppendsOf(r, flying' \o queue')
      BY <2>1, AppendsConcat DEF PendingAppends, AppendsOf, OfKind
    <3> QED BY <2>1, <3>1, PendingIs DEF Outstanding
  <2> QED BY <1>1, <1>4, <2>1, <2>2, <2>3 DEF CommitRefused, Accepted
<1> QED BY <1>3, <1>4

------------------------------------------------------------------------
(* The snapshot. *)

\* Looking at a section tells its address and its bytes.
LEMMA SectionFields ==
  /\ \A r \in Rows, bytes \in SUBSET Update :
        /\ [document |-> r, bytes |-> bytes] \in Section
        /\ [document |-> r, bytes |-> bytes].document = r
        /\ [document |-> r, bytes |-> bytes].bytes = bytes
  BY DEF Section

\* The sections of live documents are of documents that are live, with what they hold.
LEMMA LiveSectionsAre ==
  ASSUME TypeOK, NEW todo \in SUBSET Rows
  PROVE  /\ LiveSections(todo) \subseteq Section
         /\ \A section \in LiveSections(todo) :
               /\ section.document \in Rows /\ live[section.document] # None
               /\ section.bytes = live[section.document].holds
<1>1. ASSUME NEW r \in (todo \cap LiveKeys) \ retired
      PROVE  live[r] # None /\ live[r].holds \in SUBSET Update /\ r \in Rows
  BY DocumentFields DEF LiveKeys, TypeOK
<1>2. ASSUME NEW section \in LiveSections(todo)
      PROVE  \E r \in (todo \cap LiveKeys) \ retired :
                section = [document |-> r, bytes |-> live[r].holds]
  BY DEF LiveSections
<1>3. ASSUME NEW section \in LiveSections(todo)
      PROVE  /\ section \in Section /\ section.document \in Rows
             /\ live[section.document] # None
             /\ section.bytes = live[section.document].holds
  <2>1. PICK r \in (todo \cap LiveKeys) \ retired :
            section = [document |-> r, bytes |-> live[r].holds]
    BY <1>2
  <2> QED BY <1>1, <2>1, SectionFields
<1> QED BY <1>3

\* A stretch of the loop adds sections of live documents only, and asks for one
\* document at most.
LEMMA WalkDoes ==
  ASSUME TypeOK, NEW todo \in SUBSET Rows, NEW sections \in SUBSET Section,
         NEW rest \in Seq(Transaction), Walk(todo, sections, rest)
  PROVE  /\ snapshot' \in [at : {"idle", "listing", "reading"}, todo : SUBSET Rows,
                           document : Rows \cup {None}, sections : SUBSET Section]
         /\ \A section \in snapshot'.sections \ sections :
               /\ section.document \in Rows /\ live[section.document] # None
               /\ section.bytes = live[section.document].holds
         /\ transactions' \in Seq(Transaction)
<1>1. CASE /\ \A r \in todo : Skipped(r)
           /\ snapshot' = [at |-> "idle", todo |-> {}, document |-> None,
                           sections |-> sections \cup LiveSections(todo)]
           /\ transactions' = rest
  <2>1. LiveSections(todo) \subseteq Section
    BY LiveSectionsAre
  <2>2. /\ snapshot' \in [at : {"idle", "listing", "reading"}, todo : SUBSET Rows,
                          document : Rows \cup {None}, sections : SUBSET Section]
        /\ snapshot'.sections = sections \cup LiveSections(todo)
    <3>1. sections \cup LiveSections(todo) \in SUBSET Section
      BY <2>1
    <3> QED BY <1>1, <3>1
  <2>3. \A section \in snapshot'.sections \ sections : section \in LiveSections(todo)
    BY <2>2
  <2> QED BY <1>1, <2>2, <2>3, LiveSectionsAre
<1>2. ASSUME NEW r \in todo, NEW before \in SUBSET todo,
             snapshot' = [at |-> "reading", todo |-> todo \ (before \cup {r}),
                          document |-> r, sections |-> sections \cup LiveSections(before)],
             transactions' = rest \o <<[for |-> "state", document |-> r]>>
      PROVE  /\ snapshot' \in [at : {"idle", "listing", "reading"}, todo : SUBSET Rows,
                               document : Rows \cup {None}, sections : SUBSET Section]
             /\ \A section \in snapshot'.sections \ sections :
                   /\ section.document \in Rows /\ live[section.document] # None
                   /\ section.bytes = live[section.document].holds
             /\ transactions' \in Seq(Transaction)
  <2>1. LiveSections(before) \subseteq Section
    BY LiveSectionsAre
  <2>2. /\ snapshot' \in [at : {"idle", "listing", "reading"}, todo : SUBSET Rows,
                          document : Rows \cup {None}, sections : SUBSET Section]
        /\ snapshot'.sections = sections \cup LiveSections(before)
    BY <1>2, <2>1
  <2>3. [for |-> "state", document |-> r] \in Transaction
    BY TransactionFields
  <2>4. transactions' \in Seq(Transaction)
    BY <1>2, <2>3
  <2> QED BY <2>2, <2>4, LiveSectionsAre
<1> QED BY <1>1, <1>2 DEF Walk

\* A snapshot that goes on adds sections that are all of what a live document holds, or
\* all the store has accepted for an address.
SectionIsGood(section) ==
    /\ section.document \in Rows
    /\ \/ section.bytes = Accepted(section.document)
       \/ /\ live[section.document] # None
          /\ section.bytes = live[section.document].holds
Snapshots == SnapshotStarts \/ SnapshotLists \/ SnapshotReads \/ SnapshotFails

\* The updates accepted for an address are updates.
LEMMA AcceptedAre ==
  ASSUME TypeOK, NEW r \in Rows
  PROVE  Accepted(r) \in SUBSET Update
<1>1. Outstanding \in Seq(Op) /\ PendingAppends(r) = AppendsOf(r, Outstanding)
  BY PendingIs
<1>2. \A i \in DOMAIN Outstanding : Outstanding[i] \in Op
  BY <1>1
<1>3. AppendsOf(r, Outstanding) \subseteq Update
  BY <1>2, OpFields DEF AppendsOf, OfKind
<1> QED BY <1>1, <1>3 DEF Accepted, TypeOK

\* A snapshot starts, goes on or ends with sections that are good, and touches nothing
\* else.
LEMMA SnapshotsDo ==
  ASSUME TypeOK, Snapshots
  PROVE  /\ snapshot' \in [at : {"idle", "listing", "reading"}, todo : SUBSET Rows,
                           document : Rows \cup {None}, sections : SUBSET Section]
         /\ transactions' \in Seq(Transaction)
         /\ \A section \in snapshot'.sections \ snapshot.sections : SectionIsGood(section)
         /\ UNCHANGED <<documents, chain, queue, flying, taken, disposed>>
<1>0. /\ transactions \in Seq(Transaction) /\ snapshot.todo \in SUBSET Rows
      /\ snapshot.sections \in SUBSET Section /\ None \in Rows \cup {None}
      /\ transactions # <<>> => /\ Tail(transactions) \in Seq(Transaction)
                                /\ Head(transactions) \in Transaction
  BY DEF TypeOK
<1>1. CASE SnapshotStarts
  <2>1. /\ snapshot' = [at |-> "listing", todo |-> LiveKeys, document |-> None, sections |-> {}]
        /\ transactions' = transactions \o <<[for |-> "list", document |-> None]>>
        /\ LiveKeys \in SUBSET Rows
    BY <1>1 DEF SnapshotStarts, LiveKeys
  <2>2. transactions' \in Seq(Transaction)
    BY <1>0, <2>1, TransactionFields
  <2>3. snapshot' \in [at : {"idle", "listing", "reading"}, todo : SUBSET Rows,
                       document : Rows \cup {None}, sections : SUBSET Section]
        /\ snapshot'.sections = {}
    BY <2>1
  <2> QED BY <1>1, <2>2, <2>3 DEF SnapshotStarts
<1>2. CASE SnapshotLists
  <2>1. PICK listed \in {{r \in Rows : chain[r] # {}}, {}} :
            Walk(snapshot.todo \cup listed \cup PendingDocuments, {}, Tail(transactions))
    BY <1>2 DEF SnapshotLists
  <2>2. snapshot.todo \cup listed \cup PendingDocuments \in SUBSET Rows /\ {} \in SUBSET Section
    BY <1>0 DEF PendingDocuments
  <2>3. transactions # <<>>
    BY <1>2 DEF SnapshotLists
  <2>4. /\ snapshot' \in [at : {"idle", "listing", "reading"}, todo : SUBSET Rows,
                          document : Rows \cup {None}, sections : SUBSET Section]
        /\ \A section \in snapshot'.sections :
              /\ section.document \in Rows /\ live[section.document] # None
              /\ section.bytes = live[section.document].holds
        /\ transactions' \in Seq(Transaction)
    BY <1>0, <2>1, <2>2, <2>3, WalkDoes
  <2> QED BY <1>2, <2>4 DEF SnapshotLists, SectionIsGood
<1>3. CASE SnapshotReads
  <2>1. transactions # <<>> /\ Head(transactions).for = "state"
    BY <1>3 DEF SnapshotReads
  <2>2. PICK r \in Rows : r = Head(transactions).document
    BY <1>0, <2>1, TransactionFields
  <2>3. PICK section \in SUBSET {[document |-> r, bytes |-> Accepted(r)]} :
            Walk(snapshot.todo, snapshot.sections \cup section, Tail(transactions))
    BY <1>3, <2>2 DEF SnapshotReads, Accepted
  <2>4. section \in SUBSET Section /\ \A s \in section : SectionIsGood(s)
    BY <2>3, AcceptedAre, SectionFields DEF SectionIsGood
  <2>5. snapshot.sections \cup section \in SUBSET Section
    BY <1>0, <2>4
  <2>6. /\ snapshot' \in [at : {"idle", "listing", "reading"}, todo : SUBSET Rows,
                          document : Rows \cup {None}, sections : SUBSET Section]
        /\ \A s \in snapshot'.sections \ (snapshot.sections \cup section) :
              /\ s.document \in Rows /\ live[s.document] # None
              /\ s.bytes = live[s.document].holds
        /\ transactions' \in Seq(Transaction)
    BY <1>0, <2>1, <2>3, <2>5, WalkDoes
  <2> QED BY <1>3, <2>4, <2>6 DEF SnapshotReads, SectionIsGood
<1>4. CASE SnapshotFails
  <2>1. /\ snapshot' = [at |-> "idle", todo |-> {}, document |-> None, sections |-> {}]
        /\ transactions' = Tail(transactions) /\ transactions # <<>>
    BY <1>4 DEF SnapshotFails
  <2>2. snapshot' \in [at : {"idle", "listing", "reading"}, todo : SUBSET Rows,
                       document : Rows \cup {None}, sections : SUBSET Section]
        /\ snapshot'.sections = {}
    BY <2>1
  <2> QED BY <1>0, <1>4, <2>1, <2>2 DEF SnapshotFails
<1> QED BY <1>1, <1>2, <1>3, <1>4 DEF Snapshots

------------------------------------------------------------------------
(* The invariant, but the batches. *)

\* What holds of one address.
AddressIsSound(r) ==
    /\ r \in retired => live[r] = None
    /\ live[r] # None /\ hydration[r] = "done" => Accepted(r) \subseteq live[r].holds
    /\ live[r] # None => live[r].holds \subseteq Accepted(r)

Sound ==
    /\ \A r \in Rows : AddressIsSound(r)
    /\ RetirementsAreKnown /\ NothingAfterRetirement

\* The parts of the invariant that are about addresses and the queue.
LEMMA SoundIs ==
  ASSUME TypeOK
  PROVE  Sound <=> /\ RetiredAreDead /\ HydratedIsComplete /\ UnloadingLosesNothing
                   /\ RetirementsAreKnown /\ NothingAfterRetirement
<1>1. retired \subseteq Rows
  BY DEF TypeOK
<1> QED BY <1>1 DEF Sound, AddressIsSound, RetiredAreDead, HydratedIsComplete,
                    UnloadingLosesNothing, Accepted

\* An address the step does not touch.
SameAt(q) ==
    /\ live'[q] = live[q] /\ hydration'[q] = hydration[q]
    /\ q \in retired' => q \in retired
    /\ Accepted(q)' = Accepted(q)
\* It is as sound as it was.
LEMMA Same ==
  ASSUME NEW q \in Rows, AddressIsSound(q), SameAt(q)
  PROVE  AddressIsSound(q)'
  BY DEF AddressIsSound, SameAt

\* What is accepted for an address follows from its chain and the operations outstanding.
LEMMA AcceptedStays ==
  ASSUME TypeOK, UNCHANGED <<chain, queue, flying>>
  PROVE  /\ \A q \in Rows : Accepted(q)' = Accepted(q)
         /\ Outstanding' = Outstanding
  BY DEF Accepted, PendingAppends, AppendsOf, OfKind, Outstanding

\* One more operation outstanding: what is accepted for the other addresses stays.
LEMMA AcceptedGrows ==
  ASSUME TypeOK, NEW op \in Op, Outstanding' = Append(Outstanding, op), chain' = chain,
         queue' \in Seq(Op), flying' \in Seq(Op)
  PROVE  \A q \in Rows :
            Accepted(q)' = Accepted(q) \cup
                (IF op.kind = "append" /\ op.document = q THEN {op.bytes} ELSE {})
<1> SUFFICES ASSUME NEW q \in Rows
             PROVE  Accepted(q)' = Accepted(q) \cup
                        (IF op.kind = "append" /\ op.document = q THEN {op.bytes} ELSE {})
  OBVIOUS
<1>1. PendingAppends(q)' = AppendsOf(q, flying' \o queue')
  BY AppendsConcat DEF PendingAppends, AppendsOf, OfKind
<1>2. PendingAppends(q)' = AppendsOf(q, Append(Outstanding, op))
  BY <1>1 DEF Outstanding
<1>3. Outstanding \in Seq(Op) /\ PendingAppends(q) = AppendsOf(q, Outstanding)
  BY PendingIs
<1> QED BY <1>2, <1>3, AppendsOne DEF Accepted

\* The queue stays in order when nothing is enqueued ...
LEMMA QueueStays ==
  ASSUME RetirementsAreKnown, NothingAfterRetirement, Outstanding' = Outstanding,
         retired \subseteq retired'
  PROVE  RetirementsAreKnown' /\ NothingAfterRetirement'
  BY DEF RetirementsAreKnown, NothingAfterRetirement

\* ... when an operation is enqueued: an update of an address that is not retired, or a
\* retirement that is known by then.
LEMMA QueueGrows ==
  ASSUME TypeOK, NEW op \in Op, Outstanding' = Append(Outstanding, op),
         RetirementsAreKnown, NothingAfterRetirement, retired \subseteq retired',
         op.kind = "append" => op.document \notin retired,
         op.kind = "retire" => op.document \in retired'
  PROVE  RetirementsAreKnown' /\ NothingAfterRetirement'
<1> DEFINE s == Outstanding
<1>1. s \in Seq(Op)
  BY DEF TypeOK, Outstanding
<1>2. /\ DOMAIN s = 1 .. Len(s) /\ Len(s) \in Nat
      /\ DOMAIN Append(s, op) = 1 .. Len(s) + 1
      /\ \A i \in 1 .. Len(s) : Append(s, op)[i] = s[i]
      /\ Append(s, op)[Len(s) + 1] = op
  BY <1>1
<1>3. Outstanding' = Append(s, op)
  OBVIOUS
<1>4. /\ \A i \in DOMAIN s : s[i].kind = "retire" => s[i].document \in retired
      /\ \A i, j \in DOMAIN s :
            (s[i].kind = "retire" /\ s[j].kind = "append" /\ s[i].document = s[j].document)
                => j < i
  BY DEF RetirementsAreKnown, NothingAfterRetirement
<1>5. op.kind \in {"append", "retire"}
  BY OpFields
<1> HIDE DEF s
<1>6. RetirementsAreKnown'
  BY <1>2, <1>3, <1>4, <1>5 DEF RetirementsAreKnown
<1>7. NothingAfterRetirement'
  BY <1>2, <1>3, <1>4, <1>5 DEF NothingAfterRetirement
<1> QED BY <1>6, <1>7

\* ... and when a batch has landed.
LEMMA QueueAdvances ==
  ASSUME TypeOK, Outstanding' = queue, RetirementsAreKnown, NothingAfterRetirement,
         retired' = retired
  PROVE  RetirementsAreKnown' /\ NothingAfterRetirement'
<1>1. queue \in Seq(Op) /\ flying \in Seq(Op)
  BY DEF TypeOK
<1>2. /\ DOMAIN queue = 1 .. Len(queue) /\ Len(queue) \in Nat /\ Len(flying) \in Nat
      /\ DOMAIN (flying \o queue) = 1 .. Len(flying) + Len(queue)
      /\ \A i \in 1 .. Len(queue) : (flying \o queue)[Len(flying) + i] = queue[i]
  BY <1>1
<1>3. ASSUME NEW i \in DOMAIN queue, queue[i].kind = "retire"
      PROVE  queue[i].document \in retired
  <2>1. Len(flying) + i \in DOMAIN Outstanding /\ Outstanding[Len(flying) + i] = queue[i]
    BY <1>2 DEF Outstanding
  <2> QED BY <1>3, <2>1 DEF RetirementsAreKnown
<1>4. ASSUME NEW i \in DOMAIN queue, NEW j \in DOMAIN queue, queue[i].kind = "retire",
             queue[j].kind = "append", queue[i].document = queue[j].document
      PROVE  j < i
  <2>1. /\ Len(flying) + i \in DOMAIN Outstanding /\ Outstanding[Len(flying) + i] = queue[i]
        /\ Len(flying) + j \in DOMAIN Outstanding /\ Outstanding[Len(flying) + j] = queue[j]
    BY <1>2 DEF Outstanding
  <2>2. Len(flying) + j < Len(flying) + i
    BY <1>4, <2>1 DEF NothingAfterRetirement
  <2> QED BY <1>2, <2>2
<1> QED BY <1>3, <1>4 DEF RetirementsAreKnown, NothingAfterRetirement

\* An open finds or makes a document, and no retired address is opened.
LEMMA OpenKeeps ==
  ASSUME TypeOK, Sound, NEW o \in Openers, NEW r \in Rows, Open(o, r)
  PROVE  Sound'
<1>1. /\ Elsewhere(r) /\ r \notin retired /\ live'[r] # None
      /\ \A q \in Rows : q # r => hydration'[q] = hydration[q]
      /\ \/ live[r] = None /\ live'[r].holds = {} /\ hydration'[r] = "reading"
         \/ live[r] # None /\ live'[r].holds = live[r].holds /\ hydration' = hydration
      /\ UNCHANGED <<retired, chain, queue, flying>>
  BY OpenDoes
<1>2. Outstanding' = Outstanding /\ \A q \in Rows : Accepted(q)' = Accepted(q)
  BY <1>1, AcceptedStays
<1>3. AddressIsSound(r)'
  BY <1>1, <1>2 DEF Sound, AddressIsSound
<1>4. \A q \in Rows : q # r => SameAt(q)
  BY <1>1, <1>2 DEF SameAt, Elsewhere
<1> QED BY <1>1, <1>2, <1>3, <1>4, Same, QueueStays DEF Sound

\* A hydration that ends reads the chain and replays the queue.
LEMMA HydrateKeeps ==
  ASSUME TypeOK, Sound, Hydrate
  PROVE  Sound'
<1>1. PICK r \in Rows :
        /\ Elsewhere(r) /\ hydration' = [hydration EXCEPT ![r] = "done"]
        /\ live[r] = None => live'[r] = None
        /\ live[r] # None => live'[r] # None /\ live'[r].holds = live[r].holds \cup Accepted(r)
        /\ UNCHANGED <<retired, chain, queue, flying>>
  BY HydrateDoes
<1>2. Outstanding' = Outstanding /\ \A q \in Rows : Accepted(q)' = Accepted(q)
  BY <1>1, AcceptedStays
<1>3. AddressIsSound(r)'
  BY <1>1, <1>2 DEF Sound, AddressIsSound
<1>4. \A q \in Rows : q # r => SameAt(q)
  BY <1>1, <1>2 DEF SameAt, Elsewhere
<1> QED BY <1>1, <1>2, <1>3, <1>4, Same, QueueStays DEF Sound

\* A hydration that fails changes no document.
LEMMA HydrationFailsKeeps ==
  ASSUME TypeOK, Sound, HydrationFails
  PROVE  Sound'
<1>1. transactions \in Seq(Transaction) /\ transactions # <<>>
  BY DEF TypeOK, HydrationFails
<1>2. PICK r \in Rows : r = Head(transactions).document
  BY <1>1, TransactionFields DEF HydrationFails
<1>3. hydration' = [hydration EXCEPT ![r] = "failed"]
      /\ UNCHANGED <<live, retired, chain, queue, flying>>
  BY <1>2 DEF HydrationFails
<1>4. Outstanding' = Outstanding /\ \A q \in Rows : Accepted(q)' = Accepted(q)
  BY <1>3, AcceptedStays
<1>5. \A q \in Rows : AddressIsSound(q)'
  BY <1>3, <1>4 DEF Sound, AddressIsSound, TypeOK
<1> QED BY <1>3, <1>4, <1>5, QueueStays DEF Sound

\* A document that is released holds what it held, or is unloaded.
LEMMA ReleaseKeeps ==
  ASSUME TypeOK, Sound, NEW r \in Rows, live' = Released(r),
         UNCHANGED <<hydration, retired, port>>
  PROVE  Sound'
<1>1. Outstanding' = Outstanding /\ \A q \in Rows : Accepted(q)' = Accepted(q)
  BY AcceptedStays DEF port
<1>2. Elsewhere(r) /\ (live'[r] # None => live[r] # None /\ live'[r].holds = live[r].holds)
  BY ReleasedDoes
<1>3. AddressIsSound(r)'
  BY <1>1, <1>2 DEF Sound, AddressIsSound
<1>4. \A q \in Rows : q # r => SameAt(q)
  BY <1>1, <1>2 DEF SameAt, Elsewhere
<1> QED BY <1>1, <1>3, <1>4, Same, QueueStays DEF Sound

\* An update that is taken is held and accepted at once; a retired address takes none.
LEMMA TakesKeeps ==
  ASSUME TypeOK, Sound, NEW r \in Rows, NEW update \in Update, Takes(r, update),
         r \in retired => UNCHANGED <<live, queue, flying>>,
         UNCHANGED <<hydration, retired, chain>>
  PROVE  Sound'
<1>1. CASE UNCHANGED <<live, queue, flying>>
  <2>1. Outstanding' = Outstanding /\ \A q \in Rows : Accepted(q)' = Accepted(q)
    BY <1>1, AcceptedStays
  <2>2. \A q \in Rows : SameAt(q)
    BY <1>1, <2>1 DEF SameAt
  <2> QED BY <2>1, <2>2, Same, QueueStays DEF Sound
<1>2. CASE ~ UNCHANGED <<live, queue, flying>>
  <2> DEFINE op == Append1(r, update)
  <2>1. op \in Op /\ op.kind = "append" /\ op.document = r /\ op.bytes = update
    BY OpFields
  <2> HIDE DEF op
  <2>2. /\ Outstanding' = Append(Outstanding, op) /\ r \notin retired /\ Elsewhere(r)
        /\ queue' \in Seq(Op) /\ flying' \in Seq(Op)
        /\ live[r] = None => live'[r] = None
        /\ live[r] # None => live'[r] # None /\ live'[r].holds = live[r].holds \cup {update}
    BY <1>2 DEF Takes, op
  <2>3. \A q \in Rows : Accepted(q)' = Accepted(q) \cup (IF r = q THEN {update} ELSE {})
    BY <2>1, <2>2, AcceptedGrows
  <2>4. AddressIsSound(r)'
    BY <2>2, <2>3 DEF Sound, AddressIsSound
  <2>5. \A q \in Rows : q # r => SameAt(q)
    BY <2>2, <2>3 DEF SameAt, Elsewhere
  <2>6. RetirementsAreKnown' /\ NothingAfterRetirement'
    BY <2>1, <2>2, QueueGrows DEF Sound
  <2> QED BY <2>4, <2>5, <2>6, Same DEF Sound
<1> QED BY <1>1, <1>2

\* A retirement unloads the document, and nothing is accepted for its address after it.
LEMMA RetireKeeps ==
  ASSUME TypeOK, Sound, NEW r \in Rows, Retire(r)
  PROVE  Sound'
<1> DEFINE op == RetireOp(r)
<1>1. op \in Op /\ op.kind = "retire" /\ op.document = r
  BY OpFields
<1> HIDE DEF op
<1>2. /\ Outstanding' = Append(Outstanding, op) /\ Elsewhere(r) /\ live'[r] = None
      /\ queue' \in Seq(Op) /\ flying' \in Seq(Op)
      /\ retired' = retired \cup {r} /\ UNCHANGED <<hydration, chain>>
  BY RetireDoes DEF op
<1>3. \A q \in Rows : Accepted(q)' = Accepted(q)
  BY <1>1, <1>2, AcceptedGrows
<1>4. AddressIsSound(r)'
  BY <1>2 DEF AddressIsSound
<1>5. \A q \in Rows : q # r => SameAt(q)
  BY <1>2, <1>3 DEF SameAt, Elsewhere
<1>6. RetirementsAreKnown' /\ NothingAfterRetirement'
  BY <1>1, <1>2, QueueGrows DEF Sound
<1> QED BY <1>4, <1>5, <1>6, Same DEF Sound

\* Disposal unloads every document.
LEMMA DestroyKeeps ==
  ASSUME TypeOK, Sound, Destroy
  PROVE  Sound'
<1>1. (\A q \in Rows : live'[q] = None) /\ UNCHANGED <<retired, chain, queue, flying>>
  BY DEF Destroy, port
<1>2. Outstanding' = Outstanding
  BY <1>1, AcceptedStays
<1>3. \A q \in Rows : AddressIsSound(q)'
  BY <1>1 DEF AddressIsSound
<1> QED BY <1>1, <1>2, <1>3, QueueStays DEF Sound

\* A batch that lands leaves a live document what it has: no retirement of its address is
\* in the batch.
LEMMA BatchKeeps ==
  ASSUME TypeOK, Sound, CommitLands \/ CommitRefused
  PROVE  Sound'
<1>1. /\ \/ CommitLands /\ Outstanding' = queue
         \/ Outstanding' = Outstanding /\ \A r \in Rows : Accepted(r)' = Accepted(r)
      /\ UNCHANGED <<live, hydration, retired>>
  BY BatchEnds DEF documents
<1>2. RetirementsAreKnown' /\ NothingAfterRetirement'
  BY <1>1, QueueStays, QueueAdvances DEF Sound
<1>3. ASSUME NEW r \in Rows PROVE AddressIsSound(r)'
  <2>1. CASE Accepted(r)' = Accepted(r)
    BY <1>1, <2>1, Same DEF Sound, SameAt
  <2>2. CASE Accepted(r)' # Accepted(r)
    <3>1. CommitLands
      BY <1>1, <2>2
    <3>2. PICK i \in DOMAIN flying : flying[i].kind = "retire" /\ flying[i].document = r
      BY <2>2, <3>1, LandsAccepted DEF OfKind
    <3>3. i \in DOMAIN Outstanding /\ Outstanding[i] = flying[i]
      BY DEF Outstanding, TypeOK
    <3>4. r \in retired
      BY <3>2, <3>3 DEF Sound, RetirementsAreKnown
    <3> QED BY <1>1, <3>4 DEF Sound, AddressIsSound
  <2> QED BY <2>1, <2>2
<1> QED BY <1>2, <1>3 DEF Sound

------------------------------------------------------------------------
(* Every step. *)

\* Somebody who does not hold or wait for a document any more.
LEMMA IdleDoes ==
  ASSUME TypeOK, NEW o \in Openers, Idle(o)
  PROVE  opener' \in [Openers -> [at : {"idle"}, document : {None}]
                                  \cup [at : {"waiting", "holding"}, document : Rows]]
  BY DEF TypeOK, Idle

\* Every step keeps the types.
LEMMA TypeStep == ASSUME TypeOK, Next PROVE TypeOK'
<1>0. transactions \in Seq(Transaction)
      /\ (transactions # <<>> => /\ Tail(transactions) \in Seq(Transaction)
                                 /\ Head(transactions) \in Transaction)
  BY DEF TypeOK
<1>1. CASE CommitLands \/ CommitRefused
  BY <1>1, BatchEnds DEF TypeOK, documents
<1>2. ASSUME NEW o \in Openers, NEW r \in Rows, Open(o, r) PROVE TypeOK'
  BY <1>2, OpenDoes DEF TypeOK
<1>3. CASE Hydrate
  <2>1. PICK r \in Rows :
           /\ live' \in [Rows -> {None} \cup Document]
           /\ hydration' = [hydration EXCEPT ![r] = "done"]
           /\ transactions' \in Seq(Transaction)
           /\ UNCHANGED <<retired, opener, chain, queue, flying, snapshot, taken, disposed>>
    BY <1>3, HydrateDoes
  <2> QED BY <2>1 DEF TypeOK
<1>4. CASE HydrationFails
  <2>1. hydration' \in [Rows -> {"none", "reading", "done", "failed"}]
    BY <1>4 DEF TypeOK, HydrationFails
  <2> QED BY <1>0, <1>4, <2>1 DEF TypeOK, HydrationFails
<1>5. ASSUME NEW o \in Openers, OpenFails(o) \/ Close(o) PROVE TypeOK'
  <2>1. PICK r \in Rows : r = opener[o].document
    BY <1>5 DEF TypeOK, OpenFails, Concluded, Close
  <2>2. live' = Released(r) /\ Idle(o) /\ UNCHANGED <<hydration, retired, port, snapshot, taken, disposed>>
    BY <1>5, <2>1 DEF OpenFails, Close
  <2> QED BY <2>2, ReleasedDoes, IdleDoes DEF TypeOK, port
<1>6. ASSUME NEW o \in Openers, OpenSucceeds(o) PROVE TypeOK'
  <2>1. opener[o].at = "waiting" /\ opener[o] \in [at : {"waiting", "holding"}, document : Rows]
    BY <1>6 DEF TypeOK, OpenSucceeds, Concluded
  <2>2. [opener[o] EXCEPT !.at = "holding"] \in [at : {"waiting", "holding"}, document : Rows]
    BY <2>1
  <2>3. opener' = [opener EXCEPT ![o] = [opener[o] EXCEPT !.at = "holding"]]
    BY <1>6 DEF TypeOK, OpenSucceeds
  <2>4. opener' \in [Openers -> [at : {"idle"}, document : {None}]
                                 \cup [at : {"waiting", "holding"}, document : Rows]]
    BY <2>2, <2>3 DEF TypeOK
  <2> QED BY <1>6, <2>4 DEF TypeOK, OpenSucceeds, port
<1>7. ASSUME NEW o \in Openers, NEW update \in Mine, Write1(o, update) PROVE TypeOK'
  <2>1. PICK r \in Rows : /\ Takes(r, update) /\ taken' = taken \cup {update}
                          /\ UNCHANGED <<hydration, retired, opener, chain, snapshot, disposed>>
    BY <1>7, Write1Does
  <2> QED BY <2>1 DEF TypeOK, Takes, Update
<1>8. ASSUME NEW r \in Rows, NEW update \in Theirs, AcceptRemote(r, update) PROVE TypeOK'
  BY <1>8, AcceptRemoteDoes DEF TypeOK, Takes, Update
<1>9. ASSUME NEW r \in Rows, Retire(r) PROVE TypeOK'
  BY <1>9, RetireDoes DEF TypeOK
<1>10. CASE Destroy
  BY <1>10 DEF TypeOK, Destroy, port
<1>11. CASE Snapshots
  BY <1>11, SnapshotsDo DEF TypeOK, documents
<1> QED BY <1>1, <1>2, <1>3, <1>4, <1>5, <1>6, <1>7, <1>8, <1>9, <1>10, <1>11
        DEF Next, Snapshots

\* Every step keeps what holds of the addresses and of the queue.
LEMMA SoundStep == ASSUME TypeOK, Sound, Next PROVE Sound'
<1>1. ASSUME UNCHANGED <<live, hydration, retired, chain, queue, flying>> PROVE Sound'
  <2>1. Outstanding' = Outstanding /\ \A q \in Rows : Accepted(q)' = Accepted(q)
    BY <1>1, AcceptedStays
  <2>2. \A q \in Rows : SameAt(q)
    BY <1>1, <2>1 DEF SameAt
  <2> QED BY <1>1, <2>1, <2>2, Same, QueueStays DEF Sound
<1>2. ASSUME NEW o \in Openers, OpenFails(o) \/ Close(o) PROVE Sound'
  <2>1. PICK r \in Rows : r = opener[o].document
    BY <1>2 DEF TypeOK, OpenFails, Concluded, Close
  <2>2. live' = Released(r) /\ UNCHANGED <<hydration, retired, port>>
    BY <1>2, <2>1 DEF OpenFails, Close
  <2> QED BY <2>2, ReleaseKeeps
<1>3. ASSUME NEW o \in Openers, OpenSucceeds(o) PROVE Sound'
  BY <1>1, <1>3 DEF OpenSucceeds, port
<1>4. ASSUME NEW o \in Openers, NEW update \in Mine, Write1(o, update) PROVE Sound'
  <2>1. PICK r \in Rows : /\ Takes(r, update)
                          /\ live[r] = None => UNCHANGED <<live, queue, flying>>
                          /\ UNCHANGED <<hydration, retired, chain>>
    BY <1>4, Write1Does
  <2>2. (r \in retired => live[r] = None) /\ update \in Update
    BY DEF Sound, AddressIsSound, Update
  <2> QED BY <2>1, <2>2, TakesKeeps
<1>5. ASSUME NEW r \in Rows, NEW update \in Theirs, AcceptRemote(r, update) PROVE Sound'
  <2>1. update \in Update
    BY DEF Update
  <2> QED BY <1>5, <2>1, AcceptRemoteDoes, TakesKeeps
<1>6. CASE Snapshots
  BY <1>1, <1>6, SnapshotsDo DEF documents
<1> QED BY <1>2, <1>3, <1>4, <1>5, <1>6, OpenKeeps, HydrateKeeps, HydrationFailsKeeps,
           RetireKeeps, DestroyKeeps, BatchKeeps
        DEF Next, Snapshots

\* One batch is out at most: what holds of the transactions `ts` while `ops` are in flight.
BatchIn(ts, ops) ==
    /\ (ops # <<>>) <=> (\E i \in DOMAIN ts : ts[i].for = "commit")
    /\ \A i, j \in DOMAIN ts : ts[i].for = "commit" /\ ts[j].for = "commit" => i = j
\* OneBatchIsOut is that of the transactions and of the batch in flight.
LEMMA BatchInIs == OneBatchIsOut <=> BatchIn(transactions, flying)
  BY DEF OneBatchIsOut, BatchIn

\* A transaction of another kind that comes leaves the batches.
LEMMA OtherAdded ==
  ASSUME NEW ts \in Seq(Transaction), NEW ops, BatchIn(ts, ops), NEW t \in Transaction,
         t.for # "commit"
  PROVE  BatchIn(ts \o <<t>>, ops)
<1> DEFINE more == ts \o <<t>>
<1>1. /\ DOMAIN ts = 1 .. Len(ts) /\ Len(ts) \in Nat
      /\ DOMAIN more = 1 .. Len(ts) + 1
      /\ \A i \in 1 .. Len(ts) : more[i] = ts[i]
      /\ more[Len(ts) + 1] = t
  OBVIOUS
<1> HIDE DEF more
<1>2. BatchIn(more, ops)
  BY <1>1 DEF BatchIn
<1> QED BY <1>2 DEF more

\* A batch that is handed to the port while none is out is the only one.
LEMMA CommitAdded ==
  ASSUME NEW before \in Seq(Transaction), \A i \in DOMAIN before : before[i].for # "commit",
         transactions' = before \o <<Write>>, flying' # <<>>
  PROVE  OneBatchIsOut'
<1>1. /\ DOMAIN before = 1 .. Len(before) /\ Len(before) \in Nat
      /\ DOMAIN transactions' = 1 .. Len(before) + 1
      /\ \A i \in 1 .. Len(before) : transactions'[i] = before[i]
      /\ transactions'[Len(before) + 1] = Write
  OBVIOUS
<1>2. Write.for = "commit"
  BY TransactionFields
<1> QED BY <1>1, <1>2 DEF OneBatchIsOut

\* The end of such a transaction leaves them too.
LEMMA OtherEnds ==
  ASSUME NEW ts \in Seq(Transaction), NEW ops, BatchIn(ts, ops), ts # <<>>,
         Head(ts).for # "commit"
  PROVE  BatchIn(Tail(ts), ops)
<1> DEFINE fewer == Tail(ts)
<1>1. /\ DOMAIN ts = 1 .. Len(ts) /\ Len(ts) \in Nat \ {0}
      /\ DOMAIN fewer = 1 .. Len(ts) - 1
      /\ \A i \in 1 .. Len(ts) - 1 : fewer[i] = ts[i + 1]
      /\ Head(ts) = ts[1]
  OBVIOUS
<1> HIDE DEF fewer
<1>2. ASSUME NEW i \in DOMAIN ts, ts[i].for = "commit"
      PROVE  \E j \in DOMAIN fewer : fewer[j].for = "commit"
  <2>1. i - 1 \in 1 .. Len(ts) - 1 /\ (i - 1) + 1 = i
    BY <1>1, <1>2
  <2> QED BY <1>1, <1>2, <2>1
<1>3. ASSUME NEW i \in DOMAIN fewer, fewer[i].for = "commit"
      PROVE  i \in Nat /\ i + 1 \in DOMAIN ts /\ ts[i + 1].for = "commit"
  BY <1>1, <1>3
<1>4. ASSUME NEW i \in DOMAIN fewer, NEW j \in DOMAIN fewer,
             fewer[i].for = "commit", fewer[j].for = "commit"
      PROVE  i = j
  <2>1. i + 1 = j + 1
    BY <1>3, <1>4 DEF BatchIn
  <2> QED BY <1>3, <1>4, <2>1
<1>5. BatchIn(fewer, ops)
  BY <1>2, <1>3, <1>4 DEF BatchIn
<1> QED BY <1>5 DEF fewer

\* The transaction of the batch that ends was the only one.
LEMMA CommitEnds ==
  ASSUME TypeOK, OneBatchIsOut, transactions # <<>>, Head(transactions) = Write
  PROVE  \A i \in DOMAIN Tail(transactions) : Tail(transactions)[i].for # "commit"
<1>1. /\ DOMAIN transactions = 1 .. Len(transactions) /\ Len(transactions) \in Nat \ {0}
      /\ DOMAIN Tail(transactions) = 1 .. Len(transactions) - 1
      /\ \A i \in 1 .. Len(transactions) - 1 : Tail(transactions)[i] = transactions[i + 1]
      /\ Head(transactions) = transactions[1]
  BY DEF TypeOK
<1>2. transactions[1].for = "commit"
  BY <1>1, TransactionFields
<1> QED BY <1>1, <1>2 DEF OneBatchIsOut

\* Enqueuing starts a batch if none is out.
LEMMA EnqueueKeepsBatches ==
  ASSUME TypeOK, OneBatchIsOut, NEW op \in Op, Enqueue(op)
  PROVE  OneBatchIsOut'
<1>1. CASE flying = <<>>
  <2>1. flying' = queue \o <<op>> /\ transactions' = transactions \o <<Write>>
    BY <1>1 DEF Enqueue
  <2>2. flying' # <<>> /\ \A i \in DOMAIN transactions : transactions[i].for # "commit"
    BY <1>1, <2>1 DEF OneBatchIsOut, TypeOK
  <2>3. transactions \in Seq(Transaction)
    BY DEF TypeOK
  <2> QED BY <2>1, <2>2, <2>3, CommitAdded
<1>2. CASE flying # <<>>
  BY <1>2 DEF Enqueue, OneBatchIsOut
<1> QED BY <1>1, <1>2

\* A batch that has ended is followed by one at most.
LEMMA NextBatchKeeps ==
  ASSUME NEW rest \in Seq(Transaction), \A i \in DOMAIN rest : rest[i].for # "commit",
         NEW waiting \in Seq(Op), NextBatch(waiting, rest)
  PROVE  OneBatchIsOut'
<1>1. CASE waiting # <<>>
  BY <1>1, CommitAdded DEF NextBatch
<1>2. CASE waiting = <<>>
  BY <1>2 DEF NextBatch, OneBatchIsOut
<1> QED BY <1>1, <1>2

\* Every step leaves one batch out at most.
LEMMA BatchStep == ASSUME TypeOK, OneBatchIsOut, Next PROVE OneBatchIsOut'
<1>0. /\ queue \in Seq(Op) /\ flying \in Seq(Op) /\ flying \o queue \in Seq(Op)
      /\ transactions \in Seq(Transaction)
      /\ transactions # <<>> => Tail(transactions) \in Seq(Transaction)
  BY DEF TypeOK
<1>1. CASE CommitLands
  <2>1. Tail(transactions) \in Seq(Transaction) /\ NextBatch(queue, Tail(transactions))
        /\ \A i \in DOMAIN Tail(transactions) : Tail(transactions)[i].for # "commit"
    BY <1>0, <1>1, CommitEnds DEF CommitLands
  <2> QED BY <1>0, <2>1, NextBatchKeeps
<1>2. CASE CommitRefused
  <2>1. Tail(transactions) \in Seq(Transaction)
        /\ \A i \in DOMAIN Tail(transactions) : Tail(transactions)[i].for # "commit"
    BY <1>0, <1>2, CommitEnds DEF CommitRefused
  <2>2. CASE queue # <<>>
    <3>1. NextBatch(flying \o queue, Tail(transactions))
      BY <1>2, <2>2 DEF CommitRefused
    <3> QED BY <1>0, <2>1, <3>1, NextBatchKeeps
  <2>3. CASE queue = <<>>
    <3>1. flying' = <<>> /\ transactions' = Tail(transactions)
      BY <1>2, <2>3 DEF CommitRefused
    <3> QED BY <2>1, <3>1 DEF OneBatchIsOut
  <2> QED BY <2>2, <2>3
<1>3. ASSUME NEW o \in Openers, NEW r \in Rows, Open(o, r) PROVE OneBatchIsOut'
  <2>1. CASE live[r] = None
    <3>1. transactions' = transactions \o <<Read(r)>> /\ flying' = flying
      BY <1>3, <2>1 DEF Open
    <3>2. Read(r) \in Transaction /\ Read(r).for # "commit"
      BY TransactionFields
    <3>3. BatchIn(transactions \o <<Read(r)>>, flying)
      BY <1>0, <3>2, OtherAdded, BatchInIs
    <3> QED BY <3>1, <3>3 DEF BatchIn, OneBatchIsOut
  <2>2. CASE live[r] # None
    BY <1>3, <2>2 DEF Open, OneBatchIsOut
  <2> QED BY <2>1, <2>2
<1>4. CASE Hydrate \/ HydrationFails
  <2>1. /\ transactions # <<>> /\ Head(transactions).for # "commit"
        /\ transactions' = Tail(transactions) /\ flying' = flying
    BY <1>4 DEF Hydrate, HydrationFails
  <2>2. BatchIn(Tail(transactions), flying)
    BY <1>0, <2>1, OtherEnds, BatchInIs
  <2> QED BY <2>1, <2>2 DEF BatchIn, OneBatchIsOut
<1>5. ASSUME NEW o \in Openers, OpenFails(o) \/ OpenSucceeds(o) \/ Close(o) PROVE OneBatchIsOut'
  BY <1>5 DEF OpenFails, OpenSucceeds, Close, port, OneBatchIsOut
<1>6. ASSUME NEW o \in Openers, NEW update \in Mine, Write1(o, update) PROVE OneBatchIsOut'
  <2>1. PICK r \in Rows : r = opener[o].document
    BY <1>6 DEF Write1, TypeOK
  <2>2. CASE live[r] = None
    BY <1>6, <2>1, <2>2 DEF Write1, OneBatchIsOut
  <2>3. CASE live[r] # None
    <3>1. Append1(r, update) \in Op /\ Enqueue(Append1(r, update))
      BY <1>6, <2>1, <2>3, OpFields DEF Write1, Update
    <3> QED BY <3>1, EnqueueKeepsBatches
  <2> QED BY <2>2, <2>3
<1>7. ASSUME NEW r \in Rows, NEW update \in Theirs, AcceptRemote(r, update) PROVE OneBatchIsOut'
  <2>1. CASE r \in retired
    BY <1>7, <2>1 DEF AcceptRemote, OneBatchIsOut
  <2>2. CASE r \notin retired
    <3>1. Append1(r, update) \in Op /\ Enqueue(Append1(r, update))
      BY <1>7, <2>2, OpFields DEF AcceptRemote, Update
    <3> QED BY <3>1, EnqueueKeepsBatches
  <2> QED BY <2>1, <2>2
<1>8. ASSUME NEW r \in Rows, Retire(r) PROVE OneBatchIsOut'
  <2>1. RetireOp(r) \in Op /\ Enqueue(RetireOp(r))
    BY <1>8, OpFields DEF Retire
  <2> QED BY <2>1, EnqueueKeepsBatches
<1>9. CASE Destroy
  BY <1>9 DEF Destroy, port, OneBatchIsOut
<1>10. CASE SnapshotStarts
  <2>1. /\ transactions' = transactions \o <<[for |-> "list", document |-> None]>>
        /\ flying' = flying
    BY <1>10 DEF SnapshotStarts
  <2>2. [for |-> "list", document |-> None] \in Transaction
        /\ [for |-> "list", document |-> None].for # "commit"
    BY TransactionFields
  <2>3. BatchIn(transactions \o <<[for |-> "list", document |-> None]>>, flying)
    BY <1>0, <2>2, OtherAdded, BatchInIs
  <2> QED BY <2>1, <2>3 DEF BatchIn, OneBatchIsOut
<1>11. CASE SnapshotLists \/ SnapshotReads
  <2>1. transactions # <<>> /\ Head(transactions).for # "commit" /\ flying' = flying
    BY <1>11 DEF SnapshotLists, SnapshotReads
  <2>2. \/ transactions' = Tail(transactions)
        \/ \E r \in Rows : transactions' = Tail(transactions) \o <<[for |-> "state", document |-> r]>>
    BY <1>11 DEF SnapshotLists, SnapshotReads, Walk, TypeOK, PendingDocuments
  <2>3. BatchIn(Tail(transactions), flying)
    BY <1>0, <2>1, OtherEnds, BatchInIs
  <2>4. CASE transactions' = Tail(transactions)
    BY <2>1, <2>3, <2>4 DEF BatchIn, OneBatchIsOut
  <2>5. ASSUME NEW r \in Rows,
               transactions' = Tail(transactions) \o <<[for |-> "state", document |-> r]>>
        PROVE  OneBatchIsOut'
    <3>1. [for |-> "state", document |-> r] \in Transaction
          /\ [for |-> "state", document |-> r].for # "commit"
      BY TransactionFields
    <3>2. BatchIn(Tail(transactions) \o <<[for |-> "state", document |-> r]>>, flying)
      BY <1>0, <2>1, <2>3, <3>1, OtherAdded
    <3> QED BY <2>1, <2>5, <3>2 DEF BatchIn, OneBatchIsOut
  <2> QED BY <2>2, <2>4, <2>5
<1>12. CASE SnapshotFails
  <2>1. /\ transactions # <<>> /\ Head(transactions).for # "commit"
        /\ transactions' = Tail(transactions) /\ flying' = flying
    BY <1>12 DEF SnapshotFails
  <2>2. BatchIn(Tail(transactions), flying)
    BY <1>0, <2>1, OtherEnds, BatchInIs
  <2> QED BY <2>1, <2>2 DEF BatchIn, OneBatchIsOut
<1> QED BY <1>1, <1>2, <1>3, <1>4, <1>5, <1>6, <1>7, <1>8, <1>9, <1>10, <1>11, <1>12 DEF Next

------------------------------------------------------------------------
(* What is guaranteed. *)

\* At the start nothing is live, accepted or out.
LEMMA InvInit == Init => RowIInv
<1> SUFFICES ASSUME Init PROVE RowIInv
  OBVIOUS
<1>1. TypeOK
  <2>1. /\ live \in [Rows -> {None} \cup Document] /\ retired \subseteq Rows
        /\ hydration \in [Rows -> {"none", "reading", "done", "failed"}]
        /\ chain \in [Rows -> SUBSET Update]
    BY DEF Init
  <2>2. opener \in [Openers -> [at : {"idle"}, document : {None}]
                                \cup [at : {"waiting", "holding"}, document : Rows]]
    <3>1. [at |-> "idle", document |-> None] \in [at : {"idle"}, document : {None}]
      OBVIOUS
    <3> QED BY <3>1 DEF Init
  <2>3. queue \in Seq(Op) /\ flying \in Seq(Op) /\ transactions \in Seq(Transaction)
    <3>1. <<>> \in Seq(Op) /\ <<>> \in Seq(Transaction)
      OBVIOUS
    <3> QED BY <3>1 DEF Init
  <2>4. snapshot \in [at : {"idle", "listing", "reading"}, todo : SUBSET Rows,
                      document : Rows \cup {None}, sections : SUBSET Section]
    <3>1. {} \in SUBSET Rows /\ {} \in SUBSET Section
      OBVIOUS
    <3> QED BY <3>1 DEF Init
  <2> QED BY <2>1, <2>2, <2>3, <2>4 DEF Init, TypeOK
<1>2. OneBatchIsOut
  BY DEF Init, OneBatchIsOut
<1>3. Outstanding = <<>>
  BY DEF Init, Outstanding
<1>4. RetirementsAreKnown /\ NothingAfterRetirement
  BY <1>3 DEF RetirementsAreKnown, NothingAfterRetirement
<1> QED BY <1>1, <1>2, <1>4 DEF Init, RowIInv, RetiredAreDead, HydratedIsComplete,
           UnloadingLosesNothing

\* The inductive invariant ("Why they hold"): types, retirements, batches, and the two
\* inclusions between a live document and what is accepted for its address.
THEOREM Invariance == Spec => []RowIInv
<1>1. Init => RowIInv
  BY InvInit
<1>2. RowIInv /\ [Next]_vars => RowIInv'
  <2>1. ASSUME RowIInv, Next PROVE RowIInv'
    <3>1. TypeOK /\ Sound /\ OneBatchIsOut
      BY <2>1, SoundIs DEF RowIInv
    <3>2. TypeOK' /\ Sound' /\ OneBatchIsOut'
      BY <2>1, <3>1, TypeStep, SoundStep, BatchStep
    <3>3. (\A r \in Rows : AddressIsSound(r))' /\ retired' \subseteq Rows
      BY <3>2 DEF Sound, TypeOK
    <3>4. (RetiredAreDead /\ HydratedIsComplete /\ UnloadingLosesNothing)'
      BY <3>3 DEF AddressIsSound, RetiredAreDead, HydratedIsComplete, UnloadingLosesNothing,
                  Accepted
    <3> QED BY <3>2, <3>4 DEF RowIInv, Sound
  <2>2. ASSUME RowIInv, UNCHANGED vars PROVE RowIInv'
    BY <2>2 DEF RowIInv, TypeOK, RetiredAreDead, RetirementsAreKnown, OneBatchIsOut,
                HydratedIsComplete, UnloadingLosesNothing, NothingAfterRetirement, Outstanding,
                PendingAppends, AppendsOf, OfKind, vars, documents, port
  <2> QED BY <2>1, <2>2
<1> QED BY <1>1, <1>2, PTL DEF Spec

\* documents.ts:196-200 a document that was opened while a flush was out holds all the store
\* accepted for it, whichever of the read and the flush ends first.
THEOREM OpenedIsComplete == Spec => []HydratedIsComplete
<1>1. RowIInv => HydratedIsComplete
  BY DEF RowIInv
<1> QED BY <1>1, Invariance, PTL

\* documents.ts:213-215 a live document can be unloaded at any time: what it holds is in
\* the durable chain, or waits in the queue.
THEOREM UnloadingIsSafe == Spec => []UnloadingLosesNothing
<1>1. RowIInv => UnloadingLosesNothing
  BY DEF RowIInv
<1> QED BY <1>1, Invariance, PTL

\* documents.ts:299-302 nothing is written to an address behind its retirement, so a late
\* edit, update or retry cannot bring a row back.
THEOREM RetirementIsFinal == Spec => []NothingAfterRetirement
<1>1. RowIInv => NothingAfterRetirement
  BY DEF RowIInv
<1> QED BY <1>1, Invariance, PTL

\* documents.ts:326-346 a snapshot takes all that is accepted for an address, wherever the
\* bytes are, of every document that is not being opened.
THEOREM SnapshotsAreComplete == Spec => StoredSectionsAreComplete
<1> DEFINE Complete ==
      \A section \in snapshot'.sections \ snapshot.sections :
         LET r == section.document
         IN  live[r] = None \/ hydration[r] = "done" => Accepted(r) \subseteq section.bytes
<1>1. RowIInv /\ [Next]_vars => [Complete]_vars
  <2> SUFFICES ASSUME RowIInv, Next, NEW section \in snapshot'.sections \ snapshot.sections,
                      \/ live[section.document] = None
                      \/ hydration[section.document] = "done"
               PROVE  Accepted(section.document) \subseteq section.bytes
    OBVIOUS
  <2>1. CASE Snapshots
    <3>1. SectionIsGood(section)
      BY <2>1, SnapshotsDo DEF RowIInv
    <3> QED BY <3>1 DEF SectionIsGood, RowIInv, HydratedIsComplete, Accepted
  <2>2. CASE ~Snapshots
    <3>1. snapshot' = snapshot
      BY <2>2 DEF Next, Snapshots, CommitLands, CommitRefused, Open, Hydrate, HydrationFails,
             OpenFails, OpenSucceeds, Close, Write1, AcceptRemote, Retire, Destroy
    <3> QED BY <3>1
  <2> QED BY <2>1, <2>2
<1> QED BY <1>1, Invariance, PTL DEF Spec, StoredSectionsAreComplete
============================================================================
