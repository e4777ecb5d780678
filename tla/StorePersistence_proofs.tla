---------------------- MODULE StorePersistence_proofs ----------------------
(***************************************************************************)
(* What the persistence controller guarantees for every set of operations, *)
(* batches and callers, both kinds of port and every bound.  And below it,  *)
(* what the update log does for every set of updates and every threshold:   *)
(* however often a chain is folded, refused or cut off by a crash, a replay *)
(* gives back everything that was committed.                                *)
(***************************************************************************)
EXTENDS StorePersistence, UpdateLog, SequenceTheorems, TLAPS

\* Batches are sequences of operations, and never empty.
LEMMA BatchIsSeq == ASSUME NEW ops \in Batches PROVE ops \in Seq(Op) /\ ops # <<>>
  BY BatchesAssumption

\* Appending to a sequence of operations yields one, and a non-empty one when
\* what is appended is not empty.
LEMMA ConcatOp ==
  ASSUME NEW s \in Seq(Op), NEW t \in Seq(Op)
  PROVE  /\ s \o t \in Seq(Op)
         /\ t # <<>> => s \o t # <<>>
         /\ s # <<>> => s \o t # <<>>
  BY ConcatProperties, ConcatSimplifications

\* Concatenation of sequences of operations is associative.
LEMMA Regroup ==
  \A s, t, u \in Seq(Op) : s \o (t \o u) = (s \o t) \o u
  BY ConcatAssociative

\* What TypeOK says of the variables an attempt writes.
AttemptTyped ==
    /\ engine \in Seq(Op) /\ mirror \in Seq(Op)
    /\ queue \in Seq(Op) /\ flying \in Seq(Op)
    /\ phase \in Phase /\ again \in BOOLEAN
    /\ settled \subseteq Waiter
    /\ told \in Statuses
    /\ answered \in {"none", "ok", "failed"}
    /\ (flying = <<>>) = (phase = "idle")
    /\ Synchronous => phase = "idle"

\* attempt() takes the whole queue: afterwards the engine followed by what is
\* outstanding is the old engine followed by that queue, whatever the port
\* does, and no promise to try again is broken.
LEMMA AttemptStep ==
  ASSUME TypeOK, engine = mirror,
         NEW pending \in Seq(Op), NEW waiting \in SUBSET Waiter,
         Attempt(pending, waiting), UNCHANGED port
  PROVE  /\ AttemptTyped'
         /\ engine' \o Outstanding' = engine \o pending
         /\ MirrorIsConfirmed' /\ AttemptPromised' /\ ToldIsStatus'
<1>0. engine \in Seq(Op) /\ mirror \in Seq(Op) /\ <<>> \in Seq(Op)
  BY DEF TypeOK
<1>1. told' = Status' /\ told' \in Statuses
  BY DEF Attempt, Status, Statuses
<1>2. CASE NothingToDo(pending, waiting)
  <2>1. AttemptTyped'
    BY <1>0, <1>1, <1>2 DEF NothingToDo, Settle, AttemptTyped, TypeOK, Phase, Synchronous
  <2>2. engine' \o Outstanding' = engine \o pending
    BY <1>2 DEF NothingToDo, Outstanding
  <2>3. MirrorIsConfirmed'
    BY <1>0, <1>2, ConcatEmptySeq DEF NothingToDo, MirrorIsConfirmed
  <2> QED BY <1>1, <1>2, <2>1, <2>2, <2>3
          DEF NothingToDo, AttemptPromised, InFlight, ToldIsStatus
<1>3. CASE Threw(pending, waiting)
  <2>1. AttemptTyped'
    BY <1>0, <1>1, <1>3 DEF Threw, Settle, AttemptTyped, TypeOK, Phase, Synchronous
  <2>2. engine' \o Outstanding' = engine \o pending
    BY <1>3 DEF Threw, Outstanding
  <2>3. MirrorIsConfirmed'
    BY <1>0, <1>3, ConcatEmptySeq DEF Threw, MirrorIsConfirmed
  <2> QED BY <1>1, <1>3, <2>1, <2>2, <2>3
          DEF Threw, AttemptPromised, InFlight, ToldIsStatus
<1>4. CASE CommittedInline(pending, waiting)
  <2>0. engine \o pending \in Seq(Op)
    BY <1>0, ConcatOp
  <2>1. AttemptTyped'
    BY <1>0, <1>1, <1>4, <2>0 DEF CommittedInline, Settle, AttemptTyped, TypeOK, Phase, Synchronous
  <2>2. engine' \o Outstanding' = engine \o pending
    BY <1>4, <2>0, ConcatEmptySeq DEF CommittedInline, Outstanding
  <2>3. MirrorIsConfirmed'
    BY <1>4, <2>0, ConcatEmptySeq DEF CommittedInline, MirrorIsConfirmed
  <2> QED BY <1>1, <1>4, <2>1, <2>2, <2>3
          DEF CommittedInline, AttemptPromised, InFlight, ToldIsStatus
<1>5. CASE HandedOff(pending, waiting)
  <2>0. settled' \subseteq Waiter
    BY <1>5 DEF HandedOff, Waiter
  <2>1. AttemptTyped'
    BY <1>0, <1>1, <1>5, <2>0 DEF HandedOff, AttemptTyped, TypeOK, Phase, Synchronous
  <2>2. engine' \o Outstanding' = engine \o pending
    BY <1>5, ConcatEmptySeq DEF HandedOff, Outstanding
  <2>3. MirrorIsConfirmed'
    BY <1>0, <1>5, ConcatEmptySeq DEF HandedOff, MirrorIsConfirmed
  <2> QED BY <1>1, <1>5, <2>1, <2>2, <2>3
          DEF HandedOff, AttemptPromised, InFlight, ToldIsStatus
<1> QED BY <1>2, <1>3, <1>4, <1>5 DEF Attempt

\* attempt() while a batch is out changes nothing but the queue it was given
\* and the request for another attempt.
LEMMA AskStep ==
  ASSUME IInv, InFlight,
         NEW ops \in Seq(Op), NEW waiting \in SUBSET Waiter,
         AskAgain(queue \o ops, waiting), UNCHANGED port
  PROVE  /\ AttemptTyped'
         /\ engine' \o Outstanding' = accepted \o ops
         /\ MirrorIsConfirmed' /\ AttemptPromised' /\ ToldIsStatus'
<1>1. AttemptTyped'
  BY ConcatOp DEF AskAgain, AttemptTyped, IInv, TypeOK, Synchronous
<1>2. engine' \o Outstanding' = accepted \o ops
  <2>1. Outstanding' = Outstanding \o ops
    <3>1. flying \o (queue \o ops) = (flying \o queue) \o ops
      <4>1. flying \in Seq(Op) /\ queue \in Seq(Op)
        BY DEF IInv, TypeOK
      <4> QED BY <4>1, Regroup
    <3> QED BY <3>1 DEF Outstanding, AskAgain
  <2>2. Outstanding \in Seq(Op)
    BY ConcatOp DEF Outstanding, IInv, TypeOK
  <2>3. engine \o (Outstanding \o ops) = (engine \o Outstanding) \o ops
    <3>1. engine \in Seq(Op)
      BY DEF IInv, TypeOK
    <3> QED BY <2>2, <3>1, Regroup
  <2> QED BY <2>1, <2>3 DEF AskAgain, IInv, Accounted
<1>3. MirrorIsConfirmed'
  BY DEF AskAgain, IInv, MirrorIsConfirmed
<1>4. AttemptPromised' /\ ToldIsStatus'
  BY DEF AskAgain, IInv, AttemptPromised, ToldIsStatus, InFlight, Status
<1> QED BY <1>1, <1>2, <1>3, <1>4

\* With nothing in flight the engine holds what the mirror holds, and the
\* queue is all that is outstanding.
LEMMA AtRest ==
  ASSUME IInv, phase # "landed"
  PROVE  engine = mirror
  BY ConcatEmptySeq DEF IInv, TypeOK, MirrorIsConfirmed

\* A request by any caller, flush() or the drain.
LEMMA RequestStep ==
  ASSUME IInv, NEW who \in Callers \cup {Drain}, Request(who), UNCHANGED port
  PROVE  /\ AttemptTyped'
         /\ engine' \o Outstanding' = accepted
         /\ MirrorIsConfirmed' /\ AttemptPromised' /\ ToldIsStatus'
<1> DEFINE waiter == [who |-> who, owes |-> Len(accepted), tried |-> FALSE]
           waiting == settled \cup {waiter}
<1>1. waiting \in SUBSET Waiter
  <2>1. accepted \in Seq(Op) /\ settled \subseteq Waiter
    BY DEF IInv, TypeOK
  <2>2. Len(accepted) \in Nat
    BY <2>1, LenProperties
  <2>3. waiter \in Waiter
    BY <2>2 DEF Waiter
  <2> QED BY <2>1, <2>3
<1>2. queue \o <<>> = queue /\ accepted \o <<>> = accepted /\ <<>> \in Seq(Op)
  BY ConcatEmptySeq DEF IInv, TypeOK
<1>3. CASE InFlight
  <2>1. AskAgain(queue \o <<>>, waiting)
    BY <1>2, <1>3 DEF Request
  <2> QED BY <1>1, <1>2, <1>3, <2>1, AskStep
<1>4. CASE ~InFlight
  <2>1. Attempt(queue, waiting) /\ TypeOK /\ queue \in Seq(Op)
    BY <1>4 DEF Request, IInv, TypeOK
  <2>2. engine = mirror /\ accepted = engine \o queue
    BY <1>4, AtRest DEF InFlight, IInv, Accounted, Outstanding
  <2> QED BY <1>1, <2>1, <2>2, AttemptStep
<1> QED BY <1>3, <1>4

------------------------------------------------------------------------
(* Invariance. *)

\* A session opened over any engine state satisfies the invariant.
LEMMA OpenedInv == ASSUME NEW held \in Seq(Op), Opened(held), port \in Ports PROVE IInv
<1>1. held \o <<>> = held
  BY ConcatEmptySeq
<1>2. TypeOK
  <2>1. /\ accepted \in Seq(Op) /\ engine \in Seq(Op) /\ mirror \in Seq(Op)
        /\ queue \in Seq(Op) /\ flying \in Seq(Op)
    BY DEF Opened
  <2>2. settled \subseteq Waiter
    BY DEF Opened
  <2> QED BY <2>1, <2>2 DEF Opened, TypeOK, Phase, Statuses, Synchronous
<1>3. Accounted /\ MirrorIsConfirmed
  BY <1>1 DEF Opened, Accounted, MirrorIsConfirmed, Outstanding
<1>4. AttemptPromised /\ ToldIsStatus
  BY DEF Opened, AttemptPromised, ToldIsStatus, InFlight, Status
<1> QED BY <1>2, <1>3, <1>4 DEF IInv

\* enqueue() preserves the invariant.
LEMMA EnqueueInv == ASSUME IInv, NEW ops \in Batches, Enqueue(ops) PROVE IInv'
<1>0. /\ accepted \in Seq(Op) /\ engine \in Seq(Op) /\ queue \in Seq(Op)
      /\ settled \in SUBSET Waiter /\ TypeOK /\ ops \in Seq(Op)
      /\ life \in {"open", "draining", "closed"}
  BY BatchIsSeq DEF IInv, TypeOK
<1>1. accepted' = accepted \o ops /\ life' = life /\ port' = port
  BY DEF Enqueue
<1>2. accepted' \in Seq(Op)
  BY <1>0, <1>1, ConcatOp
<1>3. /\ AttemptTyped'
      /\ engine' \o Outstanding' = accepted \o ops
      /\ MirrorIsConfirmed' /\ AttemptPromised' /\ ToldIsStatus'
  <2>1. CASE InFlight
    <3>1. AskAgain(queue \o ops, settled)
      BY <2>1 DEF Enqueue
    <3> QED BY <1>0, <1>1, <2>1, <3>1, AskStep
  <2>2. CASE ~InFlight
    <3>1. Attempt(queue \o ops, settled)
      BY <2>2 DEF Enqueue
    <3>2. queue \o ops \in Seq(Op)
      BY <1>0, ConcatOp
    <3>3. engine = mirror /\ accepted = engine \o queue
      BY <2>2, AtRest DEF InFlight, IInv, Accounted, Outstanding
    <3>4. engine \o (queue \o ops) = accepted \o ops
      BY <1>0, <3>3, Regroup
    <3> QED BY <1>0, <1>1, <3>1, <3>2, <3>3, <3>4, AttemptStep
  <2> QED BY <2>1, <2>2
<1>4. TypeOK'
  BY <1>0, <1>1, <1>2, <1>3 DEF TypeOK, AttemptTyped, Synchronous
<1> QED BY <1>1, <1>3, <1>4 DEF IInv, Accounted

\* flush() and the disposal's drain preserve the invariant.
LEMMA RequestInv ==
  ASSUME IInv, NEW who \in Callers \cup {Drain}, Request(who),
         UNCHANGED <<accepted, port>>, life' \in {"open", "draining", "closed"}
  PROVE  IInv'
<1>1. /\ AttemptTyped' /\ engine' \o Outstanding' = accepted
      /\ MirrorIsConfirmed' /\ AttemptPromised' /\ ToldIsStatus'
  BY RequestStep
<1>2. TypeOK'
  BY <1>1 DEF TypeOK, AttemptTyped, Synchronous, IInv
<1> QED BY <1>1, <1>2 DEF IInv, Accounted

\* The port's own steps preserve the invariant.
LEMMA PortInv == ASSUME IInv, Land \/ Refuse PROVE IInv'
<1>0. /\ engine \in Seq(Op) /\ flying \in Seq(Op) /\ queue \in Seq(Op)
      /\ phase = "out" /\ flying # <<>> /\ TypeOK
      /\ accepted = engine \o (flying \o queue)
      /\ engine \o <<>> = engine /\ engine = mirror \o <<>>
      /\ mirror = engine
  <2>1. phase = "out" /\ TypeOK /\ Accounted /\ MirrorIsConfirmed
    BY DEF Land, Refuse, IInv
  <2>2. engine = mirror
    BY <2>1, AtRest
  <2>3. engine \o <<>> = engine
    BY <2>1, ConcatEmptySeq DEF TypeOK
  <2> QED BY <2>1, <2>2, <2>3 DEF TypeOK, Accounted, Outstanding, MirrorIsConfirmed
<1>1. CASE Land
  <2>1. accepted = (engine \o flying) \o queue
    BY <1>0, Regroup
  <2>2. engine' \in Seq(Op)
    BY <1>0, <1>1, ConcatOp DEF Land
  <2>3. TypeOK'
    BY <1>0, <1>1, <2>2 DEF Land, TypeOK, Phase, Synchronous
  <2>4. Accounted' /\ MirrorIsConfirmed'
    BY <1>0, <1>1, <2>1 DEF Land, Accounted, MirrorIsConfirmed, Outstanding
  <2>5. AttemptPromised' /\ ToldIsStatus'
    BY <1>0, <1>1 DEF Land, IInv, AttemptPromised, ToldIsStatus, InFlight, Status
  <2> QED BY <2>3, <2>4, <2>5 DEF IInv
<1>2. CASE Refuse
  <2>3. TypeOK'
    BY <1>0, <1>2 DEF Refuse, TypeOK, Phase, Synchronous
  <2>4. Accounted' /\ MirrorIsConfirmed'
    BY <1>0, <1>2 DEF Refuse, Accounted, MirrorIsConfirmed, Outstanding
  <2>5. AttemptPromised' /\ ToldIsStatus'
    BY <1>0, <1>2 DEF Refuse, IInv, AttemptPromised, ToldIsStatus, InFlight, Status
  <2> QED BY <2>3, <2>4, <2>5 DEF IInv
<1> QED BY <1>1, <1>2

\* Observing the answer preserves the invariant: a landed batch is absorbed, a
\* refused one goes back to the front of the queue.
LEMMA AnswerInv == ASSUME IInv, Succeeded \/ Failed PROVE IInv'
<1>0. /\ engine \in Seq(Op) /\ flying \in Seq(Op) /\ queue \in Seq(Op)
      /\ mirror \in Seq(Op) /\ TypeOK /\ Accounted /\ MirrorIsConfirmed
  BY DEF IInv, TypeOK
<1>1. CASE Succeeded
  <2>1. mirror' = engine /\ engine' = engine
    BY <1>0, <1>1 DEF Succeeded, MirrorIsConfirmed
  <2>2. engine \o <<>> = engine
    BY <1>0, ConcatEmptySeq
  <2>3. TypeOK'
    BY <1>0, <1>1, <2>1 DEF Succeeded, TypeOK, Phase, Synchronous
  <2>4. Accounted' /\ MirrorIsConfirmed'
    BY <1>0, <1>1, <2>1, <2>2 DEF Succeeded, Accounted, MirrorIsConfirmed, Outstanding
  <2>5. AttemptPromised' /\ ToldIsStatus'
    BY <1>0, <1>1 DEF Succeeded, IInv, AttemptPromised, ToldIsStatus, InFlight, Status
  <2> QED BY <2>3, <2>4, <2>5 DEF IInv
<1>2. CASE Failed
  <2>1. queue' \in Seq(Op)
    BY <1>0, <1>2, ConcatOp DEF Failed
  <2>3. TypeOK'
    BY <1>0, <1>2, <2>1 DEF Failed, TypeOK, Phase, Synchronous
  <2>4. Accounted' /\ MirrorIsConfirmed'
    BY <1>0, <1>2 DEF Failed, Accounted, MirrorIsConfirmed, Outstanding
  <2>5. AttemptPromised' /\ ToldIsStatus'
    BY <1>0, <1>2 DEF Failed, IInv, AttemptPromised, ToldIsStatus, InFlight, Status
  <2> QED BY <2>3, <2>4, <2>5 DEF IInv
<1> QED BY <1>1, <1>2

\* .finally preserves the invariant, with or without another attempt.
LEMMA FinallyInv == ASSUME IInv, Finally PROVE IInv'
<1>0. /\ engine \in Seq(Op) /\ queue \in Seq(Op) /\ settled \in SUBSET Waiter
      /\ TypeOK /\ phase = "handled" /\ engine = mirror
      /\ accepted = engine \o queue
  <2>1. phase = "handled" /\ TypeOK /\ Accounted
    BY DEF Finally, IInv
  <2>2. engine = mirror
    BY <2>1, AtRest
  <2> QED BY <2>1, <2>2 DEF TypeOK, Accounted, Outstanding
<1>1. accepted' = accepted /\ life' = life /\ port' = port
  BY DEF Finally
<1>2. CASE again
  <2>1. Attempt(queue, settled)
    BY <1>2 DEF Finally
  <2>2. /\ AttemptTyped' /\ engine' \o Outstanding' = accepted
        /\ MirrorIsConfirmed' /\ AttemptPromised' /\ ToldIsStatus'
    BY <1>0, <1>1, <2>1, AttemptStep
  <2>3. TypeOK'
    BY <1>0, <1>1, <2>2 DEF TypeOK, AttemptTyped, Synchronous
  <2> QED BY <1>1, <2>2, <2>3 DEF IInv, Accounted
<1>3. CASE ~again
  <2>0. /\ phase' = "idle" /\ flying' = <<>> /\ settled' = {} /\ told' = Status'
        /\ UNCHANGED <<engine, mirror, queue, again, answered>>
    BY <1>3 DEF Finally, Settle
  <2>1. flying' \in Seq(Op) /\ settled' \subseteq Waiter /\ told' \in Statuses
    BY <2>0 DEF Status, Statuses
  <2>2. TypeOK'
    BY <1>0, <1>1, <2>0, <2>1 DEF TypeOK, Phase, Synchronous
  <2>3. Accounted'
    BY <1>0, <1>1, <2>0 DEF Accounted, Outstanding
  <2>4. MirrorIsConfirmed'
    BY <1>0, <2>0, ConcatEmptySeq DEF MirrorIsConfirmed
  <2>5. AttemptPromised' /\ ToldIsStatus'
    BY <1>0, <1>3, <2>0 DEF IInv, AttemptPromised, ToldIsStatus, InFlight
  <2> QED BY <2>2, <2>3, <2>4, <2>5 DEF IInv
<1> QED BY <1>2, <1>3

\* Every step preserves the invariant.
LEMMA NextInv == IInv /\ [Next]_vars => IInv'
<1> SUFFICES ASSUME IInv, [Next]_vars PROVE IInv'
  OBVIOUS
<1>1. ASSUME NEW ops \in Batches, Enqueue(ops) PROVE IInv'
  BY <1>1, EnqueueInv
<1>2. ASSUME NEW caller \in Callers, Flush(caller) PROVE IInv'
  <2>1. life' \in {"open", "draining", "closed"}
    BY <1>2 DEF Flush, IInv, TypeOK
  <2> QED BY <1>2, <2>1, RequestInv DEF Flush
<1>3. CASE Dispose
  BY <1>3, RequestInv DEF Dispose
<1>4. CASE Close
  BY <1>4 DEF Close, IInv, TypeOK, Accounted, MirrorIsConfirmed, AttemptPromised,
              ToldIsStatus, Outstanding, InFlight, Status, Synchronous
<1>5. CASE Land \/ Refuse
  BY <1>5, PortInv
<1>6. CASE Succeeded \/ Failed
  BY <1>6, AnswerInv
<1>7. CASE Finally
  BY <1>7, FinallyInv
<1>8. CASE Restart
  <2>1. engine \in Seq(Op) /\ engine \o <<>> = engine /\ port \in Ports
    BY ConcatEmptySeq DEF IInv, TypeOK
  <2>2. settled' \subseteq Waiter
    BY <1>8 DEF Restart
  <2>3. TypeOK'
    <3>1. queue' \in Seq(Op) /\ flying' \in Seq(Op)
      BY <1>8, <2>1 DEF Restart
    <3> QED BY <1>8, <2>1, <2>2, <3>1 DEF Restart, TypeOK, Phase, Statuses, Synchronous
  <2>4. Accounted' /\ MirrorIsConfirmed'
    BY <1>8, <2>1 DEF Restart, Accounted, MirrorIsConfirmed, Outstanding
  <2>5. AttemptPromised' /\ ToldIsStatus'
    BY <1>8 DEF Restart, AttemptPromised, ToldIsStatus, InFlight, Status
  <2> QED BY <2>3, <2>4, <2>5 DEF IInv
<1>9. CASE UNCHANGED vars
  BY <1>9 DEF vars, IInv, TypeOK, Accounted, MirrorIsConfirmed, AttemptPromised,
              ToldIsStatus, Outstanding, InFlight, Status, Synchronous
<1> QED BY <1>1, <1>2, <1>3, <1>4, <1>5, <1>6, <1>7, <1>8, <1>9 DEF Next

------------------------------------------------------------------------
(* The theorems. *)

\* Every reachable state of the controller satisfies the inductive invariant,
\* for every kind of port, set of callers and bound (persistence.ts:189-421).
THEOREM Invariance == Spec => []IInv
<1>1. Init => IInv
  <2>1. <<>> \in Seq(Op)
    OBVIOUS
  <2> QED BY <2>1, OpenedInv DEF Init
<1>2. IInv /\ [Next]_vars => IInv'
  BY NextInv
<1> QED BY <1>1, <1>2, PTL DEF Spec

\* The controller's variables keep their types, and a batch is out exactly when
\* the controller holds one.
THEOREM TypeCorrect == Spec => []TypeOK
<1>1. IInv => TypeOK
  BY DEF IInv
<1> QED BY <1>1, Invariance, PTL

\* No accepted operation is lost, duplicated or reordered: refusals put the batch
\* back in front of what arrived since (persistence.ts:301-309).
THEOREM NothingIsLost == Spec => []Accounted
<1>1. IInv => Accounted
  BY DEF IInv
<1> QED BY <1>1, Invariance, PTL

\* `saved` is never shown while accepted work remains only in memory
\* (persistence.ts:96, 212-216).
THEOREM SavedMeansDurable == Spec => []SavedIsDurable
<1>1. IInv => SavedIsDurable
  <2> SUFFICES ASSUME IInv, Status = "saved" PROVE engine = accepted
    BY DEF SavedIsDurable
  <2>1. phase = "idle" /\ queue = <<>>
    BY DEF Status, InFlight
  <2>2. engine \o <<>> = engine
    BY ConcatEmptySeq DEF IInv, TypeOK
  <2> QED BY <2>1, <2>2 DEF IInv, Accounted, Outstanding
<1> QED BY <1>1, Invariance, PTL

\* `blocked` is shown only after the port refused the latest attempt
\* (persistence.ts:97-99): no work waits in the queue untried.
THEOREM BlockedMeansRefused == Spec => []BlockedMeansFailed
<1>1. IInv => BlockedMeansFailed
  BY DEF IInv, BlockedMeansFailed, AttemptPromised, Status, InFlight
<1> QED BY <1>1, Invariance, PTL

\* The mirror the sender reads is what the engine committed, but for a batch
\* whose landing has not been observed yet (persistence.ts:240-299).
THEOREM MirrorNeverAhead == Spec => []MirrorIsConfirmed
<1>1. IInv => MirrorIsConfirmed
  BY DEF IInv
<1> QED BY <1>1, Invariance, PTL

------------------------------------------------------------------------
(* What flush() promises. *)

\* A flush() waits only while a batch is out, for no more than was accepted, and
\* one whose work is not in that batch has asked for another attempt.
WaitersPromised ==
    /\ settled # {} => InFlight
    /\ \A w \in settled : w.owes <= Len(accepted)
    /\ \A w \in settled : w.tried \/ again

\* An attempt over work whose waiters owe no more than `bound` resolves them all, or
\* hands off a batch with all of theirs in it.
LEMMA AttemptWaits ==
  ASSUME NEW pending, NEW waiting \in SUBSET Waiter, NEW bound \in Nat,
         \A w \in waiting : w.owes <= bound,
         Attempt(pending, waiting)
  PROVE  /\ settled' # {} => phase' # "idle" /\ waiting # {}
         /\ \A w \in settled' : w.owes <= bound /\ w.tried
<1>1. CASE settled' = {}
  BY <1>1
<1>2. CASE settled' # {}
  <2>1. HandedOff(pending, waiting)
    BY <1>2 DEF Attempt, NothingToDo, Threw, CommittedInline, Settle
  <2>2. settled' = {[w EXCEPT !.tried = TRUE] : w \in waiting} /\ phase' = "out"
    BY <2>1 DEF HandedOff
  <2>3. \A w \in waiting : LET v == [w EXCEPT !.tried = TRUE]
                          IN  v.owes = w.owes /\ v.tried = TRUE
    BY DEF Waiter
  <2> QED BY <2>2, <2>3
<1> QED BY <1>1, <1>2

\* A request by a caller who owes what is accepted now.
LEMMA RequestWaits ==
  ASSUME IInv, WaitersPromised, NEW who \in Callers \cup {Drain},
         Request(who), UNCHANGED accepted
  PROVE  WaitersPromised'
<1> DEFINE waiter == [who |-> who, owes |-> Len(accepted), tried |-> FALSE]
           waiting == settled \cup {waiter}
<1>1. Len(accepted) \in Nat
  BY LenProperties DEF IInv, TypeOK
<1>2. waiting \in SUBSET Waiter /\ \A w \in waiting : w.owes <= Len(accepted)
  <2>1. waiter \in Waiter /\ waiter.owes = Len(accepted)
    BY <1>1 DEF Waiter
  <2>2. settled \subseteq Waiter
    BY DEF IInv, TypeOK
  <2>3. \A w \in settled : w.owes <= Len(accepted)
    BY DEF WaitersPromised
  <2> HIDE DEF waiter
  <2> QED BY <1>1, <2>1, <2>2, <2>3
<1>3. CASE InFlight
  BY <1>2, <1>3 DEF Request, AskAgain, WaitersPromised, InFlight
<1>4. CASE ~InFlight
  <2>1. Attempt(queue, waiting)
    BY <1>4 DEF Request
  <2> HIDE DEF waiting
  <2> QED BY <1>1, <1>2, <2>1, AttemptWaits DEF WaitersPromised, InFlight
<1> QED BY <1>3, <1>4

\* Newly accepted work does not make anybody wait who was not waiting.
LEMMA EnqueueWaits ==
  ASSUME IInv, WaitersPromised, NEW ops \in Batches, Enqueue(ops)
  PROVE  WaitersPromised'
<1>1. accepted \in Seq(Op) /\ ops \in Seq(Op) /\ settled \in SUBSET Waiter
  BY BatchIsSeq DEF IInv, TypeOK
<1>2. accepted' = accepted \o ops
  BY DEF Enqueue
<1>3. Len(accepted') \in Nat /\ Len(accepted) \in Nat /\ Len(accepted) <= Len(accepted')
  BY <1>1, <1>2, LenProperties, ConcatProperties
<1>4. \A w \in settled : w.owes \in Nat /\ w.owes <= Len(accepted')
  BY <1>1, <1>3 DEF WaitersPromised, Waiter
<1>5. CASE InFlight
  BY <1>4, <1>5 DEF Enqueue, AskAgain, WaitersPromised, InFlight
<1>6. CASE ~InFlight
  <2>1. Attempt(queue \o ops, settled)
    BY <1>6 DEF Enqueue
  <2> QED BY <1>1, <1>3, <1>4, <2>1, AttemptWaits DEF WaitersPromised, InFlight
<1> QED BY <1>5, <1>6

\* The end of a flight answers its waiters or tries once more for them.
LEMMA FinallyWaits ==
  ASSUME IInv, WaitersPromised, Finally
  PROVE  WaitersPromised'
<1>1. CASE again
  <2>1. Attempt(queue, settled) /\ accepted' = accepted
    BY <1>1 DEF Finally
  <2>2. settled \in SUBSET Waiter /\ Len(accepted) \in Nat
    BY LenProperties DEF IInv, TypeOK
  <2> QED BY <2>1, <2>2, AttemptWaits DEF WaitersPromised, InFlight
<1>2. CASE ~again
  BY <1>2 DEF Finally, Settle, WaitersPromised
<1> QED BY <1>1, <1>2

LEMMA WaitersInv == IInv /\ WaitersPromised /\ [Next]_vars => WaitersPromised'
<1> SUFFICES ASSUME IInv, WaitersPromised, [Next]_vars PROVE WaitersPromised'
  OBVIOUS
<1>1. ASSUME NEW ops \in Batches, Enqueue(ops) PROVE WaitersPromised'
  BY <1>1, EnqueueWaits
<1>2. ASSUME NEW caller \in Callers, Flush(caller) PROVE WaitersPromised'
  BY <1>2, RequestWaits DEF Flush
<1>3. CASE Dispose
  BY <1>3, RequestWaits DEF Dispose
<1>4. CASE Close
  BY <1>4 DEF Close, WaitersPromised, InFlight
<1>5. CASE Land \/ Refuse
  BY <1>5 DEF Land, Refuse, WaitersPromised, InFlight
<1>6. CASE Succeeded \/ Failed
  BY <1>6 DEF Succeeded, Failed, WaitersPromised, InFlight
<1>7. CASE Finally
  BY <1>7, FinallyWaits
<1>8. CASE Restart
  BY <1>8 DEF Restart, WaitersPromised
<1>9. CASE UNCHANGED vars
  BY <1>9 DEF vars, WaitersPromised, InFlight
<1> QED BY <1>1, <1>2, <1>3, <1>4, <1>5, <1>6, <1>7, <1>8, <1>9 DEF Next

\* A step that resolves a waiter found its work in the engine, or its own attempt
\* refused.
LEMMA ResolvedHonestly ==
  ASSUME IInv, WaitersPromised, [Next]_vars, NEW w \in settled,
         settled' = {}, ~Restart
  PROVE  w.tried \/ Len(engine) >= w.owes
<1>1. InFlight
  BY DEF WaitersPromised
<1>2. Finally
  <2>1. settled' # settled
    OBVIOUS
  <2>2. ASSUME NEW ops \in Batches, Enqueue(ops) PROVE FALSE
    BY <1>1, <2>1, <2>2 DEF Enqueue, AskAgain
  <2>3. ASSUME NEW who, Request(who) PROVE FALSE
    BY <1>1, <2>3 DEF Request, AskAgain
  <2> QED BY <2>1, <2>2, <2>3
          DEF Next, Flush, Dispose, Close, Land, Refuse, Succeeded, Failed, vars
<1>3. CASE ~again
  BY <1>3 DEF WaitersPromised
<1>4. CASE again
  <2>1. Attempt(queue, settled) /\ phase = "handled"
    BY <1>2, <1>4 DEF Finally
  <2>2. ~HandedOff(queue, settled)
    BY DEF HandedOff
  <2>3. ~Synchronous
    BY <2>1 DEF IInv, TypeOK
  <2>4. queue = <<>>
    BY <2>1, <2>2, <2>3 DEF Attempt, NothingToDo, Threw, CommittedInline
  <2>5. accepted = engine
    BY <2>1, <2>4, ConcatEmptySeq DEF IInv, TypeOK, Accounted, Outstanding
  <2>6. w.owes \in Nat /\ Len(engine) \in Nat
    BY LenProperties DEF IInv, TypeOK, Waiter
  <2> QED BY <2>5, <2>6 DEF WaitersPromised
<1> QED BY <1>3, <1>4

\* flush() resolves only once what was accepted before the call is durable, or was
\* in an attempt made after the call (persistence.ts:106-108, 364-371).
THEOREM FlushesAreHonest == Spec => FlushIsHonest
<1>1. Init => IInv /\ WaitersPromised
  <2>1. <<>> \in Seq(Op)
    OBVIOUS
  <2> QED BY <2>1, OpenedInv DEF Init, Opened, WaitersPromised
<1>2. IInv /\ WaitersPromised /\ [Next]_vars => IInv' /\ WaitersPromised'
  BY NextInv, WaitersInv
<1>3. IInv /\ WaitersPromised /\ [Next]_vars
        => [\A w \in settled : settled' = {} /\ ~Restart
                => w.tried \/ Len(engine) >= w.owes]_vars
  BY ResolvedHonestly
<1> QED BY <1>1, <1>2, <1>3, PTL DEF Spec, FlushIsHonest

------------------------------------------------------------------------
(* The controller implements the durable log. *)

\* A log followed by more operations extends it.
LEMMA Extending ==
  ASSUME NEW s \in Seq(Op), NEW t \in Seq(Op)
  PROVE  s \o t \in Log!Extensions(s)
<1>1. /\ s \o t \in Seq(Op) /\ Len(s \o t) = Len(s) + Len(t)
      /\ \A i \in 1 .. Len(s) + Len(t) :
             (s \o t)[i] = IF i <= Len(s) THEN s[i] ELSE t[i - Len(s)]
  BY ConcatProperties
<1>2. Len(s) \in Nat /\ Len(t) \in Nat
  BY LenProperties
<1>3. \A i \in 1 .. Len(s) : (s \o t)[i] = s[i]
  BY <1>1, <1>2
<1> DEFINE longer == s \o t
<1>4. /\ longer \in Seq(Op) /\ Len(s) <= Len(longer)
      /\ \A i \in 1 .. Len(s) : longer[i] = s[i]
  BY <1>1, <1>2, <1>3
<1>5. longer \in Log!Extensions(s)
  <2> HIDE DEF longer
  <2> QED BY <1>4 DEF Log!Extensions
<1> QED BY <1>5

\* Every log extends itself.
LEMMA ExtendsItself == ASSUME NEW s \in Seq(Op) PROVE s \in Log!Extensions(s)
<1>1. s \o <<>> = s /\ <<>> \in Seq(Op)
  BY ConcatEmptySeq
<1> QED BY <1>1, Extending

\* What an attempt does to the engine, seen from the log: it commits the whole
\* queue or nothing of it.
LEMMA AttemptCommits ==
  ASSUME NEW pending, NEW waiting, Attempt(pending, waiting)
  PROVE  engine' = engine \/ engine' = engine \o pending
  BY DEF Attempt, NothingToDo, Threw, CommittedInline, HandedOff

\* Committing the whole outstanding queue, or nothing, is a step of the log.
LEMMA CommitIsPersist ==
  ASSUME NEW pending \in Seq(Op), accepted \in Seq(Op), engine \in Seq(Op),
         accepted = engine \o pending, accepted' = accepted,
         engine' = engine \/ engine' = engine \o pending
  PROVE  [Log!Next]_(Log!vars)
<1>1. CASE engine' = engine
  BY <1>1 DEF Log!vars
<1>2. CASE engine' = engine \o pending
  <2>1. engine' \in Log!Extensions(engine) /\ accepted \in Log!Extensions(engine')
    BY <1>2, Extending, ExtendsItself
  <2> QED BY <2>1 DEF Log!Next, Log!Persist
<1> QED BY <1>1, <1>2

\* Every step of the controller is a step of the durable log or changes neither
\* what is accepted nor what is durable.
LEMMA StepRefines == IInv /\ [Next]_vars => [Log!Next]_(Log!vars)
<1> SUFFICES ASSUME IInv, [Next]_vars PROVE [Log!Next]_(Log!vars)
  OBVIOUS
<1>0. /\ accepted \in Seq(Op) /\ engine \in Seq(Op) /\ queue \in Seq(Op)
      /\ flying \in Seq(Op)
  BY DEF IInv, TypeOK
<1>1. ASSUME NEW ops \in Batches, Enqueue(ops) PROVE [Log!Next]_(Log!vars)
  <2>1. accepted' = accepted \o ops /\ ops \in Seq(Op)
    BY <1>1, BatchIsSeq DEF Enqueue
  <2>2. accepted' \in Log!Extensions(accepted)
    BY <1>0, <2>1, Extending
  <2>3. engine' = engine \/ engine' = accepted'
    <3>1. CASE InFlight
      BY <1>1, <3>1 DEF Enqueue, AskAgain
    <3>2. CASE ~InFlight
      <4>1. engine' = engine \/ engine' = engine \o (queue \o ops)
        BY <1>1, <3>2, AttemptCommits DEF Enqueue
      <4>2. accepted = engine \o queue
        BY <3>2 DEF InFlight, IInv, Accounted, Outstanding
      <4>3. engine \o (queue \o ops) = accepted'
        BY <1>0, <2>1, <4>2, Regroup
      <4> QED BY <4>1, <4>3
    <3> QED BY <3>1, <3>2
  <2> QED BY <2>2, <2>3 DEF Log!Next, Log!Accept, Log!AcceptPersisted
<1>2. ASSUME NEW who, Request(who), accepted' = accepted
      PROVE [Log!Next]_(Log!vars)
  <2>1. CASE InFlight
    BY <1>2, <2>1 DEF Request, AskAgain, Log!vars
  <2>2. CASE ~InFlight
    <3>1. engine' = engine \/ engine' = engine \o queue
      BY <1>2, <2>2, AttemptCommits DEF Request
    <3>2. accepted = engine \o queue
      BY <2>2 DEF InFlight, IInv, Accounted, Outstanding
    <3> QED BY <1>0, <1>2, <3>1, <3>2, CommitIsPersist
  <2> QED BY <2>1, <2>2
<1>3. ASSUME NEW caller \in Callers, Flush(caller) PROVE [Log!Next]_(Log!vars)
  BY <1>2, <1>3 DEF Flush
<1>4. CASE Dispose
  BY <1>2, <1>4 DEF Dispose
<1>5. CASE Land
  <2>1. /\ engine' = engine \o flying /\ accepted' = accepted
        /\ accepted = (engine \o flying) \o queue
    BY <1>0, <1>5, Regroup DEF Land, IInv, Accounted, Outstanding
  <2>2. engine' \in Log!Extensions(engine) /\ accepted \in Log!Extensions(engine')
    BY <1>0, <2>1, ConcatOp, Extending
  <2> QED BY <2>1, <2>2 DEF Log!Next, Log!Persist
<1>6. CASE Finally
  <2>1. engine' = engine \/ engine' = engine \o queue
    BY <1>6, AttemptCommits DEF Finally
  <2>2. accepted = engine \o queue /\ accepted' = accepted
    BY <1>6 DEF Finally, IInv, Accounted, Outstanding
  <2> QED BY <1>0, <2>1, <2>2, CommitIsPersist
<1>7. CASE Restart
  BY <1>7 DEF Restart, Log!Next, Log!Crash
<1>8. CASE Close \/ Refuse \/ Succeeded \/ Failed \/ UNCHANGED vars
  BY <1>8 DEF Close, Refuse, Succeeded, Failed, vars, Log!vars
<1> QED BY <1>1, <1>3, <1>4, <1>5, <1>6, <1>7, <1>8 DEF Next

\* The controller implements the durable log: acceptance is a total order, what
\* is durable is always a prefix of it, and a crash loses only the rest.
THEOREM Refinement == Spec => ImplementsLog
<1>1. Init => Log!Init
  <2>1. <<>> \in Seq(Op)
    OBVIOUS
  <2> QED BY <2>1 DEF Init, Opened, Log!Init
<1>2. IInv /\ [Next]_vars => [Log!Next]_(Log!vars)
  BY StepRefines
<1> QED BY <1>1, <1>2, Invariance, PTL DEF Spec, ImplementsLog, Log!Spec

------------------------------------------------------------------------
(* The update log. *)

Chains == Seq(SUBSET Update)

\* A document nothing was written for.
LEMMA EmptyChain == <<>> \in Seq(SUBSET Update) /\ Len(<<>>) = 0 /\ 0 < Threshold
<1>1. <<>> \in Seq(SUBSET Update) /\ Len(<<>>) = 0
  BY EmptySeq
<1>2. 0 < Threshold
  BY ThresholdAssumption
<1> QED BY <1>1, <1>2

\* One more row carries what the chain carried, and its update.
LEMMA CarriedAppended ==
  ASSUME NEW s \in Chains, NEW update \in Update
  PROVE  /\ s \o <<{update}>> \in Chains
         /\ Len(s \o <<{update}>>) = Len(s) + 1
         /\ Carried(s \o <<{update}>>) = Carried(s) \cup {update}
<1> DEFINE longer == s \o <<{update}>>
<1>1. longer \in Chains /\ Len(longer) = Len(s) + 1
  BY DEF Chains
<1>2. \A i \in DOMAIN s : i \in DOMAIN longer /\ longer[i] = s[i]
  BY DEF Chains
<1>3. Len(s) + 1 \in DOMAIN longer /\ longer[Len(s) + 1] = {update}
  BY DEF Chains
<1>4. \A i \in DOMAIN longer : i \in DOMAIN s \/ i = Len(s) + 1
  BY DEF Chains
<1>5. Carried(longer) = Carried(s) \cup {update}
  <2>1. ASSUME NEW u \in Carried(s) \cup {update} PROVE u \in Carried(longer)
    BY <1>2, <1>3, <2>1 DEF Carried
  <2>2. ASSUME NEW u \in Carried(longer) PROVE u \in Carried(s) \cup {update}
    BY <1>2, <1>3, <1>4, <2>2 DEF Carried
  <2> QED BY <2>1, <2>2
<1> QED BY <1>1, <1>5

\* A chain's rows carry updates, and the baseline a fold leaves carries them all.
LEMMA CarriedFolded ==
  ASSUME NEW s \in Chains
  PROVE  /\ Carried(s) \subseteq Update
         /\ Baseline(s) \in Chains /\ Len(Baseline(s)) = 1
         /\ Carried(Baseline(s)) = Carried(s)
<1>1. Carried(s) \subseteq Update
  BY DEF Carried, Chains
<1>2. Baseline(s) \in Chains /\ Len(Baseline(s)) = 1
  BY <1>1 DEF Baseline, Chains
<1>3. DOMAIN Baseline(s) = {1} /\ Baseline(s)[1] = Carried(s)
  BY DEF Baseline
<1>4. Carried(Baseline(s)) = Carried(s)
  BY <1>3 DEF Carried
<1> QED BY <1>1, <1>2, <1>4

\* What a fold copies to the history are rows.
LEMMA CopiedTyped ==
  ASSUME NEW s \in Chains, history \in [1 .. Threshold -> SUBSET Update]
  PROVE  Copied(s) \in [1 .. Threshold -> SUBSET Update]
<1>1. \A seq \in DOMAIN s : s[seq] \in SUBSET Update
  BY DEF Chains
<1>2. \A seq \in 1 .. Threshold : history[seq] \in SUBSET Update
  OBVIOUS
<1> QED BY <1>1, <1>2 DEF Copied

\* Inside a transaction the chain to be carries what was committed and what the
\* batch has brought so far: the reason why its commit loses nothing.
WorkingIsComplete == open => committed \cup batch \subseteq Carried(working)

LogInv == LogTypeOK /\ ReplayIsComplete /\ WorkingIsComplete

LEMMA LogInitInv == LogInit => LogInv
<1> SUFFICES ASSUME LogInit PROVE LogInv
  OBVIOUS
<1>1. LogTypeOK
  BY EmptyChain DEF LogInit, LogTypeOK, NoRow
<1> QED BY <1>1 DEF LogInit, LogInv, ReplayIsComplete, WorkingIsComplete

\* An update joins the open transaction, as one more row or folded with the rest.
LEMMA AppendInv ==
  ASSUME LogInv, NEW update \in Update, AppendUpdate(update)
  PROVE  LogInv'
<1> DEFINE longer == working \o <<{update}>>
<1>1. working \in Chains /\ Threshold \in Nat /\ Threshold > 1
  BY ThresholdAssumption DEF LogInv, LogTypeOK, Chains
<1>2. /\ longer \in Chains /\ Len(longer) = Len(working) + 1
      /\ Carried(longer) = Carried(working) \cup {update}
  BY <1>1, CarriedAppended
<1>3. /\ working' \in Chains /\ Len(working') < Threshold
      /\ Carried(working') = Carried(longer)
      /\ history' \in [1 .. Threshold -> SUBSET Update]
  <2> HIDE DEF longer
  <2>1. CASE Len(longer) < Threshold
    <3>1. working' = longer /\ history' = history
      BY <2>1 DEF AppendUpdate, longer
    <3> QED BY <1>2, <2>1, <3>1 DEF LogInv, LogTypeOK
  <2>2. CASE ~(Len(longer) < Threshold)
    <3>1. working' = Baseline(longer) /\ history' = Copied(longer)
      BY <2>2 DEF AppendUpdate, longer
    <3>2. history' \in [1 .. Threshold -> SUBSET Update]
      BY <1>2, <3>1, CopiedTyped DEF LogInv, LogTypeOK
    <3> QED BY <1>1, <1>2, <3>1, <3>2, CarriedFolded
  <2> QED BY <2>1, <2>2
<1>4. LogTypeOK'
  BY <1>3 DEF LogInv, LogTypeOK, AppendUpdate, Chains
<1>5. WorkingIsComplete'
  BY <1>2, <1>3 DEF LogInv, WorkingIsComplete, AppendUpdate
<1>6. ReplayIsComplete'
  BY DEF LogInv, ReplayIsComplete, AppendUpdate, Carried
<1> QED BY <1>4, <1>5, <1>6 DEF LogInv

LEMMA LogNextInv == LogInv /\ [LogNext]_logVars => LogInv'
<1> SUFFICES ASSUME LogInv, [LogNext]_logVars PROVE LogInv'
  OBVIOUS
<1> USE DEF LogInv
<1>1. CASE Begin
  <2>1. LogTypeOK' BY <1>1 DEF Begin, LogTypeOK
  <2>2. ReplayIsComplete' BY <1>1 DEF Begin, ReplayIsComplete, Carried
  <2>3. WorkingIsComplete' BY <1>1 DEF Begin, ReplayIsComplete, WorkingIsComplete, Carried
  <2> QED BY <2>1, <2>2, <2>3
<1>2. CASE Commit
  <2>1. LogTypeOK' BY <1>2, EmptyChain DEF Commit, LogTypeOK
  <2>2. ReplayIsComplete' BY <1>2 DEF Commit, ReplayIsComplete, WorkingIsComplete, Carried
  <2>3. WorkingIsComplete' BY <1>2 DEF Commit, WorkingIsComplete
  <2> QED BY <2>1, <2>2, <2>3
<1>3. CASE Abort
  <2>1. LogTypeOK' BY <1>3, EmptyChain DEF Abort, LogTypeOK
  <2>2. ReplayIsComplete' BY <1>3 DEF Abort, ReplayIsComplete, Carried
  <2>3. WorkingIsComplete' BY <1>3 DEF Abort, WorkingIsComplete
  <2> QED BY <2>1, <2>2, <2>3
<1>4. CASE Discard
  <2>1. LogTypeOK' BY <1>4, EmptyChain DEF Discard, LogTypeOK
  <2>2. ReplayIsComplete' BY <1>4 DEF Discard, ReplayIsComplete
  <2>3. WorkingIsComplete' BY <1>4 DEF Discard, WorkingIsComplete
  <2> QED BY <2>1, <2>2, <2>3
<1>5. ASSUME NEW update \in Update, AppendUpdate(update) PROVE LogInv'
  BY <1>5, AppendInv
<1>6. CASE UNCHANGED logVars
  BY <1>6 DEF logVars, LogTypeOK, ReplayIsComplete, WorkingIsComplete, Carried
<1> QED BY <1>1, <1>2, <1>3, <1>4, <1>5, <1>6 DEF LogNext

\* The strengthened invariant, for every threshold.
THEOREM LogInvariance == LogSpec => []LogInv
<1>1. LogInit => LogInv
  BY LogInitInv
<1>2. LogInv /\ [LogNext]_logVars => LogInv'
  BY LogNextInv
<1> QED BY <1>1, <1>2, PTL DEF LogSpec

\* log.ts:22-28: the rows have their types, and a chain stays shorter than the
\* threshold at which appendUpdate() folds it.
THEOREM ChainStaysShort == LogSpec => []LogTypeOK
<1>1. LogInv => LogTypeOK
  BY DEF LogInv
<1> QED BY <1>1, LogInvariance, PTL

\* A fold loses nothing that a replay would show: what was ever committed is
\* carried by the chain that is committed now (log.ts, appendUpdate).
THEOREM ReplayLosesNothing == LogSpec => []ReplayIsComplete
<1>1. LogInv => ReplayIsComplete
  BY DEF LogInv
<1> QED BY <1>1, LogInvariance, PTL
===========================================================================
