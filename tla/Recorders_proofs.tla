-------------------------- MODULE Recorders_proofs --------------------------
(***************************************************************************)
(* What the captures of a page guarantee for every number of starts,       *)
(* sessions and utterances: a recording the host has is held by the page,  *)
(* a microphone that is open can be closed, every capture runs with its    *)
(* own snapshot, and what was paused plays again.  And what push-to-talk   *)
(* guarantees over the same recorder: nothing it started is stuck on, and   *)
(* a stop takes the recording it was meant for.                            *)
(***************************************************************************)
EXTENDS Captures, PushToTalk, SequenceTheorems, TLAPS
-----------------------------------------------------------------------------
(* Recordings, and what waits for the bootstrap. *)

LEMMA StartsAre ==
  /\ \A s \in Starts : s \in Recordings /\ s \in Nat /\ s # 0 /\ s # None
  /\ \A r \in Recordings : r # None /\ (r = 0 \/ r \in Starts)
  /\ 0 \in Recordings /\ None \notin Recordings
  BY StartsAssumption, NoneAssumption DEF Starts, Recordings

LEMMA OpFields ==
  /\ \A r \in Recordings : Stop(r) \in Ops /\ Stop(r).op = "stop" /\ Stop(r).of = r
  /\ \A s \in Starts : Start(s) \in Ops /\ Start(s).op = "start" /\ Start(s).of = s
  /\ Cancel \in Ops /\ Cancel.op = "cancel"
  BY DEF Ops, Stop, Start, Cancel

LEMMA OpsAre ==
  ASSUME NEW op \in Ops
  PROVE  /\ op.op \in {"stop", "cancel", "start"}
         /\ op.op = "start" => op.of \in Starts /\ op = Start(op.of)
         /\ op.op = "stop" => op.of \in Recordings /\ op = Stop(op.of)
         /\ op.op = "cancel" => op = Cancel
  BY DEF Ops, Stop, Start, Cancel

\* A queue that grew by other things than starts.
Grown(queue, longer) ==
    /\ longer \in Seq(Ops) /\ Len(queue) <= Len(longer)
    /\ \A i \in 1 .. Len(queue) : longer[i] = queue[i]
    /\ \A i \in 1 .. Len(longer) : i > Len(queue) => longer[i].op # "start"

LEMMA GrownQueue ==
  ASSUME NEW queue \in Seq(Ops), NEW longer, Grown(queue, longer)
  PROVE  /\ \A s \in Starts : Awaits(longer, s) <=> Awaits(queue, s)
         /\ StartsOnce(queue) => StartsOnce(longer)
         /\ queue # <<>> => longer # <<>>
<1>1. /\ longer \in Seq(Ops) /\ Len(queue) \in Nat /\ Len(longer) \in Nat
      /\ DOMAIN queue = 1 .. Len(queue) /\ DOMAIN longer = 1 .. Len(longer)
  BY DEF Grown
<1>2. \A i \in 1 .. Len(longer) : longer[i].op = "start" => i \in 1 .. Len(queue) /\ longer[i] = queue[i]
  BY <1>1 DEF Grown
<1>3. \A i \in 1 .. Len(queue) : i \in 1 .. Len(longer) /\ longer[i] = queue[i]
  BY <1>1 DEF Grown
<1>4. ASSUME NEW s \in Starts PROVE Awaits(longer, s) <=> Awaits(queue, s)
  <2>1. Start(s).op = "start"
    BY OpFields
  <2> QED BY <1>1, <1>2, <1>3, <2>1 DEF Awaits
<1>5. StartsOnce(queue) => StartsOnce(longer)
  BY <1>1, <1>2 DEF StartsOnce
<1>6. queue # <<>> => longer # <<>>
  <2>1. CASE longer = <<>>
    <3>1. Len(queue) = 0
      BY <1>1, <2>1 DEF Grown
    <3> QED BY <3>1, EmptySeq
  <2> QED BY <2>1
<1> QED BY <1>4, <1>5, <1>6

LEMMA GrownBy ==
  ASSUME NEW queue \in Seq(Ops), NEW longer, Grown(queue, longer),
         NEW op \in Ops, op.op # "start"
  PROVE  Grown(queue, Append(longer, op))
<1> DEFINE more == Append(longer, op)
<1>1. /\ more \in Seq(Ops) /\ Len(more) = Len(longer) + 1 /\ Len(longer) \in Nat /\ Len(queue) \in Nat
      /\ \A i \in 1 .. Len(longer) : more[i] = longer[i]
      /\ more[Len(longer) + 1] = op
  BY DEF Grown
<1> HIDE DEF more
<1>2. \A i \in 1 .. Len(more) : i \in 1 .. Len(longer) \/ i = Len(longer) + 1
  BY <1>1
<1>3. Grown(queue, more)
  BY <1>1, <1>2 DEF Grown
<1> QED BY <1>3 DEF more

LEMMA GrownNot ==
  ASSUME NEW queue \in Seq(Ops)
  PROVE  Grown(queue, queue)
  BY DEF Grown

LEMMA EmptyQueue == <<>> \in Seq(Ops) /\ StartsOnce(<<>>) /\ \A s \in Starts : ~Awaits(<<>>, s)
  BY DEF StartsOnce, Awaits

\* The one start joins the queue, behind what grew.
LEMMA StartQueued ==
  ASSUME NEW queue \in Seq(Ops), NEW s \in Starts, \A t \in Starts : ~Awaits(queue, t)
  PROVE  LET more == Append(queue, Start(s))
         IN  /\ more \in Seq(Ops) /\ StartsOnce(more) /\ more # <<>>
             /\ \A t \in Starts : Awaits(more, t) <=> t = s
<1> DEFINE more == Append(queue, Start(s))
<1>1. Start(s) \in Ops /\ Start(s).op = "start" /\ Start(s).of = s
  BY OpFields
<1>2. /\ more \in Seq(Ops) /\ Len(more) = Len(queue) + 1 /\ Len(queue) \in Nat
      /\ \A i \in 1 .. Len(queue) : more[i] = queue[i]
      /\ more[Len(queue) + 1] = Start(s) /\ more # <<>>
      /\ DOMAIN more = 1 .. Len(more) /\ DOMAIN queue = 1 .. Len(queue)
  BY <1>1
<1> HIDE DEF more
<1>3. \A i \in 1 .. Len(queue) : queue[i].op # "start"
  <2>1. SUFFICES ASSUME NEW i \in 1 .. Len(queue), queue[i].op = "start" PROVE FALSE
    OBVIOUS
  <2>2. queue[i] \in Ops
    BY <1>2
  <2> QED BY <1>2, <2>1, <2>2, OpsAre DEF Awaits
<1>4. \A i \in 1 .. Len(more) : more[i].op = "start" <=> i = Len(queue) + 1
  <2>1. \A i \in 1 .. Len(more) : i \in 1 .. Len(queue) \/ i = Len(queue) + 1
    BY <1>2
  <2>2. \A i \in 1 .. Len(queue) : i # Len(queue) + 1
    BY <1>2
  <2> QED BY <1>1, <1>2, <1>3, <2>1, <2>2
<1>5. StartsOnce(more)
  BY <1>2, <1>4 DEF StartsOnce
<1>6. ASSUME NEW t \in Starts PROVE Awaits(more, t) <=> t = s
  <2>1. Start(t).op = "start" /\ Start(t).of = t
    BY OpFields
  <2>2. Len(queue) + 1 \in DOMAIN more
    BY <1>2
  <2> QED BY <1>1, <1>2, <1>4, <2>1, <2>2 DEF Awaits
<1>7. /\ more \in Seq(Ops) /\ StartsOnce(more) /\ more # <<>>
      /\ \A t \in Starts : Awaits(more, t) <=> t = s
  BY <1>2, <1>5, <1>6
<1> QED BY <1>7 DEF more

\* The oldest continuation leaves the queue.
LEMMA Dequeued ==
  ASSUME NEW queue \in Seq(Ops), queue # <<>>, StartsOnce(queue)
  PROVE  /\ Head(queue) \in Ops /\ Tail(queue) \in Seq(Ops) /\ StartsOnce(Tail(queue))
         /\ Head(queue).op = "start" =>
               Awaits(queue, Head(queue).of) /\ \A s \in Starts : ~Awaits(Tail(queue), s)
         /\ Head(queue).op # "start" => \A s \in Starts : Awaits(Tail(queue), s) <=> Awaits(queue, s)
<1> DEFINE rest == Tail(queue)
<1>1. /\ Len(queue) \in Nat /\ Len(queue) > 0 /\ rest \in Seq(Ops) /\ Len(rest) = Len(queue) - 1
      /\ Head(queue) = queue[1] /\ queue[1] \in Ops
      /\ \A i \in 1 .. Len(rest) : rest[i] = queue[i + 1]
      /\ DOMAIN rest = 1 .. Len(rest) /\ DOMAIN queue = 1 .. Len(queue)
  BY EmptySeq
<1> HIDE DEF rest
<1>2. \A i \in 1 .. Len(rest) : i + 1 \in 1 .. Len(queue) /\ i + 1 # 1 /\ rest[i] = queue[i + 1]
  BY <1>1
<1>3. \A i \in 1 .. Len(queue) : i = 1 \/ (i - 1 \in 1 .. Len(rest) /\ rest[i - 1] = queue[i])
  <2>a. Len(queue) \in Nat /\ Len(rest) = Len(queue) - 1
    BY <1>1
  <2>1. ASSUME NEW i \in 1 .. Len(queue), i # 1 PROVE i - 1 \in 1 .. Len(rest) /\ (i - 1) + 1 = i
    BY <2>a, <2>1
  <2> QED BY <1>1, <2>1
<1>4. StartsOnce(rest)
  <2>1. SUFFICES ASSUME NEW i \in DOMAIN rest, NEW j \in DOMAIN rest,
                        rest[i].op = "start", rest[j].op = "start"
                 PROVE  i = j
    BY DEF StartsOnce
  <2>2. i + 1 = j + 1
    BY <1>1, <1>2, <2>1 DEF StartsOnce
  <2> QED BY <1>1, <2>2
<1>5. 1 \in 1 .. Len(queue)
  BY <1>1
<1>6. ASSUME Head(queue).op = "start"
      PROVE  Awaits(queue, Head(queue).of) /\ \A s \in Starts : ~Awaits(rest, s)
  <2>1. queue[1] = Start(queue[1].of)
    BY <1>1, <1>6, OpsAre
  <2>2. Awaits(queue, queue[1].of)
    BY <1>1, <1>5, <2>1 DEF Awaits
  <2>3. \A i \in 1 .. Len(rest) : rest[i].op # "start"
    BY <1>1, <1>2, <1>5, <1>6 DEF StartsOnce
  <2> QED BY <1>1, <2>2, <2>3, OpFields DEF Awaits
<1>7. ASSUME Head(queue).op # "start", NEW s \in Starts
      PROVE  Awaits(rest, s) <=> Awaits(queue, s)
  <2>1. Start(s).op = "start" /\ queue[1].op # "start"
    BY <1>1, <1>7, OpFields
  <2>2. ASSUME NEW i \in 1 .. Len(queue), queue[i] = Start(s) PROVE \E j \in 1 .. Len(rest) : rest[j] = Start(s)
    BY <1>3, <2>1, <2>2
  <2>3. ASSUME NEW j \in 1 .. Len(rest), rest[j] = Start(s) PROVE \E i \in 1 .. Len(queue) : queue[i] = Start(s)
    BY <1>2, <2>3
  <2> QED BY <1>1, <2>2, <2>3 DEF Awaits
<1> QED BY <1>1, <1>4, <1>6, <1>7 DEF rest
-----------------------------------------------------------------------------
(* The steps of the recorder: what the host has stays held. *)

\* A queue to wait in, as its steps leave it: the same starts wait.
SameWaiters(queue) ==
    /\ queue \in Seq(Ops) /\ StartsOnce(queue)
    /\ \A s \in Starts : Awaits(queue, s) <=> Awaits(waiting, s)

LEMMA RecorderTypes ==
  ASSUME RecorderInv
  PROVE  /\ phase \in [Starts -> Phases] /\ ending \in [Recordings -> {"no", "stopping", "cancelling", "over"}]
         /\ current \in {None} \cup Recordings /\ open \in {None} \cup Recordings
         /\ starting \in BOOLEAN /\ boot \in {"no", "asking", "yes"} /\ started \in 0 .. MaxStarts
         /\ waiting \in Seq(Ops) /\ StartsOnce(waiting)
         /\ starting <=> \E s \in Starts : Starter(s)
  BY DEF RecorderInv, RecorderTypeOK, OneStart, Starter

LEMMA GrownSame ==
  ASSUME RecorderInv, NEW queue, Grown(waiting, queue)
  PROVE  SameWaiters(queue) /\ (waiting # <<>> => queue # <<>>)
<1>1. waiting \in Seq(Ops) /\ StartsOnce(waiting)
  BY RecorderTypes
<1>2. queue \in Seq(Ops)
  BY DEF Grown
<1> QED BY <1>1, <1>2, GrownQueue DEF SameWaiters

LEMMA AwaitBoots ==
  ASSUME RecorderInv, NEW queue, waiting # <<>> => queue # <<>>, Await(queue)
  PROVE  /\ waiting' = queue /\ boot' \in {"no", "asking", "yes"}
         /\ (boot' = "yes" <=> boot = "yes") /\ (boot' = "no" => queue = <<>>)
<1>1. boot \in {"no", "asking", "yes"} /\ (boot = "no" => waiting = <<>>)
  BY DEF RecorderInv, RecorderTypeOK
<1> QED BY <1>1 DEF Await

\* Only the queue changes, and not the starts in it.
LEMMA OnlyQueue ==
  ASSUME RecorderInv, SameWaiters(waiting'),
         boot' \in {"no", "asking", "yes"}, boot' # "yes" => boot # "yes",
         boot' = "no" => waiting' = <<>>, boot = "yes" \/ boot' # "yes",
         UNCHANGED <<current, starting, phase, ending, open, started>>
  PROVE  RecorderInv'
<1>1. RecorderTypeOK' /\ waiting' \in Seq(Ops)
  BY DEF RecorderInv, RecorderTypeOK, SameWaiters
<1>2. BootedFirst'
  BY DEF RecorderInv, BootedFirst
<1>3. OneStart'
  BY DEF RecorderInv, OneStart, SameWaiters, Starter
<1>4. HeldOnce' /\ NoOrphan'
  BY DEF RecorderInv, HeldOnce, NoOrphan
<1> QED BY <1>1, <1>2, <1>3, <1>4 DEF RecorderInv

\* A start that is before its gate, or at it, and is not past it yet.
LEMMA GateMoves ==
  ASSUME RecorderInv, NEW s \in Starts, NEW to \in {"gate", "withheld", "refused"},
         phase[s] \in {"none", "gate"}, phase' = [phase EXCEPT ![s] = to],
         SameWaiters(waiting'), boot' \in {"no", "asking", "yes"}, boot' = "no" => waiting' = <<>>,
         boot' = "yes" <=> boot = "yes",
         s <= started', started' \in {s, started}, started' >= started, started' <= MaxStarts,
         UNCHANGED <<current, starting, ending, open>>
  PROVE  RecorderInv'
<1>1. /\ \A t \in Starts : t # s => phase'[t] = phase[t]
      /\ phase'[s] = to /\ phase' \in [Starts -> Phases]
  BY RecorderTypes DEF Phases
<1>2. \A t \in Starts : Starter(t)' <=> Starter(t)
  BY <1>1 DEF Starter
<1>a. started' \in 0 .. MaxStarts
  BY RecorderTypes, StartsAre, StartsAssumption
<1>3. RecorderTypeOK' /\ waiting' \in Seq(Ops)
  <2>1. (starting <=> \E t \in Starts : Starter(t))'
    BY <1>2, RecorderTypes
  <2> QED BY <1>1, <1>a, <2>1, RecorderTypes DEF RecorderTypeOK, SameWaiters, Starter
<1>4. BootedFirst'
  BY <1>1 DEF RecorderInv, BootedFirst
<1>5. OneStart'
  <2>1. \A t \in Starts : phase'[t] = "waiting" <=> Awaits(waiting', t)
    BY <1>1 DEF RecorderInv, OneStart, SameWaiters
  <2>2. \A t \in Starts : t > started' => phase'[t] = "none"
    <3>1. \A t \in Starts : t > started' => t > started /\ t # s
      BY RecorderTypes, StartsAre, StartsAssumption
    <3> QED BY <1>1, <3>1 DEF RecorderInv, OneStart
  <2>3. \A t, u \in Starts : Starter(t)' /\ Starter(u)' => t = u
    BY <1>2 DEF RecorderInv, OneStart
  <2>4. \A t \in Starts : phase'[t] = "opening" => current' = None
    BY <1>1 DEF RecorderInv, OneStart
  <2> QED BY <2>1, <2>2, <2>3, <2>4 DEF OneStart, SameWaiters
<1>6. HeldOnce' /\ NoOrphan'
  BY <1>1 DEF RecorderInv, HeldOnce, NoOrphan
<1> QED BY <1>3, <1>4, <1>5, <1>6 DEF RecorderInv

\* A start past its gate that is refused, or waits.
LEMMA RequestKeeps ==
  ASSUME RecorderInv, NEW s \in Starts, NEW queue, Grown(waiting, queue),
         phase[s] \in {"none", "gate"}, Request(s, queue),
         s <= started', started' \in {s, started}, started' >= started, started' <= MaxStarts
  PROVE  RecorderInv'
<1>1. SameWaiters(queue) /\ (waiting # <<>> => queue # <<>>)
  BY GrownSame
<1>2. CASE Live
  <2>1. phase' = [phase EXCEPT ![s] = "refused"] /\ Await(queue)
        /\ UNCHANGED <<current, starting, ending, open>>
    BY <1>2, RecorderTypes DEF Request
  <2>2. SameWaiters(waiting') /\ boot' \in {"no", "asking", "yes"} /\ (boot' = "no" => waiting' = <<>>)
        /\ (boot' = "yes" <=> boot = "yes")
    BY <1>1, <2>1, AwaitBoots
  <2> QED BY <2>1, <2>2, GateMoves
<1>3. CASE ~Live
  <2>1. /\ phase' = [phase EXCEPT ![s] = "waiting"] /\ Await(Append(queue, Start(s)))
        /\ starting' = TRUE /\ UNCHANGED <<current, ending, open>>
    BY <1>3 DEF Request
  <2>2. current = None /\ \A t \in Starts : ~Starter(t)
    BY <1>3, RecorderTypes DEF Live
  <2>3. \A t \in Starts : ~Awaits(queue, t)
    BY <1>1, <2>2 DEF SameWaiters, RecorderInv, OneStart, Starter
  <2>4. LET more == Append(queue, Start(s))
        IN  /\ more \in Seq(Ops) /\ StartsOnce(more) /\ more # <<>>
            /\ \A t \in Starts : Awaits(more, t) <=> t = s
    BY <1>1, <2>3, StartQueued DEF SameWaiters
  <2>5. /\ waiting' \in Seq(Ops) /\ StartsOnce(waiting') /\ boot' \in {"asking", "yes"}
        /\ \A t \in Starts : Awaits(waiting', t) <=> t = s
        /\ boot' = "yes" <=> boot = "yes"
    <3> DEFINE more == Append(queue, Start(s))
    <3>2. more # <<>> /\ Await(more)
      BY <2>1, <2>4
    <3> HIDE DEF more
    <3>3. /\ waiting' = more /\ boot' \in {"no", "asking", "yes"}
          /\ (boot' = "yes" <=> boot = "yes") /\ (boot' = "no" => more = <<>>)
      BY <3>2, AwaitBoots
    <3> QED BY <2>4, <3>2, <3>3 DEF more
  <2>6. /\ \A t \in Starts : t # s => phase'[t] = phase[t]
        /\ phase'[s] = "waiting" /\ phase' \in [Starts -> Phases]
    BY <2>1, RecorderTypes DEF Phases
  <2>7. \A t \in Starts : Starter(t)' <=> t = s
    BY <2>2, <2>6 DEF Starter
  <2>8. started' \in 0 .. MaxStarts
    BY RecorderTypes, StartsAre, StartsAssumption
  <2>9. RecorderTypeOK'
    <3>1. (starting <=> \E t \in Starts : Starter(t))'
      BY <2>1, <2>7
    <3> QED BY <2>1, <2>5, <2>6, <2>8, <3>1, RecorderTypes DEF RecorderTypeOK, Starter
  <2>10. BootedFirst'
    BY <2>1, <2>5, <2>6 DEF RecorderInv, BootedFirst
  <2>11. OneStart'
    <3>1. \A t \in Starts : t > started' => phase'[t] = "none"
      <4>1. \A t \in Starts : t > started' => t > started /\ t # s
        BY RecorderTypes, StartsAre, StartsAssumption
      <4> QED BY <2>6, <4>1 DEF RecorderInv, OneStart
    <3>2. \A t \in Starts : phase'[t] = "waiting" <=> Awaits(waiting', t)
      BY <2>2, <2>5, <2>6 DEF Starter
    <3>3. \A t \in Starts : phase'[t] = "opening" => current' = None
      BY <2>1, <2>2
    <3> QED BY <2>5, <2>7, <3>1, <3>2, <3>3 DEF OneStart
  <2>12. HeldOnce' /\ NoOrphan'
    BY <2>1, <2>5, <2>6 DEF RecorderInv, HeldOnce, NoOrphan
  <2> QED BY <2>5, <2>9, <2>10, <2>11, <2>12 DEF RecorderInv
<1> QED BY <1>2, <1>3

LEMMA CalledKeeps ==
  ASSUME RecorderInv, NEW s, NEW queue, Grown(waiting, queue), Called(s, queue)
  PROVE  RecorderInv' /\ s \in Starts /\ phase[s] = "none"
<1>1. s \in Starts /\ s = started + 1 /\ started' = s
  BY DEF Called
<1>2. phase[s] = "none" /\ s <= MaxStarts /\ started \in Nat
  BY <1>1, RecorderTypes, StartsAssumption DEF RecorderInv, OneStart, Starts
<1>3. s <= started' /\ started' \in {s, started} /\ started' >= started /\ started' <= MaxStarts
  BY <1>1, <1>2
<1>4. CASE Gate
  <2>1. phase' = [phase EXCEPT ![s] = "gate"] /\ Await(queue)
        /\ UNCHANGED <<current, starting, ending, open>>
    BY <1>4 DEF Called
  <2>2. SameWaiters(queue) /\ (waiting # <<>> => queue # <<>>)
    BY GrownSame
  <2>3. SameWaiters(waiting') /\ boot' \in {"no", "asking", "yes"} /\ (boot' = "no" => waiting' = <<>>)
        /\ (boot' = "yes" <=> boot = "yes")
    BY <2>1, <2>2, AwaitBoots
  <2> QED BY <1>1, <1>2, <1>3, <2>1, <2>3, GateMoves
<1>5. CASE ~Gate
  <2>1. Request(s, queue)
    BY <1>5 DEF Called
  <2> QED BY <1>1, <1>2, <1>3, <2>1, RequestKeeps
<1> QED BY <1>1, <1>2, <1>4, <1>5

LEMMA GateKeeps ==
  ASSUME RecorderInv, NEW s \in Starts, NEW queue, Grown(waiting, queue),
         GatePasses(s, queue) \/ GateRefuses(s)
  PROVE  RecorderInv'
<1>1. phase[s] = "gate" /\ started' = started
  BY DEF GatePasses, GateRefuses
<1>2. s <= started' /\ started' >= started /\ started' <= MaxStarts
  BY <1>1, RecorderTypes, StartsAre, StartsAssumption DEF RecorderInv, OneStart
<1>3. CASE GatePasses(s, queue)
  BY <1>1, <1>2, <1>3, RequestKeeps DEF GatePasses
<1>4. CASE GateRefuses(s)
  <2>1. phase' = [phase EXCEPT ![s] = "withheld"]
        /\ UNCHANGED <<current, starting, boot, waiting, ending, open>>
    BY <1>4 DEF GateRefuses
  <2>2. SameWaiters(waiting') /\ boot' \in {"no", "asking", "yes"} /\ (boot' = "no" => waiting' = <<>>)
    BY <2>1 DEF SameWaiters, RecorderInv, RecorderTypeOK, OneStart
  <2> QED BY <1>1, <1>2, <2>1, <2>2, GateMoves
<1> QED BY <1>3, <1>4

\* A start that ends in an error: the one there was, and none waits any more.
LEMMA FailsKeeps ==
  ASSUME RecorderInv, NEW s \in Starts, Starter(s), NEW verdict \in {"failed", "refused"},
         Fails(s, verdict), boot' \in {"no", "asking", "yes"}, boot' # "yes" => boot # "yes",
         boot = "yes" \/ boot' # "yes",
         boot' = "no" => waiting' = <<>>, waiting' \in Seq(Ops), StartsOnce(waiting'),
         \A t \in Starts : ~Awaits(waiting', t)
  PROVE  RecorderInv'
<1>1. /\ phase' = [phase EXCEPT ![s] = verdict] /\ starting' = FALSE
      /\ UNCHANGED <<current, ending, open, started>>
  BY DEF Fails
<1>2. /\ \A t \in Starts : t # s => phase'[t] = phase[t]
      /\ phase'[s] = verdict /\ phase' \in [Starts -> Phases]
  BY <1>1, RecorderTypes DEF Phases
<1>3. \A t \in Starts : ~Starter(t)'
  BY <1>2 DEF RecorderInv, OneStart, Starter
<1>4. RecorderTypeOK'
  <2>1. (starting <=> \E t \in Starts : Starter(t))'
    BY <1>1, <1>3
  <2> QED BY <1>1, <1>2, <2>1, RecorderTypes DEF RecorderTypeOK, Starter
<1>5. BootedFirst'
  BY <1>1, <1>2 DEF RecorderInv, BootedFirst
<1>6. OneStart'
  <2>1. \A t \in Starts : t > started' => phase'[t] = "none"
    BY <1>1, <1>2 DEF RecorderInv, OneStart, Starter
  <2> QED BY <1>3, <2>1 DEF OneStart, Starter
<1>7. HeldOnce'
  <2>1. phase[s] # "recording" /\ phase'[s] # "recording"
    BY <1>2 DEF Starter
  <2>2. \A t \in Starts : phase'[t] = "recording" <=> phase[t] = "recording"
    BY <1>2, <2>1
  <2> QED BY <1>1, <2>2 DEF RecorderInv, HeldOnce
<1>8. NoOrphan'
  BY <1>1 DEF RecorderInv, NoOrphan
<1> QED BY <1>4, <1>5, <1>6, <1>7, <1>8 DEF RecorderInv

LEMMA HostRefusesKeeps ==
  ASSUME RecorderInv, NEW s \in Starts, HostRefuses(s)
  PROVE  RecorderInv'
<1>1. phase[s] = "opening" /\ Fails(s, "failed") /\ UNCHANGED <<boot, waiting>> /\ Starter(s)
  BY DEF HostRefuses, Starter
<1>2. \A t \in Starts : ~Awaits(waiting, t)
  BY <1>1 DEF RecorderInv, OneStart, Starter
<1>3. /\ boot \in {"no", "asking", "yes"} /\ (boot = "no" => waiting = <<>>)
      /\ waiting \in Seq(Ops) /\ StartsOnce(waiting)
  BY DEF RecorderInv, RecorderTypeOK, OneStart
<1>4. (\A t \in Starts : ~Awaits(waiting, t))' /\ StartsOnce(waiting')
  BY <1>1, <1>2, <1>3
<1> QED BY <1>1, <1>3, <1>4, FailsKeeps

LEMMA BootFailsKeeps ==
  ASSUME RecorderInv, BootFails
  PROVE  RecorderInv'
<1>1. boot = "asking" /\ boot' = "no" /\ waiting' = <<>>
  BY DEF BootFails
<1>2. StartsOnce(waiting') /\ (\A t \in Starts : ~Awaits(waiting', t)) /\ waiting' \in Seq(Ops)
  BY <1>1, EmptyQueue
<1>3. ASSUME NEW s \in Starts, Start(s) \in ToSet(waiting), Fails(s, "failed")
      PROVE  RecorderInv'
  <2>1. Awaits(waiting, s)
    BY <1>3 DEF ToSet, Awaits
  <2>2. Starter(s)
    BY <2>1 DEF RecorderInv, OneStart, Starter
  <2> QED BY <1>1, <1>2, <1>3, <2>2, FailsKeeps
<1>4. CASE /\ \A s \in Starts : Start(s) \notin ToSet(waiting)
           /\ UNCHANGED <<current, starting, phase, ending, open, pending, runs, started>>
  <2>1. \A s \in Starts : ~Awaits(waiting, s)
    BY <1>4 DEF ToSet, Awaits
  <2>2. SameWaiters(waiting')
    BY <1>2, <2>1 DEF SameWaiters
  <2> QED BY <1>1, <1>4, <2>2, OnlyQueue
<1> QED BY <1>3, <1>4 DEF BootFails

LEMMA BootAnswersKeeps ==
  ASSUME RecorderInv, BootAnswers
  PROVE  RecorderInv'
<1>1. /\ boot = "asking" /\ boot' = "yes" /\ current' = IF open = 0 THEN 0 ELSE current
      /\ UNCHANGED <<starting, waiting, phase, ending, open, started>>
  BY DEF BootAnswers
<1>2. /\ current = None /\ open \in {None, 0}
      /\ \A r \in Recordings : ending[r] = "no"
      /\ \A s \in Starts : phase[s] \notin {"opening", "recording"}
  BY <1>1 DEF RecorderInv, BootedFirst
<1>3. RecorderTypeOK' /\ waiting' \in Seq(Ops)
  BY <1>1, <1>2, StartsAre DEF RecorderInv, RecorderTypeOK
<1>4. BootedFirst'
  BY <1>1 DEF BootedFirst
<1>5. OneStart'
  BY <1>1, <1>2 DEF RecorderInv, OneStart, Starter
<1>6. HeldOnce'
  BY <1>1, <1>2, StartsAre DEF HeldOnce
<1>7. NoOrphan'
  BY <1>1, <1>2 DEF NoOrphan
<1> QED BY <1>3, <1>4, <1>5, <1>6, <1>7 DEF RecorderInv

LEMMA HostOpensKeeps ==
  ASSUME RecorderInv, NEW s \in Starts, NEW queue, Grown(waiting, queue), HostOpens(s, queue)
  PROVE  RecorderInv'
<1>1. /\ phase[s] = "opening" /\ open = None
      /\ phase' = [phase EXCEPT ![s] = "recording"]
      /\ open' = s /\ current' = s /\ starting' = FALSE /\ Await(queue)
      /\ UNCHANGED <<ending, started>>
  BY DEF HostOpens
<1>2. SameWaiters(queue) /\ (waiting # <<>> => queue # <<>>)
  BY GrownSame
<1>3. boot = "yes" /\ boot' = "yes" /\ waiting' = queue
  BY <1>1, <1>2, AwaitBoots DEF RecorderInv, BootedFirst
<1>4. /\ \A t \in Starts : t # s => phase'[t] = phase[t]
      /\ phase'[s] = "recording" /\ phase' \in [Starts -> Phases]
  BY <1>1, RecorderTypes DEF Phases
<1>5. current = None /\ ending[s] = "no" /\ \A t \in Starts : t # s => ~Starter(t)
  BY <1>1 DEF RecorderInv, OneStart, HeldOnce, Starter
<1>6. \A t \in Starts : ~Starter(t)' /\ ~Awaits(waiting', t)
  <2>1. \A t \in Starts : ~Starter(t)'
    BY <1>4, <1>5 DEF Starter
  <2>2. \A t \in Starts : ~Awaits(waiting, t)
    BY <1>1, <1>5 DEF RecorderInv, OneStart, Starter
  <2> QED BY <1>2, <1>3, <2>1, <2>2 DEF SameWaiters
<1>7. RecorderTypeOK'
  <2>1. (starting <=> \E t \in Starts : Starter(t))'
    BY <1>1, <1>6
  <2> QED BY <1>1, <1>3, <1>4, <2>1, RecorderTypes, StartsAre DEF RecorderTypeOK, Starter
<1>8. BootedFirst' /\ waiting' \in Seq(Ops)
  BY <1>2, <1>3 DEF BootedFirst, SameWaiters
<1>9. OneStart'
  <2>1. \A t \in Starts : t > started' => phase'[t] = "none"
    BY <1>1, <1>4 DEF RecorderInv, OneStart
  <2> QED BY <1>2, <1>3, <1>6, <2>1 DEF OneStart, Starter, SameWaiters
<1>10. HeldOnce'
  <2>1. \A t \in Starts : current' = t <=> phase'[t] = "recording" /\ ending'[t] = "no"
    BY <1>1, <1>4, <1>5, StartsAre DEF RecorderInv, HeldOnce
  <2>2. \A t \in Starts : ending'[t] # "no" => phase'[t] = "recording"
    BY <1>1, <1>4 DEF RecorderInv, HeldOnce
  <2> QED BY <1>1, <1>4, <2>1, <2>2, StartsAre DEF HeldOnce
<1>11. NoOrphan'
  BY <1>1 DEF NoOrphan
<1> QED BY <1>7, <1>8, <1>9, <1>10, <1>11 DEF RecorderInv

\* What is resumed leaves the queue, and the bootstrap is over.
LEMMA ResumedQueue ==
  ASSUME RecorderInv, NEW op \in {"start", "stop", "cancel"}, Resuming(op), Resumed
  PROVE  /\ boot = "yes" /\ boot' = "yes" /\ waiting' = Tail(waiting) /\ waiting # <<>>
         /\ Head(waiting) \in Ops /\ Head(waiting).op = op
         /\ waiting' \in Seq(Ops) /\ StartsOnce(waiting')
         /\ op # "start" => SameWaiters(waiting')
         /\ op = "start" => /\ Head(waiting).of \in Starts /\ phase[Head(waiting).of] = "waiting"
                            /\ \A t \in Starts : ~Awaits(waiting', t)
<1>1. boot = "yes" /\ boot' = "yes" /\ waiting' = Tail(waiting) /\ waiting # <<>> /\ Head(waiting).op = op
  BY DEF Resuming, Resumed
<1>2. /\ Head(waiting) \in Ops /\ Tail(waiting) \in Seq(Ops) /\ StartsOnce(Tail(waiting))
      /\ Head(waiting).op = "start" =>
            Awaits(waiting, Head(waiting).of) /\ \A s \in Starts : ~Awaits(Tail(waiting), s)
      /\ Head(waiting).op # "start" => \A s \in Starts : Awaits(Tail(waiting), s) <=> Awaits(waiting, s)
  BY <1>1, RecorderTypes, Dequeued
<1>3. op # "start" => SameWaiters(waiting')
  BY <1>1, <1>2 DEF SameWaiters
<1>4. op = "start" => /\ Head(waiting).of \in Starts /\ phase[Head(waiting).of] = "waiting"
                      /\ \A t \in Starts : ~Awaits(waiting', t)
  <2>1. ASSUME op = "start" PROVE Head(waiting).of \in Starts
    BY <1>1, <1>2, <2>1, OpsAre
  <2> QED BY <1>1, <1>2, <2>1 DEF RecorderInv, OneStart
<1> QED BY <1>1, <1>2, <1>3, <1>4

LEMMA ResumeStartKeeps ==
  ASSUME RecorderInv, ResumeStart
  PROVE  RecorderInv'
<1> DEFINE s == Head(waiting).of
<1>1. /\ boot = "yes" /\ boot' = "yes" /\ s \in Starts /\ phase[s] = "waiting"
      /\ waiting' \in Seq(Ops) /\ StartsOnce(waiting') /\ \A t \in Starts : ~Awaits(waiting', t)
  BY ResumedQueue DEF ResumeStart
<1>2. IF current # None THEN Fails(s, "refused")
      ELSE /\ phase' = [phase EXCEPT ![s] = "opening"]
           /\ UNCHANGED <<current, starting, ending, open, pending, runs, started>>
  BY DEF ResumeStart
<1> HIDE DEF s
<1>3. Starter(s)
  BY <1>1 DEF Starter
<1>4. CASE current # None
  BY <1>1, <1>2, <1>3, <1>4, FailsKeeps
<1>5. CASE current = None
  <2>1. /\ phase' = [phase EXCEPT ![s] = "opening"]
        /\ UNCHANGED <<current, starting, ending, open, started>>
    BY <1>2, <1>5
  <2>2. /\ \A t \in Starts : t # s => phase'[t] = phase[t]
        /\ phase'[s] = "opening" /\ phase' \in [Starts -> Phases]
    BY <1>1, <2>1, RecorderTypes DEF Phases
  <2>3. \A t \in Starts : Starter(t)' <=> Starter(t)
    BY <1>3, <2>2 DEF Starter
  <2>4. RecorderTypeOK'
    <3>1. (starting <=> \E t \in Starts : Starter(t))'
      BY <2>1, <2>3, RecorderTypes
    <3> QED BY <1>1, <2>1, <2>2, <3>1, RecorderTypes DEF RecorderTypeOK, Starter
  <2>5. BootedFirst'
    BY <1>1 DEF BootedFirst
  <2>6. OneStart'
    <3>1. \A t \in Starts : t > started' => phase'[t] = "none"
      BY <1>1, <2>1, <2>2 DEF RecorderInv, OneStart
    <3>2. ASSUME NEW t \in Starts PROVE phase'[t] # "waiting"
      <4>1. Starter(t) => t = s
        BY <1>1, <1>3 DEF RecorderInv, OneStart
      <4> QED BY <2>2, <4>1 DEF Starter
    <3>3. \A t, u \in Starts : Starter(t)' /\ Starter(u)' => t = u
      BY <2>3 DEF RecorderInv, OneStart
    <3> QED BY <1>1, <1>5, <2>1, <3>1, <3>2, <3>3 DEF OneStart
  <2>7. HeldOnce' /\ NoOrphan'
    BY <1>1, <2>1, <2>2 DEF RecorderInv, HeldOnce, NoOrphan
  <2> QED BY <1>1, <2>4, <2>5, <2>6, <2>7 DEF RecorderInv
<1> QED BY <1>4, <1>5

LEMMA ReleaseKeeps ==
  ASSUME RecorderInv, current # None, NEW how \in {"stopping", "cancelling"}, Release(how),
         boot = "yes", boot' = "yes", SameWaiters(waiting')
  PROVE  RecorderInv'
<1>1. /\ ending' = [ending EXCEPT ![current] = how] /\ current' = None
      /\ UNCHANGED <<starting, phase, open, started>>
  BY DEF Release
<1>2. current \in Recordings
  BY RecorderTypes
<1>3. /\ ending' \in [Recordings -> {"no", "stopping", "cancelling", "over"}]
      /\ ending'[current] = how /\ \A r \in Recordings : r # current => ending'[r] = ending[r]
  BY <1>1, <1>2, RecorderTypes
<1>4. RecorderTypeOK' /\ waiting' \in Seq(Ops)
  BY <1>1, <1>3 DEF RecorderInv, RecorderTypeOK, SameWaiters
<1>5. BootedFirst'
  BY DEF BootedFirst
<1>6. OneStart'
  BY <1>1 DEF RecorderInv, OneStart, SameWaiters, Starter
<1>7. HeldOnce'
  <2>1. \A s \in Starts : ending'[s] # "no" => phase'[s] = "recording"
    BY <1>1, <1>3, StartsAre DEF RecorderInv, HeldOnce
  <2>2. \A s \in Starts : current' = s <=> phase'[s] = "recording" /\ ending'[s] = "no"
    BY <1>1, <1>3, StartsAre DEF RecorderInv, HeldOnce
  <2>3. current' # 0
    BY <1>1, StartsAre
  <2> QED BY <1>1, <2>1, <2>2, <2>3 DEF RecorderInv, HeldOnce
<1>8. NoOrphan'
  <2>1. open \in {None} \cup Recordings
    BY RecorderTypes
  <2> QED BY <1>1, <1>3, <2>1 DEF RecorderInv, NoOrphan
<1> QED BY <1>4, <1>5, <1>6, <1>7, <1>8 DEF RecorderInv

LEMMA ResumeEndKeeps ==
  ASSUME RecorderInv, ResumeStop \/ ResumeCancel
  PROVE  RecorderInv'
<1>1. boot = "yes" /\ boot' = "yes" /\ SameWaiters(waiting')
  BY ResumedQueue DEF ResumeStop, ResumeCancel
<1>2. CASE current # None
  BY <1>1, <1>2, ReleaseKeeps DEF ResumeStop, ResumeCancel
<1>3. CASE current = None
  <2>1. UNCHANGED <<current, starting, phase, ending, open, started>>
    BY <1>3 DEF ResumeStop, ResumeCancel
  <2> QED BY <1>1, <2>1, OnlyQueue
<1> QED BY <1>2, <1>3

\* The host takes the recording out of its slot, and answers.
LEMMA HostKeeps ==
  ASSUME RecorderInv, NEW r \in Recordings, Host(r)
  PROVE  RecorderInv'
<1>1. CASE HostTakes(r)
  <2>1. open' = None /\ UNCHANGED <<current, starting, boot, waiting, phase, ending, started>>
    BY <1>1 DEF HostTakes
  <2>2. RecorderTypeOK' /\ waiting' \in Seq(Ops)
    BY <2>1 DEF RecorderInv, RecorderTypeOK
  <2>3. BootedFirst'
    BY <2>1 DEF RecorderInv, BootedFirst
  <2>4. OneStart'
    BY <2>1 DEF RecorderInv, OneStart, Starter
  <2>5. HeldOnce' /\ NoOrphan'
    BY <2>1, StartsAre DEF RecorderInv, HeldOnce, NoOrphan
  <2> QED BY <2>2, <2>3, <2>4, <2>5 DEF RecorderInv
<1>2. CASE Stopped(r) \/ StopFailed(r) \/ Cancelled(r)
  <2>1. /\ ending[r] \in {"stopping", "cancelling"} /\ open # r
        /\ ending' = [ending EXCEPT ![r] = "over"]
        /\ UNCHANGED <<current, starting, boot, waiting, phase, open, started>>
    BY <1>2 DEF Stopped, StopFailed, Cancelled, Answered
  <2>2. /\ ending' \in [Recordings -> {"no", "stopping", "cancelling", "over"}]
        /\ ending'[r] = "over" /\ \A q \in Recordings : q # r => ending'[q] = ending[q]
    BY <2>1, RecorderTypes
  <2>3. RecorderTypeOK' /\ waiting' \in Seq(Ops)
    BY <2>1, <2>2 DEF RecorderInv, RecorderTypeOK
  <2>4. boot = "yes"
    BY <2>1 DEF RecorderInv, BootedFirst
  <2>5. BootedFirst'
    BY <2>1, <2>4 DEF BootedFirst
  <2>6. OneStart'
    BY <2>1 DEF RecorderInv, OneStart, Starter
  <2>7. HeldOnce'
    <3>1. \A s \in Starts : ending'[s] # "no" => phase'[s] = "recording"
      BY <2>1, <2>2, StartsAre DEF RecorderInv, HeldOnce
    <3>2. \A s \in Starts : current' = s <=> phase'[s] = "recording" /\ ending'[s] = "no"
      BY <2>1, <2>2, StartsAre DEF RecorderInv, HeldOnce
    <3>3. current' = 0 => ending'[0] = "no"
      BY <2>1, <2>2, StartsAre DEF RecorderInv, HeldOnce
    <3> QED BY <2>1, <3>1, <3>2, <3>3 DEF RecorderInv, HeldOnce
  <2>8. NoOrphan'
    <3>1. open \in {None} \cup Recordings
      BY RecorderTypes
    <3> QED BY <2>1, <2>2, <3>1 DEF RecorderInv, NoOrphan
  <2> QED BY <2>3, <2>5, <2>6, <2>7, <2>8 DEF RecorderInv
<1> QED BY <1>1, <1>2 DEF Host

\* A person, or a capture that ended, asks for a stop or a cancel.
LEMMA AskKeeps ==
  ASSUME RecorderInv, NEW op \in Ops, op.op # "start", Ask(op)
  PROVE  RecorderInv' /\ waiting' = Append(waiting, op)
<1>1. waiting \in Seq(Ops)
  BY RecorderTypes
<1>2. Grown(waiting, Append(waiting, op))
  BY <1>1, GrownNot, GrownBy
<1> DEFINE more == Append(waiting, op)
<1>3. SameWaiters(more) /\ (waiting # <<>> => more # <<>>)
  BY <1>2, GrownSame
<1>4. Await(more) /\ UNCHANGED <<current, starting, phase, ending, open, started>>
  BY DEF Ask
<1> HIDE DEF more
<1>5. /\ waiting' = more /\ boot' \in {"no", "asking", "yes"}
      /\ (boot' = "yes" <=> boot = "yes") /\ (boot' = "no" => more = <<>>)
  BY <1>3, <1>4, AwaitBoots
<1>6. SameWaiters(waiting')
  BY <1>3, <1>5 DEF SameWaiters
<1>7. RecorderInv'
  BY <1>4, <1>5, <1>6, OnlyQueue
<1> QED BY <1>5, <1>7 DEF more
-----------------------------------------------------------------------------
(* Every step of a page keeps what the recorder keeps. *)

LEMMA RecorderStays ==
  ASSUME RecorderInv, UNCHANGED <<current, starting, boot, waiting, phase, ending, open, started>>
  PROVE  RecorderInv'
<1>1. RecorderTypeOK' /\ waiting' \in Seq(Ops)
  BY DEF RecorderInv, RecorderTypeOK
<1>2. BootedFirst' /\ HeldOnce' /\ NoOrphan'
  BY DEF RecorderInv, BootedFirst, HeldOnce, NoOrphan
<1>3. OneStart'
  BY DEF RecorderInv, OneStart, Starter
<1> QED BY <1>1, <1>2, <1>3 DEF RecorderInv

LEMMA InitRecorder == Init => RecorderInv
<1> SUFFICES ASSUME Init PROVE RecorderInv
  OBVIOUS
<1>1. RecorderTypeOK /\ waiting \in Seq(Ops)
  <2>1. 0 \in Recordings /\ started \in 0 .. MaxStarts
    BY StartsAssumption DEF Init, Recordings
  <2>2. starting <=> \E s \in Starts : phase[s] \in {"waiting", "opening"}
    BY DEF Init
  <2>3. phase \in [Starts -> Phases]
    BY DEF Init, Phases
  <2> QED BY <2>1, <2>2, <2>3, EmptyQueue DEF Init, RecorderTypeOK
<1>2. BootedFirst /\ HeldOnce /\ NoOrphan
  BY StartsAre DEF Init, BootedFirst, HeldOnce, NoOrphan
<1>3. OneStart
  BY EmptyQueue DEF Init, OneStart, Starter
<1> QED BY <1>1, <1>2, <1>3 DEF RecorderInv

\* The steps of the manual recorder on a page with voice activation.
NoCancel ==
    \/ \E s \in Starts : ToggleStarts(s) \/ Gated(s) \/ Opening(s)
    \/ \E r \in Recordings : Settled /\ Host(r)
    \/ BootAnswers \/ BootFails \/ ResumeStart \/ ResumeStop \/ AskStop
ManualStep == NoCancel \/ AskCancel

LEMMA ManualSteps ==
  Manual => /\ ManualStep /\ PlaybackFollows /\ UNCHANGED activation
            /\ NoCancel \/ (AskCancel /\ (Impatient \/ ~Stopping))
  BY DEF Manual, ManualStep, NoCancel

LEMMA ManualKeeps ==
  ASSUME RecorderInv, ManualStep
  PROVE  RecorderInv'
<1>1. Grown(waiting, waiting)
  BY RecorderTypes, GrownNot
<1>2. ASSUME NEW s \in Starts, ToggleStarts(s) PROVE RecorderInv'
  BY <1>1, <1>2, CalledKeeps DEF ToggleStarts
<1>3. ASSUME NEW s \in Starts, Gated(s) PROVE RecorderInv'
  BY <1>1, <1>3, GateKeeps DEF Gated
<1>4. ASSUME NEW s \in Starts, Opening(s) PROVE RecorderInv'
  BY <1>1, <1>4, HostOpensKeeps, HostRefusesKeeps DEF Opening
<1>5. CASE AskStop
  <2>1. current \in Recordings /\ Ask(Stop(current))
    BY <1>5, RecorderTypes DEF AskStop
  <2> QED BY <2>1, OpFields, AskKeeps
<1>6. CASE AskCancel
  BY <1>6, OpFields, AskKeeps DEF AskCancel
<1> QED BY <1>2, <1>3, <1>4, <1>5, <1>6, HostKeeps, BootAnswersKeeps, BootFailsKeeps, ResumeStartKeeps,
           ResumeEndKeeps DEF ManualStep, NoCancel

\* Voice activation and the playback move no recording.
Quiet == UNCHANGED <<current, starting, boot, waiting, phase, ending, open, started>>

LEMMA ActivationIsQuiet == Activation \/ PlaybackTurns => Quiet
<1>1. Activation => Quiet
  BY DEF Quiet, Activation, Arm, Arms, StreamOpens, ModelLoads, SessionStarts, ArmFails, Advance,
         SessionEnds, SpeechStarts, SpeechEnds, Misfires, Silence, StopListening, ResumeComesDue, recorder
<1>2. PlaybackTurns => Quiet
  BY DEF Quiet, PlaybackTurns, recorder
<1> QED BY <1>1, <1>2

LEMMA RecorderNext == RecorderInv /\ [CapturesNext]_captures => RecorderInv'
<1> SUFFICES ASSUME RecorderInv, [CapturesNext]_captures PROVE RecorderInv'
  OBVIOUS
<1>1. CASE Manual
  BY <1>1, ManualSteps, ManualKeeps
<1>2. CASE CancelReaches
  BY <1>2, ResumeEndKeeps DEF CancelReaches
<1>3. CASE Activation \/ PlaybackTurns
  BY <1>3, ActivationIsQuiet, RecorderStays DEF Quiet
<1>4. CASE UNCHANGED captures
  BY <1>4, RecorderStays DEF captures, recorder
<1> QED BY <1>1, <1>2, <1>3, <1>4 DEF CapturesNext

\* The recorder's invariant, on a page of any captures.
THEOREM RecorderInvariance == CapturesSpec => []RecorderInv
<1>1. CapturesInit => RecorderInv
  BY InitRecorder DEF CapturesInit
<1> QED BY <1>1, RecorderNext, PTL DEF CapturesSpec

\* manual-recorder.svelte.ts: what the host records is held by the page, or is being ended, or
\* the page has yet to hear of it.
THEOREM NothingIsOrphaned == CapturesSpec => []NoOrphan
<1>1. RecorderInv => NoOrphan
  BY DEF RecorderInv
<1> QED BY <1>1, RecorderInvariance, PTL
-----------------------------------------------------------------------------
(* What was paused plays again. *)

Calls == {"pause", "resume"}

LEMMA SessionsAre ==
  /\ \A v \in Sessions : v \in Nat /\ v # None
  /\ \A u \in Utterances : u \in Nat /\ u # None /\ u \notin Recordings
  /\ None \notin Sessions
  BY StartsAssumption, NoneAssumption, BoundsAssumption DEF Sessions, Utterances, Recordings

LEMMA OneCall ==
  ASSUME NEW call \in Calls
  PROVE  <<call>> \in Seq(Calls) /\ Len(<<call>>) = 1 /\ <<call>>[1] = call
  OBVIOUS

LEMMA QueuedLast ==
  ASSUME NEW queue \in Seq(Calls), NEW more \in Seq(Calls), Len(more) > 0
  PROVE  LET all == queue \o more
         IN  all \in Seq(Calls) /\ all # <<>> /\ all[Len(all)] = more[Len(more)]
<1> DEFINE all == queue \o more
<1>1. /\ all \in Seq(Calls) /\ Len(all) = Len(queue) + Len(more)
      /\ \A i \in 1 .. Len(queue) + Len(more) :
            all[i] = IF i <= Len(queue) THEN queue[i] ELSE more[i - Len(queue)]
  BY ConcatProperties
<1>2. Len(queue) \in Nat /\ Len(more) \in Nat
  OBVIOUS
<1> HIDE DEF all
<1>3. Len(all) \in 1 .. Len(queue) + Len(more) /\ ~(Len(all) <= Len(queue)) /\ Len(all) - Len(queue) = Len(more)
  BY <1>1, <1>2
<1>4. all[Len(all)] = more[Len(more)]
  BY <1>1, <1>3
<1>5. all # <<>>
  BY <1>1, <1>2, EmptySeq
<1> QED BY <1>1, <1>4, <1>5 DEF all

LEMMA QueuedResume ==
  ASSUME NEW queue \in Seq(Calls), NEW first \in {<<>>, <<"pause">>}
  PROVE  LET all == queue \o (first \o <<"resume">>)
         IN  all \in Seq(Calls) /\ all # <<>> /\ all[Len(all)] = "resume"
<1> DEFINE resume == <<"resume">>
           more == first \o resume
<1>1. resume \in Seq(Calls) /\ Len(resume) = 1 /\ resume[1] = "resume"
  BY OneCall DEF Calls
<1>2. first \in Seq(Calls)
  <2>1. "pause" \in Calls
    BY DEF Calls
  <2>2. <<"pause">> \in Seq(Calls)
    BY <2>1, OneCall
  <2>3. <<>> \in Seq(Calls)
    OBVIOUS
  <2> QED BY <2>2, <2>3
<1> HIDE DEF resume
<1>3. more \in Seq(Calls) /\ more # <<>> /\ more[Len(more)] = "resume"
  BY <1>1, <1>2, QueuedLast
<1> HIDE DEF more
<1>4. Len(more) > 0
  BY <1>3
<1>5. queue \o more \in Seq(Calls) /\ queue \o more # <<>> /\ (queue \o more)[Len(queue \o more)] = "resume"
  BY <1>3, <1>4, QueuedLast
<1> QED BY <1>5 DEF more, resume

LEMMA QueuedNothing ==
  ASSUME NEW queue \in Seq(Calls)
  PROVE  queue \o (<<>> \o <<>>) = queue
  BY DEF Calls

LEMMA QueuedCall ==
  ASSUME NEW queue \in Seq(Calls), NEW call \in Calls
  PROVE  /\ queue \o <<call>> \in Seq(Calls) /\ queue \o <<call>> # <<>>
         /\ (queue \o <<call>>)[Len(queue \o <<call>>)] = call
  BY DEF Calls

LEMMA QueuedPause ==
  ASSUME NEW queue \in Seq(Calls)
  PROVE  queue \o (<<"pause">> \o <<>>) \in Seq(Calls)
<1>1. <<"pause">> \o <<>> = <<"pause">>
  OBVIOUS
<1> QED BY <1>1 DEF Calls

\* What a step of the manual recorder does to the playback.
LEMMA Followed ==
  ASSUME chain \in Seq(Calls), timer \in BOOLEAN, PlaybackFollows
  PROVE  /\ chain' \in Seq(Calls) /\ paused' = paused /\ timer' \in BOOLEAN
         /\ Fell \/ Ends \/ StopsNothing => Returned'
         /\ ~(Fell \/ Ends \/ StopsNothing) /\ ~Begins => chain' = chain /\ timer' = timer
<1> DEFINE first == When(Begins, "pause")
           last == When(Fell \/ Ends \/ StopsNothing, "resume")
<1>1. /\ chain' = chain \o (first \o last) /\ paused' = paused /\ timer' = (timer /\ ~Begins)
  BY DEF PlaybackFollows, Queues
<1>2. first = (IF Begins THEN <<"pause">> ELSE <<>>)
  BY DEF When
<1>3. last = (IF Fell \/ Ends \/ StopsNothing THEN <<"resume">> ELSE <<>>)
  BY DEF When
<1> HIDE DEF first, last
<1>4. CASE Fell \/ Ends \/ StopsNothing
  <2>1. last = <<"resume">> /\ first \in {<<>>, <<"pause">>}
    BY <1>2, <1>3, <1>4
  <2>2. chain' \in Seq(Calls) /\ chain' # <<>> /\ chain'[Len(chain')] = "resume"
    BY <1>1, <2>1, QueuedResume
  <2> QED BY <1>1, <1>4, <2>2 DEF Returned
<1>5. CASE ~(Fell \/ Ends \/ StopsNothing) /\ Begins
  BY <1>1, <1>2, <1>3, <1>5, QueuedPause
<1>6. CASE ~(Fell \/ Ends \/ StopsNothing) /\ ~Begins
  BY <1>1, <1>2, <1>3, <1>6, QueuedNothing
<1> QED BY <1>4, <1>5, <1>6

\* What may become of what the page holds, starts and ends.
LEMMA BusyMoves ==
  ASSUME RecorderInv, ManualStep \/ ResumeCancel
  PROVE  /\ current' # current => current' # None \/ ending'[current] \in {"stopping", "cancelling"}
         /\ \A r \in Recordings :
              \/ ending'[r] = ending[r]
              \/ ending[r] = "no" /\ ending'[r] \in {"stopping", "cancelling"} /\ current' = None
              \/ ending[r] \in {"stopping", "cancelling"} /\ ending'[r] = "over"
         /\ starting => starting' \/ current' # None \/ Fell
<1> DEFINE Goal ==
         /\ current' # current => current' # None \/ ending'[current] \in {"stopping", "cancelling"}
         /\ \A r \in Recordings :
              \/ ending'[r] = ending[r]
              \/ ending[r] = "no" /\ ending'[r] \in {"stopping", "cancelling"} /\ current' = None
              \/ ending[r] \in {"stopping", "cancelling"} /\ ending'[r] = "over"
         /\ starting => starting' \/ current' # None \/ Fell
<1>a. /\ ending \in [Recordings -> {"no", "stopping", "cancelling", "over"}]
      /\ phase \in [Starts -> Phases] /\ current \in {None} \cup Recordings
  BY RecorderTypes
<1>b. current # None => ending[current] = "no"
  BY <1>a, StartsAre DEF RecorderInv, HeldOnce
<1>1. ASSUME UNCHANGED <<current, ending>>, starting => starting' PROVE Goal
  BY <1>1
<1>2. ASSUME NEW s \in Starts, ToggleStarts(s) PROVE Goal
  BY <1>1, <1>2 DEF ToggleStarts, Called, Request
<1>3. ASSUME NEW s \in Starts, Gated(s) PROVE Goal
  <2>1. CASE GatePasses(s, waiting)
    BY <1>1, <2>1 DEF GatePasses, Request
  <2>2. CASE GateRefuses(s)
    BY <1>1, <2>2 DEF GateRefuses
  <2> QED BY <1>3, <2>1, <2>2 DEF Gated
<1>4. ASSUME NEW s \in Starts, NEW verdict \in {"failed", "refused"}, Starter(s), Fails(s, verdict) PROVE Goal
  <2>1. phase'[s] = verdict /\ phase[s] # verdict
    BY <1>a, <1>4 DEF Fails, Starter
  <2>2. Fell
    BY <2>1 DEF Fell
  <2> QED BY <1>4, <2>2 DEF Fails
<1>5. ASSUME NEW s \in Starts, Opening(s) PROVE Goal
  <2>1. CASE HostRefuses(s)
    BY <1>4, <2>1 DEF HostRefuses, Starter
  <2>2. CASE HostOpens(s, waiting)
    BY <2>2, StartsAre DEF HostOpens
  <2> QED BY <1>5, <2>1, <2>2 DEF Opening
<1>6. CASE BootAnswers
  <2>1. current = None /\ UNCHANGED <<ending, starting>>
    BY <1>6 DEF BootAnswers, RecorderInv, BootedFirst
  <2>2. current' \in {None, 0}
    BY <1>6, <2>1 DEF BootAnswers
  <2> QED BY <2>1, <2>2
<1>7. CASE BootFails
  <2>1. ASSUME NEW s \in Starts, Start(s) \in ToSet(waiting), Fails(s, "failed") PROVE Goal
    <3>1. Starter(s)
      BY <2>1 DEF ToSet, Awaits, RecorderInv, OneStart, Starter
    <3> QED BY <1>4, <2>1, <3>1
  <2> QED BY <1>1, <1>7, <2>1 DEF BootFails
<1>8. CASE ResumeStart
  <2>1. Head(waiting).of \in Starts /\ phase[Head(waiting).of] = "waiting"
    BY <1>8, ResumedQueue DEF ResumeStart
  <2>2. Starter(Head(waiting).of)
    BY <2>1 DEF Starter
  <2> QED BY <1>1, <1>4, <1>8, <2>1, <2>2 DEF ResumeStart
<1>9. ASSUME NEW how \in {"stopping", "cancelling"}, current # None, Release(how) PROVE Goal
  BY <1>a, <1>b, <1>9 DEF Release
<1>10. CASE ResumeStop \/ ResumeCancel
  BY <1>1, <1>9, <1>10 DEF ResumeStop, ResumeCancel
<1>11. ASSUME NEW r \in Recordings, Host(r) PROVE Goal
  BY <1>a, <1>11 DEF Host, HostTakes, Stopped, StopFailed, Cancelled, Answered
<1>12. CASE AskStop \/ AskCancel
  BY <1>1, <1>12 DEF AskStop, AskCancel, Ask
<1> QED BY <1>2, <1>3, <1>5, <1>6, <1>7, <1>8, <1>10, <1>11, <1>12 DEF ManualStep, NoCancel

LEMMA StillBusy ==
  ASSUME RecorderInv, ManualStep \/ ResumeCancel, Live \/ EndingsOut, ~Fell, ~Ends
  PROVE  Live' \/ EndingsOut'
<1>1. current \in {None} \cup Recordings
  BY RecorderTypes
<1>2. CASE current # None
  <2>1. current' # None \/ ending'[current] \in {"stopping", "cancelling"}
    BY <1>2, BusyMoves
  <2> QED BY <1>1, <1>2, <2>1 DEF Live, EndingsOut
<1>3. CASE starting
  BY <1>3, BusyMoves DEF Live
<1>4. ASSUME NEW r \in Recordings, ending[r] \in {"stopping", "cancelling"} PROVE EndingsOut'
  <2>1. ending'[r] # "over"
    BY <1>4 DEF Ends
  <2> QED BY <1>4, <2>1, BusyMoves DEF EndingsOut
<1> QED BY <1>2, <1>3, <1>4 DEF Live, EndingsOut

\* The parts of the type that no recording is about.
OwnTypes ==
    /\ vadSession \in {None} \cup Sessions /\ listening \in {"idle", "listening", "speech"}
    /\ stage \in [Sessions -> {"none", "asking", "loading", "starting", "live", "over"}]
    /\ stops \in [Sessions -> Nat] /\ mic \subseteq Sessions
    /\ speech \in {None} \cup Utterances /\ spoken \in 0 .. MaxUtterances
PlaybackTypes == timer \in BOOLEAN /\ paused \in BOOLEAN /\ chain \in Seq(Calls)

LEMMA TypesAre == CapturesTypeOK <=> RecorderTypeOK /\ OwnTypes /\ PlaybackTypes
  BY DEF CapturesTypeOK, OwnTypes, PlaybackTypes, Calls

LEMMA UtterancesAre ==
  ASSUME NEW n \in 0 .. MaxUtterances, n < MaxUtterances
  PROVE  MaxStarts + (n + 1) \in Utterances /\ n + 1 \in 0 .. MaxUtterances
  BY StartsAssumption, BoundsAssumption DEF Utterances

LEMMA ActivationTypes ==
  ASSUME OwnTypes, Activation
  PROVE  OwnTypes'
<1>1. ASSUME NEW v \in Sessions, Arm(v) PROVE OwnTypes'
  BY <1>1 DEF Arm, OwnTypes
<1>2. ASSUME NEW v \in Sessions, StreamOpens(v) \/ ModelLoads(v) \/ SessionStarts(v) \/ ArmFails(v)
      PROVE  OwnTypes'
  BY <1>2 DEF StreamOpens, ModelLoads, SessionStarts, ArmFails, Advance, OwnTypes
<1>3. ASSUME NEW v \in Sessions, SessionEnds(v) PROVE OwnTypes'
  <2>1. stops[v] \in Nat /\ stops[v] > 0 /\ stops' = [stops EXCEPT ![v] = stops[v] - 1]
    BY <1>3 DEF SessionEnds, OwnTypes
  <2>2. stops[v] - 1 \in Nat
    BY <2>1
  <2> QED BY <1>3, <2>1, <2>2 DEF SessionEnds, OwnTypes
<1>4. CASE SpeechStarts
  <2>1. speech' = MaxStarts + (spoken + 1) /\ spoken' = spoken + 1 /\ spoken < MaxUtterances
    BY <1>4 DEF SpeechStarts
  <2>2. speech' \in Utterances /\ spoken' \in 0 .. MaxUtterances
    BY <2>1, UtterancesAre DEF OwnTypes
  <2> QED BY <1>4, <2>2 DEF SpeechStarts, Heard, OwnTypes
<1>5. CASE SpeechEnds \/ Misfires
  BY <1>5 DEF SpeechEnds, Misfires, Silence, Heard, OwnTypes
<1>6. CASE StopListening
  BY <1>6 DEF StopListening, AsksToStop, OwnTypes
<1>7. CASE ResumeComesDue
  BY <1>7 DEF ResumeComesDue, activation, OwnTypes
<1> QED BY <1>1, <1>2, <1>3, <1>4, <1>5, <1>6, <1>7 DEF Activation, Arms

LEMMA OwnTypesKept ==
  ASSUME OwnTypes, [CapturesNext]_captures
  PROVE  OwnTypes'
<1>1. ASSUME UNCHANGED activation PROVE OwnTypes'
  BY <1>1 DEF activation, OwnTypes
<1>2. CASE Manual
  BY <1>1, <1>2 DEF Manual
<1>3. CASE CancelReaches
  BY <1>1, <1>3 DEF CancelReaches, AsksToStop, OwnTypes
<1>4. CASE Activation
  BY <1>4, ActivationTypes
<1>5. CASE PlaybackTurns
  BY <1>1, <1>5 DEF PlaybackTurns
<1>6. CASE UNCHANGED captures
  BY <1>1, <1>6 DEF captures
<1> QED BY <1>2, <1>3, <1>4, <1>5, <1>6 DEF CapturesNext

LEMMA QueuesOne ==
  ASSUME PlaybackTypes, NEW call \in Calls, Queues(<<call>>), timer' \in BOOLEAN
  PROVE  PlaybackTypes' /\ (call = "resume" => Returned')
<1>1. chain' = chain \o <<call>> /\ paused' = paused /\ chain \in Seq(Calls)
  BY DEF Queues, PlaybackTypes
<1>2. /\ chain \o <<call>> \in Seq(Calls) /\ chain \o <<call>> # <<>>
      /\ (chain \o <<call>>)[Len(chain \o <<call>>)] = call
  BY <1>1, QueuedCall
<1>3. chain' \in Seq(Calls) /\ chain' # <<>> /\ chain'[Len(chain')] = call
  BY <1>1, <1>2
<1> QED BY <1>1, <1>3 DEF PlaybackTypes, Returned

\* What the steps of voice activation do to the playback.
LEMMA ActivationPlays ==
  ASSUME PlaybackTypes, OwnTypes, Activation
  PROVE  PlaybackTypes' /\ (Returned' \/ Armed' \/ speech' # None \/ timer')
<1> DEFINE Goal == PlaybackTypes' /\ (Returned' \/ Armed' \/ speech' # None \/ timer')
<1>0. ASSUME ResumesNow PROVE Goal
  BY <1>0, QueuesOne DEF ResumesNow, Calls
<1>1. ASSUME NEW v \in Sessions, Arm(v) PROVE Goal
  <2>1. CASE Armed
    BY <1>0, <1>1, <2>1 DEF Arm
  <2>2. CASE ~Armed
    <3>1. stage'[v] = "asking" /\ UNCHANGED playback
      BY <1>1, <2>2 DEF Arm, OwnTypes
    <3> QED BY <3>1 DEF playback, PlaybackTypes, Armed, Arming
  <2> QED BY <2>1, <2>2
<1>2. ASSUME NEW v \in Sessions, StreamOpens(v) \/ ModelLoads(v) \/ SessionStarts(v) PROVE Goal
  <2>1. stage'[v] \in {"loading", "starting"} \/ vadSession' = v
    BY <1>2 DEF StreamOpens, ModelLoads, SessionStarts, Advance, OwnTypes
  <2>2. UNCHANGED playback
    BY <1>2 DEF StreamOpens, ModelLoads, SessionStarts
  <2> QED BY <2>1, <2>2, SessionsAre DEF playback, PlaybackTypes, Armed, Arming
<1>3. ASSUME NEW v \in Sessions, ArmFails(v) \/ SessionEnds(v) PROVE Goal
  BY <1>0, <1>3 DEF ArmFails, SessionEnds
<1>4. CASE SpeechStarts
  <2>1. speech' \in Utterances
    BY <1>4, UtterancesAre DEF SpeechStarts, OwnTypes
  <2>2. Queues(<<"pause">>) /\ timer' = FALSE
    BY <1>4 DEF SpeechStarts
  <2>3. PlaybackTypes'
    BY <2>2, QueuesOne DEF Calls
  <2> QED BY <2>1, <2>3, SessionsAre
<1>5. CASE SpeechEnds \/ Misfires
  BY <1>5 DEF SpeechEnds, Misfires, Silence, PlaybackTypes
<1>6. CASE StopListening
  <2>1. vadSession' # None /\ UNCHANGED playback
    BY <1>6 DEF StopListening, AsksToStop
  <2> QED BY <2>1 DEF playback, PlaybackTypes, Armed
<1>7. CASE ResumeComesDue
  BY <1>7, QueuesOne DEF ResumeComesDue, Calls
<1> QED BY <1>1, <1>2, <1>3, <1>4, <1>5, <1>6, <1>7 DEF Activation, Arms

LEMMA TurnsKeep ==
  ASSUME PlaybackTypes, PlaybackInv, PlaybackTurns
  PROVE  PlaybackTypes' /\ PlaybackInv'
<1>1. /\ chain \in Seq(Calls) /\ chain # <<>> /\ chain' = Tail(chain)
      /\ paused' \in IF Head(chain) = "resume" THEN {FALSE} ELSE {TRUE, paused}
      /\ UNCHANGED <<recorder, activation, timer>>
  BY DEF PlaybackTypes, PlaybackTurns
<1>2. /\ Len(chain) \in Nat /\ Len(chain) > 0 /\ chain' \in Seq(Calls) /\ Len(chain') = Len(chain) - 1
      /\ \A i \in 1 .. Len(chain') : chain'[i] = chain[i + 1]
      /\ Head(chain) = chain[1]
  BY <1>1, EmptySeq
<1>3. PlaybackTypes'
  BY <1>1, <1>2 DEF PlaybackTypes
<1>4. CASE Returned
  <2>1. chain[Len(chain)] = "resume"
    BY <1>1, <1>4 DEF Returned
  <2>2. CASE Len(chain) = 1
    <3>1. paused' = FALSE
      BY <1>1, <1>2, <2>1, <2>2
    <3>2. chain' = <<>>
      BY <1>2, <2>2, EmptySeq
    <3> QED BY <1>3, <3>1, <3>2 DEF PlaybackInv, Returned
  <2>3. CASE Len(chain) # 1
    <3>1. Len(chain') \in 1 .. Len(chain') /\ Len(chain') + 1 = Len(chain)
      BY <1>2, <2>3
    <3>2. chain'[Len(chain')] = chain[Len(chain)]
      BY <1>2, <3>1
    <3>3. chain' # <<>>
      BY <1>2, <2>3, EmptySeq
    <3> QED BY <1>3, <2>1, <3>2, <3>3 DEF PlaybackInv, Returned
  <2> QED BY <2>2, <2>3
<1>5. CASE Owed
  BY <1>1, <1>3, <1>5 DEF recorder, activation, PlaybackInv, Owed, Live, EndingsOut, Armed, Arming
<1> QED BY <1>4, <1>5 DEF PlaybackInv

\* A manual start past its gate either waits, or fell.
LEMMA BegunStarts ==
  ASSUME RecorderInv', Begins, ~Fell
  PROVE  Live'
<1>1. PICK s \in Starts : phase[s] \in {"none", "gate"} /\ phase'[s] \in {"waiting", "refused"}
  BY DEF Begins
<1>2. phase'[s] = "waiting"
  BY <1>1 DEF Fell
<1> QED BY <1>2 DEF RecorderInv, RecorderTypeOK, Live

LEMMA PlaybackNext ==
  ASSUME RecorderInv, RecorderInv', OwnTypes, PlaybackTypes, PlaybackInv, [CapturesNext]_captures
  PROVE  PlaybackTypes' /\ PlaybackInv'
<1>1. CASE Manual
  <2>1. ManualStep /\ PlaybackFollows /\ UNCHANGED activation
    BY <1>1, ManualSteps
  <2>2. /\ PlaybackTypes'
        /\ Fell \/ Ends \/ StopsNothing => Returned'
        /\ ~(Fell \/ Ends \/ StopsNothing) /\ ~Begins => chain' = chain /\ timer' = timer /\ paused' = paused
    BY <2>1, Followed DEF PlaybackTypes
  <2>3. CASE Fell \/ Ends \/ StopsNothing
    BY <2>2, <2>3 DEF PlaybackInv
  <2>4. CASE ~Fell /\ Begins
    BY <2>2, <2>4, BegunStarts DEF PlaybackInv, Owed
  <2>5. CASE ~(Fell \/ Ends \/ StopsNothing) /\ ~Begins
    <3>1. UNCHANGED playback
      BY <2>2, <2>5 DEF playback
    <3>2. Live \/ EndingsOut => Live' \/ EndingsOut'
      BY <2>1, <2>5, StillBusy
    <3>3. Owed => Owed'
      BY <2>1, <3>1, <3>2 DEF Owed, playback, activation, Armed, Arming
    <3>4. Returned => Returned'
      BY <3>1 DEF playback, Returned
    <3> QED BY <2>2, <3>3, <3>4 DEF PlaybackInv
  <2> QED BY <2>3, <2>4, <2>5
<1>2. CASE CancelReaches
  <2>1. ResumeCancel /\ UNCHANGED <<phase, playback, vadSession, stage, speech>>
    BY <1>2 DEF CancelReaches, ResumeCancel, Release, AsksToStop, activation
  <2>2. ~Fell
    BY <2>1 DEF Fell
  <2>3. ~Ends
    BY <1>2 DEF CancelReaches, ResumeCancel, Release, Ends, RecorderInv, RecorderTypeOK
  <2>4. Live \/ EndingsOut => Live' \/ EndingsOut'
    BY <2>1, <2>2, <2>3, StillBusy
  <2>5. Owed => Owed'
    BY <2>1, <2>4 DEF Owed, playback, Armed, Arming
  <2>6. Returned => Returned'
    BY <2>1 DEF playback, Returned
  <2>7. PlaybackTypes'
    BY <2>1 DEF playback, PlaybackTypes
  <2> QED BY <2>5, <2>6, <2>7 DEF PlaybackInv
<1>3. CASE Activation
  BY <1>3, ActivationPlays DEF PlaybackInv, Owed
<1>4. CASE PlaybackTurns
  BY <1>4, TurnsKeep
<1>5. CASE UNCHANGED captures
  <2>1. UNCHANGED <<recorder, activation, playback>>
    BY <1>5 DEF captures
  <2>2. PlaybackTypes' /\ (Returned => Returned')
    BY <2>1 DEF playback, PlaybackTypes, Returned
  <2>3. Owed => Owed'
    BY <2>1 DEF recorder, activation, playback, Owed, Live, EndingsOut, Armed, Arming
  <2> QED BY <2>2, <2>3 DEF PlaybackInv
<1> QED BY <1>1, <1>2, <1>3, <1>4, <1>5 DEF CapturesNext

PlaysInv == RecorderInv /\ OwnTypes /\ PlaybackTypes /\ PlaybackInv

LEMMA InitPlays == CapturesInit => PlaysInv
<1> SUFFICES ASSUME CapturesInit PROVE PlaysInv
  OBVIOUS
<1>1. RecorderInv
  BY InitRecorder DEF CapturesInit
<1>2. OwnTypes
  BY BoundsAssumption DEF CapturesInit, OwnTypes
<1>3. timer = FALSE /\ chain = <<>> /\ paused = FALSE
  BY DEF CapturesInit
<1>4. <<>> \in Seq(Calls)
  OBVIOUS
<1>5. PlaybackTypes /\ PlaybackInv
  BY <1>3, <1>4 DEF PlaybackTypes, PlaybackInv, Returned
<1> QED BY <1>1, <1>2, <1>5 DEF PlaysInv

LEMMA PlaysNext == PlaysInv /\ [CapturesNext]_captures => PlaysInv'
  BY RecorderNext, OwnTypesKept, PlaybackNext DEF PlaysInv

LEMMA PlaysInvariance == CapturesSpec => []PlaysInv
  BY InitPlays, PlaysNext, PTL DEF CapturesSpec

\* The captures' types, for every number of starts, sessions and utterances.
THEOREM CapturesTypeCorrect == CapturesSpec => []CapturesTypeOK
<1>1. PlaysInv => CapturesTypeOK
  BY TypesAre DEF PlaysInv, RecorderInv
<1> QED BY <1>1, PlaysInvariance, PTL

\* Whoever pauses the playback resumes it: it plays again once what waits is done, or something
\* is under way that ends with a resume.
THEOREM PlaybackOwed == CapturesSpec => []PlaybackInv
<1>1. PlaysInv => PlaybackInv
  BY DEF PlaysInv
<1> QED BY <1>1, PlaysInvariance, PTL
-----------------------------------------------------------------------------
(* A page whose user waits for answers: one session, and one thing asked at a time. *)

LEMMA Tuples ==
  ASSUME NEW a, NEW b
  PROVE  /\ Append(<<>>, a) = <<a>> /\ Append(<<a>>, b) = <<a, b>>
         /\ Head(<<a>>) = a /\ Tail(<<a>>) = <<>> /\ Head(<<a, b>>) = a /\ Tail(<<a, b>>) = <<b>>
         /\ <<a>> # <<>> /\ <<a, b>> # <<>>
<1>1. Append(<<>>, a) = <<a>>
  OBVIOUS
<1>2. Append(<<a>>, b) = <<a, b>>
  <2> DEFINE S == {a, b}
             s == Append(<<a>>, b)
             t == <<a, b>>
  <2>1. s \in Seq(S) /\ Len(s) = 2 /\ s[1] = a /\ s[2] = b
    OBVIOUS
  <2>2. t \in Seq(S) /\ Len(t) = 2 /\ t[1] = a /\ t[2] = b
    OBVIOUS
  <2>3. \A i \in 1 .. 2 : i = 1 \/ i = 2
    OBVIOUS
  <2> HIDE DEF S, s, t
  <2>4. s = t
    BY <2>1, <2>2, <2>3, SeqEqual
  <2> QED BY <2>4 DEF s, t
<1>3. Head(<<a>>) = a /\ Tail(<<a>>) = <<>> /\ Head(<<a, b>>) = a /\ Tail(<<a, b>>) = <<b>>
  OBVIOUS
<1> QED BY <1>1, <1>2, <1>3

\* What waits in a queue of none, of one, of two.
LEMMA Waiters ==
  ASSUME NEW a, NEW b
  PROVE  /\ \A x : x \notin ToSet(<<>>)
         /\ \A x : x \in ToSet(<<a>>) <=> x = a
         /\ \A x : x \in ToSet(<<a, b>>) <=> x = a \/ x = b
<1>1. DOMAIN <<a>> = {1} /\ <<a>>[1] = a
  OBVIOUS
<1>2. DOMAIN <<a, b>> = {1, 2} /\ <<a, b>>[1] = a /\ <<a, b>>[2] = b
  OBVIOUS
<1>3. DOMAIN <<>> = {}
  OBVIOUS
<1>4. \A x : x \in ToSet(<<a>>) <=> x = a
  BY <1>1 DEF ToSet
<1>5. \A x : x \in ToSet(<<a, b>>) <=> x = a \/ x = b
  BY <1>2 DEF ToSet
<1>6. \A x : x \notin ToSet(<<>>)
  BY <1>3 DEF ToSet
<1> QED BY <1>4, <1>5, <1>6

LEMMA OpsDiffer ==
  /\ \A s \in Starts : Start(s) # Cancel /\ \A r \in Recordings : Start(s) # Stop(r)
  /\ \A r \in Recordings : Stop(r) # Cancel
  BY DEF Start, Stop, Cancel

LEMMA OpsWait ==
  /\ \A s \in Starts : /\ Start(s) \in ToSet(<<Start(s)>>) /\ Cancel \notin ToSet(<<Start(s)>>)
                      /\ Start(s) \in ToSet(<<Start(s), Cancel>>) /\ Cancel \in ToSet(<<Start(s), Cancel>>)
  /\ \A r \in Recordings : /\ Cancel \notin ToSet(<<Stop(r)>>)
                          /\ \A s \in Starts : Start(s) \notin ToSet(<<Stop(r)>>)
  /\ Cancel \in ToSet(<<Cancel>>) /\ \A s \in Starts : Start(s) \notin ToSet(<<Cancel>>)
  /\ \A x : x \notin ToSet(<<>>)
<1>1. ASSUME NEW a, NEW x PROVE x \in ToSet(<<a>>) <=> x = a
  BY Waiters
<1>2. ASSUME NEW a, NEW b, NEW x PROVE x \in ToSet(<<a, b>>) <=> x = a \/ x = b
  BY Waiters
<1>3. \A s \in Starts : Cancel \notin ToSet(<<Start(s)>>) /\ Start(s) \notin ToSet(<<Cancel>>)
  BY <1>1, OpsDiffer
<1>4. \A s \in Starts : \A r \in Recordings : Start(s) \notin ToSet(<<Stop(r)>>)
  BY <1>1, OpsDiffer
<1>5. \A r \in Recordings : Cancel \notin ToSet(<<Stop(r)>>)
  BY <1>1, OpsDiffer
<1> QED BY <1>1, <1>2, <1>3, <1>4, <1>5, Waiters

\* What may wait on a page, and what that says of its starts.
LEMMA QueueShapes ==
  ASSUME RecorderInv, Turns
  PROVE  /\ Cancel \notin ToSet(waiting) =>
               \/ waiting = <<>>
               \/ boot = "yes" /\ current # None /\ waiting = <<Stop(current)>>
               \/ \E s \in Starts : waiting = <<Start(s)>> /\ phase[s] = "waiting"
         /\ boot = "yes" /\ Settled => waiting = <<>>
         /\ \A s \in Starts : waiting \in {<<Start(s)>>, <<Start(s), Cancel>>} => phase[s] = "waiting"
<1>1. ASSUME NEW s \in Starts, waiting \in {<<Start(s)>>, <<Start(s), Cancel>>} PROVE phase[s] = "waiting"
  <2>1. Start(s) \in ToSet(waiting)
    BY <1>1, OpsWait
  <2>2. Awaits(waiting, s)
    BY <2>1 DEF ToSet, Awaits
  <2> QED BY <2>2 DEF RecorderInv, OneStart
<1>2. ASSUME Cancel \notin ToSet(waiting)
      PROVE  \/ waiting = <<>>
             \/ boot = "yes" /\ current # None /\ waiting = <<Stop(current)>>
             \/ \E s \in Starts : waiting = <<Start(s)>>
  BY <1>2, OpsWait DEF Turns
<1>3. boot = "yes" /\ Settled => waiting = <<>>
  BY DEF Settled
<1> QED BY <1>1, <1>2, <1>3

LEMMA RequestWaits ==
  ASSUME RecorderInv, Turns, NEW s \in Starts, Request(s, waiting),
         ~EndingsOut, waiting = <<>> \/ \E t \in Starts : waiting = <<Start(t)>>
  PROVE  WaitsInTurn' /\ Cancel \notin ToSet(waiting')
<1>1. CASE Live
  <2>1. waiting' = waiting
    BY <1>1 DEF Request, Await
  <2>2. Cancel \notin ToSet(waiting)
    BY OpsWait, OpsDiffer
  <2>3. ~EndingsOut'
    BY DEF Request, EndingsOut
  <2> QED BY <2>1, <2>2, <2>3 DEF WaitsInTurn, Turns, GatedAlone
<1>2. CASE ~Live
  <2>1. \A t \in Starts : phase[t] # "waiting"
    BY <1>2, RecorderTypes DEF Live, Starter
  <2>2. waiting = <<>>
    BY <2>1, QueueShapes
  <2>3. waiting' = <<Start(s)>>
    BY <1>2, <2>2, Tuples DEF Request, Await
  <2>4. ~EndingsOut'
    BY DEF Request, EndingsOut
  <2>5. Cancel \notin ToSet(waiting')
    BY <2>3, OpsWait, OpsDiffer
  <2> QED BY <2>3, <2>4, <2>5 DEF WaitsInTurn, Turns, GatedAlone
<1> QED BY <1>1, <1>2

LEMMA ToggleWaits ==
  ASSUME ~Impatient, RecorderInv, WaitsInTurn, NEW s \in Starts, ToggleStarts(s)
  PROVE  WaitsInTurn' /\ Cancel \notin ToSet(waiting')
<1>1. /\ current = None /\ Called(s, waiting) /\ ~EndingsOut /\ Cancel \notin ToSet(waiting)
      /\ \A t \in Starts : phase[t] # "gate"
  BY DEF ToggleStarts, Called, Patient
<1>2. waiting = <<>> \/ \E t \in Starts : waiting = <<Start(t)>>
  BY <1>1, QueueShapes DEF WaitsInTurn
<1>3. CASE Gate
  <2>1. waiting' = waiting /\ ~EndingsOut'
    BY <1>1, <1>3 DEF Called, Await, EndingsOut
  <2> QED BY <1>1, <1>2, <2>1 DEF WaitsInTurn, Turns, GatedAlone
<1>4. CASE ~Gate
  BY <1>1, <1>2, <1>4, RequestWaits DEF Called, WaitsInTurn
<1> QED BY <1>3, <1>4

LEMMA GatedWaits ==
  ASSUME RecorderInv, WaitsInTurn, NEW s \in Starts, Gated(s)
  PROVE  WaitsInTurn' /\ Cancel \notin ToSet(waiting')
<1>1. ~EndingsOut /\ (waiting = <<>> \/ \E t \in Starts : waiting = <<Start(t)>>)
  BY DEF Gated, GatePasses, GateRefuses, WaitsInTurn, GatedAlone
<1>2. CASE GatePasses(s, waiting)
  BY <1>1, <1>2, RequestWaits DEF GatePasses, WaitsInTurn
<1>3. CASE GateRefuses(s)
  <2>1. waiting' = waiting /\ ~EndingsOut'
    BY <1>1, <1>3 DEF GateRefuses, EndingsOut
  <2>2. Cancel \notin ToSet(waiting)
    BY <1>1, OpsWait, OpsDiffer
  <2> QED BY <1>1, <2>1, <2>2 DEF WaitsInTurn, Turns, GatedAlone
<1> QED BY <1>2, <1>3 DEF Gated

\* No start is at its gate that was not there.
GatesFewer == \A s \in Starts : phase'[s] = "gate" => phase[s] = "gate"

\* The queue stays as it is, and so does a stop's recording.
LEMMA WaitsOn ==
  ASSUME WaitsInTurn, waiting' = waiting, GatesFewer, EndingsOut' => EndingsOut,
         boot = "yes" /\ current # None => boot' = "yes" /\ current' = current
  PROVE  WaitsInTurn'
<1>1. Turns'
  BY DEF WaitsInTurn, Turns
<1>2. GatedAlone'
  BY DEF WaitsInTurn, GatedAlone, GatesFewer
<1> QED BY <1>1, <1>2 DEF WaitsInTurn

LEMMA OpeningWaits ==
  ASSUME RecorderInv, WaitsInTurn, NEW s \in Starts, Opening(s)
  PROVE  WaitsInTurn' /\ waiting' = waiting
<1>1. /\ waiting' = waiting /\ UNCHANGED ending /\ phase[s] = "opening"
      /\ \E to : phase' = [phase EXCEPT ![s] = to] /\ to # "gate"
  BY DEF Opening, HostOpens, HostRefuses, Fails, Await
<1>2. current = None
  BY <1>1 DEF RecorderInv, OneStart
<1>3. GatesFewer /\ (EndingsOut' => EndingsOut)
  BY <1>1, RecorderTypes DEF GatesFewer, EndingsOut
<1> QED BY <1>1, <1>2, <1>3, WaitsOn

LEMMA HostWaits ==
  ASSUME RecorderInv, WaitsInTurn, NEW r \in Recordings, Host(r)
  PROVE  WaitsInTurn' /\ waiting' = waiting
<1>1. UNCHANGED <<waiting, current, boot, phase>> /\ (ending' = ending \/ ending' = [ending EXCEPT ![r] = "over"])
  BY DEF Host, HostTakes, Stopped, StopFailed, Cancelled, Answered
<1>2. EndingsOut' => EndingsOut
  BY <1>1, RecorderTypes DEF EndingsOut
<1> QED BY <1>1, <1>2, WaitsOn DEF GatesFewer

\* Nothing waits, or what waited after the head.
LEMMA Emptier ==
  ASSUME WaitsInTurn, waiting' = <<>>, GatesFewer,
         (\E s \in Starts : phase[s] = "gate") => (EndingsOut' => EndingsOut)
  PROVE  WaitsInTurn' /\ Cancel \notin ToSet(waiting')
<1>1. Turns' /\ GatedAlone'
  BY DEF WaitsInTurn, Turns, GatedAlone, GatesFewer
<1> QED BY <1>1, OpsWait DEF WaitsInTurn

LEMMA BootWaits ==
  ASSUME RecorderInv, WaitsInTurn, BootAnswers \/ BootFails
  PROVE  WaitsInTurn' /\ (Cancel \in ToSet(waiting') => Cancel \in ToSet(waiting))
<1>1. CASE BootAnswers
  <2>1. UNCHANGED <<waiting, phase, ending>> /\ boot = "asking"
    BY <1>1 DEF BootAnswers
  <2> QED BY <2>1, WaitsOn DEF GatesFewer, EndingsOut
<1>2. CASE BootFails
  <2>1. waiting' = <<>> /\ UNCHANGED ending
    BY <1>2 DEF BootFails, Fails
  <2>2. GatesFewer
    BY <1>2, RecorderTypes DEF BootFails, Fails, GatesFewer
  <2> QED BY <2>1, <2>2, Emptier DEF EndingsOut
<1> QED BY <1>1, <1>2

LEMMA ResumeStartWaits ==
  ASSUME RecorderInv, WaitsInTurn, ResumeStart
  PROVE  WaitsInTurn' /\ (Cancel \in ToSet(waiting') => Cancel \in ToSet(waiting))
<1>1. Head(waiting).op = "start" /\ waiting # <<>> /\ waiting' = Tail(waiting)
  BY DEF ResumeStart, Resuming, Resumed
<1>2. PICK s \in Starts : waiting \in {<<Start(s)>>, <<Start(s), Cancel>>}
  <2>1. current # None => Head(<<Stop(current)>>).op = "stop"
    BY Tuples, OpFields, RecorderTypes
  <2>2. Head(<<Cancel>>).op = "cancel"
    BY Tuples, OpFields
  <2> QED BY <1>1, <2>1, <2>2 DEF WaitsInTurn, Turns
<1>3. UNCHANGED ending /\ GatesFewer
  BY RecorderTypes DEF ResumeStart, Fails, GatesFewer
<1>4. CASE waiting = <<Start(s)>>
  BY <1>1, <1>3, <1>4, Tuples, Emptier DEF EndingsOut
<1>5. CASE waiting = <<Start(s), Cancel>>
  <2>1. waiting' = <<Cancel>> /\ Cancel \in ToSet(waiting)
    BY <1>1, <1>5, Tuples, OpsWait
  <2>2. \A t \in Starts : waiting # <<>> /\ waiting # <<Start(t)>>
    <3>1. \A t \in Starts : Cancel \notin ToSet(<<Start(t)>>)
      BY OpsWait, OpsDiffer
    <3> QED BY <1>1, <2>1, <3>1
  <2>3. \A t \in Starts : phase[t] # "gate"
    BY <2>2 DEF WaitsInTurn, GatedAlone
  <2>4. Turns' /\ GatedAlone'
    BY <1>3, <2>1, <2>3 DEF Turns, GatedAlone, GatesFewer
  <2> QED BY <2>1, <2>4 DEF WaitsInTurn
<1> QED BY <1>2, <1>4, <1>5

LEMMA ResumeEndWaits ==
  ASSUME RecorderInv, WaitsInTurn, ResumeStop \/ ResumeCancel
  PROVE  /\ WaitsInTurn' /\ waiting' = <<>> /\ Cancel \notin ToSet(waiting')
         /\ ResumeCancel => Cancel \in ToSet(waiting)
         /\ ResumeStop => current # None
         /\ \A s \in Starts : phase[s] # "gate" /\ phase[s] # "waiting"
<1>1. /\ Head(waiting).op \in {"stop", "cancel"} /\ waiting # <<>> /\ waiting' = Tail(waiting)
      /\ UNCHANGED phase /\ (ResumeCancel => Head(waiting).op = "cancel")
      /\ ResumeStop => Head(waiting).op = "stop"
  BY DEF ResumeStop, ResumeCancel, Resuming, Resumed, Release
<1>2. \A s \in Starts : waiting # <<Start(s)>> /\ waiting # <<Start(s), Cancel>>
  <2>1. \A s \in Starts : Head(<<Start(s)>>).op = "start" /\ Head(<<Start(s), Cancel>>).op = "start"
    BY Tuples, OpFields
  <2> QED BY <1>1, <2>1
<1>3. waiting = <<Cancel>> \/ (current # None /\ waiting = <<Stop(current)>>)
  BY <1>1, <1>2 DEF WaitsInTurn, Turns
<1>4. waiting' = <<>>
  BY <1>1, <1>3, Tuples
<1>5. ResumeCancel => Cancel \in ToSet(waiting)
  <2>1. current # None => Head(<<Stop(current)>>).op = "stop"
    BY Tuples, OpFields, RecorderTypes
  <2> QED BY <1>1, <1>3, <2>1, OpsWait
<1>6. \A s \in Starts : phase[s] # "gate"
  BY <1>1, <1>2 DEF WaitsInTurn, GatedAlone
<1>7. \A s \in Starts : phase[s] # "waiting"
  <2>1. \A s \in Starts : Start(s) \notin ToSet(waiting)
    BY <1>3, OpsWait, OpsDiffer, RecorderTypes
  <2> QED BY <2>1 DEF RecorderInv, OneStart, Awaits, ToSet
<1>8. ResumeStop => current # None
  <2>1. Head(<<Cancel>>).op # "stop"
    BY Tuples, OpFields
  <2> QED BY <1>1, <1>3, <2>1
<1>9. WaitsInTurn' /\ Cancel \notin ToSet(waiting')
  BY <1>1, <1>4, <1>6, Emptier DEF GatesFewer
<1> QED BY <1>4, <1>5, <1>6, <1>7, <1>8, <1>9

LEMMA AskWaits ==
  ASSUME ~Impatient, RecorderInv, WaitsInTurn, AskStop \/ AskCancel
  PROVE  WaitsInTurn' /\ (AskStop => Cancel \notin ToSet(waiting'))
<1>1. /\ ~EndingsOut /\ Cancel \notin ToSet(waiting) /\ Settled
      /\ \A s \in Starts : phase[s] # "gate"
  BY DEF AskStop, AskCancel, Patient, Ask
<1>2. CASE AskStop
  <2>1. current # None /\ Ask(Stop(current)) /\ current \in Recordings
    BY <1>2, RecorderTypes DEF AskStop
  <2>2. boot = "yes"
    BY <2>1 DEF RecorderInv, BootedFirst
  <2>3. waiting = <<>>
    BY <1>1, <2>2 DEF Settled
  <2>4. waiting' = <<Stop(current)>> /\ boot' = "yes" /\ UNCHANGED <<current, phase>>
    BY <2>1, <2>2, <2>3, Tuples DEF Ask, Await
  <2>5. Cancel \notin ToSet(waiting')
    BY <2>1, <2>4, OpsWait, OpsDiffer
  <2> QED BY <1>1, <2>1, <2>4, <2>5 DEF WaitsInTurn, Turns, GatedAlone
<1>3. CASE AskCancel /\ ~AskStop
  <2>1. waiting' = Append(waiting, Cancel) /\ UNCHANGED phase
    BY <1>3 DEF AskCancel, Ask, Await
  <2>2. waiting = <<>> \/ \E s \in Starts : waiting = <<Start(s)>>
    <3>1. ASSUME current # None PROVE waiting # <<Stop(current)>> \/ boot # "yes"
      BY <1>1, Tuples DEF Settled
    <3> QED BY <1>1, <3>1, QueueShapes DEF WaitsInTurn
  <2>3. waiting' = <<Cancel>> \/ \E s \in Starts : waiting' = <<Start(s), Cancel>>
    BY <2>1, <2>2, Tuples
  <2> QED BY <1>1, <1>3, <2>1, <2>3 DEF WaitsInTurn, Turns, GatedAlone
<1> QED BY <1>2, <1>3

LEMMA ManualWaits ==
  ASSUME ~Impatient, RecorderInv, WaitsInTurn, ManualStep
  PROVE  WaitsInTurn' /\ (NoCancel /\ Cancel \in ToSet(waiting') => Cancel \in ToSet(waiting))
<1>1. CASE NoCancel
  <2> DEFINE Goal == WaitsInTurn' /\ (Cancel \in ToSet(waiting') => Cancel \in ToSet(waiting))
  <2>1. ASSUME NEW s \in Starts, ToggleStarts(s) \/ Gated(s) PROVE Goal
    BY <2>1, ToggleWaits, GatedWaits
  <2>2. ASSUME NEW s \in Starts, Opening(s) PROVE Goal
    BY <2>2, OpeningWaits
  <2>3. ASSUME NEW r \in Recordings, Host(r) PROVE Goal
    BY <2>3, HostWaits
  <2>4. CASE BootAnswers \/ BootFails \/ ResumeStart
    BY <2>4, BootWaits, ResumeStartWaits
  <2>5. CASE ResumeStop
    BY <2>5, ResumeEndWaits
  <2>6. CASE AskStop
    BY <2>6, AskWaits
  <2> QED BY <1>1, <2>1, <2>2, <2>3, <2>4, <2>5, <2>6 DEF NoCancel
<1>2. CASE AskCancel /\ ~NoCancel
  BY <1>2, AskWaits
<1> QED BY <1>1, <1>2 DEF ManualStep

LEMMA WaitsNext ==
  ASSUME ~Impatient, RecorderInv, WaitsInTurn, [CapturesNext]_captures
  PROVE  WaitsInTurn'
<1>1. ASSUME Quiet PROVE WaitsInTurn'
  BY <1>1, WaitsOn DEF Quiet, GatesFewer, EndingsOut
<1>2. CASE Manual
  BY <1>2, ManualSteps, ManualWaits
<1>3. CASE CancelReaches
  BY <1>3, ResumeEndWaits DEF CancelReaches
<1>4. CASE Activation \/ PlaybackTurns
  BY <1>1, <1>4, ActivationIsQuiet
<1>5. CASE UNCHANGED captures
  BY <1>1, <1>5 DEF captures, recorder, Quiet
<1> QED BY <1>2, <1>3, <1>4, <1>5 DEF CapturesNext

\* Nothing of the session moves, and no cancel comes while one is being stopped.
LEMMA SessionStays ==
  ASSUME OneSession, UNCHANGED activation, Cancel \in ToSet(waiting') => Cancel \in ToSet(waiting) \/ ~Stopping
  PROVE  OneSession'
<1>1. OneArming' /\ Listened'
  BY DEF OneSession, OneArming, Arming, Listened, activation
<1>2. OneStop'
  BY DEF OneSession, OneStop, Stopping, activation
<1>3. speech' # None => Armed'
  BY DEF OneSession, Armed, Arming, activation
<1> QED BY <1>1, <1>2, <1>3 DEF OneSession

LEMMA NoStops ==
  ASSUME OwnTypes, OneSession, vadSession = None
  PROVE  stops = [v \in Sessions |-> 0] /\ ~Stopping
<1>1. \A v \in Sessions : stops[v] = 0
  BY SessionsAre DEF OneSession, OneStop
<1>2. stops = [v \in Sessions |-> 0]
  BY <1>1 DEF OwnTypes
<1>3. ~Stopping
  BY <1>1 DEF Stopping
<1> QED BY <1>2, <1>3

LEMMA ArmIsOne ==
  ASSUME OwnTypes, OneSession, NEW v \in Sessions, Arm(v)
  PROVE  OneSession'
<1>1. /\ listening = "idle" /\ stage[v] = "none"
      /\ stage' = [stage EXCEPT ![v] = IF Armed THEN "over" ELSE "asking"]
      /\ UNCHANGED <<waiting, vadSession, listening, stops, mic, speech>>
  BY DEF Arm, recorder
<1>2. vadSession = None
  BY <1>1 DEF OneSession, Listened
<1>3. /\ stage'[v] = (IF Armed THEN "over" ELSE "asking")
      /\ \A w \in Sessions : w # v => stage'[w] = stage[w]
  BY <1>1 DEF OwnTypes
<1>4. OneArming'
  BY <1>1, <1>2, <1>3 DEF OneSession, OneArming, Arming, Armed
<1>5. Listened'
  BY <1>1, <1>2, <1>3, SessionsAre DEF OneSession, Listened
<1>6. OneStop'
  BY <1>1 DEF OneSession, OneStop, Stopping
<1>7. speech' # None => Armed'
  BY <1>1, <1>3 DEF OneSession, Armed, Arming
<1> QED BY <1>4, <1>5, <1>6, <1>7 DEF OneSession

LEMMA ArmsIsOne ==
  ASSUME OwnTypes, OneSession, NEW v \in Sessions, Arms(v)
  PROVE  OneSession'
<1>1. stops' = stops /\ waiting' = waiting /\ speech' = speech
  BY DEF Arms, StreamOpens, ModelLoads, SessionStarts, ArmFails, Advance, recorder
<1>2. /\ stage[v] \in {"asking", "loading", "starting"}
      /\ \A w \in Sessions : w # v => stage'[w] = stage[w]
      /\ Arming /\ vadSession = None /\ listening = "idle"
  BY DEF Arms, StreamOpens, ModelLoads, SessionStarts, ArmFails, Advance, OwnTypes, Arming,
         OneSession, OneArming, Listened
<1>3. \A w \in Sessions : stage[w] \in {"asking", "loading", "starting"} => w = v
  BY <1>2 DEF OneSession, OneArming
<1>4. ~Stopping /\ ~Stopping'
  BY <1>1, <1>2, NoStops DEF Stopping
<1>5. OneStop'
  BY <1>1, <1>2, <1>4, NoStops, SessionsAre DEF OneStop
<1>6. CASE StreamOpens(v) \/ ModelLoads(v)
  <2>1. /\ stage'[v] \in {"loading", "starting"} /\ mic' \subseteq mic \cup {v}
        /\ UNCHANGED <<vadSession, listening>>
    BY <1>6 DEF StreamOpens, ModelLoads, Advance, OwnTypes
  <2>2. OneArming'
    BY <1>2, <1>3, <2>1 DEF OneArming, Arming
  <2>3. Listened'
    <3>1. \A w \in Sessions : stage'[w] # "live" /\ vadSession' # w
      BY <1>2, <2>1, SessionsAre DEF OneSession, Listened
    <3>2. \A w \in mic' : stage'[w] \in {"loading", "starting", "live"}
      <4>1. \A w \in mic' : w \in Sessions
        BY <2>1 DEF OwnTypes
      <4> QED BY <1>2, <2>1, <4>1 DEF OneSession, Listened
    <3> QED BY <1>2, <2>1, <3>1, <3>2 DEF Listened
  <2>4. Armed'
    BY <2>1 DEF Armed, Arming
  <2> QED BY <1>5, <2>2, <2>3, <2>4 DEF OneSession
<1>7. CASE SessionStarts(v)
  <2>1. stage'[v] = "live" /\ vadSession' = v /\ listening' = "listening" /\ mic' = mic
    BY <1>7 DEF SessionStarts, Advance, OwnTypes
  <2>2. \A w \in Sessions : stage'[w] \notin {"asking", "loading", "starting"}
    BY <1>2, <1>3, <2>1
  <2>3. OneArming'
    BY <2>2 DEF OneArming, Arming
  <2>4. Listened'
    <3>1. \A w \in Sessions : w # v => stage'[w] # "live"
      BY <1>2, SessionsAre DEF OneSession, Listened
    <3>2. \A w \in mic' : stage'[w] \in {"loading", "starting", "live"}
      BY <1>2, <2>1 DEF OneSession, Listened, OwnTypes
    <3> QED BY <2>1, <3>1, <3>2, SessionsAre DEF Listened
  <2>5. Armed'
    BY <2>1, SessionsAre DEF Armed
  <2> QED BY <1>5, <2>3, <2>4, <2>5 DEF OneSession
<1>8. CASE ArmFails(v)
  <2>1. /\ stage'[v] = "over" /\ mic' = mic \ {v} /\ speech = None
        /\ UNCHANGED <<vadSession, listening>>
    BY <1>8 DEF ArmFails, Advance, OwnTypes
  <2>2. OneArming'
    BY <1>2, <1>3, <2>1 DEF OneArming, Arming
  <2>3. Listened'
    BY <1>2, <2>1, SessionsAre DEF OneSession, Listened, OwnTypes
  <2> QED BY <1>1, <1>5, <2>1, <2>2, <2>3 DEF OneSession
<1> QED BY <1>6, <1>7, <1>8 DEF Arms

\* The one stop that is out: of the session there is.
LEMMA StopIsOne ==
  ASSUME OwnTypes, OneSession, AsksToStop, ~Stopping, Cancel \notin ToSet(waiting')
  PROVE  OneSession'
<1>1. /\ vadSession # None /\ vadSession \in Sessions /\ stops' = [stops EXCEPT ![vadSession] = stops[vadSession] + 1]
      /\ UNCHANGED <<vadSession, stage, listening, mic, speech>>
  BY DEF AsksToStop, OwnTypes
<1>2. \A v \in Sessions : stops[v] = 0
  BY DEF OneSession, OneStop, Stopping
<1>3. stops'[vadSession] = 1 /\ \A v \in Sessions : v # vadSession => stops'[v] = 0
  BY <1>1, <1>2 DEF OwnTypes
<1>4. OneStop'
  BY <1>1, <1>3 DEF OneStop
<1>5. OneArming' /\ Listened'
  BY <1>1 DEF OneSession, OneArming, Arming, Listened
<1>6. Armed'
  BY <1>1 DEF Armed
<1> QED BY <1>4, <1>5, <1>6 DEF OneSession

LEMMA EndIsOne ==
  ASSUME OwnTypes, OneSession, NEW v \in Sessions, SessionEnds(v)
  PROVE  OneSession'
<1>1. /\ stops[v] > 0 /\ speech = None /\ stops' = [stops EXCEPT ![v] = stops[v] - 1]
      /\ vadSession' = None /\ stage' = [stage EXCEPT ![v] = "over"] /\ mic' = mic \ {v}
      /\ listening' = "idle" /\ UNCHANGED <<waiting, speech>>
  BY DEF SessionEnds, recorder
<1>2. stops[v] = 1 /\ vadSession = v
  BY <1>1 DEF OneSession, OneStop
<1>3. \A w \in Sessions : stops'[w] = 0
  <2>1. \A w \in Sessions : w # v => stops[w] = 0
    BY <1>2 DEF OneSession, OneStop
  <2> QED BY <1>1, <1>2, <2>1 DEF OwnTypes
<1>4. stage'[v] = "over" /\ \A w \in Sessions : w # v => stage'[w] = stage[w]
  BY <1>1 DEF OwnTypes
<1>5. \A w \in Sessions : stage[w] \notin {"asking", "loading", "starting"}
  BY <1>2, SessionsAre DEF OneSession, OneArming, Arming
<1>6. OneArming'
  BY <1>4, <1>5 DEF OneArming, Arming
<1>7. Listened'
  <2>1. \A w \in Sessions : stage'[w] # "live"
    BY <1>2, <1>4 DEF OneSession, Listened
  <2> QED BY <1>1, <1>4, <2>1, SessionsAre DEF OneSession, Listened, OwnTypes
<1>8. OneStop'
  BY <1>3 DEF OneStop, Stopping
<1> QED BY <1>1, <1>6, <1>7, <1>8 DEF OneSession

LEMMA SpeechIsOne ==
  ASSUME OwnTypes, OneSession, SpeechStarts \/ SpeechEnds \/ Misfires
  PROVE  OneSession'
<1>1. UNCHANGED <<waiting, vadSession, stage, stops, mic>> /\ \E now \in {"speech", "listening"} : Heard(now)
  BY DEF SpeechStarts, SpeechEnds, Misfires, Silence
<1>2. OneArming'
  BY <1>1 DEF OneSession, OneArming, Arming
<1>3. Listened'
  BY <1>1 DEF OneSession, Listened, Heard
<1>4. OneStop'
  BY <1>1 DEF OneSession, OneStop, Stopping
<1>5. CASE SpeechStarts
  <2>1. \E v \in Sessions : Hears(v)
    BY <1>5 DEF SpeechStarts
  <2>2. Armed
    BY <2>1, SessionsAre DEF Hears, Armed, Arming, OneSession, Listened
  <2>3. Armed'
    BY <1>1, <2>2 DEF Armed, Arming
  <2> QED BY <1>2, <1>3, <1>4, <2>3 DEF OneSession
<1>6. CASE SpeechEnds \/ Misfires
  <2>1. speech' = None
    BY <1>6 DEF SpeechEnds, Misfires, Silence
  <2> QED BY <1>2, <1>3, <1>4, <2>1 DEF OneSession
<1> QED BY <1>5, <1>6

LEMMA SessionNext ==
  ASSUME ~Impatient, RecorderInv, WaitsInTurn, OwnTypes, OneSession, [CapturesNext]_captures
  PROVE  OneSession'
<1>1. ASSUME UNCHANGED <<waiting, activation>> PROVE OneSession'
  BY <1>1, SessionStays
<1>2. CASE Manual
  <2>1. UNCHANGED activation /\ ManualStep /\ (NoCancel \/ ~Stopping)
    BY <1>2, ManualSteps
  <2>2. Cancel \in ToSet(waiting') => Cancel \in ToSet(waiting) \/ ~Stopping
    BY <2>1, ManualWaits
  <2> QED BY <2>1, <2>2, SessionStays
<1>3. CASE CancelReaches
  <2>1. Cancel \in ToSet(waiting) /\ Cancel \notin ToSet(waiting')
    BY <1>3, ResumeEndWaits DEF CancelReaches
  <2>2. ~Stopping
    BY <2>1 DEF OneSession, OneStop
  <2> QED BY <1>3, <2>1, <2>2, SessionStays, StopIsOne DEF CancelReaches
<1>4. CASE StopListening
  <2>1. ~Stopping /\ Patient /\ AsksToStop /\ waiting' = waiting
    BY <1>4 DEF StopListening, recorder
  <2>2. Cancel \notin ToSet(waiting)
    BY <2>1 DEF Patient
  <2> QED BY <2>1, <2>2, StopIsOne
<1>5. CASE ResumeComesDue
  BY <1>1, <1>5 DEF ResumeComesDue, recorder
<1>6. CASE Activation
  BY <1>4, <1>5, <1>6, ArmIsOne, ArmsIsOne, EndIsOne, SpeechIsOne DEF Activation
<1>7. CASE PlaybackTurns
  BY <1>1, <1>7 DEF PlaybackTurns, recorder
<1>8. CASE UNCHANGED captures
  BY <1>1, <1>8 DEF captures, recorder
<1> QED BY <1>2, <1>3, <1>6, <1>7, <1>8 DEF CapturesNext

PatientInv == PlaysInv /\ WaitsInTurn /\ OneSession

LEMMA InitPatient == CapturesInit => PatientInv
<1> SUFFICES ASSUME CapturesInit PROVE PatientInv
  OBVIOUS
<1>1. WaitsInTurn
  BY DEF CapturesInit, Init, WaitsInTurn, Turns, GatedAlone
<1>2. OneArming /\ Listened
  BY SessionsAre DEF CapturesInit, OneArming, Arming, Listened
<1>3. OneStop /\ speech = None
  BY DEF CapturesInit, OneStop, Stopping
<1> QED BY <1>1, <1>2, <1>3, InitPlays DEF PatientInv, OneSession

LEMMA PatientNext ==
  ASSUME ~Impatient
  PROVE  PatientInv /\ [CapturesNext]_captures => PatientInv'
  BY PlaysNext, WaitsNext, SessionNext DEF PatientInv, PlaysInv

LEMMA PatientInvariance ==
  ASSUME ~Impatient
  PROVE  CapturesSpec => []PatientInv
  BY InitPatient, PatientNext, PTL DEF CapturesSpec

\* vad-recorder.ts:177-200 with a user who waits for answers, an open microphone is one the next
\* stop reaches, or one of a start or a stop that is out.
THEOREM MicrophonesClose ==
  ASSUME ~Impatient
  PROVE  CapturesSpec => []NoHotMicrophone
<1>1. PatientInv => NoHotMicrophone
  BY SessionsAre DEF PatientInv, PlaysInv, OwnTypes, OneSession, Listened, NoHotMicrophone
<1> QED BY <1>1, PatientInvariance, PTL

\* media.ts:20-22, recording.ts:412-418 once such a page captures nothing and nothing is due,
\* what it paused plays again.
THEOREM PlaysAgain ==
  ASSUME ~Impatient
  PROVE  CapturesSpec => []PlaybackReturns
<1>1. PatientInv => PlaybackReturns
  BY DEF PatientInv, PlaysInv, PlaybackInv, Returned, Owed, OneSession, PlaybackReturns, Recording
<1> QED BY <1>1, PatientInvariance, PTL
-----------------------------------------------------------------------------
(* Captures that take turns: each with its own snapshot. *)

LEMMA TakenAway ==
  ASSUME NEW s
  PROVE  RemoveFirst(<<s>>, s) = <<>>
<1> DEFINE q == <<s>>
<1>1. Len(q) = 1 /\ q[1] = s /\ q \in Seq({s})
  OBVIOUS
<1>2. 1 .. Len(q) = {1}
  BY <1>1
<1>3. {i \in 1 .. Len(q) : q[i] = s} = {1}
  BY <1>1, <1>2
<1>4. Min({1}) = 1
  BY DEF Min
<1> HIDE DEF q
<1>5. SelectInSeq(q, LAMBDA v : v = s) = 1
  BY <1>3, <1>4 DEF SelectInSeq
<1>6. RemoveFirst(q, s) = RemoveAt(q, 1)
  BY <1>1, <1>5 DEF RemoveFirst
<1>7. SubSeq(q, 1, 1 - 1) = <<>> /\ SubSeq(q, 1 + 1, Len(q)) = <<>>
  BY <1>1, SubSeqEmpty
<1>8. RemoveAt(q, 1) = <<>>
  BY <1>7 DEF RemoveAt
<1> QED BY <1>6, <1>8 DEF q

LEMMA OldestOfOne ==
  ASSUME NEW s
  PROVE  Oldest(<<s>>) = s /\ WithoutOldest(<<s>>) = <<>> /\ Append(<<>>, s) = <<s>>
<1>1. <<s>> # <<>> /\ Head(<<s>>) = s /\ Tail(<<s>>) = <<>> /\ Append(<<>>, s) = <<s>>
  BY Tuples
<1> QED BY <1>1 DEF Oldest, WithoutOldest

LEMMA OldestOfNone == Oldest(<<>>) = None /\ WithoutOldest(<<>>) = <<>>
  BY DEF Oldest, WithoutOldest

OwnRuns == {<<c, c>> : c \in Starts \cup Utterances} \cup {<<0, None>>}
TurnsInv == PatientInv /\ OneSnapshot /\ InTurn

\* Nothing is captured, or one start's capture is under way.
LEMMA Quieted ==
  ASSUME OneSnapshot, speech = None
  PROVE  \/ pending = <<>> /\ \A s \in Starts : ~Holds(s)
         \/ \E s \in Starts : pending = <<s>> /\ Holds(s) /\ \A t \in Starts : Holds(t) => t = s
  BY DEF OneSnapshot

\* What a start that holds says.
LEMMA HoldersOwn ==
  ASSUME TurnsInv, NEW s \in Starts, Holds(s)
  PROVE  speech = None /\ pending = <<s>> /\ \A t \in Starts : Holds(t) => t = s
  BY DEF TurnsInv, OneSnapshot

LEMMA LiveIsAlone ==
  ASSUME TurnsInv, Live \/ EndingsOut
  PROVE  ~Armed /\ speech = None
  BY DEF TurnsInv, InTurn, PatientInv, OneSession

\* A step that moves no capture.
LEMMA TurnStays ==
  ASSUME TurnsInv, Armed' => Armed, speech' = speech, GatesFewer, starting' = starting, pending' = pending,
         UNCHANGED <<current, ending, runs>>, open' \in {open, None},
         \A s \in Starts : Starter(s)' <=> Starter(s),
         \A s \in Starts : phase[s] = "waiting" => phase'[s] = "waiting" \/ current # 0
  PROVE  OneSnapshot' /\ InTurn'
<1>1. \A s \in Starts : Holds(s)' <=> Holds(s)
  BY DEF Holds
<1>2. OneSnapshot'
  BY <1>1 DEF TurnsInv, OneSnapshot
<1>3. (Live' <=> Live) /\ (EndingsOut' <=> EndingsOut)
  BY DEF Live, EndingsOut
<1>4. InTurn'
  BY <1>1, <1>3 DEF TurnsInv, InTurn, GatesFewer
<1> QED BY <1>2, <1>4

\* A start past its gate: refused, or the one capture there is.
LEMMA RequestTurn ==
  ASSUME TurnsInv, NEW s \in Starts, phase[s] \in {"none", "gate"}, Request(s, waiting),
         ~EndingsOut, ~Armed, UNCHANGED activation
  PROVE  OneSnapshot' /\ InTurn'
<1>1. phase \in [Starts -> Phases] /\ (starting <=> \E t \in Starts : Starter(t))
  BY RecorderTypes DEF TurnsInv, PatientInv, PlaysInv
<1>2. UNCHANGED <<current, ending, open, runs>> /\ speech' = speech /\ ~Armed'
  BY DEF Request, activation, Armed, Arming
<1>3. \A t \in Starts : t # s => phase'[t] = phase[t]
  BY <1>1 DEF Request
<1>4. speech = None
  BY DEF TurnsInv, PatientInv, OneSession
<1>5. CASE Live
  <2>1. phase'[s] = "refused" /\ starting' = starting /\ pending' = pending
    BY <1>1, <1>5 DEF Request, TurnsInv, PatientInv, PlaysInv, RecorderInv, RecorderTypeOK
  <2>2. GatesFewer /\ \A t \in Starts : Starter(t)' <=> Starter(t)
    BY <1>3, <2>1 DEF GatesFewer, Starter
  <2>3. \A t \in Starts : phase[t] = "waiting" => phase'[t] = "waiting"
    BY <1>3
  <2> QED BY <1>2, <2>1, <2>2, <2>3, TurnStays
<1>6. CASE ~Live
  <2>1. \A t \in Starts : ~Holds(t)
    BY <1>1, <1>6, StartsAre DEF Live, EndingsOut, Holds
  <2>2. pending = <<>>
    BY <1>4, <2>1, Quieted DEF TurnsInv
  <2>3. pending' = <<s>> /\ phase'[s] = "waiting"
    BY <1>1, <1>6, <2>2, OldestOfOne DEF Request
  <2>4. \A t \in Starts : Holds(t)' <=> t = s
    BY <1>2, <1>3, <2>1, <2>3 DEF Holds, Starter
  <2>5. OneSnapshot'
    BY <1>2, <1>4, <2>3, <2>4 DEF OneSnapshot
  <2>6. ~EndingsOut' /\ current' = None
    BY <1>2, <1>6 DEF EndingsOut, Live
  <2>7. ending'[0] \notin {"stopping", "cancelling"} /\ current' # 0
    BY <2>6, StartsAre DEF EndingsOut
  <2>8. InTurn'
    BY <1>2, <2>6, <2>7 DEF TurnsInv, InTurn
  <2> QED BY <2>5, <2>8
<1> QED BY <1>5, <1>6

LEMMA ToggleTurn ==
  ASSUME ~Impatient, TurnsInv, NEW s \in Starts, ToggleStarts(s), ~Armed, UNCHANGED activation
  PROVE  OneSnapshot' /\ InTurn'
<1>1. Called(s, waiting) /\ ~EndingsOut /\ current = None
  BY DEF ToggleStarts, Called, Patient
<1>2. phase[s] = "none"
  BY <1>1, RecorderTypes, GrownNot, CalledKeeps DEF TurnsInv, PatientInv, PlaysInv
<1>3. CASE ~Gate
  BY <1>1, <1>2, <1>3, RequestTurn DEF Called
<1>4. CASE Gate
  <2>1. /\ phase' = [phase EXCEPT ![s] = "gate"]
        /\ UNCHANGED <<current, starting, ending, open, pending, runs>> /\ speech' = speech /\ ~Armed'
    BY <1>1, <1>4 DEF Called, activation, Armed, Arming
  <2>2. phase'[s] = "gate" /\ \A t \in Starts : t # s => phase'[t] = phase[t]
    BY <2>1, RecorderTypes DEF TurnsInv, PatientInv, PlaysInv
  <2>3. \A t \in Starts : Holds(t)' <=> Holds(t)
    BY <1>2, <2>1, <2>2 DEF Holds, Starter
  <2>4. OneSnapshot'
    BY <2>1, <2>3 DEF TurnsInv, OneSnapshot
  <2>5. ~EndingsOut' /\ current' # 0
    BY <1>1, <2>1, StartsAre DEF EndingsOut
  <2>6. InTurn'
    BY <2>1, <2>3, <2>5 DEF TurnsInv, InTurn
  <2> QED BY <2>4, <2>6
<1> QED BY <1>3, <1>4

LEMMA GatedTurn ==
  ASSUME ~Impatient, TurnsInv, NEW s \in Starts, Gated(s), UNCHANGED activation
  PROVE  OneSnapshot' /\ InTurn'
<1>1. phase[s] = "gate"
  BY DEF Gated, GatePasses, GateRefuses
<1>2. ~EndingsOut /\ ~Armed
  BY <1>1 DEF TurnsInv, PatientInv, WaitsInTurn, GatedAlone, InTurn
<1>3. CASE GatePasses(s, waiting)
  BY <1>1, <1>2, <1>3, RequestTurn DEF GatePasses
<1>4. CASE GateRefuses(s)
  <2>1. /\ phase' = [phase EXCEPT ![s] = "withheld"]
        /\ UNCHANGED <<current, starting, ending, open, pending, runs>> /\ speech' = speech /\ ~Armed'
    BY <1>2, <1>4 DEF GateRefuses, activation, Armed, Arming
  <2>2. phase'[s] = "withheld" /\ \A t \in Starts : t # s => phase'[t] = phase[t]
    BY <2>1, RecorderTypes DEF TurnsInv, PatientInv, PlaysInv
  <2>3. /\ GatesFewer /\ \A t \in Starts : Starter(t)' <=> Starter(t)
        /\ \A t \in Starts : phase[t] = "waiting" => phase'[t] = "waiting"
    BY <1>1, <2>2 DEF GatesFewer, Starter
  <2> QED BY <2>1, <2>3, TurnStays
<1> QED BY <1>3, <1>4 DEF Gated

\* A start that ends in an error takes the one snapshot away, its own.
LEMMA FailsTurn ==
  ASSUME TurnsInv, NEW s \in Starts, Starter(s), NEW verdict \in {"failed", "refused"},
         Fails(s, verdict), UNCHANGED activation
  PROVE  OneSnapshot' /\ InTurn'
<1>1. Holds(s) /\ Live
  BY RecorderTypes DEF Holds, Live, TurnsInv, PatientInv, PlaysInv
<1>2. speech = None /\ pending = <<s>> /\ (\A t \in Starts : Holds(t) => t = s) /\ ~Armed
  BY <1>1, HoldersOwn, LiveIsAlone
<1>3. /\ phase' = [phase EXCEPT ![s] = verdict] /\ pending' = RemoveFirst(pending, s)
      /\ UNCHANGED <<current, ending, open, runs>> /\ speech' = None /\ ~Armed'
  BY <1>2 DEF Fails, activation, Armed, Arming
<1>4. pending' = <<>>
  BY <1>2, <1>3, TakenAway
<1>5. phase'[s] = verdict /\ \A t \in Starts : t # s => phase'[t] = phase[t]
  BY <1>3, RecorderTypes DEF TurnsInv, PatientInv, PlaysInv
<1>6. current # s /\ ending[s] = "no"
  <2>1. phase[s] # "recording"
    BY DEF Starter
  <2> QED BY <2>1, RecorderTypes, StartsAre DEF TurnsInv, PatientInv, PlaysInv, RecorderInv, HeldOnce
<1>7. ~Holds(s)'
  BY <1>3, <1>5, <1>6 DEF Holds, Starter
<1>8. \A t \in Starts : t # s => ~Holds(t)'
  BY <1>2, <1>3, <1>5 DEF Holds, Starter
<1>9. OneSnapshot'
  BY <1>3, <1>4, <1>7, <1>8 DEF OneSnapshot
<1>10. EndingsOut' => EndingsOut
  BY <1>3 DEF EndingsOut
<1>11. InTurn'
  BY <1>3, <1>7, <1>8, <1>10 DEF TurnsInv, InTurn
<1> QED BY <1>9, <1>11

LEMMA OpeningTurn ==
  ASSUME TurnsInv, NEW s \in Starts, Opening(s), UNCHANGED activation
  PROVE  OneSnapshot' /\ InTurn'
<1>1. phase[s] = "opening" /\ Starter(s) /\ Holds(s)
  BY DEF Opening, HostOpens, HostRefuses, Starter, Holds
<1>2. CASE HostRefuses(s)
  BY <1>1, <1>2, FailsTurn DEF HostRefuses
<1>3. CASE HostOpens(s, waiting)
  <2>1. /\ phase' = [phase EXCEPT ![s] = "recording"] /\ current' = s
        /\ UNCHANGED <<ending, pending, runs>> /\ speech' = speech
    BY <1>3 DEF HostOpens, activation
  <2>2. speech = None /\ pending = <<s>> /\ \A t \in Starts : Holds(t) => t = s
    BY <1>1, HoldersOwn
  <2>3. ~Armed
    BY <1>1, LiveIsAlone, RecorderTypes DEF Live, TurnsInv, PatientInv, PlaysInv
  <2>4. ~Armed'
    BY <2>3 DEF activation, Armed, Arming
  <2>5. phase'[s] = "recording" /\ \A t \in Starts : t # s => phase'[t] = phase[t]
    BY <2>1, RecorderTypes DEF TurnsInv, PatientInv, PlaysInv
  <2>6. \A t \in Starts : Holds(t)' <=> t = s
    BY <2>1, <2>2, <2>5 DEF Holds, Starter
  <2>7. OneSnapshot'
    BY <2>1, <2>2, <2>6 DEF OneSnapshot
  <2>8. ~EndingsOut
    <3>1. ending[0] \notin {"stopping", "cancelling"}
      BY <1>1 DEF TurnsInv, InTurn
    <3>2. ASSUME NEW t \in Starts PROVE ending[t] \notin {"stopping", "cancelling"}
      <4>1. ending[t] \in {"stopping", "cancelling"} => Holds(t) /\ phase[t] = "recording"
        BY DEF Holds, TurnsInv, PatientInv, PlaysInv, RecorderInv, HeldOnce
      <4> QED BY <1>1, <2>2, <4>1
    <3> QED BY <3>1, <3>2, StartsAre DEF EndingsOut
  <2>9. ~EndingsOut'
    BY <2>1, <2>8 DEF EndingsOut
  <2>10. current' # 0 /\ ending'[0] \notin {"stopping", "cancelling"}
    BY <2>1, <2>9, StartsAre DEF EndingsOut
  <2>11. InTurn'
    BY <2>1, <2>4, <2>9, <2>10 DEF TurnsInv, InTurn
  <2> QED BY <2>7, <2>11
<1> QED BY <1>2, <1>3 DEF Opening

\* The host's answer: the recording runs with the oldest snapshot, its own; none waits any more.
LEMMA AnsweredTurn ==
  ASSUME TurnsInv, NEW r \in Recordings, NEW how \in {"stopping", "cancelling"}, Answered(r, how),
         pending' = WithoutOldest(pending), runs' \subseteq runs \cup {<<r, Oldest(pending)>>},
         UNCHANGED activation
  PROVE  OneSnapshot' /\ InTurn'
<1>1. /\ ending[r] = how /\ ending' = [ending EXCEPT ![r] = "over"]
      /\ UNCHANGED <<current, starting, phase, open>> /\ speech' = speech
  BY DEF Answered, activation
<1>2. EndingsOut /\ current = None
  BY <1>1 DEF EndingsOut, TurnsInv, InTurn
<1>3. ~Armed /\ speech = None
  BY <1>2, LiveIsAlone
<1>4. ~Armed'
  BY <1>3 DEF activation, Armed, Arming
<1>5. /\ ending'[r] = "over" /\ \A q \in Recordings : q # r => ending'[q] = ending[q]
      /\ \A s \in Starts : s \in Recordings
  BY <1>1, RecorderTypes, StartsAre DEF TurnsInv, PatientInv, PlaysInv
<1>6. pending' = <<>> /\ (\A s \in Starts : ~Holds(s)') /\ <<r, Oldest(pending)>> \in OwnRuns
  <2>1. CASE r = 0
    <3>1. \A s \in Starts : ~Holds(s)
      BY <1>1, <2>1 DEF TurnsInv, InTurn
    <3>2. pending = <<>>
      BY <1>3, <3>1, Quieted DEF TurnsInv
    <3>3. \A s \in Starts : ~Holds(s)'
      BY <1>1, <1>5, <2>1, <3>1, StartsAre DEF Holds, Starter
    <3> QED BY <2>1, <3>2, <3>3, OldestOfNone DEF OwnRuns
  <2>2. CASE r \in Starts
    <3>1. Holds(r)
      BY <1>1 DEF Holds
    <3>2. pending = <<r>> /\ \A s \in Starts : Holds(s) => s = r
      BY <2>2, <3>1, HoldersOwn
    <3>3. phase[r] = "recording"
      BY <1>1, <2>2 DEF TurnsInv, PatientInv, PlaysInv, RecorderInv, HeldOnce
    <3>4. ~Holds(r)'
      BY <1>1, <1>2, <1>5, <3>3, <2>2, StartsAre DEF Holds, Starter
    <3>5. \A s \in Starts : s # r => ~Holds(s)'
      BY <1>1, <1>5, <3>2 DEF Holds, Starter
    <3> QED BY <2>2, <3>2, <3>4, <3>5, OldestOfOne DEF OwnRuns
  <2> QED BY <2>1, <2>2, StartsAre
<1>7. OneSnapshot'
  BY <1>1, <1>3, <1>6 DEF OneSnapshot
<1>8. runs' \subseteq OwnRuns
  BY <1>6 DEF OwnRuns, TurnsInv, InTurn
<1>9. InTurn'
  BY <1>1, <1>2, <1>4, <1>6, <1>8, StartsAre DEF InTurn, OwnRuns
<1> QED BY <1>7, <1>9

LEMMA HostTurn ==
  ASSUME TurnsInv, NEW r \in Recordings, Host(r), UNCHANGED activation
  PROVE  OneSnapshot' /\ InTurn'
<1>1. CASE HostTakes(r)
  <2>1. /\ UNCHANGED <<current, starting, phase, ending, pending, runs>> /\ open' = None
        /\ speech' = speech /\ (Armed' => Armed)
    BY <1>1 DEF HostTakes, activation, Armed, Arming
  <2>2. GatesFewer /\ \A s \in Starts : Starter(s)' <=> Starter(s)
    BY <2>1 DEF GatesFewer, Starter
  <2> QED BY <2>1, <2>2, TurnStays
<1>2. CASE Stopped(r)
  BY <1>2, AnsweredTurn DEF Stopped
<1>3. CASE StopFailed(r) \/ Cancelled(r)
  BY <1>3, AnsweredTurn DEF StopFailed, Cancelled
<1> QED BY <1>1, <1>2, <1>3 DEF Host

LEMMA BootTurn ==
  ASSUME TurnsInv, BootAnswers \/ BootFails, UNCHANGED activation
  PROVE  OneSnapshot' /\ InTurn'
<1>1. (Armed' => Armed) /\ speech' = speech
  BY DEF activation, Armed, Arming
<1>2. CASE BootAnswers
  <2>1. /\ current' = (IF open = 0 THEN 0 ELSE current)
        /\ UNCHANGED <<starting, phase, ending, open, pending, runs>>
    BY <1>2 DEF BootAnswers
  <2>2. /\ current = None /\ open \in {None, 0} /\ \A r \in Recordings : ending[r] = "no"
        /\ \A s \in Starts : phase[s] \notin {"opening", "recording"}
    BY <1>2 DEF BootAnswers, TurnsInv, PatientInv, PlaysInv, RecorderInv, BootedFirst
  <2>3. current' \in {None, 0} /\ (open = None => current' = None)
    BY <2>1, <2>2, StartsAre
  <2>4. \A s \in Starts : /\ Holds(s) <=> phase[s] = "waiting"
                          /\ Holds(s)' <=> phase'[s] = "waiting"
    BY <2>1, <2>2, <2>3, StartsAre DEF Holds, Starter
  <2>5. OneSnapshot'
    BY <1>1, <2>1, <2>4 DEF TurnsInv, OneSnapshot
  <2>6. ~EndingsOut' /\ ending'[0] \notin {"stopping", "cancelling"}
    BY <2>1, <2>2, StartsAre DEF EndingsOut
  <2>7. Armed' => ~Live' /\ open' = None /\ \A s \in Starts : phase'[s] # "gate"
    BY <1>1, <2>1, <2>3 DEF TurnsInv, InTurn, Live
  <2>8. InTurn'
    BY <2>1, <2>4, <2>6, <2>7 DEF TurnsInv, InTurn
  <2> QED BY <2>5, <2>8
<1>3. CASE BootFails
  <2>1. ASSUME NEW s \in Starts, Start(s) \in ToSet(waiting), Fails(s, "failed")
        PROVE  OneSnapshot' /\ InTurn'
    <3>1. Starter(s)
      BY <2>1 DEF ToSet, Awaits, TurnsInv, PatientInv, PlaysInv, RecorderInv, OneStart, Starter
    <3> QED BY <2>1, <3>1, FailsTurn
  <2>2. CASE UNCHANGED <<current, starting, phase, ending, open, pending, runs, started>>
    BY <1>1, <2>2, TurnStays DEF GatesFewer, Starter
  <2> QED BY <1>3, <2>1, <2>2 DEF BootFails
<1> QED BY <1>2, <1>3

LEMMA ResumeStartTurn ==
  ASSUME TurnsInv, ResumeStart, UNCHANGED activation
  PROVE  OneSnapshot' /\ InTurn'
<1> DEFINE s == Head(waiting).of
<1>1. s \in Starts /\ phase[s] = "waiting"
  BY ResumedQueue DEF ResumeStart, TurnsInv, PatientInv, PlaysInv
<1>2. IF current # None THEN Fails(s, "refused")
      ELSE /\ phase' = [phase EXCEPT ![s] = "opening"]
           /\ UNCHANGED <<current, starting, ending, open, pending, runs, started>>
  BY DEF ResumeStart
<1> HIDE DEF s
<1>3. Starter(s) /\ Live
  BY <1>1, RecorderTypes DEF Starter, Live, TurnsInv, PatientInv, PlaysInv
<1>4. CASE current # None
  BY <1>1, <1>2, <1>3, <1>4, FailsTurn
<1>5. CASE current = None
  <2>1. /\ phase' = [phase EXCEPT ![s] = "opening"]
        /\ UNCHANGED <<current, starting, ending, open, pending, runs>> /\ speech' = speech
    BY <1>2, <1>5 DEF activation
  <2>2. phase'[s] = "opening" /\ \A t \in Starts : t # s => phase'[t] = phase[t]
    BY <1>1, <2>1, RecorderTypes DEF TurnsInv, PatientInv, PlaysInv
  <2>3. \A t \in Starts : Holds(t)' <=> Holds(t)
    BY <1>3, <2>1, <2>2 DEF Holds, Starter
  <2>4. OneSnapshot'
    BY <2>1, <2>3 DEF TurnsInv, OneSnapshot
  <2>5. ~Armed
    BY <1>3, LiveIsAlone
  <2>6. ~Armed' /\ current' # 0
    BY <1>5, <2>1, <2>5, StartsAre DEF activation, Armed, Arming
  <2>7. InTurn'
    BY <1>5, <2>1, <2>3, <2>6 DEF TurnsInv, InTurn
  <2> QED BY <2>4, <2>7
<1> QED BY <1>4, <1>5

\* The recording that is held becomes the one that is ending, with the same snapshot.
LEMMA ReleaseTurn ==
  ASSUME TurnsInv, current # None, NEW how \in {"stopping", "cancelling"}, Release(how),
         \A s \in Starts : phase[s] # "gate" /\ phase[s] # "waiting", UNCHANGED activation
  PROVE  OneSnapshot' /\ InTurn'
<1>1. /\ ending' = [ending EXCEPT ![current] = how] /\ current' = None
      /\ UNCHANGED <<starting, phase, open, pending, runs>> /\ speech' = speech
  BY DEF Release, activation
<1>2. /\ current \in Recordings /\ ending'[current] = how
      /\ \A r \in Recordings : r # current => ending'[r] = ending[r]
  BY <1>1, RecorderTypes DEF TurnsInv, PatientInv, PlaysInv
<1>3. ~EndingsOut /\ ~Armed
  BY DEF TurnsInv, InTurn, Live
<1>4. ASSUME NEW s \in Starts PROVE Holds(s)' <=> Holds(s)
  <2>1. CASE s = current
    BY <1>2, <2>1 DEF Holds
  <2>2. CASE s # current
    BY <1>1, <1>2, <2>2, StartsAre DEF Holds, Starter
  <2> QED BY <2>1, <2>2
<1>5. OneSnapshot'
  BY <1>1, <1>4 DEF TurnsInv, OneSnapshot
<1>6. ending'[0] \in {"stopping", "cancelling"} => \A s \in Starts : ~Holds(s)'
  <2>1. CASE current = 0
    BY <1>4, <2>1 DEF TurnsInv, InTurn
  <2>2. CASE current # 0
    BY <1>2, <1>3, <2>2, StartsAre DEF EndingsOut
  <2> QED BY <2>1, <2>2
<1>7. ~Armed' /\ current' # 0
  BY <1>1, <1>3, StartsAre DEF activation, Armed, Arming
<1>8. InTurn'
  BY <1>1, <1>6, <1>7 DEF TurnsInv, InTurn
<1> QED BY <1>5, <1>8

LEMMA ResumeEndTurn ==
  ASSUME TurnsInv, ResumeStop \/ ResumeCancel, current # None => UNCHANGED activation,
         Armed' => Armed, speech' = speech
  PROVE  OneSnapshot' /\ InTurn'
<1>1. /\ \A s \in Starts : phase[s] # "gate" /\ phase[s] # "waiting"
      /\ ResumeStop => current # None
  BY ResumeEndWaits DEF TurnsInv, PatientInv, PlaysInv
<1>2. CASE current # None
  BY <1>1, <1>2, ReleaseTurn DEF ResumeStop, ResumeCancel
<1>3. CASE current = None
  <2>1. UNCHANGED <<current, starting, phase, ending, open, pending, runs, started>>
    BY <1>1, <1>3 DEF ResumeCancel
  <2> QED BY <2>1, TurnStays DEF GatesFewer, Starter
<1> QED BY <1>2, <1>3

\* Nothing but voice activation, the playback and the queue moves.
LEMMA QuietTurn ==
  ASSUME TurnsInv, UNCHANGED <<current, starting, phase, ending, open, pending, runs>>,
         Armed' => Armed, speech' = speech
  PROVE  OneSnapshot' /\ InTurn'
  BY TurnStays DEF GatesFewer, Starter

LEMMA ManualTurn ==
  ASSUME ~Impatient, ~Overlap, TurnsInv, Manual
  PROVE  OneSnapshot' /\ InTurn'
<1>1. UNCHANGED activation /\ (Armed' => Armed) /\ speech' = speech
  BY DEF Manual, activation, Armed, Arming
<1>2. ASSUME NEW s \in Starts, AloneOr(Armed \/ Stopping), ToggleStarts(s) PROVE OneSnapshot' /\ InTurn'
  BY <1>1, <1>2, ToggleTurn DEF AloneOr
<1>3. ASSUME NEW s \in Starts, Gated(s) \/ Opening(s) PROVE OneSnapshot' /\ InTurn'
  BY <1>1, <1>3, GatedTurn, OpeningTurn
<1>4. ASSUME NEW r \in Recordings, Host(r) PROVE OneSnapshot' /\ InTurn'
  BY <1>1, <1>4, HostTurn
<1>5. CASE BootAnswers \/ BootFails \/ ResumeStart
  BY <1>1, <1>5, BootTurn, ResumeStartTurn
<1>6. CASE ResumeStop
  BY <1>1, <1>6, ResumeEndTurn
<1>7. CASE AskStop \/ AskCancel
  BY <1>1, <1>7, QuietTurn DEF AskStop, AskCancel, Ask
<1> QED BY <1>2, <1>3, <1>4, <1>5, <1>6, <1>7 DEF Manual

\* A session is armed only while nothing else is captured.
LEMMA ArmTurn ==
  ASSUME ~Overlap, TurnsInv, NEW v \in Sessions, Arm(v)
  PROVE  OneSnapshot' /\ InTurn'
<1>1. ~Recording /\ UNCHANGED <<recorder, speech>>
  BY DEF Arm, AloneOr
<1>2. \A s \in Starts : Holds(s)' <=> Holds(s)
  BY <1>1 DEF recorder, Holds, Starter
<1>3. OneSnapshot'
  BY <1>1, <1>2 DEF TurnsInv, OneSnapshot, recorder
<1>4. ~Live' /\ ~EndingsOut' /\ open' = None /\ \A s \in Starts : phase'[s] # "gate"
  BY <1>1 DEF Recording, Live, EndingsOut, recorder
<1>5. InTurn'
  BY <1>1, <1>2, <1>4 DEF TurnsInv, InTurn, recorder
<1> QED BY <1>3, <1>5

LEMMA SpeechTurn ==
  ASSUME TurnsInv, SpeechStarts \/ SpeechEnds \/ Misfires
  PROVE  OneSnapshot' /\ InTurn'
<1>1. /\ UNCHANGED <<current, starting, boot, waiting, phase, ending, open, started>>
      /\ UNCHANGED <<vadSession, stage>>
  BY DEF SpeechStarts, SpeechEnds, Misfires, Silence
<1>2. \A s \in Starts : Holds(s)' <=> Holds(s)
  BY <1>1 DEF Holds, Starter
<1>3. (Armed' <=> Armed) /\ (Live' <=> Live) /\ (EndingsOut' <=> EndingsOut)
  BY <1>1 DEF Armed, Arming, Live, EndingsOut
<1>4. Armed /\ \A s \in Starts : ~Holds(s)
  <2>1. Armed
    <3>1. CASE SpeechStarts
      <4>1. \E v \in Sessions : Hears(v)
        BY <3>1 DEF SpeechStarts
      <4> QED BY <4>1, SessionsAre DEF Hears, Armed, Arming, TurnsInv, PatientInv, OneSession, Listened
    <3>2. CASE SpeechEnds \/ Misfires
      BY <3>2 DEF SpeechEnds, Misfires, Silence, TurnsInv, PatientInv, OneSession
    <3> QED BY <3>1, <3>2
  <2>2. ~Live /\ ~EndingsOut
    BY <2>1 DEF TurnsInv, InTurn
  <2> QED BY <2>1, <2>2, RecorderTypes, StartsAre
          DEF Holds, Live, EndingsOut, TurnsInv, PatientInv, PlaysInv
<1>5. CASE SpeechStarts
  <2>1. speech = None /\ pending' = Append(pending, speech') /\ runs' = runs
    BY <1>5 DEF SpeechStarts
  <2>2. speech' \in Utterances
    BY <1>5, UtterancesAre DEF SpeechStarts, TurnsInv, PatientInv, PlaysInv, OwnTypes
  <2>3. pending = <<>>
    BY <1>4, <2>1, Quieted DEF TurnsInv
  <2>4. pending' = <<speech'>>
    BY <2>1, <2>3, OldestOfOne
  <2>5. OneSnapshot'
    BY <1>2, <1>4, <2>2, <2>4, SessionsAre DEF OneSnapshot
  <2>6. InTurn'
    BY <1>1, <1>2, <1>3, <2>1 DEF TurnsInv, InTurn
  <2> QED BY <2>5, <2>6
<1>6. CASE SpeechEnds \/ Misfires
  <2>1. /\ speech # None /\ speech' = None /\ pending' = WithoutOldest(pending)
        /\ runs' \subseteq runs \cup {<<speech, Oldest(pending)>>}
    BY <1>6 DEF SpeechEnds, Misfires, Silence
  <2>2. pending = <<speech>> /\ speech \in Utterances
    BY <2>1 DEF TurnsInv, OneSnapshot, PatientInv, PlaysInv, OwnTypes
  <2>3. pending' = <<>> /\ Oldest(pending) = speech
    BY <2>1, <2>2, OldestOfOne
  <2>4. OneSnapshot'
    BY <1>2, <1>4, <2>1, <2>3 DEF OneSnapshot
  <2>5. runs' \subseteq OwnRuns
    BY <2>1, <2>2, <2>3 DEF OwnRuns, TurnsInv, InTurn
  <2>6. InTurn'
    BY <1>1, <1>2, <1>3, <2>5 DEF TurnsInv, InTurn, OwnRuns
  <2> QED BY <2>4, <2>6
<1> QED BY <1>5, <1>6

LEMMA ActivationTurn ==
  ASSUME ~Overlap, TurnsInv, Activation
  PROVE  OneSnapshot' /\ InTurn'
<1>1. ASSUME NEW v \in Sessions, Arms(v) PROVE OneSnapshot' /\ InTurn'
  <2>1. UNCHANGED <<recorder, speech>> /\ stage[v] \in {"asking", "loading", "starting"}
    BY <1>1 DEF Arms, StreamOpens, ModelLoads, SessionStarts, ArmFails, Advance
  <2>2. Armed
    BY <2>1 DEF Armed, Arming
  <2> QED BY <2>1, <2>2, QuietTurn DEF recorder
<1>2. ASSUME NEW v \in Sessions, SessionEnds(v) PROVE OneSnapshot' /\ InTurn'
  <2>1. UNCHANGED <<recorder, speech>> /\ stops[v] > 0
    BY <1>2 DEF SessionEnds
  <2>2. Armed
    BY <2>1, SessionsAre DEF Armed, TurnsInv, PatientInv, OneSession, OneStop
  <2> QED BY <2>1, <2>2, QuietTurn DEF recorder
<1>3. CASE StopListening \/ ResumeComesDue
  <2>1. UNCHANGED <<recorder, speech, vadSession, stage>>
    BY <1>3 DEF StopListening, AsksToStop, ResumeComesDue, activation
  <2>2. Armed' => Armed
    BY <2>1 DEF Armed, Arming
  <2> QED BY <2>1, <2>2, QuietTurn DEF recorder
<1> QED BY <1>1, <1>2, <1>3, ArmTurn, SpeechTurn DEF Activation

LEMMA TurnsNext ==
  ASSUME ~Impatient, ~Overlap
  PROVE  TurnsInv /\ [CapturesNext]_captures => TurnsInv'
<1> SUFFICES ASSUME TurnsInv, [CapturesNext]_captures PROVE OneSnapshot' /\ InTurn'
  BY PatientNext DEF TurnsInv
<1>1. CASE Manual
  BY <1>1, ManualTurn
<1>2. CASE CancelReaches
  <2>1. ResumeCancel /\ (current # None => UNCHANGED activation)
        /\ UNCHANGED <<vadSession, stage, speech>>
    BY <1>2 DEF CancelReaches, AsksToStop, activation
  <2>2. Armed' => Armed
    BY <2>1 DEF Armed, Arming
  <2> QED BY <2>1, <2>2, ResumeEndTurn
<1>3. CASE Activation
  BY <1>3, ActivationTurn
<1>4. CASE PlaybackTurns \/ UNCHANGED captures
  <2>1. UNCHANGED <<recorder, activation>>
    BY <1>4 DEF PlaybackTurns, captures
  <2>2. (Armed' => Armed) /\ speech' = speech
    BY <2>1 DEF activation, Armed, Arming
  <2> QED BY <2>1, <2>2, QuietTurn DEF recorder
<1> QED BY <1>1, <1>2, <1>3, <1>4 DEF CapturesNext

LEMMA InitTurns == CapturesInit => TurnsInv
<1> SUFFICES ASSUME CapturesInit PROVE TurnsInv
  OBVIOUS
<1>1. /\ current = None /\ starting = FALSE /\ pending = <<>> /\ speech = None /\ runs = {} /\ vadSession = None
      /\ \A s \in Starts : phase[s] = "none" /\ ending[s] = "no"
      /\ \A r \in Recordings : ending[r] = "no"
      /\ \A v \in Sessions : stage[v] = "none"
  BY StartsAre DEF CapturesInit, Init
<1>2. /\ ~Armed /\ ~EndingsOut /\ \A s \in Starts : ~Holds(s)
  BY <1>1, StartsAre DEF Armed, Arming, EndingsOut, Holds, Starter
<1>3. OneSnapshot
  BY <1>1, <1>2 DEF OneSnapshot
<1>4. InTurn
  BY <1>1, <1>2, StartsAre DEF InTurn
<1> QED BY <1>3, <1>4, InitPatient DEF TurnsInv

LEMMA TurnsInvariance ==
  ASSUME ~Impatient, ~Overlap
  PROVE  CapturesSpec => []TurnsInv
  BY InitTurns, TurnsNext, PTL DEF CapturesSpec

\* capture-queue.ts:7-9, recording.ts:170-188 captures that take turns run with their own
\* snapshot, and leave none to the next.
THEOREM EveryRunIsItsOwn ==
  ASSUME ~Impatient, ~Overlap
  PROVE  CapturesSpec => []EachWithItsOwn
<1>1. ASSUME TurnsInv PROVE EachWithItsOwn
  <2>1. runs \subseteq {<<c, c>> : c \in Starts \cup Utterances} \cup {<<0, None>>}
    BY <1>1 DEF TurnsInv, InTurn
  <2>2. ASSUME ~Live, ~EndingsOut, speech = None PROVE pending = <<>>
    <3>1. \A s \in Starts : ~Holds(s)
      BY <1>1, <2>2, RecorderTypes, StartsAre
         DEF Holds, Live, EndingsOut, TurnsInv, PatientInv, PlaysInv
    <3> QED BY <1>1, <2>2, <3>1, Quieted DEF TurnsInv
  <2> QED BY <2>1, <2>2 DEF EachWithItsOwn
<1> QED BY <1>1, TurnsInvariance, PTL

\* All of it: whatever the user and the captures are, as much of the invariant as they leave.
THEOREM CapturesInvariance == CapturesSpec => []CapturesInv
<1>1. CASE Impatient
  <2>1. PlaysInv => CapturesInv
    BY <1>1, TypesAre DEF PlaysInv, RecorderInv, CapturesInv
  <2> QED BY <2>1, PlaysInvariance, PTL
<1>2. CASE ~Impatient /\ Overlap
  <2>1. PatientInv => CapturesInv
    BY <1>2, TypesAre DEF PatientInv, PlaysInv, RecorderInv, CapturesInv
  <2>2. CapturesSpec => []PatientInv
    BY <1>2, PatientInvariance
  <2> QED BY <2>1, <2>2, PTL
<1>3. CASE ~Impatient /\ ~Overlap
  <2>1. TurnsInv => CapturesInv
    BY <1>3, TypesAre DEF TurnsInv, PatientInv, PlaysInv, RecorderInv, CapturesInv
  <2>2. CapturesSpec => []TurnsInv
    BY <1>3, TurnsInvariance
  <2> QED BY <2>1, <2>2, PTL
<1> QED BY <1>1, <1>2, <1>3
-----------------------------------------------------------------------------
(* Push-to-talk: its session, its fuse and its stops. *)

Fuses == {"hold", "locked"}

\* What is appended to a queue is in it, and nothing else is new.
LEMMA AppendedOps ==
  ASSUME NEW queue \in Seq(Ops), NEW op \in Ops
  PROVE  /\ Append(queue, op) \in Seq(Ops)
         /\ \A x : x \in ToSet(Append(queue, op)) <=> x \in ToSet(queue) \/ x = op
<1> DEFINE more == Append(queue, op)
<1>1. /\ more \in Seq(Ops) /\ Len(more) = Len(queue) + 1
      /\ \A i \in 1 .. Len(queue) : more[i] = queue[i]
      /\ more[Len(queue) + 1] = op
  OBVIOUS
<1> HIDE DEF more
<1>2. DOMAIN more = 1 .. Len(queue) + 1 /\ DOMAIN queue = 1 .. Len(queue) /\ Len(queue) \in Nat
  BY <1>1
<1>3. ASSUME NEW x \in ToSet(more) PROVE x \in ToSet(queue) \/ x = op
  <2>1. PICK i \in 1 .. Len(queue) + 1 : x = more[i]
    BY <1>2, <1>3 DEF ToSet
  <2>2. i \in 1 .. Len(queue) \/ i = Len(queue) + 1
    BY <1>2, <2>1
  <2> QED BY <1>1, <1>2, <2>1, <2>2 DEF ToSet
<1>4. ASSUME NEW x, x \in ToSet(queue) \/ x = op PROVE x \in ToSet(more)
  <2>1. CASE x \in ToSet(queue)
    <3>1. PICK i \in 1 .. Len(queue) : x = queue[i]
      BY <1>2, <2>1 DEF ToSet
    <3>2. i \in DOMAIN more /\ x = more[i]
      BY <1>1, <1>2, <3>1
    <3> QED BY <3>2 DEF ToSet
  <2>2. CASE x = op
    <3>1. Len(queue) + 1 \in DOMAIN more
      BY <1>2
    <3> QED BY <1>1, <2>2, <3>1 DEF ToSet
  <2> QED BY <1>4, <2>1, <2>2
<1> QED BY <1>1, <1>3, <1>4 DEF more

\* What waits is at the head of its queue, or behind it.
LEMMA TailOps ==
  ASSUME NEW queue \in Seq(Ops), queue # <<>>
  PROVE  \A x : x \in ToSet(queue) <=> x = Head(queue) \/ x \in ToSet(Tail(queue))
<1> DEFINE rest == Tail(queue)
<1>1. /\ rest \in Seq(Ops) /\ Len(rest) = Len(queue) - 1 /\ Len(queue) \in Nat \ {0}
      /\ \A i \in 1 .. Len(rest) : rest[i] = queue[i + 1]
      /\ Head(queue) = queue[1]
  BY EmptySeq
<1> HIDE DEF rest
<1>2. DOMAIN rest = 1 .. Len(queue) - 1 /\ DOMAIN queue = 1 .. Len(queue)
  BY <1>1
<1>3. ASSUME NEW x \in ToSet(queue) PROVE x = Head(queue) \/ x \in ToSet(rest)
  <2>1. PICK i \in 1 .. Len(queue) : x = queue[i]
    BY <1>2, <1>3 DEF ToSet
  <2>2. CASE i = 1
    BY <1>1, <2>1, <2>2
  <2>3. CASE i # 1
    <3>1. i - 1 \in DOMAIN rest /\ rest[i - 1] = x
      BY <1>1, <1>2, <2>1, <2>3
    <3> QED BY <3>1 DEF ToSet
  <2> QED BY <2>2, <2>3
<1>4. ASSUME NEW x \in ToSet(rest) PROVE x \in ToSet(queue)
  <2>1. PICK i \in 1 .. Len(queue) - 1 : x = rest[i]
    BY <1>2, <1>4 DEF ToSet
  <2>2. i + 1 \in DOMAIN queue /\ queue[i + 1] = x
    BY <1>1, <1>2, <2>1
  <2> QED BY <2>2 DEF ToSet
<1>5. Head(queue) \in ToSet(queue)
  <2>1. 1 \in DOMAIN queue
    BY <1>1, <1>2
  <2> QED BY <1>1, <2>1 DEF ToSet
<1> QED BY <1>3, <1>4, <1>5 DEF rest

\* Whatever waited in a queue waits in what it grew to.
LEMMA GrownWaits ==
  ASSUME NEW queue \in Seq(Ops), NEW longer, Grown(queue, longer)
  PROVE  \A x : x \in ToSet(queue) => x \in ToSet(longer)
<1> SUFFICES ASSUME NEW x \in ToSet(queue) PROVE x \in ToSet(longer)
  OBVIOUS
<1>1. PICK i \in 1 .. Len(queue) : x = queue[i]
  BY DEF ToSet
<1>2. longer \in Seq(Ops) /\ Len(queue) <= Len(longer) /\ longer[i] = queue[i]
  BY <1>1 DEF Grown
<1>3. i \in DOMAIN longer
  BY <1>1, <1>2
<1> QED BY <1>1, <1>2, <1>3 DEF ToSet

\* A session and its fuse: it holds the recording of its own start, and only then has a fuse.
Fit(of, fuse, at) ==
    /\ of \in {None} \cup TalkSessions /\ fuse \in {None} \cup Fuses
    /\ (fuse # None => of # None /\ of.rec # None)
    /\ (of # None /\ of.rec # None => of.rec = of.id /\ at[of.id] = "recording")

\* What push-to-talk started and the page holds is its session's, under the right fuse, or
\* its stop waits.
Minds(of, fuse, queue, held, made) ==
    \A s \in made :
        held = s =>
            \/ of # None /\ of.rec = s /\ fuse = FuseOf(of)
            \/ Stop(s) \in ToSet(queue)

\* What waits to stop is what is held.
Meant(queue, held, booted) ==
    \A r \in Recordings : Stop(r) \in ToSet(queue) => booted = "yes" /\ held \in {None, r}

TalkCore ==
    /\ RecorderInv /\ Fit(session, cap, phase) /\ pressed \subseteq Starts
    /\ Minds(session, cap, waiting, current, pressed) /\ Meant(waiting, current, boot)

\* The types no session is about.
TalkRest ==
    /\ pendingStart \in {None} \cup Starts /\ settling \cup locking \subseteq Starts
    /\ {locked, heldStop} \subseteq BOOLEAN /\ window \in {"none", "open", "past"}
    /\ disposal.at \in {"no", "start", "stop", "gone"}

LEMMA TalkParts == TalkInv <=> TalkCore /\ TalkRest
<1>1. TalkInv => TalkCore /\ TalkRest
  BY DEF TalkInv, TalkTypeOK, HoldsItsOwn, StopsAreMeant, NeverStuckOn, TalkCore, TalkRest,
         Fit, Minds, Meant, Fuses
<1>2. ASSUME TalkCore, TalkRest PROVE TalkInv
  <2>1. TalkTypeOK
    BY <1>2 DEF TalkTypeOK, TalkCore, TalkRest, RecorderInv, Fit, Fuses
  <2>2. HoldsItsOwn /\ StopsAreMeant /\ NeverStuckOn
    BY <1>2 DEF TalkCore, HoldsItsOwn, StopsAreMeant, NeverStuckOn, Fit, Minds, Meant
  <2> QED BY <1>2, <2>1, <2>2 DEF TalkInv, TalkCore
<1> QED BY <1>1, <1>2

\* A session is never mistaken for none, and what may change of it.
LEMMA TalkSessionsAre ==
  ASSUME NEW of \in TalkSessions
  PROVE  /\ of # None /\ of.id \in Starts /\ of.rec \in {None} \cup Starts
         /\ of.lockedOpen \in BOOLEAN /\ of.stopRequested \in BOOLEAN
         /\ FuseOf(of) \in Fuses
         /\ [of EXCEPT !.stopRequested = TRUE] \in TalkSessions
         /\ [of EXCEPT !.lockedOpen = TRUE] \in TalkSessions
         /\ \A s \in Starts : [of EXCEPT !.rec = s] \in TalkSessions
<1>1. of \in [id : Nat, rec : {None} \cup Nat, stopRequested : BOOLEAN, lockedOpen : BOOLEAN]
  BY StartsAre DEF TalkSessions
<1>2. of # None
  BY <1>1, SessionAssumption
<1>3. FuseOf(of) \in Fuses
  BY DEF FuseOf, Fuses
<1> QED BY <1>2, <1>3 DEF TalkSessions

LEMMA NewSession ==
  ASSUME NEW s \in Starts
  PROVE  Session(s) \in TalkSessions /\ Session(s).rec = None /\ Session(s).id = s
  BY DEF Session, TalkSessions

\* The state inside a call: push-to-talk's variables and the queue it leaves.
Inside(now) ==
    /\ now = [session |-> now.session, cap |-> now.cap, queue |-> now.queue]
    /\ Fit(now.session, now.cap, phase)
    /\ Minds(now.session, now.cap, now.queue, current, pressed)
    /\ Meant(now.queue, current, boot) /\ Grown(waiting, now.queue)

LEMMA InsideNow == ASSUME TalkCore PROVE Inside(Now)
<1>1. Now = [session |-> session, cap |-> cap, queue |-> waiting]
  BY DEF Now
<1>2. Grown(waiting, waiting)
  BY RecorderTypes, GrownNot DEF TalkCore
<1> QED BY <1>1, <1>2 DEF Inside, TalkCore

\* A lock puts the session that holds a recording under the other fuse.
LEMMA LockOpenFits ==
  ASSUME NEW at, NEW now, Fit(now.session, now.cap, at),
         now = [session |-> now.session, cap |-> now.cap, queue |-> now.queue]
  PROVE  LET after == LockOpen(now)
         IN  /\ after = [session |-> after.session, cap |-> after.cap, queue |-> after.queue]
             /\ after.queue = now.queue /\ Fit(after.session, after.cap, at)
             /\ \A queue, held : \A made \in SUBSET Starts :
                   Minds(now.session, now.cap, queue, held, made)
                   => Minds(after.session, after.cap, queue, held, made)
<1> DEFINE lock == LockOpen(now)
<1>1. CASE now.session = None
  BY <1>1 DEF LockOpen
<1>2. CASE now.session # None
  <2> DEFINE of == now.session
             wide == [of EXCEPT !.lockedOpen = TRUE]
  <2>1. of \in TalkSessions
    BY <1>2 DEF Fit
  <2>2. /\ wide \in TalkSessions /\ wide # None /\ wide.rec = of.rec /\ wide.id = of.id
        /\ wide.lockedOpen /\ FuseOf(wide) = "locked"
    BY <2>1, TalkSessionsAre DEF TalkSessions, FuseOf
  <2>3. lock = [session |-> wide, cap |-> IF of.rec = None THEN now.cap ELSE "locked",
                queue |-> now.queue]
    BY <1>2 DEF LockOpen
  <2>4. lock.session = wide /\ lock.queue = now.queue
        /\ lock.cap = IF of.rec = None THEN now.cap ELSE "locked"
    BY <2>3
  <2> HIDE DEF lock, wide
  <2>5. Fit(lock.session, lock.cap, at)
    <3>1. /\ now.cap \in {None} \cup Fuses /\ (now.cap # None => of.rec # None)
          /\ (of.rec # None => of.rec = of.id /\ at[of.id] = "recording")
      BY <1>2 DEF Fit
    <3>2. "locked" \in Fuses
      BY DEF Fuses
    <3> HIDE DEF of
    <3>3. /\ lock.cap \in {None} \cup Fuses
          /\ (lock.cap # None => lock.session.rec # None)
      BY <2>2, <2>4, <3>1, <3>2
    <3>4. /\ lock.session \in {None} \cup TalkSessions /\ lock.session # None
          /\ (lock.session.rec # None =>
                 lock.session.rec = lock.session.id /\ at[lock.session.id] = "recording")
      BY <2>2, <2>4, <3>1
    <3> QED BY <3>3, <3>4 DEF Fit
  <2>6. ASSUME NEW queue, NEW held, NEW made \in SUBSET Starts,
               Minds(now.session, now.cap, queue, held, made)
        PROVE  Minds(lock.session, lock.cap, queue, held, made)
    <3> SUFFICES ASSUME NEW s \in made, held = s, Stop(s) \notin ToSet(queue)
                 PROVE  lock.session # None /\ lock.session.rec = s
                        /\ lock.cap = FuseOf(lock.session)
      BY DEF Minds
    <3>1. of # None /\ of.rec = s /\ now.cap = FuseOf(of)
      BY <2>6 DEF Minds
    <3>2. of.rec # None
      BY <3>1, StartsAre
    <3> QED BY <2>2, <2>4, <3>1, <3>2
  <2>7. lock = [session |-> lock.session, cap |-> lock.cap, queue |-> lock.queue]
    BY <2>3, <2>4
  <2> QED BY <2>4, <2>5, <2>6, <2>7 DEF lock
<1> QED BY <1>1, <1>2

\* The record of a call whose session is cleared.
LEMMA ClearedIs ==
  ASSUME NEW now
  PROVE  /\ Cleared(now) = [session |-> None, cap |-> None, queue |-> now.queue]
         /\ Cleared(now).session = None /\ Cleared(now).cap = None
         /\ Cleared(now).queue = now.queue
  BY DEF Cleared

LEMMA ClearedFits == ASSUME NEW at PROVE Fit(None, None, at)
  BY DEF Fit

\* A session that does not hold what the page holds may go.
LEMMA ClearedInside ==
  ASSUME TalkCore, NEW now, Inside(now),
         current = None \/ now.session = None \/ now.session.rec # current
  PROVE  Inside(Cleared(now))
<1>1. /\ Cleared(now) = [session |-> None, cap |-> None, queue |-> now.queue]
      /\ Cleared(now).session = None /\ Cleared(now).cap = None
      /\ Cleared(now).queue = now.queue
  BY ClearedIs DEF Inside
<1>2. \A s \in pressed : current = s => Stop(s) \in ToSet(now.queue)
  <2> SUFFICES ASSUME NEW s \in pressed, current = s PROVE Stop(s) \in ToSet(now.queue)
    OBVIOUS
  <2>1. s # None
    BY StartsAre DEF TalkCore
  <2> QED BY <2>1 DEF Inside, Minds
<1> HIDE DEF Inside
<1>3. Minds(None, None, now.queue, current, pressed)
  BY <1>2 DEF Minds
<1>4. Meant(now.queue, current, boot) /\ Grown(waiting, now.queue)
  BY DEF Inside
<1> QED BY <1>1, <1>3, <1>4, ClearedFits DEF Inside

\* The recording of a session that ends is stopped, by its name.
LEMMA EndedInside ==
  ASSUME TalkCore, NEW now, Inside(now), now.session # None
  PROVE  Inside(Ended(now))
<1> DEFINE r == now.session.rec
           c == Cleared(now)
<1>1. c = [session |-> None, cap |-> None, queue |-> now.queue]
  BY ClearedIs DEF Inside
<1>2. CASE ~(r # None /\ current = r)
  <2>1. Ended(now) = Cleared(now)
    BY <1>2 DEF Ended, StopById
  <2>2. current = None \/ now.session.rec # current
    BY <1>2
  <2> QED BY <2>1, <2>2, ClearedInside
<1>3. CASE r # None /\ current = r
  <2> DEFINE longer == Append(now.queue, Stop(r))
             after == [session |-> None, cap |-> None, queue |-> longer]
  <2>1. Ended(now) = after
    <3>1. Ended(now) = [c EXCEPT !.queue = Append(@, Stop(r))]
      BY <1>3 DEF Ended, StopById
    <3> HIDE DEF c, r
    <3>2. [c EXCEPT !.queue = Append(@, Stop(r))]
            = [session |-> None, cap |-> None, queue |-> Append(now.queue, Stop(r))]
      BY <1>1
    <3> QED BY <3>1, <3>2
  <2>2. r \in Recordings /\ boot = "yes"
    BY <1>3 DEF TalkCore, RecorderInv, RecorderTypeOK, BootedFirst
  <2>3. /\ waiting \in Seq(Ops) /\ Grown(waiting, now.queue) /\ now.queue \in Seq(Ops)
        /\ Stop(r) \in Ops /\ Stop(r).op # "start" /\ Stop(r).of = r
    BY <2>2, OpFields, RecorderTypes DEF TalkCore, Inside, Grown
  <2>4. Grown(waiting, longer)
    BY <2>3, GrownBy
  <2>5. \A x : x \in ToSet(longer) <=> x \in ToSet(now.queue) \/ x = Stop(r)
    BY <2>3, AppendedOps
  <2> HIDE DEF longer
  <2>6. Meant(longer, current, boot)
    <3> SUFFICES ASSUME NEW q \in Recordings, Stop(q) \in ToSet(longer)
                 PROVE  boot = "yes" /\ current \in {None, q}
      BY DEF Meant
    <3>1. CASE Stop(q) \in ToSet(now.queue)
      BY <3>1 DEF Inside, Meant
    <3>2. CASE Stop(q) = Stop(r)
      <4>1. q = r
        BY <2>2, <3>2, OpFields
      <4> QED BY <1>3, <2>2, <4>1
    <3> QED BY <2>5, <3>1, <3>2
  <2>7. Minds(None, None, longer, current, pressed)
    BY <1>3, <2>5 DEF Minds
  <2>8. after.session = None /\ after.cap = None /\ after.queue = longer
    OBVIOUS
  <2> QED BY <2>1, <2>4, <2>6, <2>7, <2>8, ClearedFits DEF Inside
<1> QED BY <1>2, <1>3

\* stop() of push-to-talk, whatever it finds.
LEMMA ReleasedInside ==
  ASSUME TalkCore, NEW now, Inside(now)
  PROVE  Inside(Released(now))
<1>1. CASE now.session = None
  BY <1>1 DEF Released
<1>2. CASE now.session # None /\ current # None
  BY <1>2, EndedInside DEF Released
<1>3. CASE now.session # None /\ current = None /\ ~starting
  BY <1>3, ClearedInside DEF Released
<1>4. CASE now.session # None /\ current = None /\ starting
  <2> DEFINE of == now.session
             asked == [of EXCEPT !.stopRequested = TRUE]
             after == [session |-> asked, cap |-> now.cap, queue |-> now.queue]
  <2>1. of \in TalkSessions
    BY <1>4 DEF Inside, Fit
  <2>2. /\ asked \in TalkSessions /\ asked # None /\ asked.rec = of.rec /\ asked.id = of.id
        /\ FuseOf(asked) = FuseOf(of)
    BY <2>1, TalkSessionsAre DEF TalkSessions, FuseOf
  <2>3. Released(now) = after
    <3>1. now = [session |-> now.session, cap |-> now.cap, queue |-> now.queue]
      BY DEF Inside
    <3> QED BY <1>4, <3>1 DEF Released
  <2> HIDE DEF asked
  <2>4. after.session = asked /\ after.cap = now.cap /\ after.queue = now.queue
    OBVIOUS
  <2>5. Fit(asked, now.cap, phase)
    BY <1>4, <2>2 DEF Inside, Fit
  <2>6. Minds(asked, now.cap, now.queue, current, pressed)
    BY <2>2 DEF Inside, Minds
  <2>7. Meant(now.queue, current, boot) /\ Grown(waiting, now.queue)
    BY DEF Inside
  <2> QED BY <2>3, <2>4, <2>5, <2>6, <2>7 DEF Inside
<1> QED BY <1>1, <1>2, <1>3, <1>4

LEMMA LockInside ==
  ASSUME TalkCore, NEW now, Inside(now)
  PROVE  Inside(LockOpen(now))
<1>1. Fit(now.session, now.cap, phase)
      /\ now = [session |-> now.session, cap |-> now.cap, queue |-> now.queue]
  BY DEF Inside
<1>2. pressed \in SUBSET Starts
  BY DEF TalkCore
<1> DEFINE after == LockOpen(now)
<1>3. /\ after = [session |-> after.session, cap |-> after.cap, queue |-> after.queue]
      /\ after.queue = now.queue /\ Fit(after.session, after.cap, phase)
      /\ \A queue, held : \A made \in SUBSET Starts :
           Minds(now.session, now.cap, queue, held, made)
           => Minds(after.session, after.cap, queue, held, made)
  BY <1>1, LockOpenFits
<1> HIDE DEF after
<1>4. Minds(after.session, after.cap, after.queue, current, pressed)
  BY <1>2, <1>3 DEF Inside
<1> QED BY <1>3, <1>4 DEF Inside, after

\* What a call leaves is the state after it.
LEMMA AskedKeeps ==
  ASSUME TalkCore, NEW now, Inside(now), Asked(now), UNCHANGED pressed
  PROVE  TalkCore'
<1>1. Grown(waiting, now.queue) /\ SameWaiters(now.queue) /\ (waiting # <<>> => now.queue # <<>>)
  BY GrownSame DEF Inside, TalkCore
<1>2. /\ waiting' = now.queue /\ boot' \in {"no", "asking", "yes"}
      /\ (boot' = "yes" <=> boot = "yes") /\ (boot' = "no" => now.queue = <<>>)
  BY <1>1, AwaitBoots DEF Asked, TalkCore
<1>3. /\ UNCHANGED <<current, starting, phase, ending, open, started>>
      /\ session' = now.session /\ cap' = now.cap
  BY DEF Asked, Became
<1>4. RecorderInv'
  BY <1>1, <1>2, <1>3, OnlyQueue DEF TalkCore
<1>5. Fit(session, cap, phase)'
  BY <1>3 DEF Inside, Fit
<1>6. Minds(session, cap, waiting, current, pressed)'
  BY <1>2, <1>3 DEF Inside, Minds
<1>7. Meant(waiting, current, boot)'
  BY <1>2, <1>3 DEF Inside, Meant
<1> QED BY <1>4, <1>5, <1>6, <1>7 DEF TalkCore

\* What a step of the recorder leaves of what push-to-talk relies on.
Carries ==
    /\ \A t \in Starts : phase[t] = "recording" => phase'[t] = "recording"
    /\ current' \in Starts =>
          /\ current' = current
          /\ \A r \in Recordings : Stop(r) \in ToSet(waiting) => Stop(r) \in ToSet(waiting')
    /\ Meant(waiting, current, boot)'

\* A session and a fuse that fit stay so, whatever the recorder does.
LEMMA CarriedOn ==
  ASSUME TalkCore, Carries, NEW of, NEW fuse, Fit(of, fuse, phase),
         Minds(of, fuse, waiting, current, pressed)
  PROVE  Fit(of, fuse, phase') /\ Minds(of, fuse, waiting', current', pressed)
<1>1. Fit(of, fuse, phase')
  BY TalkSessionsAre DEF Carries, Fit
<1>2. ASSUME NEW s \in pressed, current' = s
      PROVE  \/ of # None /\ of.rec = s /\ fuse = FuseOf(of)
             \/ Stop(s) \in ToSet(waiting')
  <2>1. s \in Starts /\ s \in Recordings /\ current = s
    BY <1>2, StartsAre DEF TalkCore, Carries
  <2> QED BY <1>2, <2>1 DEF Carries, Minds
<1> QED BY <1>1, <1>2 DEF Minds

LEMMA CarriesCore ==
  ASSUME TalkCore, RecorderInv', Carries, UNCHANGED <<session, cap, pressed>>
  PROVE  TalkCore'
<1>1. Fit(session, cap, phase') /\ Minds(session, cap, waiting', current', pressed)
  BY CarriedOn DEF TalkCore
<1> QED BY <1>1 DEF TalkCore, Carries, Fit, Minds

\* A start that is called, or past its gate, leaves what is held and what waits to stop.
LEMMA StartMoves ==
  ASSUME RecorderInv, NEW s \in Starts, NEW queue, Grown(waiting, queue),
         Request(s, queue) \/ (Await(queue) /\ UNCHANGED current
                               /\ \E to \in Phases : phase' = [phase EXCEPT ![s] = to])
  PROVE  /\ current' = current /\ (boot' = "yes" <=> boot = "yes")
         /\ \A t \in Starts \ {s} : phase'[t] = phase[t]
         /\ \A r \in Recordings : Stop(r) \in ToSet(waiting') <=> Stop(r) \in ToSet(queue)
<1>1. queue \in Seq(Ops) /\ Start(s) \in Ops /\ phase \in [Starts -> Phases]
      /\ (waiting # <<>> => queue # <<>>)
  BY GrownSame, OpFields, RecorderTypes DEF Grown
<1>2. current' = current /\ \A t \in Starts \ {s} : phase'[t] = phase[t]
  BY <1>1 DEF Request
<1>3. PICK longer \in {queue, Append(queue, Start(s))} : Await(longer)
  BY DEF Request
<1>4. longer \in Seq(Ops) /\ (waiting # <<>> => longer # <<>>)
      /\ \A r \in Recordings : Stop(r) \in ToSet(longer) <=> Stop(r) \in ToSet(queue)
  <2>1. CASE longer = queue
    BY <1>1, <2>1
  <2>2. CASE longer = Append(queue, Start(s))
    <3>1. longer \in Seq(Ops) /\ \A x : x \in ToSet(longer) <=> x \in ToSet(queue) \/ x = Start(s)
      BY <1>1, <2>2, AppendedOps
    <3>2. longer # <<>>
      BY <1>1, <2>2
    <3> QED BY <3>1, <3>2, OpsDiffer
  <2> QED BY <1>3, <2>1, <2>2
<1>5. waiting' = longer /\ (boot' = "yes" <=> boot = "yes")
  BY <1>3, <1>4, AwaitBoots
<1> QED BY <1>2, <1>4, <1>5

LEMMA CalledMoves ==
  ASSUME RecorderInv, NEW s, NEW queue, Grown(waiting, queue), Called(s, queue)
  PROVE  /\ current' = current /\ (boot' = "yes" <=> boot = "yes")
         /\ \A t \in Starts \ {s} : phase'[t] = phase[t]
         /\ \A r \in Recordings : Stop(r) \in ToSet(waiting') <=> Stop(r) \in ToSet(queue)
<1>1. s \in Starts
  BY DEF Called
<1>2. Request(s, queue) \/ (Await(queue) /\ UNCHANGED current
                            /\ \E to \in Phases : phase' = [phase EXCEPT ![s] = to])
  BY DEF Called, Phases
<1> QED BY <1>1, <1>2, StartMoves

\* A press or a tap: the session goes on, or a new start is made.
LEMMA StartAfterKeeps ==
  ASSUME TalkCore, NEW before, Inside(before), NEW lock \in BOOLEAN, NEW late,
         StartAfter(before, lock, late)
  PROVE  TalkCore'
<1> DEFINE now == IF IsStale(before) THEN Cleared(before) ELSE before
           s == started + 1
<1>1. Inside(now)
  BY ClearedInside DEF IsStale
<1>2. CASE now.session # None
  <2>1. Asked(IF lock THEN LockOpen(now) ELSE now) /\ UNCHANGED pressed
    BY <1>2 DEF StartAfter, NoStart
  <2>2. Inside(IF lock THEN LockOpen(now) ELSE now)
    BY <1>1, LockInside
  <2> HIDE DEF now
  <2> QED BY <2>1, <2>2, AskedKeeps
<1>3. CASE now.session = None
  <2>1. /\ Called(s, now.queue) /\ pressed' = pressed \cup {s}
        /\ \/ session' = now.session /\ cap' = now.cap
           \/ session' = Session(s) /\ cap' = None
    BY <1>3 DEF StartAfter, Became
  <2>2. Grown(waiting, now.queue) /\ now.cap = None
        /\ Meant(now.queue, current, boot)
    BY <1>1, <1>3 DEF Inside, Fit
  <2>3. \A t \in pressed : current = t => Stop(t) \in ToSet(now.queue)
    BY <1>1, <1>3 DEF Inside, Minds
  <2> HIDE DEF now, s
  <2>4. RecorderInv /\ pressed \subseteq Starts
    BY DEF TalkCore
  <2>5. RecorderInv' /\ s \in Starts /\ phase[s] = "none"
    BY <2>1, <2>2, <2>4, CalledKeeps
  <2>6. /\ current' = current /\ (boot' = "yes" <=> boot = "yes")
        /\ \A r \in Recordings : Stop(r) \in ToSet(waiting') <=> Stop(r) \in ToSet(now.queue)
    BY <2>1, <2>2, <2>4, CalledMoves
  <2>7. Fit(session, cap, phase)'
    <3>1. /\ session' \in {None} \cup TalkSessions /\ cap' = None
          /\ session' = None \/ session'.rec = None
      BY <1>3, <2>1, <2>2, <2>5, NewSession
    <3> QED BY <3>1 DEF Fit
  <2>8. current # s
    BY <2>4, <2>5 DEF RecorderInv, HeldOnce
  <2>9. Minds(session, cap, waiting, current, pressed)'
    <3> SUFFICES ASSUME NEW t \in pressed', current' = t PROVE Stop(t) \in ToSet(waiting')
      BY DEF Minds
    <3>1. t \in pressed /\ t \in Recordings
      BY <2>1, <2>4, <2>6, <2>8, StartsAre
    <3> QED BY <2>3, <2>6, <3>1
  <2>10. Meant(waiting, current, boot)'
    BY <2>2, <2>6 DEF Meant
  <2> QED BY <2>1, <2>4, <2>5, <2>7, <2>9, <2>10 DEF TalkCore
<1> QED BY <1>2, <1>3

\* The page stays as it is.
LEMMA TalkStays ==
  ASSUME TalkCore, UNCHANGED <<recorder, session, cap, pressed>>
  PROVE  TalkCore'
<1>1. UNCHANGED <<current, starting, boot, waiting, phase, ending, open, started>>
  BY DEF recorder
<1>2. RecorderInv'
  BY <1>1, RecorderStays DEF TalkCore
<1> QED BY <1>1, <1>2 DEF TalkCore, Fit, Minds, Meant

LEMMA GatedCarries ==
  ASSUME TalkCore, NEW s \in Starts, Gated(s)
  PROVE  RecorderInv' /\ Carries
<1>1. RecorderInv /\ Grown(waiting, waiting) /\ Meant(waiting, current, boot)
      /\ phase \in [Starts -> Phases]
  BY RecorderTypes, GrownNot DEF TalkCore
<1>2. RecorderInv'
  BY <1>1, GateKeeps DEF Gated
<1>3. /\ current' = current /\ (boot' = "yes" <=> boot = "yes") /\ phase[s] = "gate"
      /\ \A t \in Starts \ {s} : phase'[t] = phase[t]
      /\ \A r \in Recordings : Stop(r) \in ToSet(waiting') <=> Stop(r) \in ToSet(waiting)
  <2>1. CASE GatePasses(s, waiting)
    BY <1>1, <2>1, StartMoves DEF GatePasses
  <2>2. CASE GateRefuses(s)
    BY <1>1, <2>2 DEF GateRefuses
  <2> QED BY <2>1, <2>2 DEF Gated
<1>4. Meant(waiting, current, boot)'
  BY <1>1, <1>3 DEF Meant
<1> QED BY <1>2, <1>3, <1>4 DEF Carries

LEMMA ToggleCarries ==
  ASSUME TalkCore, NEW s \in Starts, ToggleStarts(s)
  PROVE  RecorderInv' /\ Carries
<1>1. RecorderInv /\ Grown(waiting, waiting) /\ Meant(waiting, current, boot)
  BY RecorderTypes, GrownNot DEF TalkCore
<1>2. Called(s, waiting)
  BY DEF ToggleStarts
<1>3. RecorderInv' /\ phase[s] = "none"
  BY <1>1, <1>2, CalledKeeps
<1>4. /\ current' = current /\ (boot' = "yes" <=> boot = "yes")
      /\ \A t \in Starts \ {s} : phase'[t] = phase[t]
      /\ \A r \in Recordings : Stop(r) \in ToSet(waiting') <=> Stop(r) \in ToSet(waiting)
  BY <1>1, <1>2, CalledMoves
<1>5. Meant(waiting, current, boot)'
  BY <1>1, <1>4 DEF Meant
<1> QED BY <1>3, <1>4, <1>5 DEF Carries

\* A step that moves neither the queue nor what is held.
LEMMA StillCarries ==
  ASSUME TalkCore, UNCHANGED <<current, boot, waiting>>,
         \A t \in Starts : phase[t] = "recording" => phase'[t] = "recording"
  PROVE  Carries
  BY DEF TalkCore, Carries, Meant

LEMMA HostCarries ==
  ASSUME TalkCore,
         (\E s \in Starts : HostRefuses(s)) \/ (\E r \in Recordings : Host(r))
  PROVE  RecorderInv' /\ Carries
<1>1. RecorderInv /\ phase \in [Starts -> Phases]
  BY RecorderTypes DEF TalkCore
<1>2. ASSUME NEW s \in Starts, HostRefuses(s) PROVE RecorderInv' /\ Carries
  <2>1. RecorderInv'
    BY <1>1, <1>2, HostRefusesKeeps
  <2>2. /\ UNCHANGED <<current, boot, waiting>> /\ phase[s] = "opening"
        /\ \A t \in Starts \ {s} : phase'[t] = phase[t]
    BY <1>1, <1>2 DEF HostRefuses, Fails
  <2> QED BY <2>1, <2>2, StillCarries
<1>3. ASSUME NEW r \in Recordings, Host(r) PROVE RecorderInv' /\ Carries
  <2>1. RecorderInv'
    BY <1>1, <1>3, HostKeeps
  <2>2. UNCHANGED <<current, boot, waiting, phase>>
    BY <1>3 DEF Host, HostTakes, Stopped, StopFailed, Cancelled, Answered
  <2> QED BY <2>1, <2>2, StillCarries
<1> QED BY <1>2, <1>3

\* Until the host has answered nothing is held, and nothing waits to stop.
LEMMA BootCarries ==
  ASSUME TalkCore, BootAnswers \/ BootFails
  PROVE  RecorderInv' /\ Carries
<1>1. /\ RecorderInv /\ phase \in [Starts -> Phases] /\ boot = "asking" /\ current = None
      /\ \A t \in Starts : phase[t] # "recording"
      /\ \A r \in Recordings : Stop(r) \notin ToSet(waiting)
  <2>1. boot = "asking" /\ RecorderInv
    BY DEF BootAnswers, BootFails, TalkCore
  <2> QED BY <2>1, RecorderTypes DEF TalkCore, RecorderInv, BootedFirst, Meant
<1>2. RecorderInv'
  BY <1>1, BootAnswersKeeps, BootFailsKeeps
<1>3. current' \notin Starts
  <2>1. current' \in {None, 0}
    BY <1>1 DEF BootAnswers, BootFails, Fails
  <2> QED BY <2>1, StartsAre
<1>4. \A r \in Recordings : Stop(r) \notin ToSet(waiting')
  <2>1. waiting' = waiting \/ waiting' = <<>>
    BY DEF BootAnswers, BootFails
  <2> QED BY <1>1, <2>1, OpsWait
<1> QED BY <1>1, <1>2, <1>3, <1>4 DEF Carries, Meant

\* What is resumed leaves the queue; a stop and a cancel leave nothing held.
LEMMA ResumeCarries ==
  ASSUME TalkCore, Resume
  PROVE  RecorderInv' /\ Carries
<1>1. RecorderInv /\ phase \in [Starts -> Phases] /\ waiting \in Seq(Ops)
      /\ Meant(waiting, current, boot)
  BY RecorderTypes DEF TalkCore
<1>2. RecorderInv'
  BY <1>1, ResumeStartKeeps, ResumeEndKeeps DEF Resume
<1>3. PICK op \in {"start", "stop", "cancel"} : Resuming(op) /\ Resumed
  BY DEF Resume, ResumeStart, ResumeStop, ResumeCancel
<1>4. /\ boot = "yes" /\ boot' = "yes" /\ waiting' = Tail(waiting) /\ waiting # <<>>
      /\ Head(waiting).op = op
      /\ op = "start" => /\ Head(waiting).of \in Starts
                         /\ phase[Head(waiting).of] = "waiting"
  BY <1>1, <1>3, ResumedQueue
<1>5. \A x : x \in ToSet(waiting) <=> x = Head(waiting) \/ x \in ToSet(waiting')
  BY <1>1, <1>4, TailOps
<1>6. CASE ResumeStart
  <2>1. op = "start" /\ current' = current
    BY <1>4, <1>6 DEF ResumeStart, Resuming, Fails
  <2>2. \A t \in Starts : phase[t] = "recording" => phase'[t] = "recording"
    BY <1>1, <1>4, <1>6, <2>1 DEF ResumeStart, Fails
  <2>3. \A r \in Recordings : Stop(r) \in ToSet(waiting) <=> Stop(r) \in ToSet(waiting')
    BY <1>4, <1>5, <2>1, OpFields
  <2>4. Meant(waiting, current, boot)'
    BY <1>1, <1>4, <2>1, <2>3 DEF Meant
  <2> QED BY <1>2, <2>1, <2>2, <2>3, <2>4 DEF Carries
<1>7. CASE ResumeStop \/ ResumeCancel
  <2>1. current' = None /\ UNCHANGED phase
    BY <1>7 DEF ResumeStop, ResumeCancel, Release
  <2>2. Meant(waiting, current, boot)'
    BY <1>4, <2>1 DEF Meant
  <2>3. None \notin Starts
    BY StartsAre
  <2> QED BY <1>2, <2>1, <2>2, <2>3 DEF Carries
<1> QED BY <1>6, <1>7 DEF Resume

\* Somebody else asks for a stop of what is held, or for a cancel.
LEMMA AskCarries ==
  ASSUME TalkCore, AskStop \/ AskCancel
  PROVE  RecorderInv' /\ Carries
<1>1. /\ RecorderInv /\ waiting \in Seq(Ops) /\ Meant(waiting, current, boot)
      /\ current \in {None} \cup Recordings
  BY RecorderTypes DEF TalkCore
<1>2. PICK op \in Ops : /\ Ask(op) /\ op.op # "start"
                        /\ op = Cancel \/ (op = Stop(current) /\ current # None)
  BY <1>1, OpFields DEF AskStop, AskCancel
<1>3. RecorderInv' /\ waiting' = Append(waiting, op)
  BY <1>1, <1>2, AskKeeps
<1>4. /\ UNCHANGED <<current, phase>> /\ (boot = "yes" => boot' = "yes")
  BY <1>2 DEF Ask, Await
<1>5. \A x : x \in ToSet(waiting') <=> x \in ToSet(waiting) \/ x = op
  BY <1>1, <1>3, AppendedOps
<1>6. Meant(waiting, current, boot)'
  <2> SUFFICES ASSUME NEW r \in Recordings, Stop(r) \in ToSet(waiting')
               PROVE  boot' = "yes" /\ current' \in {None, r}
    BY DEF Meant
  <2>1. CASE Stop(r) \in ToSet(waiting)
    BY <1>1, <1>4, <2>1 DEF Meant
  <2>2. CASE Stop(r) = op
    <3>1. op # Cancel
      BY <2>2, OpsDiffer
    <3>2. current # None /\ Stop(r) = Stop(current) /\ current \in Recordings
      BY <1>1, <1>2, <2>2, <3>1
    <3>3. r = current
      BY <3>2, OpFields
    <3>4. boot = "yes"
      BY <1>1, <3>2 DEF RecorderInv, BootedFirst
    <3> QED BY <1>4, <3>3, <3>4
  <2> QED BY <1>5, <2>1, <2>2
<1> QED BY <1>3, <1>4, <1>5, <1>6 DEF Carries

\* What onPressed does when a start resolves: a session that was locked meanwhile goes
\* under the other fuse.
LEMMA ResolvedFits ==
  ASSUME NEW now, now = [session |-> now.session, cap |-> now.cap, queue |-> now.queue],
         NEW at, NEW queue, NEW held, NEW made \in SUBSET Starts, NEW s,
         Fit(now.session, now.cap, at), Minds(now.session, now.cap, queue, held, made),
         Resolved(now, s)
  PROVE  Fit(session', cap', at) /\ Minds(session', cap', queue, held, made)
<1>1. CASE s \in locking
  <2>1. session' = LockOpen(now).session /\ cap' = LockOpen(now).cap
    BY <1>1 DEF Resolved
  <2>2. /\ Fit(LockOpen(now).session, LockOpen(now).cap, at)
        /\ Minds(LockOpen(now).session, LockOpen(now).cap, queue, held, made)
    BY LockOpenFits
  <2> QED BY <2>1, <2>2
<1>2. CASE s \notin locking
  BY <1>2 DEF Resolved
<1> QED BY <1>1, <1>2

\* A start that failed takes its session with it, and that session held nothing.
LEMMA FollowsKeeps ==
  ASSUME TalkCore, RecorderInv', Carries, Follows, UNCHANGED pressed
  PROVE  TalkCore'
<1> DEFINE failed == {s \in pressed : phase'[s] # phase[s]
                                        /\ phase'[s] \in {"withheld", "refused", "failed"}}
<1>1. CASE failed = {}
  <2>1. UNCHANGED <<session, cap>>
    BY <1>1 DEF Follows, talk
  <2> QED BY <2>1, CarriesCore
<1>2. CASE failed # {}
  <2>1. PICK s \in failed : Resolved(NotOpened(Now, s), s)
    BY <1>2 DEF Follows
  <2>2. s \in Starts /\ phase'[s] # "recording" /\ pressed \in SUBSET Starts
    BY DEF TalkCore
  <2> HIDE DEF failed
  <2>3. Fit(session, cap, phase') /\ Minds(session, cap, waiting', current', pressed)
    BY CarriedOn DEF TalkCore
  <2>4. Now = [session |-> session, cap |-> cap, queue |-> waiting]
    BY DEF Now
  <2>5. CASE IsMine(Now, s)
    <3>1. session # None /\ session.id = s
      BY <2>4, <2>5 DEF IsMine
    <3>2. session.rec = None
      BY <2>2, <2>3, <3>1 DEF Fit
    <3>3. Minds(None, None, waiting', current', pressed)
      <4> SUFFICES ASSUME NEW t \in pressed, current' = t PROVE Stop(t) \in ToSet(waiting')
        BY DEF Minds
      <4>1. t # None
        BY <2>2, StartsAre
      <4> QED BY <2>3, <3>2, <4>1 DEF Minds
    <3>4. NotOpened(Now, s) = [session |-> None, cap |-> None, queue |-> waiting]
      BY <2>4, <2>5 DEF NotOpened, Cleared
    <3> DEFINE now == NotOpened(Now, s)
    <3>5. /\ now = [session |-> now.session, cap |-> now.cap, queue |-> now.queue]
          /\ now.session = None /\ now.cap = None
      BY <3>4
    <3>6. Resolved(now, s)
      BY <2>1
    <3> HIDE DEF now
    <3>7. Fit(session', cap', phase') /\ Minds(session', cap', waiting', current', pressed)
      BY <2>2, <3>3, <3>5, <3>6, ClearedFits, ResolvedFits
    <3> QED BY <3>7 DEF TalkCore, Carries, Fit, Minds
  <2>6. CASE ~IsMine(Now, s)
    <3>1. Resolved(Now, s)
      BY <2>1, <2>6 DEF NotOpened
    <3>2. /\ Now = [session |-> Now.session, cap |-> Now.cap, queue |-> Now.queue]
          /\ Now.session = session /\ Now.cap = cap
      BY <2>4
    <3>3. Fit(session', cap', phase') /\ Minds(session', cap', waiting', current', pressed)
      BY <2>2, <2>3, <3>1, <3>2, ResolvedFits
    <3> QED BY <3>3 DEF TalkCore, Carries, Fit, Minds
  <2> QED BY <2>5, <2>6
<1> QED BY <1>1, <1>2

\* The host has opened what a start asked for: the session takes it under a fuse, or it is
\* stopped at once.
LEMMA OpensKeeps ==
  ASSUME TalkCore, NEW s \in Starts, Opens(s), UNCHANGED pressed
  PROVE  TalkCore'
<1> DEFINE now == Opened(Now, s)
           queue == IF s \in pressed THEN now.queue ELSE waiting
<1>1. /\ RecorderInv /\ phase \in [Starts -> Phases] /\ pressed \in SUBSET Starts
      /\ Fit(session, cap, phase)
  BY RecorderTypes DEF TalkCore
<1>2. HostOpens(s, queue) /\ Settled
  BY DEF Opens
<1>3. phase[s] = "opening" /\ boot = "yes" /\ waiting = <<>> /\ current' = s
  <2>1. phase[s] = "opening" /\ current' = s
    BY <1>2 DEF HostOpens
  <2>2. boot = "yes"
    BY <1>1, <2>1 DEF RecorderInv, BootedFirst
  <2> QED BY <1>2, <2>1, <2>2 DEF Settled
<1>4. Now = [session |-> session, cap |-> cap, queue |-> <<>>]
  BY <1>3 DEF Now
<1>5. /\ Stop(s) \in Ops /\ Stop(s).op # "start" /\ <<>> \in Seq(Ops)
      /\ \A r \in Recordings : Stop(r) = Stop(s) => r = s
      /\ Grown(<<>>, <<>>) /\ Grown(<<>>, Append(<<>>, Stop(s)))
  BY OpFields, StartsAre, EmptyQueue, GrownNot, GrownBy
<1>6. \A x : x \in ToSet(Append(<<>>, Stop(s))) <=> x = Stop(s)
  <2>1. \A x : x \notin ToSet(<<>>)
    BY OpsWait
  <2>2. \A x : x \in ToSet(Append(<<>>, Stop(s))) <=> x \in ToSet(<<>>) \/ x = Stop(s)
    BY <1>5, AppendedOps
  <2> QED BY <2>1, <2>2
\* The session and the fuse it leaves, and what waits.
<1>7. /\ queue \in {<<>>, Append(<<>>, Stop(s))}
      /\ s \in pressed /\ MustStop(Now, s) => queue = Append(<<>>, Stop(s))
      /\ s \in pressed /\ MustStop(Now, s) =>
            /\ now = [session |-> now.session, cap |-> now.cap, queue |-> now.queue]
            /\ \/ now.session = session /\ now.cap = cap
               \/ now.session = None /\ now.cap = None
  <2>1. CASE s \notin pressed
    BY <1>3, <2>1
  <2>2. CASE s \in pressed /\ ~IsMine(Now, s)
    <3>1. now = [session |-> session, cap |-> cap, queue |-> Append(<<>>, Stop(s))]
      BY <1>4, <2>2 DEF Opened, ThenStop
    <3> HIDE DEF now
    <3> QED BY <2>2, <3>1
  <2>3. CASE s \in pressed /\ IsMine(Now, s) /\ Now.session.stopRequested
    <3>1. Cleared(Now) = [session |-> None, cap |-> None, queue |-> <<>>]
      BY <1>4 DEF Cleared
    <3>2. now = [session |-> None, cap |-> None, queue |-> Append(<<>>, Stop(s))]
      BY <2>3, <3>1 DEF Opened, ThenStop
    <3> HIDE DEF now
    <3> QED BY <2>3, <3>2
  <2>4. CASE s \in pressed /\ IsMine(Now, s) /\ ~Now.session.stopRequested
    <3>1. now = [Now EXCEPT !.session.rec = s, !.cap = FuseOf(session)]
      BY <1>4, <2>4 DEF Opened
    <3>2. now.queue = <<>> /\ ~MustStop(Now, s)
      BY <1>4, <2>4, <3>1 DEF MustStop
    <3> HIDE DEF now
    <3> QED BY <2>4, <3>2
  <2> QED BY <2>1, <2>2, <2>3, <2>4
<1> HIDE DEF queue
<1>8. Grown(waiting, queue)
  BY <1>3, <1>5, <1>7
<1>9. RecorderInv'
  BY <1>1, <1>2, <1>8, HostOpensKeeps
<1>10. /\ waiting' = queue /\ boot' = "yes" /\ phase' = [phase EXCEPT ![s] = "recording"]
       /\ Meant(waiting, current, boot)'
  <2>1. waiting' = queue /\ boot' = "yes" /\ phase' = [phase EXCEPT ![s] = "recording"]
    BY <1>2, <1>3 DEF HostOpens, Await
  <2>2. \A r \in Recordings : Stop(r) \in ToSet(queue) => r = s
    BY <1>5, <1>6, <1>7, OpsWait
  <2> QED BY <1>3, <2>1, <2>2 DEF Meant
<1>11. phase'[s] = "recording" /\ Fit(session, cap, phase')
  <2>1. phase'[s] = "recording"
        /\ \A t \in Starts : phase[t] = "recording" => phase'[t] = "recording"
    BY <1>1, <1>10
  <2> QED BY <1>1, <2>1, TalkSessionsAre DEF Fit
<1>12. Fit(session', cap', phase') /\ Minds(session', cap', waiting', current', pressed)
  <2>1. CASE s \notin pressed
    <3>1. UNCHANGED <<session, cap>>
      BY <2>1 DEF Opens, talk
    <3> QED BY <1>3, <1>11, <2>1, <3>1 DEF Minds
  <2>2. CASE s \in pressed /\ MustStop(Now, s)
    <3>1. session' = now.session /\ cap' = now.cap
      BY <2>2 DEF Opens, Became
    <3>2. Fit(session', cap', phase')
      BY <1>7, <1>11, <2>2, <3>1, ClearedFits
    <3>3. Stop(s) \in ToSet(waiting')
      BY <1>6, <1>7, <1>10, <2>2
    <3> QED BY <1>3, <3>2, <3>3 DEF Minds
  <2>3. CASE s \in pressed /\ ~MustStop(Now, s)
    <3> DEFINE of == [session EXCEPT !.rec = s]
    <3>1. session \in TalkSessions /\ session # None /\ session.id = s
      BY <1>1, <1>4, <2>3 DEF MustStop, IsMine, Fit
    <3>2. /\ of \in TalkSessions /\ of # None /\ of.rec = s /\ of.id = s
          /\ FuseOf(of) = FuseOf(session) /\ FuseOf(of) \in Fuses
      <4>1. of \in TalkSessions
        BY <3>1, TalkSessionsAre
      <4>2. of.rec = s /\ of.id = s /\ of.lockedOpen = session.lockedOpen
        BY <3>1 DEF TalkSessions
      <4>3. FuseOf(of) = FuseOf(session)
        BY <4>2 DEF FuseOf
      <4> HIDE DEF of
      <4> QED BY <4>1, <4>2, <4>3, TalkSessionsAre
    <3>3. now = [session |-> of, cap |-> FuseOf(session), queue |-> <<>>]
      <4>1. now = [Now EXCEPT !.session.rec = s, !.cap = FuseOf(session)]
        BY <1>4, <2>3 DEF Opened, MustStop
      <4> QED BY <1>4, <3>1, <4>1
    <3>4. Resolved(now, s)
      BY <2>3 DEF Opens
    <3> HIDE DEF now, of
    <3>5. /\ now = [session |-> now.session, cap |-> now.cap, queue |-> now.queue]
          /\ now.session = of /\ now.cap = FuseOf(of)
      BY <3>2, <3>3
    <3>6. Fit(now.session, now.cap, phase')
      BY <1>11, <3>2, <3>5, StartsAre DEF Fit
    <3>7. Minds(now.session, now.cap, waiting', current', pressed)
      BY <1>3, <3>2, <3>5 DEF Minds
    <3> QED BY <1>1, <3>4, <3>5, <3>6, <3>7, ResolvedFits
  <2> QED BY <2>1, <2>2, <2>3
<1> QED BY <1>1, <1>9, <1>10, <1>12 DEF TalkCore, Fit, Minds

\* A stop that a start made itself is over.
LEMMA SettlesKeeps ==
  ASSUME TalkCore, NEW s \in Starts, Settles(s), UNCHANGED pressed
  PROVE  TalkCore'
<1>1. Resolved(Now, s) /\ UNCHANGED recorder
  BY DEF Settles
<1>2. /\ Now = [session |-> Now.session, cap |-> Now.cap, queue |-> Now.queue]
      /\ Now.session = session /\ Now.cap = cap
  BY DEF Now
<1>3. /\ Fit(session, cap, phase) /\ Minds(session, cap, waiting, current, pressed)
      /\ pressed \in SUBSET Starts
  BY DEF TalkCore
<1>4. Fit(session', cap', phase) /\ Minds(session', cap', waiting, current, pressed)
  BY <1>1, <1>2, <1>3, ResolvedFits
<1>5. UNCHANGED <<current, starting, boot, waiting, phase, ending, open, started>>
  BY <1>1 DEF recorder
<1>6. RecorderInv'
  BY <1>5, RecorderStays DEF TalkCore
<1> QED BY <1>4, <1>5, <1>6 DEF TalkCore, Fit, Minds, Meant

\* The steps of the recorder, and the elsewhere of the interface, with what they resolve.
LEMMA BackgroundKeeps ==
  ASSUME TalkCore, Background, UNCHANGED <<hands, seen>>
  PROVE  TalkCore'
<1>1. UNCHANGED pressed
  BY DEF seen
<1>2. ASSUME Follows, RecorderInv', Carries PROVE TalkCore'
  BY <1>1, <1>2, FollowsKeeps
<1>3. CASE Follows /\ (BootAnswers \/ BootFails)
  BY <1>2, <1>3, BootCarries
<1>4. CASE Follows /\ Resume
  BY <1>2, <1>4, ResumeCarries
<1>5. CASE Follows /\ \E s \in Starts : Gated(s)
  BY <1>2, <1>5, GatedCarries
<1>6. CASE Follows /\ \E s \in Starts : HostRefuses(s)
  BY <1>2, <1>6, HostCarries
<1>7. CASE Follows /\ \E r \in Recordings : Host(r)
  BY <1>2, <1>7, HostCarries
<1>8. CASE \E s \in Starts : Opens(s) \/ Settles(s)
  BY <1>1, <1>8, OpensKeeps, SettlesKeeps
<1> QED BY <1>3, <1>4, <1>5, <1>6, <1>7, <1>8 DEF Background

LEMMA ElsewhereKeeps ==
  ASSUME TalkCore, Elsewhere
  PROVE  TalkCore'
<1>1. UNCHANGED <<session, cap, pressed>>
  BY DEF Elsewhere, talk, seen
<1>2. RecorderInv' /\ Carries
  BY ToggleCarries, AskCarries DEF Elsewhere
<1> QED BY <1>1, <1>2, CarriesCore

\* A release: what the user lets go of, or the held stop's timer does.
LEMMA LetGoKeeps ==
  ASSUME TalkCore, Asked(Released(Now)), UNCHANGED pressed
  PROVE  TalkCore'
<1>1. Inside(Now)
  BY InsideNow
<1>2. Inside(Released(Now))
  BY <1>1, ReleasedInside
<1> QED BY <1>2, AskedKeeps

LEMMA DisposeKeeps ==
  ASSUME TalkCore, Dispose
  PROVE  TalkCore'
<1>1. UNCHANGED pressed
  BY DEF Dispose, seen
<1>2. CASE UNCHANGED <<recorder, talk>>
  BY <1>1, <1>2, TalkStays DEF talk
<1>3. CASE /\ session # None
           /\ session' = [session EXCEPT !.stopRequested = TRUE]
           /\ UNCHANGED <<recorder, cap>>
  <2> DEFINE asked == [session EXCEPT !.stopRequested = TRUE]
  <2>1. session \in TalkSessions
    BY <1>3 DEF TalkCore, Fit
  <2>2. asked \in TalkSessions
    BY <2>1, TalkSessionsAre
  <2>3. asked.rec = session.rec /\ asked.id = session.id /\ asked.lockedOpen = session.lockedOpen
    BY <2>1 DEF TalkSessions
  <2>4. FuseOf(asked) = FuseOf(session)
    BY <2>3 DEF FuseOf
  <2> HIDE DEF asked
  <2>5. asked # None
    BY <2>2, TalkSessionsAre
  <2>6. UNCHANGED <<current, starting, boot, waiting, phase, ending, open, started>>
    BY <1>3 DEF recorder
  <2>7. RecorderInv'
    BY <2>6, RecorderStays DEF TalkCore
  <2>8. session' = asked /\ cap' = cap
    BY <1>3 DEF asked
  <2>9. Fit(asked, cap, phase)
    BY <1>3, <2>2, <2>3, <2>5 DEF TalkCore, Fit
  <2>10. Minds(asked, cap, waiting, current, pressed)
    BY <2>3, <2>4, <2>5 DEF TalkCore, Minds
  <2> QED BY <1>1, <2>6, <2>7, <2>8, <2>9, <2>10 DEF TalkCore, Fit, Minds, Meant
<1>4. CASE session # None /\ Asked(Ended(Now))
  <2>1. Inside(Ended(Now))
    <3>1. Inside(Now) /\ Now.session # None
      BY <1>4, InsideNow DEF Now
    <3> QED BY <3>1, EndedInside
  <2> QED BY <1>1, <1>4, <2>1, AskedKeeps
<1> QED BY <1>2, <1>3, <1>4 DEF Dispose

LEMMA TalkCoreNext == TalkCore /\ [TalkNext]_vars => TalkCore'
<1> SUFFICES ASSUME TalkCore, [TalkNext]_vars PROVE TalkCore'
  OBVIOUS
<1>1. CASE PressUnlocks
  BY <1>1, LetGoKeeps DEF PressUnlocks, NoStart
<1>2. CASE PressLocks
  BY <1>2, InsideNow, StartAfterKeeps DEF PressLocks
<1>3. CASE Press
  <2> DEFINE before == IF heldStop THEN Released(Now) ELSE Now
  <2>1. Inside(before)
    BY InsideNow, ReleasedInside
  <2>2. PICK late : StartAfter(before, FALSE, late)
    BY <1>3 DEF Press
  <2> HIDE DEF before
  <2> QED BY <2>1, <2>2, StartAfterKeeps
<1>4. CASE LetGo
  <2>1. CASE UNCHANGED <<recorder, talk>>
    BY <1>4, <2>1, TalkStays DEF LetGo, NoStart, talk
  <2> QED BY <1>4, <2>1, LetGoKeeps DEF LetGo, NoStart
<1>5. CASE WindowPasses
  BY <1>5, TalkStays DEF WindowPasses, talk, seen
<1>6. CASE HeldStopRuns
  BY <1>6, LetGoKeeps DEF HeldStopRuns, NoStart
<1>7. CASE CapFires
  <2>1. Inside(Now) /\ Now.session # None
    BY <1>7, InsideNow DEF CapFires, Now, TalkCore, Fit
  <2>2. Inside(Ended(Now))
    BY <2>1, EndedInside
  <2> QED BY <1>7, <2>2, AskedKeeps DEF CapFires, seen
<1>8. CASE Dispose
  BY <1>8, DisposeKeeps
<1>9. CASE Disposed
  BY <1>9, TalkStays DEF Disposed, talk, seen
<1>10. CASE Background /\ UNCHANGED <<hands, seen>>
  BY <1>10, BackgroundKeeps
<1>11. CASE Elsewhere
  BY <1>11, ElsewhereKeeps
<1>12. CASE UNCHANGED vars
  BY <1>12, TalkStays DEF vars, talk, seen
<1> QED BY <1>1, <1>2, <1>3, <1>4, <1>5, <1>6, <1>7, <1>8, <1>9, <1>10, <1>11, <1>12
     DEF TalkNext

LEMMA StartAfterRest ==
  ASSUME TalkCore, TalkRest, NEW before, Inside(before), NEW lock \in BOOLEAN, NEW late,
         StartAfter(before, lock, late)
  PROVE  pendingStart' \in {None} \cup Starts /\ settling' \cup locking' \subseteq Starts
<1> DEFINE now == IF IsStale(before) THEN Cleared(before) ELSE before
           s == started + 1
<1>1. CASE UNCHANGED <<pendingStart, settling, locking>>
  BY <1>1 DEF TalkRest
<1>2. CASE /\ Called(s, now.queue) /\ UNCHANGED settling
           /\ \/ pendingStart' = None /\ UNCHANGED locking
              \/ pendingStart' = s /\ locking' \in {locking, locking \cup {s}}
  <2>1. s \in Starts
    BY <1>2 DEF Called
  <2> HIDE DEF now, s
  <2> QED BY <1>2, <2>1 DEF TalkRest
<1> QED BY <1>1, <1>2 DEF StartAfter, Asked, SameStarts

LEMMA TalkRestNext == TalkCore /\ TalkRest /\ [TalkNext]_vars => TalkRest'
<1> SUFFICES ASSUME TalkCore, TalkRest, [TalkNext]_vars PROVE TalkRest'
  OBVIOUS
<1> DEFINE Kept == pendingStart' \in {None} \cup Starts /\ settling' \cup locking' \subseteq Starts
<1>1. ASSUME SameStarts PROVE Kept
  BY <1>1 DEF SameStarts, TalkRest
<1>2. ASSUME NEW now, NEW s, Resolved(now, s), settling' \subseteq settling PROVE Kept
  BY <1>2 DEF Resolved, TalkRest
<1>3. CASE PressUnlocks
  BY <1>1, <1>3 DEF PressUnlocks, Chord, Asked, TalkRest
<1>4. CASE PressLocks
  <2>1. Kept
    BY <1>4, InsideNow, StartAfterRest DEF PressLocks
  <2> QED BY <1>4, <2>1 DEF PressLocks, Chord, TalkRest
<1>5. CASE Press
  <2> DEFINE before == IF heldStop THEN Released(Now) ELSE Now
  <2>1. Inside(before)
    BY InsideNow, ReleasedInside
  <2>2. PICK late : StartAfter(before, FALSE, late)
    BY <1>5 DEF Press
  <2> HIDE DEF before
  <2>3. Kept
    BY <2>1, <2>2, StartAfterRest
  <2> QED BY <1>5, <2>3 DEF Press, Chord, TalkRest
<1>6. CASE LetGo
  BY <1>1, <1>6 DEF LetGo, Chord, Asked, TalkRest, talk
<1>7. CASE WindowPasses
  BY <1>7 DEF WindowPasses, TalkRest, talk
<1>8. CASE HeldStopRuns
  BY <1>1, <1>8 DEF HeldStopRuns, Asked, TalkRest
<1>9. CASE CapFires
  BY <1>1, <1>9 DEF CapFires, Asked, TalkRest, hands
<1>10. CASE Dispose
  <2>1. Kept
    BY <1>1, <1>10 DEF Dispose, Asked, SameStarts, TalkRest, talk
  <2>2. disposal'.at \in {"gone", "start", "stop"}
    BY <1>10 DEF Dispose
  <2> QED BY <1>10, <2>1, <2>2 DEF Dispose, TalkRest
<1>11. CASE Disposed
  BY <1>11 DEF Disposed, TalkRest, talk
<1>12. CASE Background /\ UNCHANGED <<hands, seen>>
  <2> SUFFICES Kept
    BY <1>12 DEF TalkRest, hands
  <2>1. CASE UNCHANGED talk
    BY <2>1 DEF talk, TalkRest
  <2>2. CASE Follows /\ ~UNCHANGED talk
    <3>1. UNCHANGED settling /\ \E s \in Starts : Resolved(NotOpened(Now, s), s)
      BY <2>2 DEF Follows, TalkCore
    <3> QED BY <1>2, <3>1
  <2>3. CASE \E s \in Starts : Opens(s)
    <3>1. PICK s \in Starts : Opens(s)
      BY <2>3
    <3>2. CASE UNCHANGED settling /\ Resolved(Opened(Now, s), s)
      BY <1>2, <3>2
    <3>3. CASE settling' = settling \cup {s} /\ UNCHANGED <<pendingStart, locking>>
      BY <3>3 DEF TalkRest
    <3> QED BY <2>1, <3>1, <3>2, <3>3 DEF Opens
  <2>4. CASE \E s \in Starts : Settles(s)
    <3>1. PICK s \in Starts : settling' \subseteq settling /\ Resolved(Now, s)
      BY <2>4 DEF Settles
    <3> QED BY <1>2, <3>1
  <2> QED BY <1>12, <2>1, <2>2, <2>3, <2>4 DEF Background
<1>13. CASE Elsewhere
  BY <1>13 DEF Elsewhere, TalkRest, talk, hands
<1>14. CASE UNCHANGED vars
  BY <1>14 DEF vars, TalkRest, talk, hands
<1> QED BY <1>3, <1>4, <1>5, <1>6, <1>7, <1>8, <1>9, <1>10, <1>11, <1>12, <1>13, <1>14
     DEF TalkNext

LEMMA InitTalk == TalkInit => TalkCore /\ TalkRest
<1> SUFFICES ASSUME TalkInit PROVE TalkCore /\ TalkRest
  OBVIOUS
<1>1. /\ session = None /\ cap = None /\ pendingStart = None /\ settling = {} /\ locking = {}
      /\ locked = FALSE /\ window = "none" /\ heldStop = FALSE /\ disposal = NotDisposed
      /\ pressed = {} /\ waiting = <<>> /\ current = None
  BY DEF TalkInit, Init
<1>2. RecorderInv
  BY InitRecorder DEF TalkInit
<1>3. Meant(waiting, current, boot)
  BY <1>1, OpsWait DEF Meant
<1>4. Minds(session, cap, waiting, current, pressed) /\ Fit(session, cap, phase)
  BY <1>1 DEF Minds, Fit
<1> QED BY <1>1, <1>2, <1>3, <1>4 DEF TalkCore, TalkRest, NotDisposed

\* The types of push-to-talk and what its two promises rest on: a session holds the recording
\* its own start opened, and what waits to stop is what is held.
THEOREM TalkInvariance == TalkSpec => []TalkInv
<1>1. TalkInit => TalkInv
  BY InitTalk, TalkParts
<1>2. TalkInv /\ [TalkNext]_vars => TalkInv'
  <2>1. TalkCore /\ TalkRest /\ [TalkNext]_vars => TalkCore' /\ TalkRest'
    BY TalkCoreNext, TalkRestNext
  <2>2. TalkInv' <=> TalkCore' /\ TalkRest'
    BY TalkParts, PTL
  <2> QED BY <2>1, <2>2, TalkParts
<1> QED BY <1>1, <1>2, PTL DEF TalkSpec

\* push-to-talk.ts:12-16 and 30-33 in every order of presses, releases, timers and answers,
\* nothing push-to-talk started is stuck on.
THEOREM NothingStuckOn == TalkSpec => []NeverStuckOn
<1>1. TalkInv => NeverStuckOn
  BY DEF TalkInv
<1> QED BY <1>1, TalkInvariance, PTL

\* push-to-talk.ts:18-20 a stop that is next finds the recording it was meant for, or none.
THEOREM StopsTheMeant == TalkSpec => []StopsWhatItMeant
<1>1. TalkInv => StopsWhatItMeant
  <2> SUFFICES ASSUME TalkInv, boot = "yes", waiting # <<>>, Head(waiting).op = "stop"
               PROVE  current \in {None, Head(waiting).of}
    BY DEF StopsWhatItMeant
  <2>1. waiting \in Seq(Ops)
    BY RecorderTypes DEF TalkInv
  <2>2. Head(waiting) \in Ops /\ Head(waiting) \in ToSet(waiting)
    <3>1. Head(waiting) \in Ops
      BY <2>1, EmptySeq
    <3> QED BY <2>1, <3>1, TailOps
  <2>3. Head(waiting).of \in Recordings /\ Head(waiting) = Stop(Head(waiting).of)
    BY <2>2, OpsAre
  <2> QED BY <2>2, <2>3 DEF TalkInv, StopsAreMeant
<1> QED BY <1>1, TalkInvariance, PTL

\* Push-to-talk's types, for every number of starts.
THEOREM TalkTypeCorrect == TalkSpec => []TalkTypeOK
<1>1. TalkInv => TalkTypeOK
  BY DEF TalkInv
<1> QED BY <1>1, TalkInvariance, PTL
=============================================================================
