---------------------- MODULE DictationPipeline_proofs ----------------------
(***************************************************************************)
(* What the pipeline guarantees for every number of utterances, repeats,    *)
(* recipes and applications: dictations are written in the order in which   *)
(* they were captured, an undo takes its own text, the pill is honest.      *)
(***************************************************************************)
EXTENDS DictationPipeline, SequenceTheorems, TLAPS
-----------------------------------------------------------------------------
(* The effects of steps.  A run goes to a stage and a delivery to another, and no       *)
(* other run and no other delivery moves.                                               *)

Goes(u, to) ==
    /\ run' \in [Utterances -> RunState] /\ run'[u].at = to
    /\ to # "storing" => run'[u].from = run[u].from
    /\ \A v \in Utterances : v # u => run'[v] = run[v]

Puts(w, at) ==
    /\ write' \in [Writers -> WriteState] /\ write'[w].at = at
    /\ \A v \in Writers : v # w => write'[v] = write[v]

LEMMA RunGoes ==
  ASSUME TypeOK, NEW u \in Utterances, NEW to \in Stages, GoesTo(u, to)
  PROVE  Goes(u, to) /\ run'[u].undo = run[u].undo
<1>1. run[u] \in RunState
  BY DEF TypeOK
<1>2. [run[u] EXCEPT !.at = to] \in RunState
  BY <1>1 DEF RunState
<1>3. run' = [run EXCEPT ![u] = [run[u] EXCEPT !.at = to]]
  BY DEF GoesTo
<1> QED BY <1>1, <1>2, <1>3 DEF TypeOK, Goes, RunState

\* The record of a writer's delivery is replaced by another.
LEMMA WriteGoes ==
  ASSUME TypeOK, NEW w \in Writers, NEW entry \in WriteState,
         write' = [write EXCEPT ![w] = entry]
  PROVE  Puts(w, entry.at) /\ write'[w] = entry
BY DEF TypeOK, Puts

LEMMA UtterancesWrite ==
  /\ Utterances \subseteq Writers /\ {Repeat, Recipe} \subseteq Writers
  /\ Repeat \notin Utterances /\ Recipe \notin Utterances /\ Repeat # Recipe
  BY BoundsAssumption DEF Writers, Utterances, Repeat, Recipe

LEMMA NoWriteTyped == NoWrite \in WriteState
  BY DEF NoWrite, WriteState

\* What steps that leave a run where it is, or move one that does not deliver, keep of the types.
LEMMA TypesStay ==
  ASSUME TypeOK, run' \in [Utterances -> RunState], write' \in [Writers -> WriteState],
         outcome' \in Outcomes, held' \in Undos, last' \in {None} \cup Utterances,
         UNCHANGED <<queue, focus, cursor, shipped>>,
         \A w \in Writers : write'[w].enter => write'[w].sink = "cursor",
         \A u \in Utterances : run'[u].at = "delivering" <=> write'[u].at # "no"
  PROVE  TypeOK'
BY DEF TypeOK, IsInjective

LEMMA TypesGo ==
  ASSUME TypeOK, NEW u \in Utterances, NEW to \in Stages \ {"delivering"},
         run[u].at # "delivering", Goes(u, to),
         outcome' \in Outcomes, held' \in Undos, last' \in {None} \cup Utterances,
         cursor' \in [Apps -> {None} \cup Writers], UNCHANGED <<write, queue, focus, shipped>>
  PROVE  TypeOK'
BY DEF TypeOK, IsInjective, Goes

LEMMA TypesPut ==
  ASSUME TypeOK, NEW w \in Writers, NEW at, Puts(w, at), write[w].at # "no", at # "no",
         write'[w].enter => write'[w].sink = "cursor",
         cursor' \in [Apps -> {None} \cup Writers], shipped' \in Seq(Utterances),
         UNCHANGED <<run, queue, outcome, held, last, focus>>
  PROVE  TypeOK'
BY UtterancesWrite DEF TypeOK, IsInjective, Puts

LEMMA OutcomeMarked ==
  ASSUME TypeOK, NEW u \in Utterances, NEW kind \in Outcomes, Mark(u, kind)
  PROVE  outcome' \in Outcomes
BY DEF TypeOK, Mark

-----------------------------------------------------------------------------
(* The capture and the run. *)

LEMMA SpokenDoes ==
  ASSUME TypeOK, NEW u \in Utterances, NEW from \in {"recording", "import"}, Spoken(u, from)
  PROVE  TypeOK' /\ Goes(u, "storing")
<1>1. run[u] \in RunState
  BY DEF TypeOK
<1>2. [run[u] EXCEPT !.at = "storing", !.from = from] \in RunState
  BY <1>1 DEF RunState, Stages
<1>3. run' = [run EXCEPT ![u] = [run[u] EXCEPT !.at = "storing", !.from = from]]
  BY DEF Spoken
<1>4. Goes(u, "storing")
  BY <1>1, <1>2, <1>3 DEF TypeOK, Goes, RunState
<1>5. TypeOK'
  BY <1>4, TypesGo DEF Spoken, records, Screen, TypeOK, Stages
<1> QED BY <1>4, <1>5

LEMMA StoredDoes ==
  ASSUME TypeOK, QueueInTurn, NEW u \in Utterances, Stored(u)
  PROVE  /\ TypeOK' /\ Goes(u, "queued") /\ Len(queue') = Len(queue) + 1
         /\ queue'[Len(queue) + 1] = u /\ \A i \in DOMAIN queue : queue'[i] = queue[i]
         /\ DOMAIN queue' = DOMAIN queue \cup {Len(queue) + 1} /\ Len(queue) \in Nat
         /\ DOMAIN queue = 1 .. Len(queue)
<1>1. Goes(u, "queued")
  BY RunGoes DEF Stored, Stages
<1>2. /\ queue' \in Seq(Utterances) /\ Len(queue') = Len(queue) + 1
      /\ queue'[Len(queue) + 1] = u /\ \A i \in DOMAIN queue : queue'[i] = queue[i]
      /\ DOMAIN queue' = DOMAIN queue \cup {Len(queue) + 1} /\ Len(queue) \in Nat
      /\ DOMAIN queue = 1 .. Len(queue)
  BY DEF Stored, TypeOK
<1>3. \A i \in DOMAIN queue : queue[i] # u
  BY DEF QueueInTurn, Chained, Stored
<1>4. IsInjective(queue)'
  BY <1>2, <1>3 DEF IsInjective, TypeOK
<1>5. TypeOK'
  BY <1>1, <1>2, <1>4 DEF Stored, records, Screen, TypeOK, Goes
<1> QED BY <1>1, <1>2, <1>5

LEMMA NotStoredDoes ==
  ASSUME TypeOK, NEW u \in Utterances, NotStored(u)
  PROVE  TypeOK' /\ Goes(u, "over")
<1>1. Goes(u, "over")
  BY RunGoes DEF NotStored, Stages
<1>2. outcome' \in Outcomes
  BY OutcomeMarked DEF NotStored, Outcomes
<1> QED BY <1>1, <1>2, TypesGo DEF NotStored, records, Screen, TypeOK, Stages

LEMMA BeginDoes ==
  ASSUME TypeOK, NEW u \in Utterances, Begin(u)
  PROVE  TypeOK' /\ Goes(u, "transcribing")
<1>1. Goes(u, "transcribing")
  BY RunGoes DEF Begin, Started, Stages
<1>2. outcome' \in Outcomes
  BY OutcomeMarked DEF Begin, Started, Outcomes
<1> QED BY <1>1, <1>2, TypesGo DEF Begin, Started, records, Screen, TypeOK, Stages

LEMMA ThrowsDoes ==
  ASSUME TypeOK, NEW u \in Utterances, Throws(u)
  PROVE  TypeOK' /\ Goes(u, "threw") /\ Puts(u, "no") /\ ~write'[u].enter
<1>1. Goes(u, "threw")
  BY RunGoes DEF Throws, Stages
<1>2. outcome' \in Outcomes
  BY OutcomeMarked DEF Throws, Outcomes, TypeOK
<1>3. Puts(u, "no") /\ write'[u] = NoWrite
  BY NoWriteTyped, WriteGoes, UtterancesWrite DEF Throws, NoWrite
<1> QED
  BY <1>1, <1>2, <1>3, UtterancesWrite
     DEF Throws, records, Screen, TypeOK, Goes, Puts, IsInjective, NoWrite

\* The steps of a run between the recognizer and what it makes of its words.
LEMMA NoWordsDoes ==
  ASSUME TypeOK, NEW u \in Utterances, NoWords(u)
  PROVE  TypeOK' /\ Goes(u, "over")
<1>1. Goes(u, "over")
  BY RunGoes DEF NoWords, Stages
<1>2. outcome' \in Outcomes
  BY OutcomeMarked DEF NoWords, Outcomes
<1> QED BY <1>1, <1>2, TypesGo DEF NoWords, records, Screen, TypeOK, Stages

LEMMA WordsDoes ==
  ASSUME TypeOK, NEW u \in Utterances, Words(u)
  PROVE  TypeOK' /\ Goes(u, "polishing")
<1>1. Goes(u, "polishing")
  BY RunGoes DEF Words, Stages
<1>2. outcome' \in Outcomes
  BY OutcomeMarked DEF Words, Outcomes, TypeOK
<1> QED BY <1>1, <1>2, TypesGo DEF Words, records, Screen, TypeOK, Stages

LEMMA ReshapesDoes ==
  ASSUME TypeOK, NEW u \in Utterances, Reshapes(u)
  PROVE  TypeOK'
<1>1. outcome' \in Outcomes
  BY OutcomeMarked DEF Reshapes, Outcomes
<1> QED BY <1>1, TypesStay DEF Reshapes, chained, records, Screen, TypeOK

-----------------------------------------------------------------------------
(* Deliveries. *)

LEMMA DeliverDoes ==
  ASSUME TypeOK, NEW w \in Writers, DeliverToSink(w)
  PROVE  /\ Puts(w, "probing") /\ held' = None
         /\ write'[w].enter => write'[w].sink = "cursor"
<1>1. PICK sink \in {"cursor", "clipboard", "ledger"}, enter \in BOOLEAN :
          (enter => sink = "cursor") /\ Deliver(w, sink, enter)
  BY DEF DeliverToSink
<1> DEFINE entry == [NoWrite EXCEPT !.at = "probing", !.sink = sink, !.enter = enter]
<1>2. entry \in WriteState /\ entry.at = "probing" /\ entry.sink = sink /\ entry.enter = enter
  BY DEF NoWrite, WriteState
<1>3. write' = [write EXCEPT ![w] = entry] /\ held' = None
  BY <1>1 DEF Deliver
<1> HIDE DEF entry
<1>4. Puts(w, entry.at) /\ write'[w] = entry
  BY <1>2, <1>3, WriteGoes
<1> QED BY <1>1, <1>2, <1>3, <1>4

LEMMA PolishedDoes ==
  ASSUME TypeOK, NEW u \in Utterances, Polished(u)
  PROVE  TypeOK' /\ Goes(u, "delivering") /\ Puts(u, "probing") /\ held' = None
<1>1. Goes(u, "delivering")
  BY RunGoes DEF Polished, Stages
<1>2. /\ Puts(u, "probing") /\ held' = None
      /\ write'[u].enter => write'[u].sink = "cursor"
  BY DeliverDoes, UtterancesWrite DEF Polished
<1>3. held' \in Undos
  BY <1>2 DEF Undos
<1> QED BY <1>1, <1>2, <1>3, UtterancesWrite DEF Polished, Screen, TypeOK, Goes, Puts, IsInjective

LEMMA RecordTyped ==
  ASSUME TypeOK, NEW w \in Writers, Record(w)
  PROVE  held' \in Undos
<1>1. write[w].app \in Apps \cup {Unknown}
  BY DEF TypeOK, WriteState
<1> QED BY <1>1 DEF Record, Undos

LEMMA DeliveredDoes ==
  ASSUME TypeOK, NEW u \in Utterances, Delivered(u)
  PROVE  TypeOK' /\ Goes(u, "over") /\ Puts(u, "no") /\ ~write'[u].enter
<1>1. Goes(u, "over")
  BY RunGoes DEF Delivered, Stages
<1>2. Receipt(u) \in Outcomes
  BY DEF Receipt, Outcomes
<1>3. outcome' \in Outcomes
  BY <1>2, OutcomeMarked DEF Delivered
<1>4. Puts(u, "no") /\ write'[u] = NoWrite
  BY NoWriteTyped, WriteGoes, UtterancesWrite DEF Delivered, NoWrite
<1>5. held' \in Undos /\ last' \in {None} \cup Utterances
  BY RecordTyped, UtterancesWrite DEF Delivered, records, TypeOK
<1> QED
  BY <1>1, <1>3, <1>4, <1>5, UtterancesWrite
     DEF Delivered, Screen, TypeOK, Goes, Puts, IsInjective, NoWrite

LEMMA ProbedDoes ==
  ASSUME TypeOK, NEW w \in Writers, Probed(w)
  PROVE  /\ TypeOK' /\ write'[w].enter = write[w].enter
         /\ \/ Puts(w, "written") /\ write'[w].reach = "withheld"
            \/ Puts(w, "writing") /\ write'[w].app \in {focus, Unknown}
<1>1. write[w] \in WriteState /\ focus \in Apps
  BY DEF TypeOK
<1>2. CASE write' = [write EXCEPT ![w].at = "written", ![w].reach = "withheld"]
  <2> DEFINE entry == [write[w] EXCEPT !.at = "written", !.reach = "withheld"]
  <2>1. /\ entry \in WriteState /\ entry.at = "written" /\ entry.reach = "withheld"
        /\ entry.enter = write[w].enter /\ entry.sink = write[w].sink
    BY <1>1 DEF WriteState
  <2>2. write' = [write EXCEPT ![w] = entry]
    BY <1>2
  <2> HIDE DEF entry
  <2>3. Puts(w, "written") /\ write'[w] = entry
    BY <2>1, <2>2, WriteGoes
  <2>4. TypeOK'
    BY <2>1, <2>3, TypesPut DEF Probed, chained, records, Screen, TypeOK
  <2> QED BY <2>1, <2>3, <2>4
<1>3. CASE \E app \in {focus, Unknown} : write' = [write EXCEPT ![w].at = "writing", ![w].app = app]
  <2> PICK app \in {focus, Unknown} : write' = [write EXCEPT ![w].at = "writing", ![w].app = app]
    BY <1>3
  <2> DEFINE entry == [write[w] EXCEPT !.at = "writing", !.app = app]
  <2>1. /\ entry \in WriteState /\ entry.at = "writing" /\ entry.app = app
        /\ entry.enter = write[w].enter /\ entry.sink = write[w].sink
    BY <1>1 DEF WriteState
  <2>2. write' = [write EXCEPT ![w] = entry]
    OBVIOUS
  <2> HIDE DEF entry
  <2>3. Puts(w, "writing") /\ write'[w] = entry
    BY <2>1, <2>2, WriteGoes
  <2>4. TypeOK'
    BY <2>1, <2>3, TypesPut DEF Probed, chained, records, Screen, TypeOK
  <2> QED BY <2>1, <2>3, <2>4
<1> QED BY <1>2, <1>3 DEF Probed

\* A write lands at the cursor, where focus is, or elsewhere.
LEMMA LandsDoes ==
  ASSUME TypeOK, NEW w \in Writers, Lands(w)
  PROVE  /\ TypeOK' /\ write'[w].app = write[w].app /\ write'[w].enter = write[w].enter
         /\ write'[w].sink = write[w].sink
         /\ \/ /\ cursor' = [cursor EXCEPT ![focus] = w]
               /\ IF write[w].enter THEN Puts(w, "entering") ELSE Puts(w, "written")
               /\ write'[w].reach = "output"
            \/ /\ UNCHANGED cursor /\ Puts(w, "written")
               /\ write[w].sink = "cursor" => write'[w].reach = "clipboard"
         /\ \/ w \in Utterances /\ IsDictation(w) /\ shipped' = Append(shipped, w)
            \/ UNCHANGED shipped
<1>1. write[w] \in WriteState /\ focus \in Apps /\ shipped \in Seq(Utterances)
  BY DEF TypeOK
<1>2. \/ w \in Utterances /\ IsDictation(w) /\ shipped' = Append(shipped, w)
      \/ UNCHANGED shipped
  BY DEF Lands, Ships
<1>3. shipped' \in Seq(Utterances)
  BY <1>1, <1>2
<1>4. CASE /\ write[w].sink = "cursor" /\ cursor' = [cursor EXCEPT ![focus] = w]
           /\ write' = [write EXCEPT ![w].at = IF write[w].enter THEN "entering" ELSE "written",
                                     ![w].reach = "output"]
  <2> DEFINE entry == [write[w] EXCEPT !.at = IF write[w].enter THEN "entering" ELSE "written",
                                       !.reach = "output"]
  <2>1. /\ entry \in WriteState /\ entry.at = (IF write[w].enter THEN "entering" ELSE "written")
        /\ entry.reach = "output" /\ entry.app = write[w].app
        /\ entry.enter = write[w].enter /\ entry.sink = write[w].sink
    BY <1>1 DEF WriteState
  <2>2. write' = [write EXCEPT ![w] = entry]
    BY <1>4
  <2> HIDE DEF entry
  <2>3. Puts(w, entry.at) /\ write'[w] = entry
    BY <2>1, <2>2, WriteGoes
  <2>4. cursor' \in [Apps -> {None} \cup Writers]
    BY <1>1, <1>4 DEF TypeOK
  <2>5. TypeOK'
    BY <1>3, <2>1, <2>3, <2>4, TypesPut DEF Lands, chained, records, TypeOK
  <2> QED BY <1>2, <1>4, <2>1, <2>3, <2>5
<1>5. CASE /\ write' = [write EXCEPT ![w].at = "written",
                            ![w].reach = IF write[w].sink = "cursor" THEN "clipboard" ELSE "output"]
           /\ UNCHANGED cursor
  <2> DEFINE entry == [write[w] EXCEPT !.at = "written",
                          !.reach = IF write[w].sink = "cursor" THEN "clipboard" ELSE "output"]
  <2>1. /\ entry \in WriteState /\ entry.at = "written" /\ entry.app = write[w].app
        /\ entry.enter = write[w].enter /\ entry.sink = write[w].sink
        /\ write[w].sink = "cursor" => entry.reach = "clipboard"
    BY <1>1 DEF WriteState
  <2>2. write' = [write EXCEPT ![w] = entry]
    BY <1>5
  <2> HIDE DEF entry
  <2>3. Puts(w, "written") /\ write'[w] = entry
    BY <2>1, <2>2, WriteGoes
  <2>4. TypeOK'
    BY <1>3, <1>5, <2>1, <2>3, TypesPut DEF Lands, chained, records, TypeOK
  <2> QED BY <1>2, <1>5, <2>1, <2>3, <2>4
<1> QED BY <1>4, <1>5 DEF Lands

LEMMA EntersDoes ==
  ASSUME TypeOK, NEW w \in Writers, Enters(w)
  PROVE  TypeOK' /\ Puts(w, "written") /\ write'[w].enter = write[w].enter
<1>1. write[w] \in WriteState /\ focus \in Apps
  BY DEF TypeOK
<1> DEFINE entry == [write[w] EXCEPT !.at = "written"]
<1>2. /\ entry \in WriteState /\ entry.at = "written"
      /\ entry.enter = write[w].enter /\ entry.sink = write[w].sink
  BY <1>1 DEF WriteState
<1>3. write' = [write EXCEPT ![w] = entry]
  BY DEF Enters
<1> HIDE DEF entry
<1>4. Puts(w, "written") /\ write'[w] = entry
  BY <1>2, <1>3, WriteGoes
<1>5. cursor' \in [Apps -> {None} \cup Writers]
  BY <1>1 DEF Enters, TypeOK
<1>6. TypeOK'
  BY <1>2, <1>4, <1>5, TypesPut DEF Enters, chained, records, TypeOK
<1> QED BY <1>2, <1>4, <1>6

(* Voice commands. *)

LEMMA ScratchThatDoes ==
  ASSUME TypeOK, NEW u \in Utterances, ScratchThat(u)
  PROVE  TypeOK' /\ Goes(u, "probing") /\ run'[u].undo = held
<1>1. run[u] \in RunState /\ held \in Undos
  BY DEF TypeOK
<1>2. [run[u] EXCEPT !.at = "probing", !.undo = held] \in RunState
  BY <1>1 DEF RunState, Stages
<1>3. run' = [run EXCEPT ![u] = [run[u] EXCEPT !.at = "probing", !.undo = held]]
  BY DEF ScratchThat
<1>4. Goes(u, "probing") /\ run'[u].undo = held
  BY <1>1, <1>2, <1>3 DEF TypeOK, Goes, RunState
<1> QED BY <1>4, TypesGo DEF ScratchThat, records, Screen, TypeOK, Stages

LEMMA TooLongDoes ==
  ASSUME TypeOK, NEW u \in Utterances, TooLong(u)
  PROVE  TypeOK' /\ Goes(u, "over")
<1>1. Goes(u, "over")
  BY RunGoes DEF TooLong, Stages
<1>2. outcome' \in Outcomes /\ held' \in Undos
  BY DEF TooLong, Outcomes, Undos
<1> QED BY <1>1, <1>2, TypesGo DEF TooLong, Screen, TypeOK, Stages

LEMMA UndoProbedDoes ==
  ASSUME TypeOK, NEW u \in Utterances, UndoProbed(u)
  PROVE  /\ TypeOK'
         /\ \/ /\ Goes(u, "erasing") /\ run'[u].undo = run[u].undo /\ held' = None
               /\ run[u].undo.app = focus /\ focus # Unknown /\ UNCHANGED outcome
            \/ Goes(u, "over") /\ UNCHANGED held /\ outcome' = "none"
<1>1. CASE GoesTo(u, "erasing") /\ held' = None /\ UNCHANGED outcome
           /\ \E app \in {focus, Unknown} : DecideUndoTarget(run[u].undo.app, app) = "allow"
  <2>1. Goes(u, "erasing") /\ run'[u].undo = run[u].undo
    BY <1>1, RunGoes DEF Stages
  <2>2. run[u].undo.app = focus /\ focus # Unknown
    BY <1>1 DEF DecideUndoTarget
  <2>3. held' \in Undos
    BY <1>1 DEF Undos
  <2>4. TypeOK'
    BY <1>1, <2>1, <2>3, TypesGo DEF UndoProbed, Screen, TypeOK, Stages
  <2> QED BY <1>1, <2>1, <2>2, <2>4
<1>2. CASE GoesTo(u, "over") /\ outcome' = "none" /\ UNCHANGED held
  <2>1. Goes(u, "over")
    BY <1>2, RunGoes DEF Stages
  <2>2. TypeOK'
    BY <1>2, <2>1, TypesGo DEF UndoProbed, Screen, TypeOK, Stages, Outcomes
  <2> QED BY <1>2, <2>1, <2>2
<1> QED BY <1>1, <1>2 DEF UndoProbed

LEMMA ErasesDoes ==
  ASSUME TypeOK, NEW u \in Utterances, Erases(u)
  PROVE  TypeOK' /\ Goes(u, "over")
<1>1. Goes(u, "over")
  BY RunGoes DEF Erases, Stages
<1>2. outcome' \in Outcomes /\ cursor' \in [Apps -> {None} \cup Writers]
  BY DEF Erases, Outcomes, TypeOK
<1> QED BY <1>1, <1>2, TypesGo DEF Erases, records, TypeOK, Stages

LEMMA PressEnterDoes ==
  ASSUME TypeOK, NEW u \in Utterances, PressEnter(u)
  PROVE  TypeOK' /\ Goes(u, "pressing")
<1>1. Goes(u, "pressing")
  BY RunGoes DEF PressEnter, Stages
<1>2. held' \in Undos
  BY DEF PressEnter, Undos
<1> QED BY <1>1, <1>2, TypesGo DEF PressEnter, Screen, TypeOK, Stages

LEMMA StopListeningDoes ==
  ASSUME TypeOK, NEW u \in Utterances, StopListening(u)
  PROVE  TypeOK' /\ Goes(u, "stopping")
<1>1. Goes(u, "stopping")
  BY RunGoes DEF StopListening, Stages
<1> QED BY <1>1, TypesGo DEF StopListening, records, Screen, TypeOK, Stages

LEMMA ObeyedDoes ==
  ASSUME TypeOK, NEW u \in Utterances, Obeyed(u)
  PROVE  TypeOK' /\ Goes(u, "over")
<1>1. Goes(u, "over")
  BY RunGoes DEF Obeyed, Stages
<1>2. outcome' \in Outcomes /\ cursor' \in [Apps -> {None} \cup Writers]
  BY DEF Obeyed, Outcomes, TypeOK
<1> QED BY <1>1, <1>2, TypesGo DEF Obeyed, records, TypeOK, Stages

-----------------------------------------------------------------------------
(* Beside the queue. *)

\* A repeat or a recipe begins, goes on or is over: no run is touched.
LEMMA TypesBeside ==
  ASSUME TypeOK, NEW w \in {Repeat, Recipe}, NEW at, Puts(w, at),
         write'[w].enter => write'[w].sink = "cursor",
         held' \in Undos, UNCHANGED <<chained, outcome, last, Screen>>
  PROVE  TypeOK'
<1>1. \A u \in Utterances : u # w /\ u \in Writers
  BY UtterancesWrite
<1> QED BY <1>1 DEF chained, Screen, TypeOK, IsInjective, Puts

LEMMA PasteLastDoes ==
  ASSUME TypeOK, PasteLastDictation
  PROVE  TypeOK' /\ Puts(Repeat, "lifting") /\ ~write'[Repeat].enter
<1> DEFINE entry == [NoWrite EXCEPT !.at = "lifting", !.sink = "cursor"]
<1>1. entry \in WriteState /\ entry.at = "lifting" /\ entry.sink = "cursor" /\ ~entry.enter
  BY DEF NoWrite, WriteState
<1>2. write' = [write EXCEPT ![Repeat] = entry]
  BY DEF PasteLastDictation
<1> HIDE DEF entry
<1>3. Puts(Repeat, entry.at) /\ write'[Repeat] = entry
  BY <1>1, <1>2, WriteGoes, UtterancesWrite
<1> QED BY <1>1, <1>3, TypesBeside DEF PasteLastDictation, records, TypeOK

LEMMA LiftedDoes ==
  ASSUME TypeOK, Lifted
  PROVE  /\ TypeOK' /\ (write'[Repeat].enter => write[Repeat].enter)
         /\ \/ Puts(Repeat, "writing") /\ MayWrite /\ write'[Repeat].app \in {focus, Unknown}
            \/ Puts(Repeat, "no")
<1>1. write[Repeat] \in WriteState /\ focus \in Apps /\ Repeat \in Writers
  BY UtterancesWrite DEF TypeOK
<1>2. CASE write' = [write EXCEPT ![Repeat] = NoWrite]
  <2>1. Puts(Repeat, "no") /\ write'[Repeat] = NoWrite
    BY <1>1, <1>2, NoWriteTyped, WriteGoes DEF NoWrite
  <2> QED BY <2>1, TypesBeside DEF Lifted, records, TypeOK, NoWrite
<1>3. CASE \E app \in {focus, Unknown} :
               MayWrite /\ write' = [write EXCEPT ![Repeat].at = "writing", ![Repeat].app = app]
  <2> PICK app \in {focus, Unknown} :
          MayWrite /\ write' = [write EXCEPT ![Repeat].at = "writing", ![Repeat].app = app]
    BY <1>3
  <2> DEFINE entry == [write[Repeat] EXCEPT !.at = "writing", !.app = app]
  <2>1. /\ entry \in WriteState /\ entry.at = "writing" /\ entry.app = app
        /\ entry.enter = write[Repeat].enter /\ entry.sink = write[Repeat].sink
    BY <1>1 DEF WriteState
  <2>2. write' = [write EXCEPT ![Repeat] = entry]
    OBVIOUS
  <2> HIDE DEF entry
  <2>3. Puts(Repeat, entry.at) /\ write'[Repeat] = entry
    BY <1>1, <2>1, <2>2, WriteGoes
  <2>4. TypeOK'
    BY <1>1, <2>1, <2>3, TypesBeside DEF Lifted, records, TypeOK
  <2> QED BY <2>1, <2>3, <2>4
<1> QED BY <1>2, <1>3 DEF Lifted

LEMMA RepeatedDoes ==
  ASSUME TypeOK, Repeated
  PROVE  TypeOK' /\ Puts(Repeat, "no") /\ ~write'[Repeat].enter
<1>1. Puts(Repeat, "no") /\ write'[Repeat] = NoWrite
  BY NoWriteTyped, WriteGoes, UtterancesWrite DEF Repeated, NoWrite
<1>2. held' \in Undos
  BY RecordTyped, UtterancesWrite DEF Repeated, TypeOK
<1> QED BY <1>1, <1>2, TypesBeside DEF Repeated, NoWrite

LEMMA RecipeRunsDoes ==
  ASSUME TypeOK, RecipeRuns
  PROVE  TypeOK' /\ Puts(Recipe, "probing") /\ held' = None
<1>1. /\ Puts(Recipe, "probing") /\ held' = None
      /\ write'[Recipe].enter => write'[Recipe].sink = "cursor"
  BY DeliverDoes, UtterancesWrite DEF RecipeRuns
<1>2. held' \in Undos
  BY <1>1 DEF Undos
<1> QED BY <1>1, <1>2, TypesBeside DEF RecipeRuns

LEMMA RecipeDeliveredDoes ==
  ASSUME TypeOK, RecipeDelivered
  PROVE  TypeOK' /\ Puts(Recipe, "no") /\ ~write'[Recipe].enter
<1>1. Puts(Recipe, "no") /\ write'[Recipe] = NoWrite
  BY NoWriteTyped, WriteGoes, UtterancesWrite DEF RecipeDelivered, NoWrite
<1>2. held' \in Undos /\ UNCHANGED <<chained, outcome, last, Screen>>
  BY DEF RecipeDelivered, records, TypeOK
<1>3. ~write'[Recipe].enter
  BY <1>1 DEF NoWrite
<1> HIDE DEF RecipeDelivered
<1> QED BY <1>1, <1>2, <1>3, TypesBeside

LEMMA OthersType ==
  ASSUME TypeOK, CaptureStarts \/ Retires \/ RowChanges \/ FocusMoves \/ UNCHANGED vars
  PROVE  TypeOK'
<1>1. CASE CaptureStarts
  BY <1>1 DEF CaptureStarts, chained, records, Screen, TypeOK, IsInjective, Outcomes
<1>2. CASE Retires
  BY <1>2 DEF Retires, chained, records, Screen, TypeOK, IsInjective, Outcomes
<1>3. CASE RowChanges
  BY <1>3 DEF RowChanges, chained, Screen, TypeOK, IsInjective
<1>4. CASE FocusMoves
  BY <1>4 DEF FocusMoves, chained, records, TypeOK, IsInjective
<1>5. CASE UNCHANGED vars
  BY <1>5 DEF vars, chained, records, TypeOK, IsInjective
<1> QED BY <1>1, <1>2, <1>3, <1>4, <1>5

-----------------------------------------------------------------------------
(* The chain of runs. *)

LEMMA OnlyOneRuns ==
  ASSUME TypeOK, QueueInTurn, NEW u \in Utterances, NEW v \in Utterances, Running(u), Running(v)
  PROVE  u = v
<1>1. PICK i \in DOMAIN queue : queue[i] = u
  BY DEF QueueInTurn, Chained
<1>2. PICK j \in DOMAIN queue : queue[j] = v
  BY DEF QueueInTurn, Chained
<1>3. i \in Int /\ j \in Int
  BY DEF TypeOK
<1> QED BY <1>1, <1>2, <1>3 DEF QueueInTurn, Running, NotRunning

\* A run that goes on, begins in its turn or ends leaves the chain in turn.
LEMMA ChainGoesOn ==
  ASSUME TypeOK, QueueInTurn, CapturedInOrder, UNCHANGED queue,
         NEW u \in Utterances, NEW to \in Stages \ {"none", "storing", "queued"}, Goes(u, to),
         Running(u) \/ (run[u].at = "queued" /\ \A v \in Ahead(u) : run[v].at \in Ended)
  PROVE  QueueInTurn' /\ CapturedInOrder'
<1>1. run'[u].at = to /\ \A v \in Utterances : v # u => run'[v] = run[v]
  BY DEF Goes
<1>2. \A i \in DOMAIN queue : queue[i] \in Utterances /\ i \in Int
  BY DEF TypeOK
<1>3. Chained(u) /\ run[u].at \notin {"none", "storing"} \cup Ended
  BY DEF QueueInTurn, Running, NotRunning, Ended
<1>4. ASSUME NEW i \in DOMAIN queue, NEW j \in DOMAIN queue, i < j, queue[j] = u
      PROVE  run[queue[i]].at \in Ended
  <2>1. CASE Running(u)
    BY <1>4, <2>1 DEF QueueInTurn, Running, NotRunning
  <2>2. CASE \A v \in Ahead(u) : run[v].at \in Ended
    <3>1. i \in 1 .. j - 1
      BY <1>4, <1>2 DEF TypeOK
    <3>2. queue[i] \in Ahead(u)
      BY <1>4, <1>2, <3>1 DEF Ahead
    <3> QED BY <2>2, <3>2
  <2> QED BY <2>1, <2>2
<1>5. \A v \in Utterances : Chained(v)' <=> Chained(v)
  BY DEF Chained
<1>6. QueueInTurn'
  <2>1. ASSUME NEW i \in DOMAIN queue, NEW j \in DOMAIN queue, i < j, run'[queue[j]].at # "queued"
        PROVE  run'[queue[i]].at \in Ended
    <3>1. run[queue[i]].at \in Ended
      BY <1>1, <1>2, <1>4, <2>1 DEF QueueInTurn
    <3> QED BY <1>1, <1>2, <1>3, <3>1
  <2> QED BY <1>1, <1>3, <1>5, <2>1 DEF QueueInTurn, Running, NotRunning
<1>7. CapturedInOrder'
  BY <1>1, <1>3 DEF CapturedInOrder, InOrder
<1> QED BY <1>6, <1>7

LEMMA ChainStored ==
  ASSUME TypeOK, QueueInTurn, CapturedInOrder, NEW u \in Utterances, Stored(u)
  PROVE  QueueInTurn' /\ CapturedInOrder' /\ \A v \in Utterances : Chained(v) => Chained(v)'
<1>1. /\ run'[u].at = "queued" /\ \A v \in Utterances : v # u => run'[v] = run[v]
      /\ run[u].at = "storing"
  BY StoredDoes DEF Goes, Stored
<1>2. /\ queue'[Len(queue) + 1] = u /\ \A i \in DOMAIN queue : queue'[i] = queue[i]
      /\ DOMAIN queue' = DOMAIN queue \cup {Len(queue) + 1} /\ Len(queue) \in Nat
      /\ DOMAIN queue = 1 .. Len(queue)
  BY StoredDoes
<1>3. \A i \in DOMAIN queue : queue[i] \in Utterances /\ queue[i] # u
  BY <1>1 DEF TypeOK, QueueInTurn, Chained
<1>4. Chained(u)' /\ \A v \in Utterances : v # u => (Chained(v)' <=> Chained(v))
  BY <1>2 DEF Chained
<1>5. QueueInTurn'
  <2>1. \A v \in Utterances : /\ run'[v].at \in {"none", "storing"} => ~Chained(v)'
                              /\ run'[v].at = "queued" \/ Running(v)' => Chained(v)'
    BY <1>1, <1>4 DEF QueueInTurn, Running
  <2>2. ASSUME NEW i \in DOMAIN queue', NEW j \in DOMAIN queue', i < j,
               run'[queue'[j]].at # "queued"
        PROVE  run'[queue'[i]].at \in Ended
    <3>1. i \in DOMAIN queue /\ j \in DOMAIN queue
      BY <1>1, <1>2, <2>2
    <3> QED BY <1>1, <1>2, <1>3, <2>2, <3>1 DEF QueueInTurn
  <2> QED BY <2>1, <2>2 DEF QueueInTurn
<1>6. CapturedInOrder'
  <2>1. ASSUME ~Hurried
        PROVE  InOrder(queue)'
    <3>1. ASSUME NEW i \in DOMAIN queue
          PROVE  queue[i] < u
      <4>1. run[queue[i]].at \notin {"none", "storing"}
        BY <1>3 DEF QueueInTurn, Chained
      <4>2. ~(u < queue[i])
        BY <1>1, <1>3, <2>1, <4>1 DEF CapturedInOrder
      <4> QED BY <1>3, <4>2 DEF Utterances
    <3>2. InOrder(queue)
      BY <2>1 DEF CapturedInOrder
    <3> QED BY <1>2, <3>1, <3>2 DEF InOrder
  <2> QED BY <1>1, <2>1 DEF CapturedInOrder
<1> QED BY <1>4, <1>5, <1>6

\* An utterance that is not chained, and is not to be, leaves the chain alone.
LEMMA ChainUntouched ==
  ASSUME TypeOK, QueueInTurn, NEW u \in Utterances, NEW to \in {"storing", "over"}, Goes(u, to),
         run[u].at \in {"none", "storing"}, UNCHANGED queue
  PROVE  QueueInTurn'
<1>1. run'[u].at = to /\ \A v \in Utterances : v # u => run'[v] = run[v]
  BY DEF Goes
<1>2. \A i \in DOMAIN queue : queue[i] \in Utterances /\ queue[i] # u
  BY DEF TypeOK, QueueInTurn, Chained
<1>3. \A v \in Utterances : Chained(v)' <=> Chained(v)
  BY DEF Chained
<1> QED BY <1>1, <1>2, <1>3 DEF QueueInTurn, Running, NotRunning, Ended

LEMMA ChainSpoken ==
  ASSUME TypeOK, QueueInTurn, CapturedInOrder, NEW u \in Utterances,
         NEW from \in {"recording", "import"}, Spoken(u, from)
  PROVE  QueueInTurn' /\ CapturedInOrder'
<1>1. Goes(u, "storing") /\ run[u].at = "none" /\ UNCHANGED queue
  BY SpokenDoes DEF Spoken
<1>2. QueueInTurn'
  BY <1>1, ChainUntouched
<1>3. \A v \in Utterances : /\ v < u => run[v].at # "none"
                            /\ u < v => run[v].at = "none"
  BY <1>1 DEF Spoken, CapturedInOrder, Utterances
<1>4. Hurried \/ \A v \in Utterances : run[v].at # "storing"
  BY DEF Spoken
<1>5. CapturedInOrder'
  BY <1>1, <1>3, <1>4 DEF CapturedInOrder, InOrder, Goes
<1> QED BY <1>2, <1>5

LEMMA ChainNotStored ==
  ASSUME TypeOK, QueueInTurn, CapturedInOrder, NEW u \in Utterances, NotStored(u)
  PROVE  QueueInTurn' /\ CapturedInOrder'
<1>1. Goes(u, "over") /\ run[u].at = "storing" /\ UNCHANGED queue
  BY NotStoredDoes DEF NotStored
<1>2. QueueInTurn'
  BY <1>1, ChainUntouched
<1>3. CapturedInOrder'
  BY <1>1 DEF CapturedInOrder, InOrder, Goes
<1> QED BY <1>2, <1>3

\* What was shipped stays chained, and past its write.
LEMMA ShippedStays ==
  ASSUME TypeOK, ShippedIsPast, UNCHANGED shipped,
         \A v \in Utterances : Chained(v) => Chained(v)',
         \A v \in Utterances : run[v].at \in Ended => run'[v].at \in Ended,
         \A v \in Utterances : write[v].at \in {"entering", "written"} =>
              run'[v].at \in Ended \/ write'[v].at \in {"entering", "written"}
  PROVE  ShippedIsPast'
<1>1. \A i \in DOMAIN shipped : shipped[i] \in Utterances
  BY DEF TypeOK
<1> QED BY <1>1 DEF ShippedIsPast

\* Whoever lands runs, and every other dictation that was shipped has ended: it was chained
\* before this one, and so captured before it.
LEMMA LandsInOrder ==
  ASSUME TypeOK, QueueInTurn, CapturedInOrder, ShippedIsPast, ~Hurried => DeliveredInOrder,
         NEW w \in Writers, Lands(w)
  PROVE  ShippedIsPast' /\ (~Hurried => DeliveredInOrder)'
<1>1. /\ UNCHANGED <<run, queue>> /\ write[w].at = "writing"
      /\ write'[w].at \in {"entering", "written"}
      /\ \A v \in Writers : v # w => write'[v] = write[v]
      /\ \/ w \in Utterances /\ shipped' = Append(shipped, w)
         \/ UNCHANGED shipped
  BY LandsDoes DEF Lands, chained, Puts
<1>2. \A v \in Utterances : (Chained(v) => Chained(v)')
  BY <1>1 DEF Chained
<1>3. \A v \in Utterances : write[v].at \in {"entering", "written"} =>
                               write'[v].at \in {"entering", "written"}
  BY <1>1, UtterancesWrite
<1>4. CASE UNCHANGED shipped
  BY <1>1, <1>2, <1>3, <1>4, ShippedStays DEF DeliveredInOrder, InOrder
<1>5. CASE w \in Utterances /\ shipped' = Append(shipped, w)
  <2>1. /\ DOMAIN shipped' = DOMAIN shipped \cup {Len(shipped) + 1} /\ Len(shipped) \in Nat
        /\ DOMAIN shipped = 1 .. Len(shipped) /\ shipped'[Len(shipped) + 1] = w
        /\ \A i \in DOMAIN shipped : shipped'[i] = shipped[i] /\ shipped[i] \in Utterances
    BY <1>5 DEF TypeOK
  <2>2. Running(w) /\ Chained(w)
    BY <1>1, <1>5 DEF TypeOK, QueueInTurn, Running, NotRunning, Ended
  <2>3. ASSUME NEW i \in DOMAIN shipped
        PROVE  run[shipped[i]].at \in Ended
    <3>1. CASE write[shipped[i]].at \in {"entering", "written"}
      <4>1. Running(shipped[i]) /\ shipped[i] # w
        BY <1>1, <2>1, <3>1 DEF TypeOK, Running, NotRunning, Ended
      <4> QED BY <1>5, <2>1, <2>2, <4>1, OnlyOneRuns
    <3> QED BY <3>1 DEF ShippedIsPast
  <2>4. ASSUME ~Hurried, NEW i \in DOMAIN shipped
        PROVE  shipped[i] < w
    <3>1. PICK a \in DOMAIN queue : queue[a] = shipped[i]
      BY DEF ShippedIsPast, Chained
    <3>2. PICK b \in DOMAIN queue : queue[b] = w
      BY <2>2 DEF Chained
    <3>3. a \in Int /\ b \in Int /\ a # b
      BY <2>2, <2>3, <3>1, <3>2 DEF TypeOK, Running, NotRunning
    <3>4. ~(b < a)
      BY <2>2, <2>3, <3>1, <3>2 DEF QueueInTurn, Running, NotRunning, Ended
    <3> QED BY <2>4, <3>1, <3>2, <3>3, <3>4 DEF CapturedInOrder, InOrder
  <2>5. ShippedIsPast'
    BY <1>1, <1>2, <2>1, <2>2, <2>3, <1>5 DEF ShippedIsPast
  <2>6. ASSUME ~Hurried
        PROVE  DeliveredInOrder'
    BY <2>1, <2>4, <2>6 DEF DeliveredInOrder, InOrder
  <2> QED BY <2>5, <2>6
<1> QED BY <1>1, <1>4, <1>5

-----------------------------------------------------------------------------
(* The pill. *)

\* A run marks where it goes: it is in flight only while it is under way.
LEMMA PillMarked ==
  ASSUME TypeOK, PillIsHonest, NEW u \in Utterances, NEW to \in Stages \ {"storing"},
         Goes(u, to), NEW kind, Mark(u, kind),
         kind \in {"transcribing", "polishing"} => to \notin NotRunning
  PROVE  PillIsHonest'
<1>1. /\ run'[u].at = to /\ run'[u].from = run[u].from
      /\ \A v \in Utterances : v # u => run'[v] = run[v]
  BY DEF Goes
<1> QED BY <1>1 DEF PillIsHonest, Mark, IsDictation, InFlight

\* A step that leaves the pill alone leaves running what runs, or comes after it.
LEMMA PillAlong ==
  ASSUME TypeOK, PillIsHonest, NEW u \in Utterances, NEW to \in Stages, Goes(u, to),
         UNCHANGED outcome, Running(u) => to \notin NotRunning /\ to # "storing"
  PROVE  PillIsHonest'
<1>1. /\ run'[u].at = to /\ (to # "storing" => run'[u].from = run[u].from)
      /\ \A v \in Utterances : v # u => run'[v] = run[v]
  BY DEF Goes
<1> QED BY <1>1 DEF PillIsHonest, Running, IsDictation, InFlight

LEMMA PillSettled ==
  ASSUME outcome' = "none"
  PROVE  PillIsHonest'
BY DEF PillIsHonest, InFlight

-----------------------------------------------------------------------------
(* The invariant of the runs, action by action. *)

\* What a step of a run that is under way, or begins in its turn, keeps besides the pill.
LEMMA RunGoesOn ==
  ASSUME RunInv, NEW u \in Utterances, NEW to \in Stages \ {"none", "storing", "queued"},
         Goes(u, to), TypeOK', PillIsHonest', UNCHANGED <<queue, shipped>>,
         Running(u) \/ (run[u].at = "queued" /\ \A v \in Ahead(u) : run[v].at \in Ended),
         UNCHANGED write \/ to \in Ended \/ run[u].at # "delivering",
         \A v \in Writers : v # u => write'[v] = write[v]
  PROVE  RunInv'
<1>1. QueueInTurn' /\ CapturedInOrder'
  BY ChainGoesOn DEF RunInv
<1>2. \A v \in Utterances : (Chained(v) => Chained(v)')
  BY DEF Chained
<1>3. /\ run'[u].at = to /\ run[u].at \notin Ended
      /\ \A v \in Utterances : v # u => run'[v] = run[v]
  BY DEF Goes, Running, NotRunning, Ended
<1>4. \A v \in Utterances : run[v].at \in Ended => run'[v].at \in Ended
  BY <1>3
<1>5. \A v \in Utterances : write[v].at \in {"entering", "written"} =>
            run'[v].at \in Ended \/ write'[v].at \in {"entering", "written"}
  BY <1>3, UtterancesWrite DEF RunInv, TypeOK
<1>6. ShippedIsPast'
  BY <1>2, <1>4, <1>5, ShippedStays DEF RunInv
<1> QED BY <1>1, <1>6 DEF RunInv, DeliveredInOrder, InOrder

LEMMA RunRest ==
  ASSUME RunInv, NEW u \in Utterances, NEW to \in {"storing", "queued", "over"}, Goes(u, to),
         run[u].at \in {"none", "storing"}, TypeOK', QueueInTurn', CapturedInOrder',
         UNCHANGED <<shipped, write>>, \A v \in Utterances : (Chained(v) => Chained(v)'),
         PillIsHonest'
  PROVE  RunInv'
<1>1. \A v \in Utterances : run[v].at \in Ended => run'[v].at \in Ended
  BY DEF Goes, Ended
<1>2. ShippedIsPast'
  BY <1>1, ShippedStays DEF RunInv
<1> QED BY <1>2 DEF RunInv, DeliveredInOrder, InOrder

LEMMA CaptureKeeps ==
  ASSUME RunInv, NEW u \in Utterances, Capture(u)
  PROVE  RunInv'
<1>1. CASE \E from \in {"recording", "import"} : Spoken(u, from)
  <2> PICK from \in {"recording", "import"} : Spoken(u, from)
    BY <1>1
  <2>1. /\ TypeOK' /\ Goes(u, "storing") /\ run[u].at = "none"
        /\ UNCHANGED <<queue, outcome, write, shipped>>
    BY SpokenDoes DEF Spoken, Screen, RunInv
  <2>2. QueueInTurn' /\ CapturedInOrder'
    BY ChainSpoken DEF RunInv
  <2>3. PillIsHonest'
    BY <2>1, PillAlong DEF RunInv, Running, NotRunning, Stages
  <2>4. \A v \in Utterances : (Chained(v) => Chained(v)')
    BY <2>1 DEF Chained
  <2> QED BY <2>1, <2>2, <2>3, <2>4, RunRest
<1>2. CASE Stored(u)
  <2>1. /\ TypeOK' /\ Goes(u, "queued") /\ run[u].at = "storing"
        /\ UNCHANGED <<outcome, write, shipped>>
    BY <1>2, StoredDoes DEF Stored, Screen, RunInv
  <2>2. QueueInTurn' /\ CapturedInOrder' /\ \A v \in Utterances : (Chained(v) => Chained(v)')
    BY <1>2, ChainStored DEF RunInv
  <2>3. PillIsHonest'
    BY <2>1, PillAlong DEF RunInv, Running, NotRunning, Stages
  <2> QED BY <2>1, <2>2, <2>3, RunRest
<1>3. CASE NotStored(u)
  <2>1. /\ TypeOK' /\ Goes(u, "over") /\ run[u].at = "storing" /\ Mark(u, "failed")
        /\ UNCHANGED <<queue, write, shipped>>
    BY <1>3, NotStoredDoes DEF NotStored, Screen, RunInv
  <2>2. QueueInTurn' /\ CapturedInOrder'
    BY <1>3, ChainNotStored DEF RunInv
  <2>3. PillIsHonest'
    BY <2>1, PillMarked DEF RunInv, Stages
  <2>4. \A v \in Utterances : (Chained(v) => Chained(v)')
    BY <2>1 DEF Chained
  <2> QED BY <2>1, <2>2, <2>3, <2>4, RunRest
<1> QED BY <1>1, <1>2, <1>3 DEF Capture

\* A step that moves no run.
LEMMA UnmovedRuns ==
  ASSUME RunInv, UNCHANGED <<run, queue>>
  PROVE  /\ QueueInTurn' /\ CapturedInOrder' /\ (UNCHANGED outcome => PillIsHonest')
         /\ TypeOK' /\ PillIsHonest' /\ UNCHANGED shipped
            /\ (\A v \in Utterances : write'[v] = write[v]) => RunInv'
<1>1. QueueInTurn' /\ CapturedInOrder' /\ (UNCHANGED outcome => PillIsHonest')
  BY DEF RunInv, QueueInTurn, CapturedInOrder, PillIsHonest, Chained, Running, InOrder, InFlight,
         IsDictation
<1>2. ASSUME TypeOK', PillIsHonest', UNCHANGED shipped, \A v \in Utterances : write'[v] = write[v]
      PROVE  RunInv'
  <2>1. ShippedIsPast'
    BY <1>2, ShippedStays DEF RunInv, Chained
  <2> QED BY <1>1, <1>2, <2>1 DEF RunInv, DeliveredInOrder, InOrder
<1> QED BY <1>1, <1>2

LEMMA InitRuns == Init => RunInv
<1> SUFFICES ASSUME Init PROVE RunInv
  OBVIOUS
<1>1. Unspoken \in RunState /\ NoWrite \in WriteState
  BY NoWriteTyped DEF Unspoken, RunState, Stages, Undos
<1>2. \A u \in Utterances : run[u] = Unspoken
  BY DEF Init
<1>3. \A w \in Writers : write[w] = NoWrite
  BY DEF Init
<1>4. TypeOK
  BY <1>1, <1>2, <1>3, UtterancesWrite
     DEF Init, TypeOK, IsInjective, Undos, Outcomes, NoWrite, Unspoken
<1>5. QueueInTurn /\ CapturedInOrder /\ ShippedIsPast
  BY <1>2 DEF Init, QueueInTurn, CapturedInOrder, ShippedIsPast, Chained, Running, NotRunning,
         InOrder, Unspoken
<1> QED BY <1>4, <1>5 DEF RunInv, PillIsHonest, InFlight, Init, DeliveredInOrder, InOrder

LEMMA RunKeeps ==
  ASSUME RunInv, NEW u \in Utterances, Run(u)
  PROVE  RunInv'
<1> USE DEF RunInv
<1>1. CASE Begin(u)
  <2>1. /\ TypeOK' /\ Goes(u, "transcribing") /\ run[u].at = "queued" /\ Mark(u, "transcribing")
        /\ UNCHANGED <<queue, write, shipped>> /\ \A v \in Ahead(u) : run[v].at \in Ended
    BY <1>1, BeginDoes DEF Begin, Started, Screen
  <2>2. PillIsHonest'
    BY <2>1, PillMarked DEF Stages, NotRunning, Ended
  <2> QED BY <2>1, <2>2, RunGoesOn DEF Stages
<1>2. CASE Throws(u)
  <2>1. /\ TypeOK' /\ Goes(u, "threw") /\ Puts(u, "no") /\ Running(u)
        /\ UNCHANGED <<queue, shipped>>
        /\ IF InFlight THEN Mark(u, "failed") ELSE UNCHANGED outcome
    BY <1>2, ThrowsDoes DEF Throws, Screen, Running
  <2>2. PillIsHonest'
    <3>1. CASE InFlight
      BY <2>1, <3>1, PillMarked DEF Stages
    <3>2. CASE ~InFlight
      BY <2>1, <3>2 DEF PillIsHonest, InFlight
    <3> QED BY <3>1, <3>2
  <2> QED BY <2>1, <2>2, RunGoesOn, UtterancesWrite DEF Stages, Ended, Puts
<1>3. CASE NoWords(u)
  <2>1. /\ TypeOK' /\ Goes(u, "over") /\ run[u].at = "transcribing"
        /\ UNCHANGED <<queue, write, shipped>> /\ \E kind \in {"failed", "none"} : Mark(u, kind)
    BY <1>3, NoWordsDoes DEF NoWords, Screen
  <2>2. PillIsHonest'
    BY <2>1, PillMarked DEF Stages
  <2> QED BY <2>1, <2>2, RunGoesOn DEF Stages, Running, NotRunning, Ended
<1>4. CASE Words(u)
  <2>1. /\ TypeOK' /\ Goes(u, "polishing") /\ run[u].at = "transcribing"
        /\ UNCHANGED <<queue, write, shipped>> /\ \E kind \in {"polishing", outcome} : Mark(u, kind)
    BY <1>4, WordsDoes DEF Words, Screen
  <2>2. PillIsHonest'
    BY <2>1, PillMarked DEF Stages, NotRunning, Ended
  <2> QED BY <2>1, <2>2, RunGoesOn DEF Stages, Running, NotRunning, Ended
<1>5. CASE Reshapes(u)
  <2>1. /\ TypeOK' /\ run[u].at = "polishing" /\ Mark(u, "polishing")
        /\ UNCHANGED <<run, queue, write, shipped>>
    BY <1>5, ReshapesDoes DEF Reshapes, chained, Screen
  <2>2. PillIsHonest'
    BY <2>1 DEF PillIsHonest, Mark, IsDictation, InFlight, NotRunning, Ended
  <2> QED BY <2>1, <2>2, UnmovedRuns
<1>6. CASE Polished(u)
  <2>1. /\ TypeOK' /\ Goes(u, "delivering") /\ Puts(u, "probing") /\ run[u].at = "polishing"
        /\ UNCHANGED <<queue, outcome, shipped>>
    BY <1>6, PolishedDoes DEF Polished, Screen
  <2>2. PillIsHonest'
    BY <2>1, PillAlong DEF Stages, NotRunning, Ended
  <2> QED BY <2>1, <2>2, RunGoesOn DEF Stages, Running, NotRunning, Ended, Puts
<1>7. CASE Delivered(u)
  <2>1. /\ TypeOK' /\ Goes(u, "over") /\ Puts(u, "no") /\ run[u].at = "delivering"
        /\ UNCHANGED <<queue, shipped>> /\ Mark(u, Receipt(u))
    BY <1>7, DeliveredDoes DEF Delivered, Screen
  <2>2. PillIsHonest'
    BY <2>1, PillMarked DEF Stages, Receipt
  <2> QED BY <2>1, <2>2, RunGoesOn DEF Stages, Running, NotRunning, Ended, Puts
<1>8. CASE ScratchThat(u)
  <2>1. /\ TypeOK' /\ Goes(u, "probing") /\ run[u].at = "transcribing"
        /\ UNCHANGED <<queue, write, outcome, shipped>>
    BY <1>8, ScratchThatDoes DEF ScratchThat, Screen
  <2>2. PillIsHonest'
    BY <2>1, PillAlong DEF Stages, NotRunning, Ended
  <2> QED BY <2>1, <2>2, RunGoesOn DEF Stages, Running, NotRunning, Ended
<1>9. CASE TooLong(u)
  <2>1. /\ TypeOK' /\ Goes(u, "over") /\ run[u].at = "transcribing" /\ PillIsHonest'
        /\ UNCHANGED <<queue, write, shipped>>
    BY <1>9, TooLongDoes, PillSettled DEF TooLong, Screen
  <2> QED BY <2>1, RunGoesOn DEF Stages, Running, NotRunning, Ended
<1>10. CASE UndoProbed(u)
  <2>1. TypeOK' /\ run[u].at = "probing" /\ UNCHANGED <<queue, write, shipped>>
    BY <1>10, UndoProbedDoes DEF UndoProbed, Screen
  <2>2. \/ Goes(u, "erasing") /\ UNCHANGED outcome
        \/ Goes(u, "over") /\ PillIsHonest'
    BY <1>10, UndoProbedDoes, PillSettled
  <2>3. PillIsHonest'
    BY <2>2, PillAlong DEF Stages, NotRunning, Ended
  <2> QED BY <2>1, <2>2, <2>3, RunGoesOn DEF Stages, Running, NotRunning, Ended
<1>11. CASE Erases(u)
  <2>1. /\ TypeOK' /\ Goes(u, "over") /\ run[u].at = "erasing" /\ PillIsHonest'
        /\ UNCHANGED <<queue, write, shipped>>
    BY <1>11, ErasesDoes, PillSettled DEF Erases
  <2> QED BY <2>1, RunGoesOn DEF Stages, Running, NotRunning, Ended
<1>12. CASE PressEnter(u)
  <2>1. /\ TypeOK' /\ Goes(u, "pressing") /\ run[u].at = "transcribing"
        /\ UNCHANGED <<queue, write, outcome, shipped>>
    BY <1>12, PressEnterDoes DEF PressEnter, Screen
  <2>2. PillIsHonest'
    BY <2>1, PillAlong DEF Stages, NotRunning, Ended
  <2> QED BY <2>1, <2>2, RunGoesOn DEF Stages, Running, NotRunning, Ended
<1>13. CASE StopListening(u)
  <2>1. /\ TypeOK' /\ Goes(u, "stopping") /\ run[u].at = "transcribing"
        /\ UNCHANGED <<queue, write, outcome, shipped>>
    BY <1>13, StopListeningDoes DEF StopListening, Screen
  <2>2. PillIsHonest'
    BY <2>1, PillAlong DEF Stages, NotRunning, Ended
  <2> QED BY <2>1, <2>2, RunGoesOn DEF Stages, Running, NotRunning, Ended
<1>14. CASE Obeyed(u)
  <2>1. /\ TypeOK' /\ Goes(u, "over") /\ run[u].at \in {"pressing", "stopping"} /\ PillIsHonest'
        /\ UNCHANGED <<queue, write, shipped>>
    BY <1>14, ObeyedDoes, PillSettled DEF Obeyed
  <2> QED BY <2>1, RunGoesOn DEF Stages, Running, NotRunning, Ended
<1> QED
  BY <1>1, <1>2, <1>3, <1>4, <1>5, <1>6, <1>7, <1>8, <1>9, <1>10, <1>11, <1>12, <1>13, <1>14
     DEF Run

LEMMA WriteKeeps ==
  ASSUME RunInv, NEW w \in Writers, Write(w)
  PROVE  RunInv'
<1> USE DEF RunInv
<1>1. UNCHANGED <<run, queue, outcome>>
  BY DEF Write, Probed, Lands, Enters, chained
<1>2. QueueInTurn' /\ CapturedInOrder' /\ PillIsHonest'
  BY <1>1, UnmovedRuns
<1>3. CASE Lands(w)
  BY <1>2, <1>3, LandsDoes, LandsInOrder
<1>4. CASE Probed(w) \/ Enters(w)
  <2>1. TypeOK' /\ UNCHANGED shipped
    BY <1>4, ProbedDoes, EntersDoes DEF Probed, Enters, Screen
  <2>2. \A v \in Utterances : write[v].at \in {"entering", "written"} =>
                                  write'[v].at \in {"entering", "written"}
    BY <1>4, ProbedDoes, EntersDoes, UtterancesWrite DEF Puts, Probed, Enters
  <2>3. ShippedIsPast'
    BY <1>1, <2>1, <2>2, ShippedStays DEF Chained
  <2> QED BY <1>2, <2>1, <2>3 DEF DeliveredInOrder, InOrder
<1> QED BY <1>3, <1>4 DEF Write

LEMMA OthersKeep ==
  ASSUME RunInv, Beside \/ CaptureStarts \/ Retires \/ UNCHANGED vars
  PROVE  RunInv'
<1> USE DEF RunInv
<1>1. UNCHANGED <<run, queue, shipped>>
  BY DEF Beside, PasteLastDictation, Lifted, Repeated, RecipeRuns, RecipeDelivered, RowChanges,
         FocusMoves, CaptureStarts, Retires, vars, chained, Screen
<1>2. TypeOK'
  BY PasteLastDoes, LiftedDoes, RepeatedDoes, RecipeRunsDoes, RecipeDeliveredDoes, OthersType
     DEF Beside
<1>3. UNCHANGED outcome \/ outcome' = "none"
  BY DEF Beside, PasteLastDictation, Lifted, Repeated, RecipeRuns, RecipeDelivered, RowChanges,
         FocusMoves, CaptureStarts, Retires, vars
<1>4. PillIsHonest'
  BY <1>1, <1>3, PillSettled DEF PillIsHonest, InFlight, IsDictation
<1>5. \A v \in Utterances : write'[v] = write[v]
  BY PasteLastDoes, LiftedDoes, RepeatedDoes, RecipeRunsDoes, RecipeDeliveredDoes, UtterancesWrite
     DEF Beside, Puts, RowChanges, FocusMoves, CaptureStarts, Retires, vars
<1> QED BY <1>1, <1>2, <1>4, <1>5, UnmovedRuns

THEOREM Invariance == Spec => []RunInv
<1>1. Init => RunInv
  BY InitRuns
<1>2. RunInv /\ [Next]_vars => RunInv'
  BY CaptureKeeps, RunKeeps, WriteKeeps, OthersKeep DEF Next
<1> QED BY <1>1, <1>2, PTL DEF Spec

(* pipeline.ts:71: dictations are written in the order of capture, where a capture is    *)
(* stored before the next one ends.                                                      *)
THEOREM WrittenInOrder ==
  ASSUME ~Hurried
  PROVE  Spec => []DeliveredInOrder
<1>1. RunInv => DeliveredInOrder
  BY DEF RunInv
<1> QED BY <1>1, Invariance, PTL

(* pipeline.ts:118-127: what the pill says is on its way is on its way.                  *)
THEOREM ThePillIsHonest == Spec => []PillIsHonest
<1>1. RunInv => PillIsHonest
  BY DEF RunInv
<1> QED BY <1>1, Invariance, PTL

-----------------------------------------------------------------------------
(* The undo. *)

\* Of those who deliver there is still one, where only w, who delivers alone, moved.
LEMMA OneStays ==
  ASSUME \A v, w \in Delivering : v = w, NEW w \in Writers,
         \A v \in Writers : v # w => write'[v].at = write[v].at,
         \A v \in Utterances : v # w => run'[v].at = run[v].at,
         Delivering = {} \/ w \in Delivering \/ w \notin Delivering'
  PROVE  \A v, x \in Delivering' : v = x
<1>1. Delivering' \subseteq Delivering \cup {w}
  BY DEF Delivering
<1> QED BY <1>1

\* Who stands there is found there.
LEMMA DeliversAt ==
  ASSUME TypeOK
  PROVE  /\ \A w \in Writers : write[w].at \notin {"no", "lifting"} => w \in Delivering
         /\ \A u \in Utterances :
              run[u].at \in {"delivering", "probing", "erasing", "pressing"} =>
                 u \in Delivering \/ write[u].at = "lifting"
         /\ \A u \in Utterances :
              run[u].at \in {"probing", "erasing", "pressing"} =>
                 u \in Delivering /\ write[u].at = "no"
BY UtterancesWrite DEF Delivering, TypeOK

\* A step that is no delivery's, nor an undo's: a run elsewhere, or what ends a delivery
\* with nothing recorded.
LEMMA QuietKeeps ==
  ASSUME TypeOK, TypeOK', UndoInv, NEW w \in Writers,
         \A v \in Writers : v # w => write'[v] = write[v],
         \A u \in Utterances : u # w => run'[u] = run[u],
         \/ write'[w] = write[w]
         \/ /\ write'[w].at \in {"no", "lifting"} /\ ~write'[w].enter
            /\ w = Repeat => write[w].at # "written" \/ write[w].reach # "output",
         w \in Utterances => run'[w].at \notin {"delivering", "probing", "erasing", "pressing"},
         UNCHANGED <<held, focus, cursor, erased>>
  PROVE  UndoInv'
<1>1. \A v \in Writers : write'[v].at \in {"no", "lifting"} \/ write'[v] = write[v]
  OBVIOUS
<1>2. w \in Delivering' => w \in Delivering
  BY UtterancesWrite DEF Delivering, TypeOK
<1>3. \A v, x \in Delivering' : v = x
  BY <1>2, OneStays DEF UndoInv, OneDelivers
<1>4. OneDelivers'
  BY <1>1, <1>3 DEF UndoInv, OneDelivers
<1>5. WrittenStands'
  BY <1>1, UtterancesWrite DEF UndoInv, WrittenStands, Undoable
<1>6. HeldStands'
  BY UtterancesWrite DEF UndoInv, HeldStands
<1>7. UndoStands'
  BY DEF UndoInv, UndoStands
<1> QED BY <1>4, <1>5, <1>6, <1>7 DEF UndoInv, UndoTakesItsOwn

LEMMA UnmovedUndo ==
  ASSUME UndoInv, UNCHANGED <<run, write, held, focus, cursor, erased>>
  PROVE  UndoInv'
BY DEF UndoInv, OneDelivers, WrittenStands, HeldStands, UndoStands, UndoTakesItsOwn, Delivering,
       Undoable

\* A delivery begins where none is under way; what was held is no longer.
LEMMA DeliveryBegins ==
  ASSUME TypeOK, TypeOK', UndoInv, NEW w \in Writers \ {Repeat}, Delivering = {},
         Puts(w, "probing"),
         \A u \in Utterances : u # w => run'[u] = run[u],
         w \in Utterances => run'[w].at = "delivering",
         held' = None, UNCHANGED <<focus, cursor, erased>>
  PROVE  UndoInv'
<1>1. \A v \in Writers : v # w => write'[v] = write[v]
  BY DEF Puts
<1>2. OneDelivers'
  BY <1>1, OneStays DEF UndoInv, OneDelivers
<1>3. WrittenStands'
  BY <1>1, UtterancesWrite DEF UndoInv, WrittenStands, Undoable, Puts
<1>4. UndoStands'
  BY DeliversAt DEF UndoStands
<1> QED BY <1>2, <1>3, <1>4 DEF UndoInv, HeldStands, UndoTakesItsOwn

\* A writer that delivers alone goes on, without touching a cursor.
LEMMA DeliveryGoesOn ==
  ASSUME TypeOK, TypeOK', UndoInv, NEW w \in Writers, w \in Delivering,
         write[w].at \notin {"no", "lifting", "written"},
         NEW at \in {"writing", "written"}, Puts(w, at),
         UNCHANGED <<run, held, focus, cursor, erased>>,
         w = Repeat => ~write'[w].enter,
         at = "writing" => write'[w].app \in {focus, Unknown},
         at = "written" => ~Undoable(w)'
  PROVE  UndoInv'
<1>1. \A v \in Writers : v # w => write'[v] = write[v]
  BY DEF Puts
<1>2. OneDelivers'
  BY <1>1, OneStays, UtterancesWrite DEF UndoInv, OneDelivers, Puts
<1>3. WrittenStands'
  BY <1>1, UtterancesWrite DEF UndoInv, WrittenStands, Undoable, Puts
<1>4. HeldStands'
  BY <1>1, UtterancesWrite DEF UndoInv, HeldStands, Puts
<1>5. UndoStands'
  BY DEF UndoInv, UndoStands
<1> QED BY <1>2, <1>3, <1>4, <1>5 DEF UndoInv, UndoTakesItsOwn

LEMMA LandsKeepsUndo ==
  ASSUME TypeOK, TypeOK', UndoInv, NEW w \in Writers, Lands(w)
  PROVE  UndoInv'
<1>1. /\ write[w].at = "writing" /\ write'[w].at \in {"entering", "written"}
      /\ write'[w].app = write[w].app /\ write'[w].enter = write[w].enter
      /\ write'[w].sink = write[w].sink
      /\ \A v \in Writers : v # w => write'[v] = write[v]
      /\ UNCHANGED <<run, held, focus, erased>>
      /\ \/ /\ cursor' = [cursor EXCEPT ![focus] = w] /\ write'[w].reach = "output"
            /\ write'[w].at = IF write[w].enter THEN "entering" ELSE "written"
         \/ /\ UNCHANGED cursor /\ write'[w].at = "written"
            /\ write[w].sink = "cursor" => write'[w].reach = "clipboard"
  BY LandsDoes DEF Lands, Puts, chained, records
<1>2. w \in Delivering /\ \A v \in Delivering : v = w
  BY <1>1, DeliversAt DEF UndoInv, OneDelivers
<1>3. \A v \in Writers : v # w => write[v].at \in {"no", "lifting"}
  BY <1>2, DeliversAt
<1>4. \A u \in Utterances : run[u].at \notin {"probing", "erasing", "pressing"}
  BY <1>1, <1>2, DeliversAt
<1>5. OneDelivers'
  BY <1>1, <1>2, <1>4, OneStays DEF UndoInv, OneDelivers
<1>6. /\ focus \in Apps /\ write[w].app \in Apps \cup {Unknown}
      /\ cursor \in [Apps -> {None} \cup Writers]
  BY DEF TypeOK, WriteState
<1>7. WrittenStands'
  <2>1. write'[w].at = "written" /\ Undoable(w)' /\ write'[w].app # Unknown =>
            cursor'[write'[w].app] = w
    BY <1>1, <1>6 DEF UndoInv, WrittenStands, Undoable
  <2>2. ~write'[Repeat].enter
    BY <1>1, UtterancesWrite DEF UndoInv, WrittenStands
  <2>3. write'[w].at = "entering" => write'[w].enter /\ write'[w].app \in {focus', Unknown}
    BY <1>1 DEF UndoInv, WrittenStands
  <2> QED BY <1>1, <1>3, <2>1, <2>2, <2>3 DEF WrittenStands, Undoable
<1>8. HeldStands'
  <2>1. CASE w = Repeat
    <3>1. CASE UNCHANGED cursor
      BY <1>1, <2>1, <3>1 DEF UndoInv, HeldStands
    <3>2. CASE /\ write'[w].reach = "output"
               /\ write'[w].at = IF write[w].enter THEN "entering" ELSE "written"
      BY <1>1, <2>1, <3>2 DEF UndoInv, WrittenStands, HeldStands
    <3> QED BY <1>1, <3>1, <3>2
  <2>2. CASE w # Repeat
    BY <1>1, <2>2 DEF UndoInv, OneDelivers, HeldStands
  <2> QED BY <2>1, <2>2
<1>9. UndoStands'
  BY <1>1, <1>4 DEF UndoStands
<1> QED BY <1>1, <1>5, <1>7, <1>8, <1>9 DEF UndoInv, UndoTakesItsOwn

LEMMA EntersKeepsUndo ==
  ASSUME TypeOK, TypeOK', UndoInv, NEW w \in Writers, Enters(w)
  PROVE  UndoInv'
<1>1. /\ write[w].at = "entering" /\ write'[w].at = "written" /\ write'[w].enter = write[w].enter
      /\ \A v \in Writers : v # w => write'[v] = write[v]
      /\ UNCHANGED <<run, held, focus, erased>>
  BY EntersDoes DEF Enters, Puts, chained, records
<1>2. w \in Delivering /\ \A v \in Delivering : v = w
  BY <1>1, DeliversAt DEF UndoInv, OneDelivers
<1>3. \A v \in Writers : v # w => write[v].at \in {"no", "lifting"}
  BY <1>2, DeliversAt
<1>4. \A u \in Utterances : run[u].at \notin {"probing", "erasing", "pressing"}
  BY <1>1, <1>2, DeliversAt
<1>5. OneDelivers'
  BY <1>1, <1>2, <1>4, OneStays DEF UndoInv, OneDelivers
<1>6. write[w].enter /\ w # Repeat /\ held = None
  BY <1>1 DEF UndoInv, WrittenStands, OneDelivers
<1>7. WrittenStands'
  BY <1>1, <1>3, <1>6, UtterancesWrite DEF UndoInv, WrittenStands, Undoable
<1>8. HeldStands'
  BY <1>1, <1>6 DEF HeldStands
<1>9. UndoStands'
  BY <1>1, <1>4 DEF UndoStands
<1> QED BY <1>1, <1>5, <1>7, <1>8, <1>9 DEF UndoInv, UndoTakesItsOwn

LEMMA WriteKeepsUndo ==
  ASSUME RunInv, TypeOK', UndoInv, NEW w \in Writers, Write(w)
  PROVE  UndoInv'
<1>1. CASE Probed(w)
  <2>1. /\ write[w].at = "probing" /\ UNCHANGED <<run, held, focus, cursor, erased>>
        /\ \/ Puts(w, "written") /\ write'[w].reach = "withheld"
           \/ Puts(w, "writing") /\ write'[w].app \in {focus, Unknown}
        /\ write'[w].enter = write[w].enter
    BY <1>1, ProbedDoes DEF Probed, chained, records, Screen, RunInv
  <2>2. w \in Delivering
    BY <2>1, DeliversAt DEF RunInv
  <2>3. w = Repeat => ~write'[w].enter
    BY <2>1 DEF UndoInv, WrittenStands
  <2> QED BY <2>1, <2>2, <2>3, DeliveryGoesOn DEF RunInv, Undoable
<1>2. CASE Lands(w)
  BY <1>2, LandsKeepsUndo DEF RunInv
<1>3. CASE Enters(w)
  BY <1>3, EntersKeepsUndo DEF RunInv
<1> QED BY <1>1, <1>2, <1>3 DEF Write

\* An undo, or a press, is carried out by who delivers alone; nothing is held by then.
LEMMA CarriesOutAlone ==
  ASSUME TypeOK, UndoInv, NEW u \in Utterances, run[u].at \in {"probing", "erasing", "pressing"}
  PROVE  /\ u \in Delivering /\ \A v \in Delivering : v = u
         /\ \A w \in Writers : write[w].at \in {"no", "lifting"}
         /\ \A v \in Utterances : v # u => run[v].at \notin {"probing", "erasing", "pressing"}
<1>1. u \in Delivering /\ write[u].at = "no"
  BY DeliversAt
<1>2. \A v \in Delivering : v = u
  BY <1>1 DEF UndoInv, OneDelivers
<1>3. \A w \in Writers : write[w].at \in {"no", "lifting"}
  BY <1>1, <1>2, DeliversAt
<1>4. ASSUME NEW v \in Utterances, v # u
      PROVE  run[v].at \notin {"probing", "erasing", "pressing"}
  BY <1>2, <1>4, DeliversAt
<1> QED BY <1>1, <1>2, <1>3, <1>4

LEMMA ErasesKeepsUndo ==
  ASSUME TypeOK, TypeOK', UndoInv, NEW u \in Utterances, Erases(u) \/ Obeyed(u)
  PROVE  UndoInv'
<1>1. /\ Goes(u, "over") /\ UNCHANGED <<write, held, focus>>
      /\ run[u].at \in {"erasing", "pressing", "stopping"}
  BY ErasesDoes, ObeyedDoes DEF Erases, Obeyed, records
<1>2. CASE run[u].at = "stopping"
  <2>1. UNCHANGED <<cursor, erased>>
    BY <1>2 DEF Erases, Obeyed
  <2> QED BY <1>1, <2>1, QuietKeeps, UtterancesWrite DEF Goes
<1>3. CASE run[u].at \in {"erasing", "pressing"}
  <2>1. /\ u \in Delivering /\ \A v \in Delivering : v = u
        /\ \A w \in Writers : write[w].at \in {"no", "lifting"}
        /\ \A v \in Utterances : v # u => run[v].at \notin {"probing", "erasing", "pressing"}
    BY <1>3, CarriesOutAlone
  <2>2. /\ run'[u].at = "over" /\ \A v \in Utterances : v # u => run'[v] = run[v]
    BY <1>1 DEF Goes
  <2>3. held = None
    BY <1>3 DEF UndoInv, OneDelivers
  <2>4. OneDelivers'
    BY <1>1, <2>1, <2>2, <2>3, OneStays, UtterancesWrite DEF OneDelivers, UndoInv
  <2>5. WrittenStands'
    BY <1>1, <2>1 DEF UndoInv, WrittenStands
  <2>6. HeldStands' /\ UndoStands'
    BY <1>1, <2>1, <2>2, <2>3 DEF HeldStands, UndoStands
  <2>7. UndoTakesItsOwn'
    <3>1. CASE Erases(u)
      <4>1. cursor[focus] = run[u].undo.text
        BY <3>1 DEF Erases, UndoInv, UndoStands
      <4> QED BY <3>1, <4>1 DEF Erases, UndoInv, UndoTakesItsOwn
    <3>2. CASE Obeyed(u)
      BY <3>2 DEF Obeyed, UndoInv, UndoTakesItsOwn
    <3> QED BY <3>1, <3>2
  <2> QED BY <2>4, <2>5, <2>6, <2>7 DEF UndoInv
<1> QED BY <1>1, <1>2, <1>3

\* The probe found the text where focus is: it is held no longer, and is about to be erased.
LEMMA UndoProbedKeeps ==
  ASSUME TypeOK, TypeOK', UndoInv, NEW u \in Utterances, UndoProbed(u)
  PROVE  UndoInv'
<1>1. run[u].at = "probing" /\ UNCHANGED <<write, focus, cursor, erased>>
  BY DEF UndoProbed, Screen
<1>2. CASE Goes(u, "over") /\ UNCHANGED held
  BY <1>1, <1>2, QuietKeeps, UtterancesWrite DEF Goes
<1>3. CASE /\ Goes(u, "erasing") /\ run'[u].undo = run[u].undo /\ held' = None
           /\ run[u].undo.app = focus /\ focus # Unknown
  <2>1. /\ u \in Delivering /\ \A v \in Delivering : v = u
        /\ \A w \in Writers : write[w].at \in {"no", "lifting"}
        /\ \A v \in Utterances : v # u => run[v].at \notin {"probing", "erasing", "pressing"}
    BY <1>1, CarriesOutAlone
  <2>2. /\ run'[u].at = "erasing" /\ \A v \in Utterances : v # u => run'[v] = run[v]
    BY <1>3 DEF Goes
  <2>3. OneDelivers'
    BY <1>1, <1>3, <2>1, <2>2, OneStays, UtterancesWrite DEF OneDelivers, UndoInv
  <2>4. cursor[focus] = run[u].undo.text
    BY <1>1, <1>3, <2>1, UtterancesWrite DEF UndoInv, UndoStands, HeldStands
  <2>5. UndoStands'
    BY <1>1, <1>3, <2>1, <2>2, <2>4 DEF UndoStands
  <2> QED
    BY <1>1, <1>3, <2>3, <2>5 DEF UndoInv, WrittenStands, Undoable, HeldStands, UndoTakesItsOwn
<1> QED BY <1>2, <1>3, UndoProbedDoes

\* A command takes its place beside those who deliver, or drops what is held.
LEMMA CommandsKeepUndo ==
  ASSUME ~Overlap, RunInv, TypeOK', UndoInv, NEW u \in Utterances,
         ScratchThat(u) \/ TooLong(u) \/ PressEnter(u)
  PROVE  UndoInv'
<1>1. /\ run[u].at = "transcribing" /\ UNCHANGED <<write, focus, cursor, erased>>
      /\ \A v \in Utterances : v # u => run'[v] = run[v]
  BY ScratchThatDoes, TooLongDoes, PressEnterDoes
     DEF ScratchThat, TooLong, PressEnter, Screen, Goes, RunInv
<1>2. WrittenStands' /\ UndoTakesItsOwn'
  BY <1>1 DEF UndoInv, WrittenStands, Undoable, UndoTakesItsOwn
<1>3. \A v \in Utterances : run[v].at \notin {"probing", "erasing"}
  BY <1>1, OnlyOneRuns DEF RunInv, Running, NotRunning, Ended
<1>4. CASE ScratchThat(u)
  <2>1. run'[u].at = "probing" /\ run'[u].undo = held /\ held # None /\ UNCHANGED held
    BY <1>4, ScratchThatDoes DEF ScratchThat, records, Goes, RunInv
  <2>2. Delivering = {}
    BY <1>4 DEF ScratchThat, MayWrite
  <2>3. OneDelivers'
    BY <1>1, <2>1, <2>2, OneStays, UtterancesWrite DEF UndoInv, OneDelivers
  <2>4. HeldStands' /\ UndoStands'
    BY <1>1, <1>3, <2>1 DEF UndoInv, HeldStands, UndoStands
  <2> QED BY <1>2, <2>3, <2>4 DEF UndoInv
<1>5. CASE TooLong(u)
  <2>1. run'[u].at = "over" /\ held' = None
    BY <1>5, TooLongDoes DEF TooLong, Goes, RunInv
  <2>2. u \in Delivering' => u \in Delivering
    BY <1>1, <2>1 DEF Delivering
  <2>3. OneDelivers'
    BY <1>1, <2>1, <2>2, OneStays, UtterancesWrite DEF UndoInv, OneDelivers
  <2>4. HeldStands' /\ UndoStands'
    BY <1>1, <1>3, <2>1 DEF HeldStands, UndoStands
  <2> QED BY <1>2, <2>3, <2>4 DEF UndoInv
<1>6. CASE PressEnter(u)
  <2>1. run'[u].at = "pressing" /\ held' = None
    BY <1>6, PressEnterDoes DEF PressEnter, Goes, RunInv
  <2>2. Delivering = {}
    BY <1>6 DEF PressEnter, MayWrite
  <2>3. OneDelivers'
    BY <1>1, <2>1, <2>2, OneStays, UtterancesWrite DEF UndoInv, OneDelivers
  <2>4. HeldStands' /\ UndoStands'
    BY <1>1, <1>3, <2>1 DEF HeldStands, UndoStands
  <2> QED BY <1>2, <2>3, <2>4 DEF UndoInv
<1> QED BY <1>4, <1>5, <1>6

\* What a delivery records is where it was written.
LEMMA RecordsKeepUndo ==
  ASSUME TypeOK, TypeOK', UndoInv, NEW w \in Writers, write[w].at = "written", Puts(w, "no"),
         ~write'[w].enter, \A u \in Utterances : u # w => run'[u] = run[u],
         w \in Utterances => run'[w].at = "over",
         \/ Record(w)
         \/ UNCHANGED held /\ (w = Repeat => write[w].reach # "output"),
         UNCHANGED <<focus, cursor, erased>>
  PROVE  UndoInv'
<1>1. CASE UNCHANGED held /\ (w = Repeat => write[w].reach # "output")
  BY <1>1, QuietKeeps DEF Puts
<1>2. CASE Record(w)
  <2>1. w \in Delivering /\ \A v \in Delivering : v = w
    BY DeliversAt DEF UndoInv, OneDelivers
  <2>2. \A v \in Writers : v # w => write[v].at \in {"no", "lifting"} /\ write'[v] = write[v]
    BY <2>1, DeliversAt DEF Puts
  <2>3. \A u \in Utterances : run[u].at \notin {"probing", "erasing", "pressing"}
    BY <2>1, DeliversAt
  <2>4. OneDelivers'
    BY <2>1, <2>2, <2>3, OneStays DEF UndoInv, OneDelivers, Puts
  <2>5. WrittenStands'
    BY <2>2, UtterancesWrite DEF UndoInv, WrittenStands, Undoable, Puts
  <2>6. HeldStands'
    BY <1>2 DEF UndoInv, WrittenStands, HeldStands, Record
  <2>7. UndoStands'
    BY <2>3 DEF UndoStands
  <2> QED BY <2>4, <2>5, <2>6, <2>7 DEF UndoInv, UndoTakesItsOwn
<1> QED BY <1>1, <1>2

\* A repeat is written where none is under way.
LEMMA RepeatBegins ==
  ASSUME TypeOK, TypeOK', UndoInv, Delivering = {}, Puts(Repeat, "writing"), ~write'[Repeat].enter,
         write[Repeat].at = "lifting", write'[Repeat].app \in {focus, Unknown},
         UNCHANGED <<run, held, focus, cursor, erased>>
  PROVE  UndoInv'
<1>1. \A v \in Writers : v # Repeat => write'[v] = write[v]
  BY DEF Puts
<1>2. OneDelivers'
  BY <1>1, OneStays, UtterancesWrite DEF UndoInv, OneDelivers
<1>3. WrittenStands'
  BY <1>1, UtterancesWrite DEF UndoInv, WrittenStands, Undoable, Puts
<1>4. HeldStands' /\ UndoStands'
  BY DEF UndoInv, HeldStands, UndoStands
<1> QED BY <1>2, <1>3, <1>4 DEF UndoInv, UndoTakesItsOwn

LEMMA RunKeepsUndo ==
  ASSUME ~Overlap, RunInv, TypeOK', UndoInv, NEW u \in Utterances, Capture(u) \/ Run(u)
  PROVE  UndoInv'
<1> USE DEF RunInv
<1>1. CASE \/ \E from \in {"recording", "import"} : Spoken(u, from)
           \/ Stored(u) \/ NotStored(u) \/ Begin(u) \/ NoWords(u) \/ Words(u) \/ StopListening(u)
  <2>1. UNCHANGED <<write, held, focus, cursor, erased>>
    BY <1>1 DEF Spoken, Stored, NotStored, Begin, Started, NoWords, Words, StopListening,
                records, Screen
  <2>2. /\ run'[u].at \notin {"delivering", "probing", "erasing", "pressing"}
        /\ \A v \in Utterances : v # u => run'[v] = run[v]
    BY <1>1, SpokenDoes, StoredDoes, NotStoredDoes, BeginDoes, NoWordsDoes, WordsDoes,
       StopListeningDoes DEF Goes
  <2> QED BY <2>1, <2>2, QuietKeeps, UtterancesWrite
<1>2. CASE Throws(u)
  <2>1. /\ Goes(u, "threw") /\ Puts(u, "no") /\ ~write'[u].enter
        /\ UNCHANGED <<held, focus, cursor, erased>>
    BY <1>2, ThrowsDoes DEF Throws, records, Screen
  <2> QED BY <2>1, QuietKeeps, UtterancesWrite DEF Goes, Puts
<1>3. CASE Reshapes(u)
  BY <1>3, UnmovedUndo DEF Reshapes, chained, records, Screen
<1>4. CASE Polished(u)
  <2>1. /\ Goes(u, "delivering") /\ Puts(u, "probing") /\ held' = None /\ Delivering = {}
        /\ UNCHANGED <<focus, cursor, erased>>
    BY <1>4, PolishedDoes DEF Polished, DeliverToSink, MayWrite, Screen
  <2> QED BY <2>1, DeliveryBegins, UtterancesWrite DEF Goes
<1>5. CASE Delivered(u)
  <2>1. /\ Goes(u, "over") /\ Puts(u, "no") /\ ~write'[u].enter /\ write[u].at = "written"
        /\ UNCHANGED <<focus, cursor, erased>> /\ (Record(u) \/ UNCHANGED held)
    BY <1>5, DeliveredDoes DEF Delivered, records, Screen
  <2> QED BY <2>1, RecordsKeepUndo, UtterancesWrite DEF Goes
<1>6. CASE ScratchThat(u) \/ TooLong(u) \/ PressEnter(u)
  BY <1>6, CommandsKeepUndo
<1>7. CASE UndoProbed(u)
  BY <1>7, UndoProbedKeeps
<1>8. CASE Erases(u) \/ Obeyed(u)
  BY <1>8, ErasesKeepsUndo
<1> QED BY <1>1, <1>2, <1>3, <1>4, <1>5, <1>6, <1>7, <1>8 DEF Capture, Run

LEMMA BesideKeepsUndo ==
  ASSUME Steady, ~Overlap, RunInv, TypeOK', UndoInv, Beside
  PROVE  UndoInv'
<1> USE DEF RunInv
<1>1. CASE PasteLastDictation
  <2>1. /\ Puts(Repeat, "lifting") /\ ~write'[Repeat].enter /\ write[Repeat].at = "no"
        /\ UNCHANGED <<run, held, focus, cursor, erased>>
    BY <1>1, PasteLastDoes DEF PasteLastDictation, chained, records, Screen
  <2> QED BY <2>1, QuietKeeps, UtterancesWrite DEF Puts
<1>2. CASE Lifted
  <2>1. /\ write[Repeat].at = "lifting" /\ ~write'[Repeat].enter
        /\ UNCHANGED <<run, held, focus, cursor, erased>>
    BY <1>2, LiftedDoes DEF Lifted, UndoInv, WrittenStands, chained, records, Screen
  <2>2. CASE Puts(Repeat, "no")
    BY <2>1, <2>2, QuietKeeps, UtterancesWrite DEF Puts
  <2>3. CASE Puts(Repeat, "writing") /\ MayWrite /\ write'[Repeat].app \in {focus, Unknown}
    BY <2>1, <2>3, RepeatBegins DEF MayWrite
  <2> QED BY <1>2, <2>2, <2>3, LiftedDoes
<1>3. CASE Repeated
  <2>1. /\ Puts(Repeat, "no") /\ ~write'[Repeat].enter /\ write[Repeat].at = "written"
        /\ UNCHANGED <<run, focus, cursor, erased>>
        /\ IF write[Repeat].reach = "output" THEN Record(Repeat) ELSE UNCHANGED held
    BY <1>3, RepeatedDoes DEF Repeated, chained, Screen
  <2> QED BY <2>1, RecordsKeepUndo, UtterancesWrite
<1>4. CASE RecipeRuns
  <2>1. /\ Puts(Recipe, "probing") /\ held' = None /\ Delivering = {}
        /\ UNCHANGED <<run, focus, cursor, erased>>
    BY <1>4, RecipeRunsDoes DEF RecipeRuns, DeliverToSink, MayWrite, chained, Screen
  <2> QED BY <2>1, DeliveryBegins, UtterancesWrite
<1>5. CASE RecipeDelivered
  <2>1. /\ Puts(Recipe, "no") /\ ~write'[Recipe].enter
        /\ UNCHANGED <<run, held, focus, cursor, erased>>
    BY <1>5, RecipeDeliveredDoes DEF RecipeDelivered, chained, records, Screen
  <2> QED BY <2>1, QuietKeeps, UtterancesWrite DEF Puts
<1>6. CASE RowChanges
  BY <1>6, UnmovedUndo DEF RowChanges, chained, Screen
<1>7. CASE FocusMoves
  <2>1. /\ \A w \in Writers : write[w].at \notin {"writing", "entering"}
        /\ \A u \in Utterances : run[u].at # "erasing"
        /\ UNCHANGED <<run, write, held, cursor, erased>>
    BY <1>7 DEF FocusMoves, chained, records
  <2> QED
    BY <2>1 DEF UndoInv, OneDelivers, WrittenStands, HeldStands, UndoStands, UndoTakesItsOwn,
                Delivering, Undoable
<1> QED BY <1>1, <1>2, <1>3, <1>4, <1>5, <1>6, <1>7 DEF Beside

LEMMA InitUndo == Init => UndoInv
<1> SUFFICES ASSUME Init PROVE UndoInv
  OBVIOUS
<1>1. /\ \A w \in Writers : write[w] = NoWrite
      /\ \A u \in Utterances : run[u] = Unspoken
      /\ held = None /\ erased = {}
  BY DEF Init
<1>2. Delivering = {}
  BY <1>1 DEF Delivering, NoWrite, Unspoken
<1> QED
  BY <1>1, <1>2, UtterancesWrite
     DEF UndoInv, OneDelivers, WrittenStands, HeldStands, UndoStands, UndoTakesItsOwn, NoWrite,
         Unspoken

(* "scratch that" takes its own text, where focus stays between a probe and the keystroke *)
(* it is for and no two deliveries overlap (last-delivery.svelte.ts).                     *)
THEOREM UndoIsOfItsOwn ==
  ASSUME Steady, ~Overlap
  PROVE  Spec => []UndoTakesItsOwn
<1>1. Init => UndoInv
  BY InitUndo
<1>2. RunInv /\ RunInv' /\ UndoInv /\ [Next]_vars => UndoInv'
  <2> SUFFICES ASSUME RunInv, RunInv', UndoInv, [Next]_vars PROVE UndoInv'
    OBVIOUS
  <2>1. TypeOK'
    BY DEF RunInv
  <2>2. CASE \E u \in Utterances : Capture(u) \/ Run(u)
    BY <2>1, <2>2, RunKeepsUndo
  <2>3. CASE \E w \in Writers : Write(w)
    BY <2>1, <2>3, WriteKeepsUndo
  <2>4. CASE Beside
    BY <2>1, <2>4, BesideKeepsUndo
  <2>5. CASE CaptureStarts \/ Retires \/ UNCHANGED vars
    BY <2>5, UnmovedUndo DEF CaptureStarts, Retires, vars, chained, records, Screen
  <2> QED BY <2>2, <2>3, <2>4, <2>5 DEF Next
<1>3. UndoInv => UndoTakesItsOwn
  BY DEF UndoInv
<1> QED BY <1>1, <1>2, <1>3, Invariance, PTL DEF Spec
============================================================================
