------------------------- MODULE DictationPipeline -------------------------
(***************************************************************************)
(* From the end of an utterance to text at the cursor, and back again:      *)
(* apps/tironian/src/lib/operations/pipeline.ts with delivery.ts,           *)
(* cursor-sink.ts, run-voice-command.ts ("scratch that", "press enter"),    *)
(* repeat-last-dictation.ts, the recipe picker, and the two records and the *)
(* lifecycle they share (state/last-delivery, last-dictation,               *)
(* dictation-lifecycle).                                                    *)
(*                                                                         *)
(* JavaScript is single-threaded: a step runs from one await to the next.   *)
(* What is abstract: a text is named by who writes it; what is said, and    *)
(* what recognizer, polish and settings make of it, is chosen freely; an    *)
(* app is as much of it as matters: what stands at its cursor, the last     *)
(* text delivered there or something else.                                  *)
(***************************************************************************)
EXTENDS Integers, Sequences, SequencesExt

CONSTANTS
    None,
    Unknown,        \* the answer of a probe that could not say, or timed out
    Apps,           \* the applications that can have focus
    MaxUtterances,  \* bound: captures and imports
    MaxRepeats,     \* bound: times the last dictation is pasted again
    MaxRecipes,     \* bound: recipes picked
    Hurried,        \* whether a capture may end while another is still being stored
    Steady,         \* whether focus stays between a probe and the keystroke it is for
    Overlap         \* whether keystrokes of a run, a repeat and a recipe can overlap

ASSUME BoundsAssumption == {MaxUtterances, MaxRepeats, MaxRecipes} \subseteq Nat
ASSUME ConditionsAssumption == {Hurried, Steady, Overlap} \subseteq BOOLEAN

\* Who delivers: an utterance (in the order of capture), a repeat, a picked recipe.
Utterances == 1 .. MaxUtterances
Repeat == 0
Recipe == -1
Writers == Utterances \cup {Repeat, Recipe}

VARIABLES
    run,        \* each utterance: how far it is, its source, and the undo it carries out
    queue,      \* the utterances whose runs are chained on runQueue, in order
    outcome,    \* dictationLifecycle.current.outcome
    write,      \* each writer's delivery
    held,       \* what lastDelivery.peek() gives: None unless it can be undone
    last,       \* lastDictation: the dictation whose text it holds, or None
    focus,      \* the application in front
    cursor,     \* what stands at the cursor of each application
    left,       \* repeats and recipes still to come
    shipped,    \* history: the dictations written somewhere, in order
    erased      \* history: which text each undo meant, and which it met

chained == <<run, queue>>
records == <<held, last>>
vars == <<chained, outcome, write, records, focus, cursor, left, shipped, erased>>

NoWrite == [at |-> "no", sink |-> "ledger", enter |-> FALSE, app |-> Unknown, reach |-> "none"]
Unspoken == [at |-> "none", from |-> "recording", undo |-> None]

Init ==
    /\ run = [u \in Utterances |-> Unspoken]
    /\ queue = <<>> /\ outcome = "none"
    /\ write = [w \in Writers |-> NoWrite]
    /\ held = None /\ last = None
    /\ focus \in Apps /\ cursor = [a \in Apps |-> None]
    /\ left = [repeats |-> MaxRepeats, recipes |-> MaxRecipes]
    /\ shipped = <<>> /\ erased = {}

IsDictation(u) == run[u].from = "recording"
InFlight == outcome \in {"transcribing", "polishing"}
Mark(u, kind) == outcome' = IF IsDictation(u) THEN kind ELSE outcome
GoesTo(u, stage) == run' = [run EXCEPT ![u].at = stage]
Screen == <<focus, cursor, shipped, erased>>

\* Whoever stands between the start of a delivery, or of an undo, and its end.
Delivering ==
    {w \in Writers : write[w].at \notin {"no", "lifting"}}
        \cup {u \in Utterances : run[u].at \in {"probing", "erasing", "pressing"}}
MayWrite == Overlap \/ Delivering = {}

-----------------------------------------------------------------------------
(* The capture, as far as the pipeline sees it.                             *)

\* A recording is stopped, an utterance ends, or a file is dropped: its audio goes to
\* the store.
Spoken(u, from) ==
    /\ run[u].at = "none" /\ \A v \in 1 .. u - 1 : run[v].at # "none"
    /\ Hurried \/ \A v \in Utterances : run[v].at # "storing"
    /\ run' = [run EXCEPT ![u].at = "storing", ![u].from = from]
    /\ UNCHANGED <<queue, outcome, write, records, left, Screen>>

\* The audio is stored: processRecordingPipeline() chains the run.
Stored(u) ==
    /\ run[u].at = "storing" /\ GoesTo(u, "queued") /\ queue' = Append(queue, u)
    /\ UNCHANGED <<outcome, write, records, left, Screen>>

NotStored(u) ==
    /\ run[u].at = "storing" /\ GoesTo(u, "over") /\ Mark(u, "failed")
    /\ UNCHANGED <<queue, write, records, left, Screen>>

\* A manual recording, or a listening session, starts: dictationLifecycle.reset().
CaptureStarts ==
    /\ outcome' = "none"
    /\ UNCHANGED <<chained, write, records, left, Screen>>

\* retireAfter(), of the outcomes that retire by themselves.
Retires ==
    /\ outcome \in {"delivered", "failed"} /\ outcome' = "none"
    /\ UNCHANGED <<chained, write, records, left, Screen>>

-----------------------------------------------------------------------------
(* The run.                                                                 *)

Ended == {"over", "threw"}
NotRunning == {"none", "storing", "queued"} \cup Ended
Ahead(u) == {v \in Utterances : \E j \in DOMAIN queue : \E i \in 1 .. j - 1 :
                                    queue[j] = u /\ queue[i] = v}

Started(u) ==
    /\ run[u].at = "queued" /\ GoesTo(u, "transcribing") /\ Mark(u, "transcribing")
    /\ UNCHANGED <<queue, write, records, left, Screen>>

\* Mistaken: the tail of the queue keeps a rejection.
BeginUnrejected(u) == (\A v \in Ahead(u) : run[v].at = "over") /\ Started(u)

\* Mistaken: a run does not wait for those before it.
BeginAtOnce(u) == Started(u)

\* A run begins when those chained before it are settled, whichever way.
Begin(u) == (\A v \in Ahead(u) : run[v].at \in Ended) /\ Started(u)

\* Mistaken: the lifecycle is left as the throw found it.
ThrowsUnsettled(u) ==
    /\ run[u].at \notin NotRunning
    /\ GoesTo(u, "threw") /\ write' = [write EXCEPT ![u] = NoWrite]
    /\ UNCHANGED <<queue, outcome, records, left, Screen>>

\* Anything in the run throws: only an outcome in flight is settled.
Throws(u) ==
    /\ run[u].at \notin NotRunning
    /\ GoesTo(u, "threw") /\ write' = [write EXCEPT ![u] = NoWrite]
    /\ IF InFlight THEN Mark(u, "failed") ELSE UNCHANGED outcome
    /\ UNCHANGED <<queue, records, left, Screen>>

\* The recognizer fails, or hears nothing.
NoWords(u) ==
    /\ run[u].at = "transcribing" /\ GoesTo(u, "over")
    /\ \E kind \in {"failed", "none"} : Mark(u, kind)
    /\ UNCHANGED <<queue, write, records, left, Screen>>

\* There are words; runPolish() is awaited, and shows when it will call a model.
Words(u) ==
    /\ run[u].at = "transcribing" /\ GoesTo(u, "polishing")
    /\ \E kind \in {"polishing", outcome} : Mark(u, kind)
    /\ UNCHANGED <<queue, write, records, left, Screen>>

\* A rule's recipe runs over what Polish gave.
Reshapes(u) ==
    /\ run[u].at = "polishing" /\ Mark(u, "polishing")
    /\ UNCHANGED <<chained, write, records, left, Screen>>

-----------------------------------------------------------------------------
(* deliverToSink() and the sinks.                                           *)

\* Mistaken: the record of the last delivery survives this one.
DeliverKeeping(w, sink, enter) ==
    /\ write' = [write EXCEPT ![w] = [NoWrite EXCEPT !.at = "probing", !.sink = sink,
                                                     !.enter = enter]]
    /\ UNCHANGED held

\* The sink the settings name, and whether Enter is to follow. The last delivery is no
\* longer what stands at the cursor.
Deliver(w, sink, enter) ==
    /\ write' = [write EXCEPT ![w] = [NoWrite EXCEPT !.at = "probing", !.sink = sink,
                                                     !.enter = enter]]
    /\ held' = None

DeliverToSink(w) ==
    /\ MayWrite
    /\ \E sink \in {"cursor", "clipboard", "ledger"}, enter \in BOOLEAN :
            (enter => sink = "cursor") /\ Deliver(w, sink, enter)

\* Polish, and a recipe of a rule, are done with.
Polished(u) ==
    /\ run[u].at = "polishing" /\ DeliverToSink(u) /\ GoesTo(u, "delivering")
    /\ UNCHANGED <<queue, outcome, last, left, Screen>>

\* The one probe, for the guard and for the undo; a ledger needs neither.
Probed(w) ==
    /\ write[w].at = "probing"
    /\ \/ /\ write[w].sink # "ledger"
          /\ write' = [write EXCEPT ![w].at = "written", ![w].reach = "withheld"]
       \/ \E app \in {focus, Unknown} :
            write' = [write EXCEPT ![w].at = "writing", ![w].app = app]
    /\ UNCHANGED <<chained, outcome, records, left, Screen>>

Ships(w) == shipped' = IF w \in Utterances /\ IsDictation(w) THEN Append(shipped, w) ELSE shipped

\* The write lands: pasted where focus is, or elsewhere than at a cursor.
Lands(w) ==
    /\ write[w].at = "writing" /\ Ships(w)
    /\ \/ /\ write[w].sink = "cursor" /\ cursor' = [cursor EXCEPT ![focus] = w]
          /\ write' = [write EXCEPT ![w].at = IF write[w].enter THEN "entering" ELSE "written",
                                    ![w].reach = "output"]
       \/ /\ write' = [write EXCEPT ![w].at = "written",
                           ![w].reach = IF write[w].sink = "cursor" THEN "clipboard" ELSE "output"]
          /\ UNCHANGED cursor
    /\ UNCHANGED <<chained, outcome, records, left, focus, erased>>

\* Enter is pressed after a paste; it may submit the text.
Enters(w) ==
    /\ write[w].at = "entering" /\ write' = [write EXCEPT ![w].at = "written"]
    /\ cursor' \in {cursor, [cursor EXCEPT ![focus] = None]}
    /\ UNCHANGED <<chained, outcome, records, left, focus, shipped, erased>>

\* lastDelivery.record(), of which only what can be undone is ever seen.
Undoable(w) == write[w].sink = "cursor" /\ write[w].reach = "output" /\ ~write[w].enter
Record(w) == held' = IF Undoable(w) THEN [text |-> w, app |-> write[w].app] ELSE None

Receipt(w) ==
    CASE write[w].reach = "withheld" -> "withheld"
      [] write[w].reach = "clipboard" -> "reduced"
      [] OTHER -> "delivered"

\* The run goes on after its delivery: what was written can be undone and, unless its row
\* was deleted meanwhile, repeated.
Delivered(u) ==
    /\ run[u].at = "delivering" /\ write[u].at = "written"
    /\ IF IsDictation(u) /\ write[u].reach # "withheld"
         THEN Record(u) /\ last' \in {u, last} ELSE UNCHANGED records
    /\ Mark(u, Receipt(u)) /\ GoesTo(u, "over") /\ write' = [write EXCEPT ![u] = NoWrite]
    /\ UNCHANGED <<queue, left, Screen>>

-----------------------------------------------------------------------------
(* Voice commands.                                                          *)

\* "scratch that", where something can be undone: what is read now is compared with a
\* probe, and is consumed only if it will be carried out.
ScratchThat(u) ==
    /\ run[u].at = "transcribing" /\ IsDictation(u) /\ held # None /\ MayWrite
    /\ run' = [run EXCEPT ![u].at = "probing", ![u].undo = held]
    /\ UNCHANGED <<queue, outcome, write, records, left, Screen>>

\* It is more than the backspaces one undo may send.
TooLong(u) ==
    /\ run[u].at = "transcribing" /\ IsDictation(u) /\ held # None
    /\ held' = None /\ GoesTo(u, "over") /\ outcome' = "none"
    /\ UNCHANGED <<queue, write, last, left, Screen>>

\* decideUndoTarget()
DecideUndoTarget(deliveredTo, focusedNow) ==
    IF Unknown \in {deliveredTo, focusedNow} THEN "unknown"
    ELSE IF deliveredTo = focusedNow THEN "allow" ELSE "moved"

UndoProbed(u) ==
    /\ run[u].at = "probing"
    /\ \E app \in {focus, Unknown} :
            IF DecideUndoTarget(run[u].undo.app, app) = "allow"
              THEN GoesTo(u, "erasing") /\ held' = None /\ UNCHANGED outcome
              ELSE GoesTo(u, "over") /\ outcome' = "none" /\ UNCHANGED held
    /\ UNCHANGED <<queue, write, last, left, Screen>>

\* The backspaces go wherever focus is.
Erases(u) ==
    /\ run[u].at = "erasing" /\ GoesTo(u, "over") /\ outcome' = "none"
    /\ erased' = erased \cup {[meant |-> run[u].undo.text, met |-> cursor[focus]]}
    /\ cursor' = [cursor EXCEPT ![focus] = None]
    /\ UNCHANGED <<queue, write, records, left, focus, shipped>>

\* "press enter": what was held may be submitted.
PressEnter(u) ==
    /\ run[u].at = "transcribing" /\ IsDictation(u) /\ MayWrite
    /\ GoesTo(u, "pressing") /\ held' = None
    /\ UNCHANGED <<queue, outcome, write, last, left, Screen>>

\* ... and "stop listening", which touches nothing here.
StopListening(u) ==
    /\ run[u].at = "transcribing" /\ IsDictation(u) /\ GoesTo(u, "stopping")
    /\ UNCHANGED <<queue, outcome, write, records, left, Screen>>

Obeyed(u) ==
    /\ run[u].at \in {"pressing", "stopping"} /\ GoesTo(u, "over") /\ outcome' = "none"
    /\ cursor' = IF run[u].at = "pressing" THEN [cursor EXCEPT ![focus] = None] ELSE cursor
    /\ UNCHANGED <<queue, write, records, left, focus, shipped, erased>>

-----------------------------------------------------------------------------
(* Beside the queue: the chord that pastes the last dictation, the picker of *)
(* recipes, and the person.                                                 *)

\* textToRepeat()
CanRepeat == ~InFlight /\ last # None

PasteLastDictation ==
    /\ left.repeats > 0 /\ write[Repeat].at = "no" /\ CanRepeat
    /\ left' = [left EXCEPT !.repeats = @ - 1]
    /\ write' = [write EXCEPT ![Repeat] = [NoWrite EXCEPT !.at = "lifting", !.sink = "cursor"]]
    /\ UNCHANGED <<chained, outcome, records, Screen>>

\* The modifiers are lifted and the probe is back: everything is read again. A chord still
\* down, or a guard, leaves the cursor alone.
Lifted ==
    /\ write[Repeat].at = "lifting"
    /\ \/ /\ CanRepeat /\ MayWrite
          /\ \E app \in {focus, Unknown} :
                write' = [write EXCEPT ![Repeat].at = "writing", ![Repeat].app = app]
       \/ write' = [write EXCEPT ![Repeat] = NoWrite]
    /\ UNCHANGED <<chained, outcome, records, left, Screen>>

Repeated ==
    /\ write[Repeat].at = "written" /\ write' = [write EXCEPT ![Repeat] = NoWrite]
    /\ IF write[Repeat].reach = "output" THEN Record(Repeat) ELSE UNCHANGED held
    /\ UNCHANGED <<chained, outcome, last, left, Screen>>

\* A picked recipe has run, and its text is delivered. Nothing is recorded.
RecipeRuns ==
    /\ left.recipes > 0 /\ write[Recipe].at = "no" /\ DeliverToSink(Recipe)
    /\ left' = [left EXCEPT !.recipes = @ - 1]
    /\ UNCHANGED <<chained, outcome, last, Screen>>

RecipeDelivered ==
    /\ write[Recipe].at = "written" /\ write' = [write EXCEPT ![Recipe] = NoWrite]
    /\ UNCHANGED <<chained, outcome, records, left, Screen>>

\* The person edits or deletes the recording whose text is held: it is not repeated.
RowChanges ==
    /\ last # None /\ last' = None
    /\ UNCHANGED <<chained, outcome, write, held, left, Screen>>

FocusMoves ==
    /\ \/ ~Steady
       \/ /\ \A w \in Writers : write[w].at \notin {"writing", "entering"}
          /\ \A u \in Utterances : run[u].at # "erasing"
    /\ \E app \in Apps \ {focus} : focus' = app
    /\ UNCHANGED <<chained, outcome, write, records, cursor, left, shipped, erased>>

Capture(u) ==
    \/ \E from \in {"recording", "import"} : Spoken(u, from)
    \/ Stored(u) \/ NotStored(u)
Run(u) ==
    \/ Begin(u) \/ Throws(u) \/ NoWords(u) \/ Words(u) \/ Reshapes(u) \/ Polished(u) \/ Delivered(u)
    \/ ScratchThat(u) \/ TooLong(u) \/ UndoProbed(u) \/ Erases(u)
    \/ PressEnter(u) \/ StopListening(u) \/ Obeyed(u)
Write(w) == Probed(w) \/ Lands(w) \/ Enters(w)
Beside ==
    \/ PasteLastDictation \/ Lifted \/ Repeated \/ RecipeRuns \/ RecipeDelivered
    \/ RowChanges \/ FocusMoves
Next ==
    \/ \E u \in Utterances : Capture(u) \/ Run(u)
    \/ \E w \in Writers : Write(w)
    \/ Beside \/ CaptureStarts \/ Retires

Spec == Init /\ [][Next]_vars

\* Storage, models, probes and keystrokes answer or fail, in time: each has a deadline or
\* is a call of the host.
Answers(u) ==
    \/ Stored(u) \/ NotStored(u) \/ Begin(u) \/ NoWords(u) \/ Words(u) \/ Polished(u)
    \/ Delivered(u) \/ UndoProbed(u) \/ Erases(u) \/ Obeyed(u)
FairSpec ==
    /\ Spec
    /\ \A u \in Utterances : WF_vars(Answers(u))
    /\ \A w \in Writers : WF_vars(Write(w))
    /\ WF_vars(Lifted \/ Repeated \/ RecipeDelivered)

-----------------------------------------------------------------------------
Stages == {"none", "storing", "queued", "transcribing", "polishing", "delivering", "probing",
           "erasing", "pressing", "stopping", "over", "threw"}
Undos == {None} \cup [text : Writers, app : Apps \cup {Unknown}]
RunState == [at : Stages, from : {"recording", "import"}, undo : Undos]
WriteState == [at : {"no", "lifting", "probing", "writing", "entering", "written"},
               sink : {"cursor", "clipboard", "ledger"}, enter : BOOLEAN, app : Apps \cup {Unknown},
               reach : {"none", "output", "clipboard", "withheld"}]
Outcomes == {"none", "transcribing", "polishing", "delivered", "reduced", "withheld", "failed"}

(* The type of the state: an utterance is queued at most once, has a delivery exactly    *)
(* while its run delivers, and Enter follows only a write at the cursor.                *)
TypeOK ==
    /\ run \in [Utterances -> RunState] /\ write \in [Writers -> WriteState]
    /\ outcome \in Outcomes /\ held \in Undos /\ last \in {None} \cup Utterances
    /\ focus \in Apps /\ cursor \in [Apps -> {None} \cup Writers]
    /\ queue \in Seq(Utterances) /\ shipped \in Seq(Utterances)
    /\ IsInjective(queue) /\ \A w \in Writers : write[w].enter => write[w].sink = "cursor"
    /\ \A u \in Utterances : run[u].at = "delivering" <=> write[u].at # "no"

InOrder(s) == \A i, j \in DOMAIN s : i < j => s[i] < s[j]

(* pipeline.ts:71: dictations are written in the order in which they were captured,     *)
(* however long each takes to transcribe and polish.                                    *)
DeliveredInOrder == InOrder(shipped)

(* "scratch that" takes back the text it is for, the last one delivered where focus is, *)
(* and never another text or what the person had there (last-delivery.svelte.ts).       *)
UndoTakesItsOwn == \A e \in erased : e.met = e.meant

(* The pill says that something is on its way only while it is: a run that ends, however *)
(* it ends, takes its marker with it (pipeline.ts:118-127).                              *)
PillIsHonest ==
    InFlight => \E u \in Utterances : IsDictation(u) /\ run[u].at \notin NotRunning

(* The queue outlives a failed run: what was captured is dealt with (pipeline.ts:107).   *)
EveryRunEnds == \A u \in Utterances : run[u].at # "none" ~> run[u].at \in Ended

(* repeat-last-dictation.ts:78-83: a repeat is never written into a dictation that is    *)
(* on its way.                                                                           *)
RepeatWaits ==
    write[Repeat].at = "lifting" /\ write'[Repeat].at = "writing" =>
        \A u \in Utterances : IsDictation(u) => run[u].at \in NotRunning

RepeatsBetween == [][RepeatWaits]_vars

-----------------------------------------------------------------------------
(* Why they hold. *)

Running(u) == run[u].at \notin NotRunning
Chained(u) == \E i \in DOMAIN queue : queue[i] = u

\* A run that has begun finds all those chained before it settled, and so is the only one.
QueueInTurn ==
    /\ \A u \in Utterances : run[u].at \in {"none", "storing"} => ~Chained(u)
    /\ \A u \in Utterances : run[u].at = "queued" \/ Running(u) => Chained(u)
    /\ \A i, j \in DOMAIN queue :
          i < j /\ run[queue[j]].at # "queued" => run[queue[i]].at \in Ended

\* What is still being stored is the latest there is, so that the chain is in the order
\* of capture.
CapturedInOrder ==
    /\ \A u, v \in Utterances : v < u /\ run[u].at # "none" => run[v].at # "none"
    /\ ~Hurried => /\ \A u, v \in Utterances :
                         u < v /\ run[u].at = "storing" => run[v].at = "none"
                   /\ InOrder(queue)

\* A dictation that is written somewhere was chained, and is past its write.
ShippedIsPast ==
    \A i \in DOMAIN shipped :
        /\ Chained(shipped[i])
        /\ \/ run[shipped[i]].at \in Ended
           \/ write[shipped[i]].at \in {"entering", "written"}

RunInv ==
    /\ TypeOK /\ QueueInTurn /\ CapturedInOrder /\ ShippedIsPast /\ PillIsHonest
    /\ ~Hurried => DeliveredInOrder

\* One writes, erases or presses at a time, and none but a repeat keeps what can be undone.
OneDelivers ==
    /\ \A v, w \in Delivering : v = w
    /\ \A w \in Writers \ {Repeat} : write[w].at \notin {"no", "lifting"} => held = None
    /\ \A u \in Utterances : run[u].at \in {"erasing", "pressing"} => held = None

\* What a delivery wrote stands where the probe before it said, until Enter is pressed
\* after it, which it never is after a repeat.
WrittenStands ==
    /\ ~write[Repeat].enter
    /\ \A w \in Writers :
        /\ write[w].at \in {"writing", "entering"} => write[w].app \in {focus, Unknown}
        /\ write[w].at = "entering" => write[w].enter
        /\ write[w].at = "written" /\ Undoable(w) /\ write[w].app # Unknown =>
              cursor[write[w].app] = w

\* What can be undone stands where it was delivered, unless a repeat has just been
\* written, which is to take its place.
HeldStands ==
    held # None /\ held.app # Unknown =>
        \/ cursor[held.app] = held.text
        \/ write[Repeat].at = "written" /\ write[Repeat].reach = "output"

\* An undo under way is of what is held, and its text is where the backspaces go.
UndoStands ==
    \A u \in Utterances :
        /\ run[u].at = "probing" => held # None /\ run[u].undo = held
        /\ run[u].at = "erasing" => cursor[focus] = run[u].undo.text

UndoInv ==
    /\ OneDelivers /\ WrittenStands /\ HeldStands /\ UndoStands /\ UndoTakesItsOwn
=============================================================================
