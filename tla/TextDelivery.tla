--------------------------- MODULE TextDelivery ---------------------------
(***************************************************************************)
(* The delivery of a transcript at the cursor: write_text() and the restore *)
(* it schedules (apps/desktop/src-tauri/src/delivery.rs, clipboard.rs), on   *)
(* the clipboard it shares with the person, behind the watch on the grant    *)
(* (GrantWatch, on macOS), and the target it leaves to learn corrections    *)
(* from (FieldObservation, on Windows).                                     *)
(*                                                                         *)
(* What is on the clipboard is what reads there, and who put it: a copy of   *)
(* the person or a delivery.  No two writes are by the same, so `by` is also *)
(* the change token of Windows.                                             *)
(***************************************************************************)
EXTENDS GrantWatch, FieldObservation

CONSTANTS
    Platforms,      \* a set of "macos", "windows" and "linux"
    Words,          \* what is dictated, and may be copied too
    MaxCopies,      \* bound: what the person copies
    Crowded,        \* bound: whether, where corrections are learned, the clipboard is shared
                    \* as it is elsewhere
    Overlap,        \* whether a delivery may begin before the last has returned
    Simultaneous    \* whether others act between the steps of what nothing awaits

ASSUME PlatformsAssumption == Platforms \subseteq {"macos", "windows", "linux"}
ASSUME WordsAssumption == Words # {} /\ Words \cap {"nothing", "picture"} = {}
ASSUME CopiesAssumption == MaxCopies \in Nat
ASSUME DeliveryTimingAssumption == {Crowded, Overlap, Simultaneous} \subseteq BOOLEAN

VARIABLES
    platform,
    learning,       \* learnFromCorrectionsEnabled, as a delivery begins
    clip,           \* the clipboard
    copies,         \* how often the person copied
    slot,           \* PENDING_BORROW
    delivery,       \* each write_text(): where it is, and its locals
    restore,        \* each restore: where it is, and the borrow it took
    outcome         \* what became of each delivery's transcript

textVars == <<platform, learning, clip, copies, slot, delivery, restore, outcome>>
besideVars == <<watchVars, observationVars>>
vars == <<besideVars, textVars>>

None == [is |-> "none"]
Person(n) == [who |-> "person", n |-> n]
From(d) == [who |-> "delivery", n |-> d]
Nobody == [who |-> "nobody", n |-> 0]
Blank == [reads |-> "nothing", by |-> Nobody]

\* What a person copies: text, among it what was dictated, or something that is not text.
Copied == {"picture"} \cup Words

Resting == [at |-> "idle", keep |-> FALSE, observe |-> FALSE, word |-> "", inherits |-> FALSE,
            owes |-> None, token |-> Nobody, since |-> 0]

Init ==
    /\ WatchInit /\ ObservationInit
    /\ platform \in Platforms /\ (platform # "macos" => grant = "absent")
    /\ learning \in BOOLEAN /\ (learning => platform = "windows")
    /\ clip \in [reads : {"picture", "note"}, by : {Person(0)}] /\ copies = 0 /\ slot = None
    /\ delivery = [d \in Deliveries |-> Resting]
    /\ restore = [d \in Deliveries |-> [at |-> "none", holds |-> None]]
    /\ outcome = [d \in Deliveries |-> "none"]

\* Between these steps and the next nothing is awaited.
Hurried(d) ==
    \/ delivery[d].at \in {"falling", "keeping", "left", "kept", "deciding", "capturing",
                           "writing", "taking"}
    \/ restore[d].at \in {"checking", "stamping"}
Quiet(others) == Simultaneous \/ \A d \in others : ~Hurried(d)

------------------------------------------------------------------------
(* The clipboard *)

\* capture_clipboard(): elsewhere than on macOS, what is not text is nothing.
Capture ==
    IF platform = "macos" \/ clip.reads # "picture" THEN clip ELSE [Blank EXCEPT !.by = clip.by]

\* clipboard_changed_hands(): by the token on Windows, by what reads there elsewhere.
ChangedHands(borrow) ==
    IF platform = "windows" THEN clip.by # borrow.token ELSE clip.reads # borrow.word

Copy(what) ==
    /\ Quiet(Deliveries) /\ copies < MaxCopies /\ (learning => Crowded) /\ copies' = copies + 1
    /\ clip' = [reads |-> what, by |-> Person(copies')]
    /\ UNCHANGED <<besideVars, platform, learning, slot, delivery, restore, outcome>>

------------------------------------------------------------------------
(* write_text() *)

Goes(d, at) == delivery' = [delivery EXCEPT ![d].at = at]
Ends(d, how) ==
    /\ delivery' = [delivery EXCEPT ![d] = [Resting EXCEPT !.at = "done"]]
    /\ outcome' = [outcome EXCEPT ![d] = how]
Idle(d) == delivery[d].at \in {"idle", "done"}

MayPaste == CASE platform = "macos" -> {capability = "active"}
              [] platform = "windows" -> BOOLEAN        \* what the foreground window accepts
              [] platform = "linux" -> {TRUE}

\* Only dictations are observed, and they are delivered in turn.
MayObserve ==
    /\ learning
    /\ \A e \in Deliveries : ~delivery[e].observe /\ landed[e] = "no"

\* Where corrections are learned, one text is delivered and stays, unless Crowded.
Manners == IF learning /\ ~Crowded THEN {TRUE} \X {CHOOSE word \in Words : TRUE}
                                   ELSE BOOLEAN \X Words

\* Deliveries are numbered as they begin.
Begin(d, keep, word, observe) ==
    /\ delivery[d].at = "idle" /\ Quiet(Deliveries)
    /\ \A e \in Deliveries : (e < d => delivery[e].at # "idle") /\ (Overlap \/ Idle(e))
    /\ observe => MayObserve
    /\ IF platform = "windows" THEN BeginDelivery(d) ELSE UNCHANGED <<newest, target>>
    /\ \E may \in MayPaste :
          delivery' = [delivery EXCEPT ![d] = [Resting EXCEPT
                          !.keep = keep, !.word = word, !.observe = observe,
                          !.at = IF ~may THEN "falling" ELSE IF keep THEN "keeping" ELSE "deciding"]]
    /\ UNCHANGED <<endings, current, tasks, landed, rows>>
    /\ UNCHANGED <<watchVars, platform, learning, clip, copies, slot, restore, outcome>>

Writes(d) == clip' = [reads |-> delivery[d].word, by |-> From(d)]

\* The transcript is to stay on the clipboard.
WriteToStay(d) ==
    /\ delivery[d].at \in {"falling", "keeping"} /\ Quiet(Deliveries \ {d})
    /\ \/ Writes(d) /\ UNCHANGED outcome
          /\ delivery' = [delivery EXCEPT ![d].since = copies,
                             ![d].at = IF delivery[d].at = "falling" THEN "left" ELSE "kept"]
       \/ Ends(d, "failed") /\ UNCHANGED clip
    /\ UNCHANGED <<besideVars, platform, learning, copies, slot, restore>>

EndBorrow(d) ==
    /\ delivery[d].at \in {"left", "kept"} /\ Quiet(Deliveries \ {d})
    /\ slot' = None
    /\ IF delivery[d].at = "left" THEN Ends(d, "left") ELSE Goes(d, "settling") /\ UNCHANGED outcome
    /\ UNCHANGED <<besideVars, platform, learning, clip, copies, restore>>

\* Mistaken: whatever is there is taken for the person's.
DecideAnew(d) ==
    /\ delivery[d].at = "deciding" /\ Goes(d, "capturing")
    /\ UNCHANGED <<besideVars, platform, learning, clip, copies, slot, restore, outcome>>

Decide(d) ==
    /\ delivery[d].at = "deciding" /\ Quiet(Deliveries \ {d})
    /\ LET inherits == slot # None /\ ~ChangedHands(slot)
       IN  delivery' = [delivery EXCEPT ![d].inherits = inherits,
                           ![d].at = IF inherits THEN "writing" ELSE "capturing"]
    /\ UNCHANGED <<besideVars, platform, learning, clip, copies, slot, restore, outcome>>

Captures(d) ==
    /\ delivery[d].at = "capturing" /\ Quiet(Deliveries \ {d})
    /\ delivery' = [delivery EXCEPT ![d].owes = Capture, ![d].at = "writing"]
    /\ UNCHANGED <<besideVars, platform, learning, clip, copies, slot, restore, outcome>>

\* write_concealed() clears the pasteboard first.
Write(d) ==
    /\ delivery[d].at = "writing" /\ Quiet(Deliveries \ {d})
    /\ \/ Writes(d) /\ UNCHANGED outcome
          /\ delivery' = [delivery EXCEPT ![d].at = "taking", ![d].since = copies]
       \/ Ends(d, "failed") /\ clip' = IF platform = "macos" THEN Blank ELSE clip
    /\ UNCHANGED <<besideVars, platform, learning, copies, slot, restore>>

\* The token is sampled, and the borrow taken over.
Take(d) ==
    /\ delivery[d].at = "taking" /\ Quiet(Deliveries \ {d})
    /\ delivery' = [delivery EXCEPT ![d].at = "settling", ![d].token = clip.by,
          ![d].owes = IF ~delivery[d].inherits THEN @ ELSE IF slot # None THEN slot.owes ELSE Capture]
    /\ slot' = None
    /\ UNCHANGED <<besideVars, platform, learning, clip, copies, restore, outcome>>

Borrow(d) == [is |-> "borrow", of |-> d, token |-> delivery[d].token, word |-> delivery[d].word,
              owes |-> delivery[d].owes]

\* Some time later.  A paste that fails leaves the transcript where it is.
Paste(d) ==
    /\ delivery[d].at = "settling" /\ Quiet(Deliveries)
    /\ \/ delivery[d].keep /\ Goes(d, "pasted") /\ UNCHANGED <<slot, restore, outcome>>
       \/ /\ ~delivery[d].keep /\ Goes(d, "pasted") /\ slot' = Borrow(d)
          /\ restore' = [restore EXCEPT ![d].at = "waiting"] /\ UNCHANGED outcome
       \/ Ends(d, "left") /\ UNCHANGED <<slot, restore>>
    /\ UNCHANGED <<besideVars, platform, learning, clip, copies>>

Return(d) ==
    /\ delivery[d].at = "pasted"
    /\ Ends(d, IF delivery[d].keep THEN "left" ELSE outcome[d])
    /\ IF delivery[d].observe THEN FinishCapture(d) ELSE UNCHANGED <<target, landed>>
    /\ UNCHANGED <<newest, endings, current, tasks, rows>>
    /\ UNCHANGED <<watchVars, platform, learning, clip, copies, slot, restore>>

------------------------------------------------------------------------
(* The restore, when its time has come *)

RestoreGoes(d, at, holds) == restore' = [restore EXCEPT ![d] = [at |-> at, holds |-> holds]]

\* Mistaken: whatever borrow is there is taken for its own.
WakeAny(d) ==
    /\ restore[d].at = "waiting" /\ Quiet(Deliveries)
    /\ IF slot # None THEN slot' = None /\ RestoreGoes(d, "checking", slot)
                      ELSE UNCHANGED slot /\ RestoreGoes(d, "none", None)
    /\ UNCHANGED <<besideVars, platform, learning, clip, copies, delivery, outcome>>

Wake(d) ==
    /\ restore[d].at = "waiting" /\ Quiet(Deliveries)
    /\ IF slot # None /\ slot.of = d THEN slot' = None /\ RestoreGoes(d, "checking", slot)
                                     ELSE UNCHANGED slot /\ RestoreGoes(d, "none", None)
    /\ UNCHANGED <<besideVars, platform, learning, clip, copies, delivery, outcome>>

Check(d) ==
    /\ restore[d].at = "checking" /\ Quiet(Deliveries \ {d})
    /\ IF ChangedHands(restore[d].holds) THEN RestoreGoes(d, "none", None)
                                         ELSE RestoreGoes(d, "stamping", restore[d].holds)
    /\ UNCHANGED <<besideVars, platform, learning, clip, copies, slot, delivery, outcome>>

\* A write that fails leaves the transcript.
Stamp(d) ==
    /\ restore[d].at = "stamping" /\ Quiet(Deliveries \ {d})
    /\ \/ clip' = restore[d].holds.owes /\ UNCHANGED outcome
       \/ outcome' = [outcome EXCEPT ![d] = "left"] /\ UNCHANGED clip
    /\ RestoreGoes(d, "none", None)
    /\ UNCHANGED <<besideVars, platform, learning, copies, slot, delivery>>

------------------------------------------------------------------------
Writing(d) ==
    \/ WriteToStay(d) \/ EndBorrow(d) \/ Decide(d) \/ Captures(d) \/ Write(d) \/ Take(d)
    \/ Paste(d) \/ Return(d)
Restoring(d) == Wake(d) \/ Check(d) \/ Stamp(d)

\* The threads that read a field and the page go on between these steps.
Beside(observation) == Quiet(Deliveries) /\ observation /\ UNCHANGED <<watchVars, textVars>>

Next ==
    \/ platform = "macos" /\ WatchNext /\ UNCHANGED <<textVars, observationVars>>
    \/ Beside(ObservationNext)
    \/ \E what \in Copied : Copy(what)
    \/ \E d \in Deliveries : \/ \E manner \in Manners, observe \in BOOLEAN :
                                    Begin(d, manner[1], manner[2], observe)
                             \/ Writing(d) \/ Restoring(d)

\* A delivery goes on once it has begun, and the restore's time comes.
Fairness ==
    /\ WatchFairness
    /\ WF_vars(\E d \in Deliveries : Writing(d) \/ Restoring(d))

Spec == Init /\ [][Next]_vars /\ Fairness

\* Timers fire, reads and hashes are answered, and replies arrive.
ObservationFairness == WF_vars(Beside(Observes))

------------------------------------------------------------------------
(* Properties. *)

\* What reads on the clipboard, and who put it there.
Reading == Words \cup {"nothing", "note", "picture"}
Source == [who : {"person", "delivery", "nobody"}, n : Nat]
Clipboard == [reads : Reading, by : Source]
Borrowing == [is : {"borrow"}, of : Deliveries, token : Source, word : Words, owes : Clipboard]
Stage == {"idle", "falling", "keeping", "left", "kept", "deciding", "capturing", "writing",
          "taking", "settling", "pasted", "done"}
Delivery == [at : Stage, keep : BOOLEAN, observe : BOOLEAN, word : Words \cup {""},
             inherits : BOOLEAN, owes : Clipboard \cup {None}, token : Source, since : Nat]
Restore == [at : {"none", "waiting", "checking", "stamping"}, holds : Borrowing \cup {None}]

\* A delivery at work has its word, and one that captured what to give back.
Equipped(d) ==
    /\ ~Idle(d) => delivery[d].word \in Words
    /\ delivery[d].at \in {"keeping", "kept"} => delivery[d].keep
    /\ delivery[d].at \in {"deciding", "capturing", "writing", "taking"} => ~delivery[d].keep
    /\ delivery[d].at \in {"writing", "taking"} /\ ~delivery[d].inherits
          => delivery[d].owes \in Clipboard
    /\ delivery[d].at = "settling" /\ ~delivery[d].keep => delivery[d].owes \in Clipboard
    /\ restore[d].at # "none" => delivery[d].at \in {"pasted", "done"}
    /\ restore[d].holds # None <=> restore[d].at \in {"checking", "stamping"}

TextTypeOK ==
    /\ platform \in Platforms /\ learning \in BOOLEAN
    /\ clip \in Clipboard /\ copies \in Nat /\ slot \in Borrowing \cup {None}
    /\ delivery \in [Deliveries -> Delivery] /\ restore \in [Deliveries -> Restore]
    /\ outcome \in [Deliveries -> {"none", "left", "failed"}]
    /\ \A d \in Deliveries : Equipped(d)

TypeOK == WatchTypeOK /\ ObservationTypeOK /\ TextTypeOK

\* What may go back: what the person had there, or a transcript left there for them.
TheirsToHave(owed) == owed.by.who = "delivery" => outcome[owed.by.n] = "left"

\* delivery.rs:57-64 a transcript is never handed back as if the person had put it there.
OwedIsTheirs == slot # None => TheirsToHave(slot.owes)

\* delivery.rs:99-105 a restore takes away a transcript that was borrowed for, never what
\* was copied since, nor a transcript left to stay: except that off Windows the same text
\* is told apart by nobody.
TakesOnlyItsOwn ==
    \A d \in Deliveries : restore[d].at = "stamping" =>
        LET borrow == restore[d].holds
        IN  \/ clip.by = From(borrow.of) /\ outcome[borrow.of] # "left"
            \/ platform # "windows" /\ clip.by.who = "person" /\ clip.reads = borrow.word

\* delivery.rs:57-64, delivery.rs:99-105 what a borrow owes and what its restore takes away
\* are right, whatever delivery or copy came in between.
BorrowIsHonest == OwedIsTheirs /\ TakesOnlyItsOwn

\* delivery.rs:94-97 the borrowed transcript never lingers, unless it cannot be replaced.
BorrowEnds ==
    \A d \in Deliveries : restore[d].at # "none" ~> clip.by # From(d) \/ outcome[d] = "left"

\* observer.ts:2-3 an observation ends, whatever its reads do.
ObservationEnds == ObservationFairness => \A d \in Deliveries : current.of = d ~> current.of # d

------------------------------------------------------------------------
(* Why lessons are sound. *)

\* The observation of a delivery is still to open.
Underway(d) == delivery[d].observe \/ landed[d] # "no"
Mine == {t \in tasks : t.awaited /\ t.of = current.of}
Strayed == current.generation \notin {0, current.of}

OneUnderway ==
    /\ learning => platform = "windows"
    /\ \A d, e \in Deliveries : Underway(d) /\ Underway(e) => d = e
    /\ \A d \in Deliveries : landed[d] # "no" => delivery[d].at = "done"

\* The target is of the delivery underway, or of the observation that is open.
TargetIsExpected ==
    /\ target.anchors \in {0, target.of} /\ (target.left > 0 => target.of # 0)
    /\ target.of # 0 => landed[target.of] # "no" \/ current.of \in {0, target.of}
    /\ \A d \in Deliveries : Underway(d) => target.of \in {0, d}

\* An observation opens once, and before it has asked for anything.
OpensFresh ==
    /\ current.of = 0 => current = Closed
    /\ \A d \in Deliveries : delivery[d].at # "done" \/ landed[d] # "no" =>
          current.of # d /\ \A t \in tasks : t.of # d

TasksAreSound ==
    \A t \in tasks :
        /\ t.anchors \in {0, t.generation} /\ (t.awaited <=> t.of # 0)
        /\ t.at = "taken" => t.generation # 0
        /\ t.at = "taken" /\ t \in Mine => t.generation = current.of \/ landed[t.generation] # "no"
        /\ t.at = "hashing" => t.awaited /\ t.reads = {t.of}

\* Nothing is compared before a read named the target.
BaselineFirst ==
    /\ current.baselined => current.generation # 0
    /\ ~current.baselined => current.last = {} /\ \A t \in Mine : t.by \in {"baseline", "retry"}

\* An observation that took a newer paste for its own has no time left to learn from it.
StrayedIsHarmless ==
    /\ Awaited # {} => \A d \in Deliveries : landed[d] # "landed"
    /\ Strayed => /\ landed[current.generation] = "late" /\ current.last = {}
                  /\ \A t \in Mine : t.by \in {"baseline", "retry", "next"}
    /\ \A read \in current.last : read.about = current.of

\* One lesson makes a term pending, and the second of another observation active.
RowsAreSound ==
    \A c \in Terms :
        /\ \A lesson \in rows[c].lessons :
              /\ lesson.reads = {lesson.of}
              /\ lesson.of \in Deliveries /\ lesson.of # current.of
              /\ delivery[lesson.of].at = "done" /\ landed[lesson.of] = "no"
        /\ rows[c].is = "none" => rows[c].lessons = {}
        /\ rows[c].is = "pending" => \E l \in rows[c].lessons : rows[c].lessons = {l}
        /\ rows[c].is = "active" =>
              \E l, m \in rows[c].lessons : l.of # m.of /\ rows[c].lessons = {l, m}

LearningInv ==
    /\ ObservationTypeOK /\ OneUnderway /\ TargetIsExpected /\ OpensFresh /\ TasksAreSound
    /\ BaselineFirst /\ StrayedIsHarmless /\ RowsAreSound

------------------------------------------------------------------------
(* Why borrows are honest. *)

Restores(d) == restore[d].at \in {"checking", "stamping"}

\* One delivery at a time, and one at a time between what is awaited.
OneActs ==
    /\ \A d, e \in Deliveries : ~Idle(d) /\ ~Idle(e) => d = e
    /\ \A d, e \in Deliveries : Hurried(d) /\ Hurried(e) => d = e
    /\ \A d \in Deliveries : delivery[d].at \notin {"pasted", "done"} => outcome[d] = "none"

\* What is by a delivery was left there for the person.
Theirs(by) == by.who = "delivery" => by.n \in Deliveries /\ outcome[by.n] = "left"

\* Written, and still to be borrowed for, left or kept.
InHand(d) == \/ delivery[d].at \in {"left", "kept", "taking", "settling"}
             \/ delivery[d].at = "pasted" /\ delivery[d].keep

\* A transcript on the clipboard was left, is in hand, or is borrowed for.
ClipIsAccounted ==
    clip.by.who = "delivery" =>
        LET e == clip.by.n
        IN  /\ e \in Deliveries
            /\ \/ outcome[e] = "left" \/ InHand(e) \/ Restores(e)
               \/ slot # None /\ slot.of = e

\* Where one was written is that one, or what came later.
SitsAfter(d, word) ==
    \/ clip.by = From(d) /\ clip.reads = word
    \/ clip.by.who = "person"
    \/ clip.by.who = "nobody" /\ clip.reads = "nothing"

StagesAreSound ==
    \A d \in Deliveries :
        /\ delivery[d].at = "capturing" => Theirs(clip.by) /\ ~delivery[d].inherits
        /\ delivery[d].at \in {"writing", "taking"} /\ ~delivery[d].inherits => Theirs(delivery[d].owes.by)
        /\ delivery[d].at \in {"writing", "taking"} /\ delivery[d].inherits => slot # None
        /\ delivery[d].at \in {"left", "kept", "taking"} =>
              clip.by = From(d) /\ clip.reads = delivery[d].word
        /\ delivery[d].at = "settling" => slot = None /\ \A e \in Deliveries : ~Restores(e)
        /\ delivery[d].at = "settling" /\ ~delivery[d].keep =>
              /\ Theirs(delivery[d].owes.by) /\ delivery[d].token = From(d)
              /\ SitsAfter(d, delivery[d].word)

\* A borrow is of a delivery that pasted, and owes what was the person's.
Sound(borrow) ==
    /\ Theirs(borrow.owes.by) /\ borrow.token = From(borrow.of) /\ outcome[borrow.of] = "none"
    /\ delivery[borrow.of].at \in {"pasted", "done"} /\ ~delivery[borrow.of].keep

BorrowsAreSound ==
    /\ slot # None =>
          /\ Sound(slot)
          /\ (\A d \in Deliveries : delivery[d].at \notin {"left", "kept", "taking"}) =>
                SitsAfter(slot.of, slot.word)
    /\ \A d \in Deliveries : Restores(d) =>
          /\ slot = None /\ restore[d].holds.of = d /\ Sound(restore[d].holds)
          /\ restore[d].at = "checking" => SitsAfter(d, restore[d].holds.word)
    /\ TakesOnlyItsOwn

BorrowInv == TextTypeOK /\ OneActs /\ ClipIsAccounted /\ StagesAreSound /\ BorrowsAreSound
===========================================================================
